\* Two geofence ids, four commands, up to two disturbances and a breach, under
\* each freedom and the pairs that meet in the same maps.
CONSTANTS
    Ids = {i1, i2}
    NoId = NoId
    NoFence = NoFence
    MaxSessions = 2
    MaxCommands = 4
    MaxEvents = 2
    MaxBreaches = 1
    Worlds = {{"hasty"}, {"refuses", "modifies"}, {"crashes"}, {"refuses", "crashes"}, {"untimely"},
              {"power"}, {"crashes", "power"}, {"locks", "modifies"}, {"destroys"}}
SYMMETRY Symmetry
CONSTRAINT Bound
SPECIFICATION Spec
INVARIANTS
    EachAnswered
    ModemAgrees
    ToldServed
CHECK_DEADLOCK FALSE

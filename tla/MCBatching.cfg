SPECIFICATION Spec
CONSTANTS
    Ids = {i1, i2}
    NoSession = NoSession
    MaxSessions = 2
    MaxCommands = 4
    MaxEvents = 2
    MaxWalk = 3
    Distances = {2, 3}
    Intervals = {1, 2}
    Width = 16
    Worlds = {{}, {"destroys", "hasty"}, {"refuses"}, {"crashes"}, {"locks"}, {"power"}, {"updates"}, {"cold"}, {"unsupported"}, {"trips"}, {"trips", "moving"}}
INVARIANTS
    EachAnswered
    SessionsAgree
    NotEarly
CONSTRAINT
    Bound
CHECK_DEADLOCK FALSE

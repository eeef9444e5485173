SPECIFICATION FairSpec
CONSTANTS
    Timer = Timer
    None = None
    MaxRequests = 3
    MaxEvents = 2
    MaxBacklog = 2
    Worlds = {{}, {"hasty"}, {"crashes"}, {"hasty", "crashes"}, {"crashes", "power"}, {"crashes", "locks"}, {"registers"}, {"dies"}}
INVARIANTS
    Renewed
    AdapterAgrees
PROPERTIES
    Served
CHECK_DEADLOCK FALSE

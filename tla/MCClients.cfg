SPECIFICATION Spec
CONSTANTS
    Clients = {1, 2}
    None = None
    MaxCalls = 3
    CallbackSets = {{}, {"gnssNmeaCb"}, {"batchingCb", "geofenceBreachCb"}}
    Worlds = {{}, {"slow"}, {"deserts"}, {"modemNmea", "agps"}, {"restarts"}, {"locked"}}
INVARIANTS
    TypeOK
    MaskServes
PROPERTIES
    CapabilitiesTold
    ServesLife
CONSTRAINT
    Bound
CHECK_DEADLOCK FALSE

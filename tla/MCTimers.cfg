SPECIFICATION Spec
CONSTANTS
    Clients = {t1, t2, p1}
    Posts = {p1}
    None = None
    Delays = {1, 2}
    MaxNow = 4
    MaxStarts = 3
    Worlds = {{}, {"stops"}, {"slow"}, {"deletes"}}
INVARIANTS
    TypeOK
    InTime
PROPERTIES
    ServesAlarms
CHECK_DEADLOCK FALSE

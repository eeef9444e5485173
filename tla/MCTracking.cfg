\* Two clients, two sessions; every freedom alone and the pairs that
\* interact.
SPECIFICATION Spec
CONSTANTS
    Clients = {c1, c2}
    NoClient = NoClient
    MaxSessions = 2
    MaxCommands = 2
    MaxEvents = 2
    MaxBacklog = 2
    Asked = {0, 2}
    MinInterval = 1
    Worlds = {{}, {"bare"}, {"cold"}, {"fails"}, {"updates"}, {"power"}, {"crashes"},
              {"locks"}, {"updates", "timeOnly"}, {"cold", "crashes"}, {"cold", "locks"}}
INVARIANTS
    EachAnswered
    SessionsServed
    EndedStays
SYMMETRY Perms
\* The clients may stop asking.
CHECK_DEADLOCK FALSE

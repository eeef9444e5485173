\* Two clients and Xtra, three networks of two types; see Bound.
SPECIFICATION ObserverSpec
CONSTANTS
    c1 = c1 c2 = c2
    Clients = {c1, c2}
    Xtra = Xtra
    Plain = {"tac", "mccmnc"}
    Tac = "tac"
    n1 = n1 n2 = n2 n3 = n3
    Networks = {n1, n2, n3}
    NetworkTypes = {"wifi", "mobile"}
    MaxHandles = 3
    None = None
    Offers = {{"tac"}, {"tac", "mccmnc"}, {"network"}}
    MaxCalls = 3
    MaxEvents = 5
    MaxBacklog = 2
    Worlds = {{"changes"}, {"changes", "requests"}, {"networks"}, {"networks", "twins"}, {"networks", "meters"}, {"changes", "daemon"}, {"networks", "daemon"}, {"updates"}}
INVARIANTS
    SubscriptionsAgree
    Newest
    ConnectionsKnown
CONSTRAINT Bound
SYMMETRY Perms
CHECK_DEADLOCK FALSE

SPECIFICATION FairLinkSpec
CONSTANTS
    h1 = h1
    h2 = h2
    Handles = {h1, h2}
    UseEmergencyPdn = FALSE
    HasWds = TRUE
    Apns = {"named", "empty"}
    ClientMayBeAway = FALSE
    AckIdleRelease = FALSE
    MaxQ = 2
    MaxOut = 2
INVARIANTS
    ConnectionKnown
PROPERTIES
    ReleaseOnlyIdle
    ConnectionsSettle

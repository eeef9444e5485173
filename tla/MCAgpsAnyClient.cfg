SPECIFICATION Spec
CONSTANTS
    h1 = h1
    h2 = h2
    Handles = {h1, h2}
    UseEmergencyPdn = TRUE
    HasWds = TRUE
    Apns = {"named", "empty", "bad"}
    ClientMayBeAway = TRUE
    AckIdleRelease = TRUE
    MaxQ = 2
    MaxOut = 1
SYMMETRY HandleSymmetry
INVARIANTS
    TypeOK
    ListFitsState
    ModemServed

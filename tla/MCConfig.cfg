SPECIFICATION Spec
CONSTANTS
    Width = 64
    SbasLength = 39
    Nfws = {"ims", "sim"}
    Updates <- MCUpdates
    Gets <- MCGets
    TypeConfigs <- MCTypeConfigs
    Masks <- MCMasks
    Values = {0, 1, 2}
    Modes = {"tunc"}
    Unset = Unset
    MaxCommands = 3
    MaxEvents = 2
    Worlds = {{"update", "enable", "crashes"}, {"update", "enable", "hasty"}, {"update", "nfw", "crashes"}, {"enable", "nfw", "crashes", "untimely"}, {"enable", "nfw", "locks", "cold"}, {"enable", "nfw", "locks"}, {"get", "modes", "cold"}, {"modes", "hasty", "crashes"}, {"modes", "crashes"}, {"update", "types", "crashes"}, {"types", "hasty", "crashes"}, {"svs", "types"}, {"update", "svs", "cold"}, {"svs", "crashes", "untimely"}, {"band", "crashes", "untimely"}, {"update", "refuses"}, {"update", "fixed", "crashes"}, {"update", "types", "unsupported"}, {"update", "crashes", "untimely"}, {"get", "hasty", "cold"}, {"update", "cold", "hasty"}}
INVARIANTS
    EachAnswered
    LockServed
    SettingsStand
    SatellitesAgree
CHECK_DEADLOCK FALSE

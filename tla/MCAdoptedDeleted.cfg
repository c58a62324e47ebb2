SPECIFICATION OwnSpec
CONSTANTS
    Names = {n1, n2}
    State = state
    Addrs = {a1}
    TTLs = {300}
    HasAliases = FALSE
    LegacyNames = {n1, n2}
    Versions = {v1, v2, v3}
    Init0 = init
    Faults = TRUE
    Crashes = TRUE
    Operators = TRUE

PROPERTIES OnlyOwnDeleted

SPECIFICATION OwnFairSpec
CONSTANTS
    Names = {n1}
    State = state
    Addrs = {a1}
    TTLs = {300}
    HasAliases = FALSE
    LegacyNames = {}
    Versions = {v1, v2, v3}
    Init0 = init
    Faults = TRUE
    Crashes = FALSE
    Operators = FALSE

PROPERTIES FqdnsReported

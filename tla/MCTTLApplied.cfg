SPECIFICATION FairSpec
CONSTANTS
    Names = {n1}
    State = state
    Addrs = {a1}
    TTLs = {300, 60}
    HasAliases = FALSE
    LegacyNames = {}
    Versions = {v1, v2, v3}
    Init0 = init
    Faults = FALSE
    Crashes = TRUE
    Operators = FALSE

PROPERTIES TTLApplied

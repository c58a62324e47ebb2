SPECIFICATION FairSpec
CONSTANTS
    Names = {n1}
    State = state
    Addrs = {a1, a2}
    TTLs = {300}
    HasAliases = TRUE
    LegacyNames = {n1}
    Versions = {v1, v2, v3}
    Init0 = init
    Faults = TRUE
    Crashes = TRUE
    Operators = TRUE

PROPERTIES Converges

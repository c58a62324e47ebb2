SPECIFICATION Spec
CONSTANTS
    Labels = {l1}
    Types = {A, TXT}
    Vals = {v1, v2}
    TTL = 300
    MaxRecords = 3
    PageSize = 2
    Faults = TRUE
PROPERTIES HonoursContract OthersUntouched
INVARIANTS PublishedOnSuccess
SYMMETRY Symmetry

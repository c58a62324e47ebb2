SPECIFICATION ListSpec
CONSTANTS
    Last = 5
    Values = {v1}
    MaxItems = 2
    Faults = TRUE
CHECK_DEADLOCK FALSE
INVARIANTS TypeOK ListingsFaithful
PROPERTIES ListingEnds

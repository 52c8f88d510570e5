SPECIFICATION ListingSpec
CONSTANTS
    Items = {1, 2, 3, 4}
    Valid = {1, 2, 4}
    PageLimit = 2
    Limits = {2}
    Offsets = {0, 1}
    MaxEvents = 1
INVARIANTS ListingTypeOK PageIsRight RefusalsAreRight
PROPERTIES CallsReturn GoroutinesEnd
CHECK_DEADLOCK FALSE

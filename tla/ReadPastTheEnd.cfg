SPECIFICATION PackSpec
CONSTANTS
    Half = 8
    Base = 4
    PackSizes = {6}
    PackInts <- SmallInts
    PackStrings <- SmallStrings
    Foreign <- SmallForeign
    MaxItems = 2
INVARIANTS
    ReadsInsideTheBytes
CHECK_DEADLOCK FALSE

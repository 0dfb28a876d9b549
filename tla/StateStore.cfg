SPECIFICATION FairSpec
CONSTANTS
    Sections = {notifications, weather}
    Values = {blank, v1}
    Blank = blank
    Debounce = 2
    EditBound = 3
INVARIANTS
    TypeOK
    InHandIsDiskEdited
    AtRestDiskIsInHand
PROPERTIES
    KeepsEditOrder
    EditsLand
CHECK_DEADLOCK TRUE

CONSTANTS
    SuspendBound = 2
    Room <- SmallRoom
    Placements <- OnlyQuickSettings
SPECIFICATION Spec
PROPERTY KeepsWaking
CHECK_DEADLOCK FALSE

CONSTANTS
    SuspendBound = 2
    Room <- SmallRoom
    Placements <- Growing
SPECIFICATION Spec
INVARIANTS LogindIsBelieved PairIsRefreshed
PROPERTIES ToldBeforeSleep NetworkReadFirst WakesOnceStarted
CHECK_DEADLOCK FALSE

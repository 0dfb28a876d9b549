SPECIFICATION FairSpec
CONSTANTS
    Apps = {a1, a2}
    Panel = panel
    MaxToasts = 2
    MaxHistory = 2
    MaxId = 9
    DefaultTimeout = 1
    Expires = {0}
    Persisted <- LaterRun
    IdBound = 2
    UnseenBound = 2
INVARIANTS HistoryIsSaved
PROPERTIES EveryBannerEnds

SPECIFICATION Spec
CONSTANTS
    Subjects = {"reload", "bars"}
    Connectors = {edp, dp}
    Nothing = Nothing
    Files <- SmallFiles
    Start <- Base
    BlurOffered = TRUE
    QueueLimit = 1
    SaveBound = 2
    PlugBound = 4
    AskBound = 2
INVARIANTS TypeOK RoutedIsDrawn OneBarEach
PROPERTIES ReloadKeepsHidden LastSaveWins SettlesDown
CHECK_DEADLOCK FALSE

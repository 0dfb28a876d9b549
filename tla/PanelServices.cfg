SPECIFICATION FairSpec
CONSTANTS
    Subjects = {"weather", "location", "crypto", "custom", "updates", "notmuch", "inhibitor"}
    None = None
    Card <- MCCard
    Dialog <- MCDialog
    Market <- MCMarket
    Scripts <- MCScripts
    Packages <- MCPackages
    Inbox <- MCInbox
    Login <- MCLogin
INVARIANTS TypeOK KeepsTrying SnapshotsFit FileAndChoice
PROPERTIES QuietWhenItFails ComesRight
CHECK_DEADLOCK FALSE

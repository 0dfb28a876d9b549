SPECIFICATION FairSpec
CONSTANTS
    Subjects = {"keys"}
    NoOne = NoOne
    Moves <- MCMoves
    Clicks <- MCClicks
INVARIANT LettingGoCancels
CHECK_DEADLOCK FALSE

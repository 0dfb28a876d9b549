SPECIFICATION FairSpec
CONSTANTS
    Subjects = {"joining", "crossing", "roaming", "listing", "vpn", "pairing", "tray", "menu", "players", "covers", "card", "mediakeys", "popover", "outputs", "lists", "again", "blur", "withdrawn", "banners", "hover", "column", "hold", "keys", "panels", "tips", "started", "commands", "unlocked", "presses", "mixed", "schema", "typos", "arranged", "places", "programs", "families", "clicked", "sections"}
    NoOne = NoOne
    Moves <- MCMoves
    Clicks <- MCClicks
INVARIANT QuietIsCurrent NothingStrays
PROPERTY WaitsEnd
CHECK_DEADLOCK FALSE

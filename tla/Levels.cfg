SPECIFICATION FairSpec
CONSTANTS
    Subjects = {"volume", "lost", "keys", "ceiling", "outs", "mic", "mic_plug", "screen", "coarse", "osd", "screens", "kernel", "upower", "mode", "mode_daemon", "mode_slow", "watch", "watch_ids", "headset", "headset_twice", "strip", "strip_again", "strip_early", "strip_new", "strip_drawn", "strip_scrolled", "asking", "asking_late"}
    NoOne = NoOne
    Parts <- MCParts
INVARIANT QuietIsCurrent PromisesAreKept
PROPERTY WaitsEnd
CHECK_DEADLOCK FALSE

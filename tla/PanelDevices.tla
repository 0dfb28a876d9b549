----------------------------- MODULE PanelDevices -----------------------------
(***************************************************************************)
(* The services that stand between the user and something with a will of   *)
(* its own (NetworkManager, BlueZ, applications in the tray, players), and *)
(* the surfaces, which stand between the user and the compositor.  Each    *)
(* module has the same three variables: the panel's side, the other        *)
(* side's, and what is on the wire between the two.                        *)
(*                                                                         *)
(* As in PanelServices they share nothing, so a behaviour shows one of     *)
(* them, the subject.  A service comes as several subjects where no one    *)
(* instance small enough to check has everything happen in it.             *)
(***************************************************************************)
EXTENDS Integers, Sequences, FiniteSets, TLC

CONSTANTS
    Subjects,   \* those looked at
    Moves,      \* [Subjects -> what the other side does unasked]
    Clicks,     \* [Subjects -> what the user does]
    NoOne

VARIABLES subject, panel, world, wire

vars == <<subject, panel, world, wire>>

-----------------------------------------------------------------------------
(* Small instances.                                                        *)

\* One attempt after another, from a network that is known and one that is not.
Joining == INSTANCE Network WITH
    Networks <- {"home", "cafe"}, Saved <- {"home"}, Vpns <- {}, Unnamed <- {"hidden"},
    Does <- {"connect", "submit", "cancel", "agent"}, MaxSent <- 1,
    MaxMoves <- Moves["joining"], MaxActs <- 2, MaxAsks <- 2, MaxClicks <- Clicks["joining"]

\* A user who is ahead of the task, a password and the next network sent together.
Crossing == INSTANCE Network WITH
    Networks <- {"home", "cafe"}, Saved <- {"home"}, Vpns <- {}, Unnamed <- {},
    Does <- {"connect", "submit"}, MaxSent <- 2,
    MaxMoves <- 0, MaxActs <- 2, MaxAsks <- 2, MaxClicks <- Clicks["crossing"]

\* One network, which may go out of range at any point of an attempt.
Roaming == INSTANCE Network WITH
    Networks <- {"cafe"}, Saved <- {}, Vpns <- {}, Unnamed <- {},
    Does <- {"connect", "submit", "cancel", "air", "refuse"}, MaxSent <- 1,
    MaxMoves <- Moves["roaming"], MaxActs <- 2, MaxAsks <- 2, MaxClicks <- Clicks["roaming"]

\* The list and the radio, while the air changes.
Listing == INSTANCE Network WITH
    Networks <- {"home"}, Saved <- {"home"}, Vpns <- {}, Unnamed <- {},
    Does <- {"scan", "refresh", "radio", "disconnect", "air", "refuse"}, MaxSent <- 1,
    MaxMoves <- Moves["listing"], MaxActs <- 0, MaxAsks <- 0, MaxClicks <- Clicks["listing"]

\* A VPN switched here and elsewhere.
Vpn == INSTANCE Network WITH
    Networks <- {}, Saved <- {}, Vpns <- {"office"}, Unnamed <- {},
    Does <- {"vpn", "refresh", "air", "refuse"}, MaxSent <- 1,
    MaxMoves <- Moves["vpn"], MaxActs <- 0, MaxAsks <- 0, MaxClicks <- Clicks["vpn"]

\* One device that is paired and one to be found.
Pairing == INSTANCE Bluetooth WITH
    Devices <- {1, 2}, Paired <- {1}, Named <- {1, 2},
    MaxMoves <- Moves["pairing"], MaxAsks <- 2, MaxClicks <- Clicks["pairing"]

\* Two items of one application and one of another.
AppOf == 1 :> 1 @@ 2 :> 1 @@ 3 :> 2

\* Items come, go, and stop answering ...
Tray == INSTANCE Tray WITH
    Items <- {1, 2, 3}, Menus <- {1, 3}, Subs <- {3}, max_icons <- 1,
    Does <- {"register", "status", "deaf", "quit", "watcher"},
    MaxMoves <- Moves["tray"], MaxClicks <- Clicks["tray"]

\* ... or have their menus used.
Menu == INSTANCE Tray WITH
    Items <- {1, 2, 3}, Menus <- {1, 3}, Subs <- {3}, max_icons <- 1, Does <- {"register", "quit"},
    MaxMoves <- Moves["menu"], MaxClicks <- Clicks["menu"]

\* Two players that come and go, one that skips through covers, two with a user at the card
\* or at the keys.
Players == INSTANCE Media WITH
    Names <- {"mpv", "spot"}, LastTrack <- 1, Covered <- {}, Does <- {"come", "go", "slow", "play"},
    Asks <- {"select"}, MaxMoves <- Moves["players"], MaxClicks <- Clicks["players"]

Covers == INSTANCE Media WITH
    Names <- {"mpv"}, LastTrack <- 3, Covered <- {2, 3}, Does <- {"skip", "go"},
    Asks <- {}, MaxMoves <- Moves["covers"], MaxClicks <- Clicks["covers"]

Card == INSTANCE Media WITH
    Names <- {"mpv", "spot"}, LastTrack <- 1, Covered <- {}, Does <- {"play", "skip"},
    Asks <- {"panel", "control", "select"}, MaxMoves <- Moves["card"], MaxClicks <- Clicks["card"]

MediaKeys == INSTANCE Media WITH
    Names <- {"mpv", "spot"}, LastTrack <- 1, Covered <- {}, Does <- {"play"},
    Asks <- {"key"}, MaxMoves <- Moves["mediakeys"], MaxClicks <- Clicks["mediakeys"]

\* Two widgets on one bar; one on each of two; the lists of quick settings; a user who does
\* not wait for the first frame.
Popover == INSTANCE Popovers WITH
    Monitors <- {1}, Names <- {"clock", "quick"}, Lists <- {}, Full <- 2, Animated <- TRUE,
    Does <- {"click", "dismiss", "widget"}, MaxMoves <- Moves["popover"], MaxClicks <- Clicks["popover"]

Outputs == INSTANCE Popovers WITH
    Monitors <- {1, 2}, Names <- {"clock"}, Lists <- {}, Full <- 2, Animated <- TRUE,
    Does <- {"cli", "dismiss", "bars", "plug"}, MaxMoves <- Moves["outputs"], MaxClicks <- Clicks["outputs"]

Unfolding == INSTANCE Popovers WITH
    Monitors <- {1}, Names <- {"quick"}, Lists <- {"bluetooth", "wifi"}, Full <- 2, Animated <- TRUE,
    Does <- {"click", "bars", "power"}, MaxMoves <- Moves["lists"], MaxClicks <- Clicks["lists"]

Again == INSTANCE Popovers WITH
    Monitors <- {1}, Names <- {"clock", "quick"}, Lists <- {"wifi"}, Full <- 2, Animated <- TRUE,
    Does <- {"click", "again"}, MaxMoves <- 0, MaxClicks <- Clicks["again"]

\* The blur of a bar and a popover while it is switched and the bar hidden, and of the
\* banners; a compositor that takes it away.
Blurry == INSTANCE Blur WITH
    Bars <- {"bar"}, Fading <- {"popover"}, Scaled <- {"popover"}, Sized <- {}, Full <- 2, READY_FRAMES <- 2,
    Does <- {"flip", "hide", "resize"}, MaxMoves <- Moves["blur"], MaxClicks <- Clicks["blur"]

Withdrawn == INSTANCE Blur WITH
    Bars <- {"bar"}, Fading <- {"toast"}, Scaled <- {}, Sized <- {"toast"}, Full <- 2, READY_FRAMES <- 2,
    Does <- {"flip", "revoke"}, MaxMoves <- Moves["withdrawn"], MaxClicks <- Clicks["withdrawn"]

\* Banners that follow the focus, banners with a pointer over them, the column.
Banners == INSTANCE Toasts WITH
    Monitors <- {"eDP", "HDMI"}, MaxId <- 2, Full <- 2, Does <- {"focus"},
    MaxMoves <- Moves["banners"], MaxClicks <- Clicks["banners"]

Hovered == INSTANCE Toasts WITH
    Monitors <- {"eDP"}, MaxId <- 2, Full <- 1, Does <- {"hover", "click", "replace"},
    MaxMoves <- Moves["hover"], MaxClicks <- Clicks["hover"]

Column == INSTANCE Toasts WITH
    Monitors <- {}, MaxId <- 2, Full <- 1, Does <- {"panel", "dnd"},
    MaxMoves <- Moves["column"], MaxClicks <- Clicks["column"]

\* A power row that is held once at a time, while panels are made again; one that is held
\* with pointer and key at once, keys repeating and motion being switched; two panels.
Hold == INSTANCE Holding WITH
    Panels <- {1}, Rows <- {"off", "out"}, HOLD_MS <- 2, Does <- {"rebuild"},
    MaxMoves <- Moves["hold"], MaxClicks <- Clicks["hold"]

Keys == INSTANCE Holding WITH
    Panels <- {1}, Rows <- {"off"}, HOLD_MS <- 2, Does <- {"both", "repeat", "motion"},
    MaxMoves <- Moves["keys"], MaxClicks <- Clicks["keys"]

TwoPanels == INSTANCE Holding WITH
    Panels <- {1, 2}, Rows <- {"off"}, HOLD_MS <- 2, Does <- {},
    MaxMoves <- 0, MaxClicks <- Clicks["panels"]

Tips == INSTANCE Tooltips WITH
    Widgets <- {"clock", "mail"}, Texts <- {0, 1, 2},
    MaxMoves <- Moves["tips"], MaxClicks <- Clicks["tips"]

\* Two panels that are started and killed; two clients of one; a panel without its lock file.
Started == INSTANCE Ipc WITH
    Procs <- {"p", "q"}, Clients <- {"a"}, QUEUE <- 1, Does <- {"kill", "slow", "accept"},
    Version <- [x \in {"p", "q", "a", "b"} |-> 1], Asks <- {"bar", "toggle_inhibitor"}, Top <- 0,
    MaxMoves <- Moves["started"], MaxClicks <- Clicks["started"]

Commands == INSTANCE Ipc WITH
    Procs <- {"p"}, Clients <- {"a", "b"}, QUEUE <- 1, Does <- {"slow", "accept", "kill"},
    Version <- [x \in {"p", "q", "a", "b"} |-> 1], Asks <- {"bar", "toggle_inhibitor"}, Top <- 0,
    MaxMoves <- Moves["commands"], MaxClicks <- Clicks["commands"]

Unlocked == INSTANCE Ipc WITH
    Procs <- {"p", "q"}, Clients <- {"a"}, QUEUE <- 1, Does <- {"no lock", "slow"},
    Version <- [x \in {"p", "q", "a", "b"} |-> 1], Asks <- {"bar", "toggle_inhibitor"}, Top <- 0,
    MaxMoves <- Moves["unlocked"], MaxClicks <- Clicks["unlocked"]

\* A volume key pressed twice, and a panel of another version; a brightness key among commands
\* that a panel may refuse.
Presses == INSTANCE Ipc WITH
    Procs <- {"p"}, Clients <- {"a", "b"}, QUEUE <- 1, Does <- {"device"},
    Version <- [x \in {"p", "a", "b"} |-> 1], Asks <- {"volume"}, Top <- 2,
    MaxMoves <- Moves["presses"], MaxClicks <- Clicks["presses"]

Mixed == INSTANCE Ipc WITH
    Procs <- {"p"}, Clients <- {"a", "b"}, QUEUE <- 1, Does <- {"device", "hang", "large"},
    Version <- [x \in {"p", "a", "b"} |-> IF x = "b" THEN 2 ELSE 1],
    Asks <- {"volume", "brightness", "popover", "dump", "default_config"}, Top <- 1,
    MaxMoves <- Moves["mixed"], MaxClicks <- Clicks["mixed"]

\* A configuration: each key of the schema and some that are not in it; three tables with
\* several mistakes; widgets rearranged; files that are moved about.
Schema == INSTANCE Config WITH
    Xdg <- FALSE, Home <- FALSE, Explicit <- NoOne, Lists <- FALSE, Does <- {},
    Edited <- {"bar", "widgets", "theme", "icons", "states", "typography", "osd", "audio", "updates", "advanced",
               "workspaces", "clock", "weather", "crypto", "notmuch", "tray", "quick_settings", "system_monitor",
               "headset", "keyboard_layout", "os_logo", "custom-a"},
    MaxMoves <- 0, MaxClicks <- Clicks["schema"]

Typos == INSTANCE Config WITH
    Xdg <- FALSE, Home <- FALSE, Explicit <- NoOne, Lists <- FALSE, Does <- {},
    Edited <- {"theme", "icons", "custom-a"}, MaxMoves <- 0, MaxClicks <- Clicks["typos"]

Arranged == INSTANCE Config WITH
    Xdg <- FALSE, Home <- TRUE, Explicit <- "home", Lists <- TRUE, Does <- {"remove"},
    Edited <- {"clock"}, MaxMoves <- Moves["arranged"], MaxClicks <- Clicks["arranged"]

Placed == INSTANCE Config WITH
    Xdg <- TRUE, Home <- TRUE, Explicit <- NoOne, Lists <- FALSE, Does <- {"remove", "move", "garble"},
    Edited <- {"audio"}, MaxMoves <- Moves["places"], MaxClicks <- Clicks["places"]

\* A program that is read and one that is clicked; those that leave others behind.
Programs == INSTANCE Subprocess WITH
    Calls <- {"c", "d"}, Captures <- {"c"}, CAP <- 1, PIPE <- 1, Prints <- {0, 1, 2},
    Does <- {"missing", "stay", "fail"}, MaxClicks <- Clicks["programs"]

Families == INSTANCE Subprocess WITH
    Calls <- {"c"}, Captures <- {"c"}, CAP <- 1, PIPE <- 1, Prints <- {0, 1, 2},
    Does <- {"missing", "stay", "fail", "child"}, MaxClicks <- Clicks["families"]

Clicked == INSTANCE Subprocess WITH
    Calls <- {"c", "d"}, Captures <- {"c"}, CAP <- 1, PIPE <- 1, Prints <- {0, 1, 2},
    Does <- {"stay", "fail", "child"}, MaxClicks <- Clicks["clicked"]

\* A bar whose sections, and whose monitor, change.
Strip == INSTANCE Layout WITH
    Widths <- {0, 1, 7, 8, 11}, Spacing <- 1, MaxMoves <- Moves["sections"],
    Sizes <- [min : {0, 2}, natural : {0, 2, 5}]

-----------------------------------------------------------------------------

Init ==
    /\ subject \in Subjects
    /\ \/ subject = "joining"   /\ Joining!Init
       \/ subject = "crossing"  /\ Crossing!Init
       \/ subject = "roaming"   /\ Roaming!Init
       \/ subject = "listing"   /\ Listing!Init
       \/ subject = "vpn"       /\ Vpn!Init
       \/ subject = "pairing"   /\ Pairing!Init
       \/ subject = "tray"      /\ Tray!Init
       \/ subject = "menu"      /\ Menu!Init
       \/ subject = "players"   /\ Players!Init
       \/ subject = "covers"    /\ Covers!Init
       \/ subject = "card"      /\ Card!Init
       \/ subject = "mediakeys" /\ MediaKeys!Init
       \/ subject = "popover"   /\ Popover!Init
       \/ subject = "outputs"   /\ Outputs!Init
       \/ subject = "lists"     /\ Unfolding!Init
       \/ subject = "again"     /\ Again!Init
       \/ subject = "blur"       /\ Blurry!Init
       \/ subject = "withdrawn"  /\ Withdrawn!Init
       \/ subject = "banners"    /\ Banners!Init
       \/ subject = "hover"      /\ Hovered!Init
       \/ subject = "column"     /\ Column!Init
       \/ subject = "hold"       /\ Hold!Init
       \/ subject = "keys"       /\ Keys!Init
       \/ subject = "panels"     /\ TwoPanels!Init
       \/ subject = "tips"       /\ Tips!Init
       \/ subject = "started"    /\ Started!Init
       \/ subject = "commands"   /\ Commands!Init
       \/ subject = "unlocked"   /\ Unlocked!Init
       \/ subject = "presses"    /\ Presses!Init
       \/ subject = "mixed"      /\ Mixed!Init
       \/ subject = "schema"     /\ Schema!Init
       \/ subject = "typos"      /\ Typos!Init
       \/ subject = "arranged"   /\ Arranged!Init
       \/ subject = "places"     /\ Placed!Init
       \/ subject = "programs"   /\ Programs!Init
       \/ subject = "families"   /\ Families!Init
       \/ subject = "clicked"    /\ Clicked!Init
       \/ subject = "sections"   /\ Strip!Init

NetworkStep ==
    \/ subject = "joining" /\ Joining!Next
    \/ subject = "crossing" /\ Crossing!Next
    \/ subject = "roaming" /\ Roaming!Next
    \/ subject = "listing" /\ Listing!Next
    \/ subject = "vpn"     /\ Vpn!Next

BluetoothStep == subject = "pairing"   /\ Pairing!Next

TrayStep ==
    \/ subject = "tray" /\ Tray!Next
    \/ subject = "menu" /\ Menu!Next

MediaStep ==
    \/ subject = "players" /\ Players!Next
    \/ subject = "covers"  /\ Covers!Next
    \/ subject = "card"    /\ Card!Next
    \/ subject = "mediakeys" /\ MediaKeys!Next

PopoversStep ==
    \/ subject = "popover" /\ Popover!Next
    \/ subject = "outputs" /\ Outputs!Next
    \/ subject = "lists"   /\ Unfolding!Next
    \/ subject = "again"   /\ Again!Next

BlurStep ==
    \/ subject = "blur"      /\ Blurry!Next
    \/ subject = "withdrawn" /\ Withdrawn!Next

ToastsStep ==
    \/ subject = "banners" /\ Banners!Next
    \/ subject = "hover"   /\ Hovered!Next
    \/ subject = "column"  /\ Column!Next

HoldingStep ==
    \/ subject = "hold"       /\ Hold!Next
    \/ subject = "keys"       /\ Keys!Next
    \/ subject = "panels"     /\ TwoPanels!Next

TooltipsStep == subject = "tips" /\ Tips!Next

IpcStep ==
    \/ subject = "started"    /\ Started!Next
    \/ subject = "commands"   /\ Commands!Next
    \/ subject = "unlocked"   /\ Unlocked!Next
    \/ subject = "presses"    /\ Presses!Next
    \/ subject = "mixed"      /\ Mixed!Next

ConfigStep ==
    \/ subject = "schema"     /\ Schema!Next
    \/ subject = "typos"      /\ Typos!Next
    \/ subject = "arranged"   /\ Arranged!Next
    \/ subject = "places"     /\ Placed!Next

SubprocessStep ==
    \/ subject = "programs"   /\ Programs!Next
    \/ subject = "families"   /\ Families!Next
    \/ subject = "clicked"    /\ Clicked!Next

LayoutStep == subject = "sections" /\ Strip!Next

Next ==
    /\ \/ NetworkStep \/ BluetoothStep \/ TrayStep \/ MediaStep \/ PopoversStep \/ BlurStep \/ ToastsStep
       \/ HoldingStep \/ TooltipsStep \/ IpcStep \/ ConfigStep \/ SubprocessStep \/ LayoutStep
    /\ UNCHANGED subject

Spec == Init /\ [][Next]_vars

-----------------------------------------------------------------------------
(* Fairness: each module's own, with what enables its actions written out  *)
(* (asking TLC for ENABLED of a handler would have it run the handler).    *)

\* The panel's tasks take what is in their queues, ...
Turn ==
    \/ subject = "joining"   /\ Joining!Turn
    \/ subject = "crossing"  /\ Crossing!Turn
    \/ subject = "roaming"   /\ Roaming!Turn
    \/ subject = "listing"   /\ Listing!Turn
    \/ subject = "vpn"       /\ Vpn!Turn
    \/ subject = "pairing"   /\ Pairing!Turn
    \/ subject = "tray"      /\ Tray!Turn
    \/ subject = "menu"      /\ Menu!Turn
    \/ subject = "banners"    /\ Banners!Turn
    \/ subject = "hover"      /\ Hovered!Turn
    \/ subject = "column"     /\ Column!Turn
    \/ subject = "hold"       /\ Hold!Turn
    \/ subject = "keys"       /\ Keys!Turn
    \/ subject = "panels"     /\ TwoPanels!Turn
    \/ subject = "started"    /\ Started!Turn
    \/ subject = "commands"   /\ Commands!Turn
    \/ subject = "unlocked"   /\ Unlocked!Turn
    \/ subject = "presses"    /\ Presses!Turn
    \/ subject = "mixed"      /\ Mixed!Turn
    \/ subject = "schema"     /\ Schema!Turn
    \/ subject = "typos"      /\ Typos!Turn
    \/ subject = "arranged"   /\ Arranged!Turn
    \/ subject = "places"     /\ Placed!Turn
    \/ subject = "programs"   /\ Programs!Turn
    \/ subject = "families"   /\ Families!Turn
    \/ subject = "clicked"    /\ Clicked!Turn
    \/ subject = "sections"   /\ Strip!Turn
TurnDue ==
    \/ subject = "joining"   /\ Joining!TurnDue
    \/ subject = "crossing"  /\ Crossing!TurnDue
    \/ subject = "roaming"   /\ Roaming!TurnDue
    \/ subject = "listing"   /\ Listing!TurnDue
    \/ subject = "vpn"       /\ Vpn!TurnDue
    \/ subject = "pairing"   /\ Pairing!TurnDue
    \/ subject = "tray"      /\ Tray!TurnDue
    \/ subject = "menu"      /\ Menu!TurnDue
    \/ subject = "banners"    /\ Banners!TurnDue
    \/ subject = "hover"      /\ Hovered!TurnDue
    \/ subject = "column"     /\ Column!TurnDue
    \/ subject = "hold"       /\ Hold!TurnDue
    \/ subject = "keys"       /\ Keys!TurnDue
    \/ subject = "panels"     /\ TwoPanels!TurnDue
    \/ subject = "started"    /\ Started!TurnDue
    \/ subject = "commands"   /\ Commands!TurnDue
    \/ subject = "unlocked"   /\ Unlocked!TurnDue
    \/ subject = "presses"    /\ Presses!TurnDue
    \/ subject = "mixed"      /\ Mixed!TurnDue
    \/ subject = "schema"     /\ Schema!TurnDue
    \/ subject = "typos"      /\ Typos!TurnDue
    \/ subject = "arranged"   /\ Arranged!TurnDue
    \/ subject = "places"     /\ Placed!TurnDue
    \/ subject = "programs"   /\ Programs!TurnDue
    \/ subject = "families"   /\ Families!TurnDue
    \/ subject = "clicked"    /\ Clicked!TurnDue
    \/ subject = "sections"   /\ Strip!TurnDue

\* ... time passes, and the main loop draws, ...
Clock ==
    \/ subject = "joining"   /\ Joining!Clock
    \/ subject = "crossing"  /\ Crossing!Clock
    \/ subject = "roaming"   /\ Roaming!Clock
    \/ subject = "listing"   /\ Listing!Clock
    \/ subject = "pairing"   /\ Pairing!Clock
    \/ subject = "tray"      /\ Tray!Draw
    \/ subject = "menu"      /\ Menu!Draw
    \/ subject = "popover"   /\ Popover!Clock
    \/ subject = "outputs"   /\ Outputs!Clock
    \/ subject = "lists"     /\ Unfolding!Clock
    \/ subject = "again"     /\ Again!Clock
    \/ subject = "blur"       /\ Blurry!Clock
    \/ subject = "withdrawn"  /\ Withdrawn!Clock
    \/ subject = "banners"    /\ Banners!Clock
    \/ subject = "hover"      /\ Hovered!Clock
    \/ subject = "hold"       /\ Hold!Clock
    \/ subject = "keys"       /\ Keys!Clock
    \/ subject = "panels"     /\ TwoPanels!Clock
    \/ subject = "tips"       /\ Tips!Clock
    \/ subject = "started"    /\ Started!Clock
    \/ subject = "commands"   /\ Commands!Clock
    \/ subject = "unlocked"   /\ Unlocked!Clock
    \/ subject = "presses"    /\ Presses!Clock
    \/ subject = "mixed"      /\ Mixed!Clock
    \/ subject = "programs"   /\ Programs!Clock
    \/ subject = "families"   /\ Families!Clock
    \/ subject = "clicked"    /\ Clicked!Clock
ClockDue ==
    \/ subject = "joining"   /\ Joining!ClockDue
    \/ subject = "crossing"  /\ Crossing!ClockDue
    \/ subject = "roaming"   /\ Roaming!ClockDue
    \/ subject = "listing"   /\ Listing!ClockDue
    \/ subject = "pairing"   /\ Pairing!ClockDue
    \/ subject \in {"tray", "menu"} /\ panel.drawn # panel.last
    \/ subject = "popover"   /\ Popover!ClockDue
    \/ subject = "outputs"   /\ Outputs!ClockDue
    \/ subject = "lists"     /\ Unfolding!ClockDue
    \/ subject = "again"     /\ Again!ClockDue
    \/ subject = "blur"       /\ Blurry!ClockDue
    \/ subject = "withdrawn"  /\ Withdrawn!ClockDue
    \/ subject = "banners"    /\ Banners!ClockDue
    \/ subject = "hover"      /\ Hovered!ClockDue
    \/ subject = "hold"       /\ Hold!ClockDue
    \/ subject = "keys"       /\ Keys!ClockDue
    \/ subject = "panels"     /\ TwoPanels!ClockDue
    \/ subject = "tips"       /\ Tips!ClockDue
    \/ subject = "started"    /\ Started!ClockDue
    \/ subject = "commands"   /\ Commands!ClockDue
    \/ subject = "unlocked"   /\ Unlocked!ClockDue
    \/ subject = "presses"    /\ Presses!ClockDue
    \/ subject = "mixed"      /\ Mixed!ClockDue
    \/ subject = "programs"   /\ Programs!ClockDue
    \/ subject = "families"   /\ Families!ClockDue
    \/ subject = "clicked"    /\ Clicked!ClockDue

\* ... and a daemon that was asked for something does it or refuses.
Daemon ==
    \/ subject = "joining"   /\ Joining!Manager
    \/ subject = "crossing"  /\ Crossing!Manager
    \/ subject = "roaming"   /\ Roaming!Manager
    \/ subject = "listing"   /\ Listing!Manager
    \/ subject = "vpn"       /\ Vpn!Manager
    \/ subject = "pairing"   /\ Pairing!BlueZ
    \/ subject = "popover"   /\ Popover!Daemon
    \/ subject = "outputs"   /\ Outputs!Daemon
    \/ subject = "lists"     /\ Unfolding!Daemon
    \/ subject = "again"     /\ Again!Daemon
    \/ subject = "blur"       /\ Blurry!Daemon
    \/ subject = "withdrawn"  /\ Withdrawn!Daemon
    \/ subject = "banners"    /\ Banners!Daemon
    \/ subject = "hover"      /\ Hovered!Daemon
    \/ subject = "column"     /\ Column!Daemon
    \/ subject = "hold"       /\ Hold!Daemon
    \/ subject = "keys"       /\ Keys!Daemon
    \/ subject = "panels"     /\ TwoPanels!Daemon
    \/ subject = "started"    /\ Started!Daemon
    \/ subject = "commands"   /\ Commands!Daemon
    \/ subject = "unlocked"   /\ Unlocked!Daemon
    \/ subject = "presses"    /\ Presses!Daemon
    \/ subject = "mixed"      /\ Mixed!Daemon
    \/ subject = "programs"   /\ Programs!Daemon
    \/ subject = "families"   /\ Families!Daemon
    \/ subject = "clicked"    /\ Clicked!Daemon
DaemonDue ==
    \/ subject = "joining"   /\ Joining!ManagerDue
    \/ subject = "crossing"  /\ Crossing!ManagerDue
    \/ subject = "roaming"   /\ Roaming!ManagerDue
    \/ subject = "listing"   /\ Listing!ManagerDue
    \/ subject = "vpn"       /\ Vpn!ManagerDue
    \/ subject = "pairing"   /\ Pairing!BlueZDue
    \/ subject = "popover"   /\ Popover!DaemonDue
    \/ subject = "outputs"   /\ Outputs!DaemonDue
    \/ subject = "lists"     /\ Unfolding!DaemonDue
    \/ subject = "again"     /\ Again!DaemonDue
    \/ subject = "blur"       /\ Blurry!DaemonDue
    \/ subject = "withdrawn"  /\ Withdrawn!DaemonDue
    \/ subject = "banners"    /\ Banners!DaemonDue
    \/ subject = "hover"      /\ Hovered!DaemonDue
    \/ subject = "column"     /\ Column!DaemonDue
    \/ subject = "hold"       /\ Hold!DaemonDue
    \/ subject = "keys"       /\ Keys!DaemonDue
    \/ subject = "panels"     /\ TwoPanels!DaemonDue
    \/ subject = "started"    /\ Started!DaemonDue
    \/ subject = "commands"   /\ Commands!DaemonDue
    \/ subject = "unlocked"   /\ Unlocked!DaemonDue
    \/ subject = "presses"    /\ Presses!DaemonDue
    \/ subject = "mixed"      /\ Mixed!DaemonDue
    \/ subject = "programs"   /\ Programs!DaemonDue
    \/ subject = "families"   /\ Families!DaemonDue
    \/ subject = "clicked"    /\ Clicked!DaemonDue

FairSpec ==
    /\ Spec
    /\ []<>~TurnDue \/ []<><<Turn>>_vars
    /\ []<>~ClockDue \/ []<><<Clock>>_vars
    /\ []<>~DaemonDue \/ []<><<Daemon>>_vars

-----------------------------------------------------------------------------
(* Properties.                                                             *)

\* Once everything the other side has said is read, the panel shows the other side as it
\* is: no signal is lost to another, to a read that overtook it, to a restart.
QuietIsCurrent ==
    /\ subject = "joining"   => Joining!QuietIsCurrent
    /\ subject = "crossing"  => Crossing!QuietIsCurrent
    /\ subject = "roaming"   => Roaming!QuietIsCurrent
    /\ subject = "listing"   => Listing!QuietIsCurrent
    /\ subject = "vpn"       => Vpn!QuietIsCurrent
    /\ subject = "pairing"   => Pairing!QuietIsCurrent
    /\ subject = "tray"      => Tray!QuietIsCurrent
    /\ subject = "menu"      => Menu!QuietIsCurrent
    /\ subject = "players"   => Players!QuietIsCurrent
    /\ subject = "covers"    => Covers!QuietIsCurrent
    /\ subject = "card"      => Card!QuietIsCurrent
    /\ subject = "mediakeys" => MediaKeys!QuietIsCurrent
    /\ subject = "popover"   => Popover!QuietIsCurrent
    /\ subject = "outputs"   => Outputs!QuietIsCurrent
    /\ subject = "lists"     => Unfolding!QuietIsCurrent
    /\ subject = "blur"       => Blurry!QuietIsCurrent
    /\ subject = "withdrawn"  => Withdrawn!QuietIsCurrent
    /\ subject = "banners"    => Banners!QuietIsCurrent
    /\ subject = "hover"      => Hovered!QuietIsCurrent
    /\ subject = "column"     => Column!QuietIsCurrent
    /\ subject = "hold"       => Hold!ShownIsHeld
    /\ subject = "keys"       => Keys!ShownIsHeld
    /\ subject = "panels"     => TwoPanels!ShownIsHeld
    /\ subject = "tips"       => Tips!QuietIsCurrent
    /\ subject = "schema"     => Schema!QuietIsCurrent
    /\ subject = "typos"      => Typos!QuietIsCurrent
    /\ subject = "arranged"   => Arranged!QuietIsCurrent
    /\ subject = "sections"   => Strip!QuietIsCurrent

\* What was made for one thing does not outlive it or go to another: a password its
\* attempt, a search its deadline, a registration its item, a cover its track, a pin its
\* player, a catcher its popover, a blurred region its surface, a card its notification, a hold
\* its key, a tooltip its widget, a socket its panel, an answer what was done, a program its
\* caller, a section its place.  Nor is anything lost in silence: a key of the configuration.
NothingStrays ==
    /\ subject = "joining"   => Joining!SecretsStayHome
    /\ subject = "crossing"  => Crossing!SecretsStayHome
    /\ subject = "roaming"   => Roaming!SecretsStayHome
    /\ subject = "pairing"   => Pairing!NobodyLooksUnseen
    /\ subject = "tray"      => Tray!RegistryHasItems
    /\ subject = "covers"    => Covers!CoverBelongs
    /\ subject = "players"   => Players!PinIsThere
    /\ subject = "card"      => Card!CoverBelongs /\ Card!PinIsThere
    /\ subject = "mediakeys" => MediaKeys!CoverBelongs /\ MediaKeys!PinIsThere
    /\ subject = "popover"   => Popover!CatcherHasPopover /\ Popover!SeekersAreSeen
    /\ subject = "outputs"   => Outputs!CatcherHasPopover /\ Outputs!SeekersAreSeen
    /\ subject = "lists"     => Unfolding!CatcherHasPopover /\ Unfolding!SeekersAreSeen
    /\ subject = "blur"       => Blurry!RegionsFit
    /\ subject = "withdrawn"  => Withdrawn!RegionsFit
    /\ subject = "banners"    => Banners!BannersFit
    /\ subject = "hover"      => Hovered!BannersFit
    /\ subject = "hold"       => Hold!LettingGoCancels /\ Hold!HeldToTheEnd
    /\ subject = "panels"     => TwoPanels!LettingGoCancels /\ TwoPanels!HeldToTheEnd
    /\ subject = "tips"       => Tips!TipsBelong
    /\ subject = "started"    => Started!ListenersAreFound /\ Started!ToldTheTruth
    /\ subject = "commands"   => Commands!ListenersAreFound /\ Commands!ToldTheTruth
    /\ subject = "unlocked"   => Unlocked!ToldTheTruth
    /\ subject = "presses"    => Presses!ListenersAreFound /\ Presses!ToldTheTruth /\ Presses!ShownIsReported
    /\ subject = "mixed"      => Mixed!ListenersAreFound /\ Mixed!ToldTheTruth /\ Mixed!ShownIsReported
    /\ subject = "schema"     => Schema!NothingIsSilent /\ Schema!EachTableIsNamed /\ Schema!RunsTheUsable /\ Schema!AdviceHelps
    /\ subject = "typos"      => Typos!NothingIsSilent /\ Typos!EachTableIsNamed /\ Typos!RunsTheUsable /\ Typos!AdviceHelps
    /\ subject = "arranged"   => Arranged!NothingIsSilent /\ Arranged!EachTableIsNamed /\ Arranged!RunsTheUsable /\ Arranged!AdviceHelps
    /\ subject = "places"     => Placed!NothingIsSilent /\ Placed!EachTableIsNamed /\ Placed!RunsTheUsable /\ Placed!AdviceHelps
    /\ subject = "programs"   => Programs!AnswersAreWhole /\ Programs!NoneOutlives
    /\ subject = "families"   => Families!AnswersAreWhole /\ Families!NoneOutlives
    /\ subject = "clicked"    => Clicked!AnswersAreWhole /\ Clicked!NoneOutlives
    /\ subject = "sections"   => Strip!LayoutAssumption /\ Strip!TypeOK /\ Strip!SectionsFit /\ Strip!ClipsCover

\* What keeps the user or the radio waiting ends, whatever happens meanwhile: prompts,
\* questions, searches, pairings, the icons of what has quit.
Waits(what) ==
    CASE what = "asked" -> \/ subject = "joining" /\ Joining!Asking
                           \/ subject = "crossing" /\ Crossing!Asking
                           \/ subject = "roaming" /\ Roaming!Asking
                           \/ subject = "pairing"   /\ Pairing!Asking
      [] what = "busy"  -> \/ subject = "pairing"   /\ (Pairing!Searching \/ Pairing!Busy)
                           \/ subject \in {"tray", "menu"} /\ Tray!GhostShown
                           \/ subject = "popover" /\ Popover!Fading
                           \/ subject = "outputs" /\ Outputs!Fading
                           \/ subject = "lists"   /\ Unfolding!Fading
                           \/ subject = "again"   /\ Again!Fading
                           \/ subject = "withdrawn" /\ Withdrawn!Unheard
                           \/ subject = "banners" /\ Banners!Leaving
                           \/ subject = "hover"   /\ Hovered!Leaving
                           \/ subject = "hold"       /\ Hold!Counting
                           \/ subject = "keys"       /\ Keys!Counting
                           \/ subject = "panels"     /\ TwoPanels!Counting
                           \/ subject = "started"    /\ Started!Waiting
                           \/ subject = "commands"   /\ Commands!Waiting
                           \/ subject = "unlocked"   /\ Unlocked!Waiting
                           \/ subject = "presses"    /\ Presses!Waiting
                           \/ subject = "mixed"      /\ Mixed!Waiting
                           \/ subject = "programs"   /\ Programs!Waiting
                           \/ subject = "families"   /\ Families!Waiting
WaitsEnd == \A what \in {"asked", "busy"} : Waits(what) ~> ~Waits(what)

-----------------------------------------------------------------------------
(* What the source says and the code does not keep.                        *)

\* "The tray item it belongs to" (tray/menu.rs:74): a layout that was asked for one item and
\* came after the popover had moved to another is drawn as that other's, and a row chosen
\* from it is sent there.
RowsGoHome == subject = "menu" => Menu!RowsGoHome

\* "It runs only while the popover is open and only while something is playing"
\* (control_panel/media.rs:777): and then it does run.
Ticks == subject = "card" => Card!Ticks

\* "`mpris:trackid`, so a seek cannot land in the wrong track" (media/task.rs:108).
SeekLands == subject = "card" => Card!SeekLands

\* "Something the panel asks of the player it is showing" (media/task.rs:51).
ControlLands == subject = "card" => Card!ControlLands

\* "one pairing at a time, and the newest is the one the user is looking at"
\* (bluetooth/task.rs:542): a yes pressed under one question is not given to another.
AnswersGoHome == subject = "pairing"   => Pairing!AnswersGoHome

\* "a *contiguous* run" (bluetooth/model.rs:98): no paired device below one that was found.
FoundAreLast == subject = "pairing"   => Pairing!FoundAreLast

\* What is registered with a watcher is still known after the panel has taken its place.
TakeoverKeeps == subject = "tray" => Tray!TakeoverKeeps

\* "The network the box is currently open for" (quick_settings/cards/network.rs:303) is the one
\* its password goes to: where a question names none, and where one attempt gives way to another.
PasswordsStayHome ==
    /\ subject = "joining"  => Joining!PasswordsStayHome
    /\ subject = "crossing" => Crossing!PasswordsStayHome

\* A snapshot must not "throw away a half-typed key" (quick_settings/cards/network.rs:297).
KeyKept == [][subject = "joining" => Joining!KeyKept]_vars

\* "this one ends the attempt" (network/task.rs:265): every attempt comes to an end.
AttemptsEnd == (subject = "roaming" /\ Roaming!AttemptUnderWay) ~> ~Roaming!AttemptUnderWay

\* A switch of a VPN, or of the radio, is answered.
VpnEnds == (subject = "vpn" /\ Vpn!VpnAwaited) ~> ~Vpn!VpnAwaited
RadioEnds == (subject = "listing" /\ Listing!RadioAwaited) ~> ~Listing!RadioAwaited

\* "The catcher must never outlive the popover it belongs to" (layer_popover.rs:699), where a
\* popover is asked for again before its fade out has shown a frame.
CatcherHasPopover == subject = "again" => Again!CatcherHasPopover

\* A list is on the screen where it is said to be open (expander.rs:54).
ListsAreShown == subject = "again" => Again!ListsAreShown

\* "A rebuilt widget must not leave its old tree on screen" (popovers.rs:126).
OldTreeGoes == subject = "popover" => Popover!OldTreeGoes

\* The border a content gives up for a fade is back when it rests.
BorderIsBack == subject = "popover" => Popover!BorderIsBack

\* "so the radio stops looking for things to put in it" (quick_settings/panel.rs:362).
RadioStops == subject = "lists" => Unfolding!RadioStops

\* "Blur is not *required* to be capable here" (blur.rs:310), a later change being picked up.
LateIsBlurred == subject = "withdrawn" => Withdrawn!LateIsBlurred

\* Switching off "also stops its drain timer" (blur.rs:464): there is one.
OneTimer == subject = "withdrawn" => Withdrawn!OneTimer

\* "the region comes off as the last one starts leaving" (toast.rs:261).
BlurComesOff == subject = "banners" => Banners!BlurComesOff

\* "Hold a banner's timer while the pointer is over it" (notifications/mod.rs:182).
HoldsEnd == subject = "hover" => Hovered!HoldsEnd

\* The switch of Do Not Disturb that was thrown last is the one that counts.
LastSwitchWins == subject = "column" => Column!LastSwitchWins

\* "Record that the user has looked at the history" (notifications/mod.rs:177).
SeenWasShown == subject = "column" => Column!SeenWasShown

\* "letting go before that cancels it, and nothing happens" (quick_settings/hold.rs:6), where
\* a key repeats and motion is off.
LettingGoCancels == subject = "keys" => Keys!LettingGoCancels

\* A repeating key does not restart the countdown (hold.rs:66), nor act before its end.
HeldToTheEnd == subject = "keys" => Keys!HeldToTheEnd

\* "must not still be counting down" (power.rs:158), once it was dismissed.
DismissedIsStill == subject = "hold" => Hold!DismissedIsStill

\* Closing a panel clears what went wrong in it (quick_settings/panel.rs:366).
ClosedIsClean == subject = "hold" => Hold!ClosedIsClean

\* A tooltip is dismissed by "the anchor going away" (tooltip.rs:15), not by another.
OnlyItsAnchorDismisses == subject = "tips" => Tips!OnlyItsAnchorDismisses

\* A widget that has nothing to say has no tooltip.
NothingIsNotShown == subject = "tips" => Tips!NothingIsNotShown

\* Panel and client "cannot disagree about which happened" (ipc_client.rs:22).
GaveUpAlike == subject = "started" => Started!GaveUpAlike

\* "Accept connections until the panel stops" (ipc.rs:186).
AcceptsUntilItStops == subject = "started" => Started!AcceptsUntilItStops

\* "Only ever called by a process holding the" lock (ipc.rs:147).
OnlyHoldersListen == subject = "unlocked" => Unlocked!OnlyHoldersListen

\* A media key acts on the player "the card would have been showing" (media/cli.rs:8).
KeyMeetsCard == subject = "mediakeys" => MediaKeys!KeyMeetsCard

\* Setting the volume is "returning the value that was actually applied" (audio/cli.rs:124).
AppliedIsReturned == subject = "presses" => Presses!AppliedIsReturned

\* Two presses of a key are two steps.
PressesAddUp == subject = "presses" => Presses!PressesAddUp

\* The handshake lets "an old CLI fail loudly against a new panel" (topbar-core ipc.rs:6).
MismatchIsLoud == subject = "mixed" => Mixed!MismatchIsLoud

\* "One run tells you everything" (docs/configuration.md:57).
OneRunTellsAll == subject = "typos" => Typos!OneRunTellsAll

\* An error is about something the file holds.
ErrorsAreReal == subject = "typos" => Typos!ErrorsAreReal

\* The dump "parses back to the same configuration" (docs/configuration.md:67).
ParsesBack == subject = "schema" => Schema!ParsesBack

\* Saving the file does what `topbar reload` does (docs/configuration.md:601).
SavesAreNoticed == subject = "places" => Placed!SavesAreNoticed

\* A click "returns as soon as the command has either failed or been running for" its grace
\* (proc.rs:241).
ReadingIsShort == subject = "clicked" => Clicked!ReadingIsShort

\* Past that it is "left alone" (proc.rs:17).
DetachedGoOn == subject = "clicked" => Clicked!DetachedGoOn

\* A service that is torn down leaves no program behind (proc.rs:169).
LeavesNobody == subject = "clicked" => Clicked!LeavesNobody

\* Space is taken from "the sides — never the center" (section_layout.rs:9).
CenterNeverShrinks == subject = "sections" => Strip!CenterNeverShrinks
-----------------------------------------------------------------------------
(* Bounds.                                                                 *)

MCMoves ==
    "joining" :> 1 @@ "roaming" :> 1 @@ "listing" :> 2 @@ "vpn" :> 2 @@ "pairing" :> 1 @@ "tray" :> 2
    @@ "menu" :> 2 @@ "players" :> 2 @@ "covers" :> 3 @@ "card" :> 1 @@ "mediakeys" :> 1
    @@ "popover" :> 2 @@ "outputs" :> 2 @@ "lists" :> 2
    @@ "blur" :> 2 @@ "withdrawn" :> 2 @@ "banners" :> 1 @@ "hover" :> 1 @@ "column" :> 0
    @@ "hold" :> 1 @@ "keys" :> 1 @@ "tips" :> 2 @@ "started" :> 2 @@ "commands" :> 2 @@ "unlocked" :> 2
    @@ "presses" :> 1 @@ "mixed" :> 1 @@ "arranged" :> 1 @@ "places" :> 1 @@ "sections" :> 3
MCClicks ==
    "joining" :> 2 @@ "crossing" :> 3 @@ "roaming" :> 3 @@ "listing" :> 2 @@ "vpn" :> 2 @@ "pairing" :> 2 @@ "tray" :> 0
    @@ "menu" :> 3 @@ "players" :> 1 @@ "covers" :> 0 @@ "card" :> 2 @@ "mediakeys" :> 1
    @@ "popover" :> 4 @@ "outputs" :> 4 @@ "lists" :> 4 @@ "again" :> 3
    @@ "blur" :> 2 @@ "withdrawn" :> 2 @@ "banners" :> 0 @@ "hover" :> 1 @@ "column" :> 2
    @@ "hold" :> 3 @@ "keys" :> 4 @@ "panels" :> 4 @@ "tips" :> 3 @@ "started" :> 3 @@ "commands" :> 2
    @@ "unlocked" :> 2 @@ "presses" :> 1 @@ "mixed" :> 1 @@ "schema" :> 1 @@ "typos" :> 2 @@ "arranged" :> 2 @@ "places" :> 2
    @@ "programs" :> 2 @@ "families" :> 2 @@ "clicked" :> 2
=============================================================================

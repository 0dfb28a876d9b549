----------------------------- MODULE PanelLevels -----------------------------
(***************************************************************************)
(* What the panel sets and shows of the machine itself: the volume, the    *)
(* backlight, the charge limit, the power mode, who watches the screen,    *)
(* the headset, the workspaces, and the capsule that shows a change.       *)
(* A composition like PanelDevices: the subjects share nothing, and a      *)
(* behaviour shows one of them.                                            *)
(*                                                                         *)
(* A part is a record: its kind, the machine it is looked at on, and what  *)
(* may happen there (`does`) how often (`moves`, `clicks`).                *)
(***************************************************************************)
EXTENDS Integers, Sequences, FiniteSets, TLC

CONSTANTS
    Subjects,   \* those looked at, by name
    Parts,      \* [Subjects -> parts]
    NoOne

VARIABLES subject, panel, world, wire

vars == <<subject, panel, world, wire>>

-----------------------------------------------------------------------------
\* The subjects of each kind.
Sounds == {s \in Subjects : Parts[s].kind = "sound"}
Backlights == {s \in Subjects : Parts[s].kind = "backlight"}
Capsules == {s \in Subjects : Parts[s].kind = "capsule"}
Batteries == {s \in Subjects : Parts[s].kind = "battery"}
Modes == {s \in Subjects : Parts[s].kind = "profiles"}
Watches == {s \in Subjects : Parts[s].kind = "privacy"}
Headsets == {s \in Subjects : Parts[s].kind = "headset"}
Strips == {s \in Subjects : Parts[s].kind = "niri"}
Askers == {s \in Subjects : Parts[s].kind = "requests"}

Sound(part) == INSTANCE Sound WITH
    Outputs <- part.outputs, Inputs <- part.inputs, Fixed <- part.fixed, Full <- part.full, Top <- part.top,
    Does <- part.does, MaxMoves <- part.moves, MaxClicks <- part.clicks

Backlight(part) == INSTANCE Backlight WITH
    Controllers <- part.controllers, Full <- part.full, Session <- part.session,
    Does <- part.does, MaxMoves <- part.moves, MaxClicks <- part.clicks

Capsule(part) == INSTANCE Capsule WITH
    Monitors <- part.monitors, Values <- part.values, Does <- part.does, MaxMoves <- part.moves

Battery(part) == INSTANCE Battery WITH
    Bus <- part.bus, Files <- part.files, Writable <- part.writable, Supported <- part.supported,
    FULL_PRESET <- part.whole, LIMIT_PRESET <- part.limited, Hundred <- part.hundred,
    Does <- part.does, MaxMoves <- part.moves, MaxClicks <- part.clicks

Profiles(part) == INSTANCE Profiles WITH
    Offered <- part.offered, Does <- part.does, MaxMoves <- part.moves, MaxClicks <- part.clicks

Privacy(part) == INSTANCE Privacy WITH
    Ids <- part.ids, FirstLocal <- part.local, Does <- part.does, MaxMoves <- part.moves

Headset(part) == INSTANCE Headset WITH
    Levels <- part.levels, Tools <- part.tools, Working <- part.working, Commands <- part.room,
    Does <- part.does, MaxMoves <- part.moves

Niri(part) == INSTANCE Niri WITH
    Ids <- part.ids, Named <- part.named,
    Does <- part.does, MaxMoves <- part.moves, MaxClicks <- part.clicks

Requests(part) == INSTANCE Requests WITH
    Asks <- part.asks, Raises <- part.raises, Does <- part.does, MaxMoves <- part.moves

ASSUME ConstantsAssumption ==
    /\ \A s \in Sounds : Sound(Parts[s])!ConstantsOK
    /\ \A s \in Backlights : Backlight(Parts[s])!ConstantsOK
    /\ \A s \in Batteries : Battery(Parts[s])!ConstantsOK
    /\ \A s \in Modes : Profiles(Parts[s])!ConstantsOK
    /\ \A s \in Watches : Privacy(Parts[s])!ConstantsOK
    /\ \A s \in Strips : Niri(Parts[s])!ConstantsOK
    /\ \A s \in Askers : Requests(Parts[s])!ConstantsOK

-----------------------------------------------------------------------------

Init ==
    /\ subject \in Subjects
    /\ \/ \E s \in Sounds : subject = s /\ Sound(Parts[s])!Init
       \/ \E s \in Backlights : subject = s /\ Backlight(Parts[s])!Init
       \/ \E s \in Capsules : subject = s /\ Capsule(Parts[s])!Init
       \/ \E s \in Batteries : subject = s /\ Battery(Parts[s])!Init
       \/ \E s \in Modes : subject = s /\ Profiles(Parts[s])!Init
       \/ \E s \in Watches : subject = s /\ Privacy(Parts[s])!Init
       \/ \E s \in Headsets : subject = s /\ Headset(Parts[s])!Init
       \/ \E s \in Strips : subject = s /\ Niri(Parts[s])!Init
       \/ \E s \in Askers : subject = s /\ Requests(Parts[s])!Init

SoundStep == \E s \in Sounds : subject = s /\ Sound(Parts[s])!Next
BacklightStep == \E s \in Backlights : subject = s /\ Backlight(Parts[s])!Next
CapsuleStep == \E s \in Capsules : subject = s /\ Capsule(Parts[s])!Next
BatteryStep == \E s \in Batteries : subject = s /\ Battery(Parts[s])!Next
ProfilesStep == \E s \in Modes : subject = s /\ Profiles(Parts[s])!Next
PrivacyStep == \E s \in Watches : subject = s /\ Privacy(Parts[s])!Next
HeadsetStep == \E s \in Headsets : subject = s /\ Headset(Parts[s])!Next
NiriStep == \E s \in Strips : subject = s /\ Niri(Parts[s])!Next
RequestsStep == \E s \in Askers : subject = s /\ Requests(Parts[s])!Next

Next ==
    /\ \/ SoundStep \/ BacklightStep \/ CapsuleStep \/ BatteryStep
       \/ ProfilesStep \/ PrivacyStep \/ HeadsetStep \/ NiriStep
       \/ RequestsStep
    /\ UNCHANGED subject

Spec == Init /\ [][Next]_vars

-----------------------------------------------------------------------------
(* Fairness, as in PanelDevices.                                           *)

\* The panel's tasks take what is in their queues, the audio thread as well, ...
Turn ==
    \/ \E s \in Sounds : subject = s /\ Sound(Parts[s])!Turn
    \/ \E s \in Backlights : subject = s /\ Backlight(Parts[s])!Turn
    \/ \E s \in Capsules : subject = s /\ Capsule(Parts[s])!Turn
    \/ \E s \in Batteries : subject = s /\ Battery(Parts[s])!Turn
    \/ \E s \in Modes : subject = s /\ Profiles(Parts[s])!Turn
    \/ \E s \in Watches : subject = s /\ Privacy(Parts[s])!Turn
    \/ \E s \in Headsets : subject = s /\ Headset(Parts[s])!Turn
    \/ \E s \in Strips : subject = s /\ Niri(Parts[s])!Turn
    \/ \E s \in Askers : subject = s /\ Requests(Parts[s])!Turn
TurnDue ==
    \/ \E s \in Sounds : subject = s /\ Sound(Parts[s])!TurnDue
    \/ \E s \in Backlights : subject = s /\ Backlight(Parts[s])!TurnDue
    \/ \E s \in Capsules : subject = s /\ Capsule(Parts[s])!TurnDue
    \/ \E s \in Batteries : subject = s /\ Battery(Parts[s])!TurnDue
    \/ \E s \in Modes : subject = s /\ Profiles(Parts[s])!TurnDue
    \/ \E s \in Watches : subject = s /\ Privacy(Parts[s])!TurnDue
    \/ \E s \in Headsets : subject = s /\ Headset(Parts[s])!TurnDue
    \/ \E s \in Strips : subject = s /\ Niri(Parts[s])!TurnDue
    \/ \E s \in Askers : subject = s /\ Requests(Parts[s])!TurnDue

\* ... a server that was asked for something does it or refuses, ...
Server ==
    \/ \E s \in Sounds : subject = s /\ Sound(Parts[s])!Server
    \/ \E s \in Backlights : subject = s /\ Backlight(Parts[s])!Server
    \/ \E s \in Capsules : subject = s /\ Capsule(Parts[s])!Daemon
    \/ \E s \in Modes : subject = s /\ Profiles(Parts[s])!Server
    \/ \E s \in Watches : subject = s /\ Privacy(Parts[s])!Server
    \/ \E s \in Headsets : subject = s /\ Headset(Parts[s])!Server
    \/ \E s \in Strips : subject = s /\ Niri(Parts[s])!Server
    \/ \E s \in Askers : subject = s /\ Requests(Parts[s])!Server
ServerDue ==
    \/ \E s \in Sounds : subject = s /\ Sound(Parts[s])!ServerDue
    \/ \E s \in Backlights : subject = s /\ Backlight(Parts[s])!ServerDue
    \/ \E s \in Capsules : subject = s /\ Capsule(Parts[s])!DaemonDue
    \/ \E s \in Modes : subject = s /\ Profiles(Parts[s])!ServerDue
    \/ \E s \in Watches : subject = s /\ Privacy(Parts[s])!ServerDue
    \/ \E s \in Headsets : subject = s /\ Headset(Parts[s])!ServerDue
    \/ \E s \in Strips : subject = s /\ Niri(Parts[s])!ServerDue
    \/ \E s \in Askers : subject = s /\ Requests(Parts[s])!ServerDue

\* ... and the main loop draws and keeps time.
Loop ==
    \/ \E s \in Sounds : subject = s /\ Sound(Parts[s])!Loop
    \/ \E s \in Backlights : subject = s /\ Backlight(Parts[s])!Loop
    \/ \E s \in Capsules : subject = s /\ Capsule(Parts[s])!Clock
    \/ \E s \in Batteries : subject = s /\ Battery(Parts[s])!Loop
    \/ \E s \in Modes : subject = s /\ Profiles(Parts[s])!Loop
    \/ \E s \in Watches : subject = s /\ Privacy(Parts[s])!Loop
    \/ \E s \in Headsets : subject = s /\ Headset(Parts[s])!Loop
    \/ \E s \in Strips : subject = s /\ Niri(Parts[s])!Loop
    \/ \E s \in Askers : subject = s /\ Requests(Parts[s])!Clock
LoopDue ==
    \/ \E s \in Sounds : subject = s /\ Sound(Parts[s])!LoopDue
    \/ \E s \in Backlights : subject = s /\ Backlight(Parts[s])!LoopDue
    \/ \E s \in Capsules : subject = s /\ Capsule(Parts[s])!ClockDue
    \/ \E s \in Batteries : subject = s /\ Battery(Parts[s])!LoopDue
    \/ \E s \in Modes : subject = s /\ Profiles(Parts[s])!LoopDue
    \/ \E s \in Watches : subject = s /\ Privacy(Parts[s])!LoopDue
    \/ \E s \in Headsets : subject = s /\ Headset(Parts[s])!LoopDue
    \/ \E s \in Strips : subject = s /\ Niri(Parts[s])!LoopDue
    \/ \E s \in Askers : subject = s /\ Requests(Parts[s])!ClockDue

AudioThread == \E s \in Sounds : subject = s /\ Sound(Parts[s])!Thread
AudioThreadDue == \E s \in Sounds : subject = s /\ Sound(Parts[s])!ThreadDue

\* A timer is one of several things a select! picks from at random.
Poll ==
    \/ \E s \in Batteries : subject = s /\ Battery(Parts[s])!Poll
    \/ \E s \in Headsets : subject = s /\ Headset(Parts[s])!Clock
PollDue ==
    \/ \E s \in Batteries : subject = s /\ Battery(Parts[s])!PollDue
    \/ \E s \in Headsets : subject = s /\ Headset(Parts[s])!ClockDue

Asked == \E s \in Headsets : subject = s /\ Headset(Parts[s])!Asked
AskedDue == \E s \in Headsets : subject = s /\ Headset(Parts[s])!AskedDue

FairSpec ==
    /\ Spec
    /\ []<>~TurnDue \/ []<><<Turn>>_vars
    /\ []<>~ServerDue \/ []<><<Server>>_vars
    /\ []<>~LoopDue \/ []<><<Loop>>_vars
    /\ []<>~AudioThreadDue \/ []<><<AudioThread>>_vars
    /\ <>[]~PollDue \/ []<><<Poll>>_vars
    /\ <>[]~AskedDue \/ []<><<Asked>>_vars

-----------------------------------------------------------------------------
(* Properties.                                                             *)

\* At rest the panel shows the sound server as it is, whatever lists, local answers, events and
\* restarts crossed on the way; and in the middle of a slide too the row of workspaces is as
\* wide as it is at rest.
QuietIsCurrent ==
    /\ \A s \in Sounds : subject = s => Sound(Parts[s])!QuietIsCurrent
    /\ \A s \in Strips : subject = s => Niri(Parts[s])!RowHolds

\* What is asked of the machine is done, and then shown: at rest the backlight, the charge
\* limit, the power mode, the headset's tool, the workspaces and who watches the screen are
\* shown as they are, but for a daemon that takes its name before it answers (which is then not
\* shown, nor another's choice for it), two reloads at once, a sleep in the first words of a
\* connection, a line the panel cannot read and numbers of PipeWire's that are the library's as
\* well, of which below; what the user set last is what is set, with nobody else setting it; what
\* was said to be set is set; a limit is never written in an order the kernel refuses; a capsule
\* on the screen is on its way off it; and a request is told what niri said to it, unless niri
\* was given up on in between: then only until the connection is thrown away.
PromisesAreKept ==
    /\ \A s \in Backlights :
          subject = s => Backlight(Parts[s])!QuietIsCurrent /\ Backlight(Parts[s])!TheLastIsSet
    /\ \A s \in Batteries :
          subject = s => /\ Battery(Parts[s])!QuietIsCurrent
                         /\ Battery(Parts[s])!SaidIsDone /\ Battery(Parts[s])!NeverCrossed
    /\ \A s \in Modes :
          subject = s =>
              /\ Profiles(Parts[s])!NeverAnothers
              /\ "slow" \notin Parts[s].does => Profiles(Parts[s])!QuietIsCurrent
    /\ \A s \in Headsets : subject = s /\ "twice" \notin Parts[s].does => Headset(Parts[s])!ToolIsCurrent
    /\ \A s \in Capsules : subject = s => Capsule(Parts[s])!LeavesInTime
    /\ \A s \in Watches : subject = s /\ Privacy(Parts[s])!Apart => Privacy(Parts[s])!QuietIsCurrent
    /\ \A s \in Strips :
          subject = s /\ {"early", "garble"} \cap Parts[s].does = {} => Niri(Parts[s])!QuietIsCurrent
    /\ \A s \in Askers :
          subject = s =>
              /\ Requests(Parts[s])!StraysAreThrown
              /\ "late" \notin Parts[s].does => Requests(Parts[s])!RepliesGoHome

\* What waits ends: a server that is away, a gate that is shut, a capsule that is up, a file
\* nobody told of, a choice that was asked for, a watcher that is not shown, a reading that
\* is old, a silent socket, a request.
Waiting ==
    \/ \E s \in Sounds : subject = s /\ Sound(Parts[s])!Away
    \/ \E s \in Backlights : subject = s /\ Backlight(Parts[s])!Shut
    \/ \E s \in Capsules : subject = s /\ Capsule(Parts[s])!Up
    \/ \E s \in Batteries : subject = s /\ Battery(Parts[s])!Untold
    \/ \E s \in Modes : subject = s /\ Profiles(Parts[s])!Asking
    \/ \E s \in Watches : subject = s /\ Privacy(Parts[s])!Apart /\ Privacy(Parts[s])!Unseen
    \/ \E s \in Headsets : subject = s /\ "twice" \notin Parts[s].does /\ Headset(Parts[s])!Behind
    \/ \E s \in Strips : subject = s /\ "early" \notin Parts[s].does /\ Niri(Parts[s])!Cut
    \/ \E s \in Askers : subject = s /\ Requests(Parts[s])!Busy
WaitsEnd == Waiting ~> ~Waiting

-----------------------------------------------------------------------------
(* What the source says and the code does not keep.                        *)

\* "keeps the OSD capsule off the screen while the user is dragging" (sliders.rs:18).
DragIsQuiet ==
    /\ subject = "volume" => Sound(Parts["volume"])!DragIsQuiet
    /\ \A s \in Backlights : subject = s => Backlight(Parts[s])!DragIsQuiet

\* "the first reading after a connection simply carries no change" (audio/task.rs:274).
LoginIsQuiet == subject = "mic" => Sound(Parts["mic"])!LoginIsQuiet

\* The ceiling "is policy, not hardware", and for a new one "nothing about the sound server has
\* to be re-read" (audio/task.rs:48): what is shown is the volume, up to it.
CeilingIsPolicy == subject = "ceiling" => Sound(Parts["ceiling"])!CeilingIsPolicy

\* "Draw the audio state" (sliders.rs:399): a slider the user moved while the default had for a
\* moment no volume to set stays where it was put, since nothing it was drawn from changes.
SlidersFollow == subject = "outs_dragged" => Sound(Parts["outs_dragged"])!SlidersFollow

\* "the final value always sent" (brightness/throttle.rs:14): so it is for the volume.
LastDragLands == subject = "volume" => Sound(Parts["volume"])!LastDragLands

\* "An event arriving mid-dismissal reverses a fade on a surface that never unmapped"
\* (osd.rs:554).
ShownIsSeen == subject = "osd" => Capsule(Parts["osd"])!ShownIsSeen

\* The bar of a capsule comes to rest at the value it was last given.
BarIsRight == subject = "osd" => Capsule(Parts["osd"])!BarIsRight

\* "Which snapshots have already been shown" (osd.rs:229): a reload shows none again.
ReloadIsQuiet == subject = "osd" => Capsule(Parts["osd"])!ReloadIsQuiet

\* "so a media key pressed on one screen does not light up all of them" (osd.rs:521).
OneCapsule == subject = "screens" => Capsule(Parts["screens"])!OneCapsule

\* "so a banner is never posted to nowhere at all" (toast.rs:79).
HostHasSurface == subject = "screens" => Capsule(Parts["screens"])!HostHasSurface

\* "no UPower ...; the battery is read from sysfs alone" (battery/task.rs:232).
ReadFromSysfsAlone == subject = "upower" => Battery(Parts["upower"])!ReadFromSysfsAlone

\* A daemon that took its name before it could answer is shown when it can.
SlowIsShown == subject = "mode_slow" => Profiles(Parts["mode_slow"])!QuietIsCurrent

\* "whether a screen is being shared right now" (privacy/mod.rs:40), where a number of
\* PipeWire's is also one of the library's.
WatchedIsShown == subject = "watch_ids" => Privacy(Parts["watch_ids"])!QuietIsCurrent

\* "the panel must not be left claiming a screen is being shared" (privacy/worker.rs:48).
NoClaimLeft == subject = "watch_ids" => Privacy(Parts["watch_ids"])!NoClaimLeft

\* "dropping it is what keeps a session of six hours from accumulating one per stream"
\* (privacy/worker.rs:147).
DeadAreDropped == subject = "watch" => Privacy(Parts["watch"])!DeadAreDropped

\* The tool that is run is the one the file names, after two reloads as after one.
ToolIsCurrent == subject = "headset_twice" => Headset(Parts["headset_twice"])!ToolIsCurrent

\* "Dim rather than empty" (workspaces/mod.rs:99).
NeverEmptied == [][subject = "strip_again" /\ panel.slots # {} => panel'.slots # {}]_vars

\* "impossible for the panel to show stale or torn workspace state" (niri/stream.rs:3), where a
\* line may be one the panel does not know.
NewIsShown == subject = "strip_new" => Niri(Parts["strip_new"])!QuietIsCurrent

\* "at most one workspace step per debounce window" (workspaces/model.rs:11), and "the rest of
\* the flick pools until the window is over" (workspaces/model.rs:255).
OneStep == [][subject = "strip_scrolled" => Niri(Parts["strip_scrolled"])!OneStepTaken]_vars
PoolIsSpent == subject = "strip_scrolled" => Niri(Parts["strip_scrolled"])!PoolIsSpent

\* "Reconnect the event stream, whatever state it thinks it is in" (niri/mod.rs:69).
KickIsHeard ==
    (subject = "strip_early" /\ Niri(Parts["strip_early"])!Cut) ~> ~Niri(Parts["strip_early"])!Cut

\* "whatever the reply was, it is still queued on it. Throw it away" (niri/requests.rs:142).
RepliesGoHome == subject = "asking_late" => Requests(Parts["asking_late"])!RepliesGoHome

-----------------------------------------------------------------------------
(* Small instances.                                                        *)

Volume(outputs, inputs, fixed, full, top, does, moves, clicks) ==
    [kind |-> "sound", outputs |-> outputs, inputs |-> inputs, fixed |-> fixed, full |-> full, top |-> top,
     does |-> does, moves |-> moves, clicks |-> clicks]
Screen(controllers, full, session, does, moves, clicks) ==
    [kind |-> "backlight", controllers |-> controllers, full |-> full, session |-> session,
     does |-> does, moves |-> moves, clicks |-> clicks]
Osd(monitors, values, does, moves) ==
    [kind |-> "capsule", monitors |-> monitors, values |-> values, does |-> does, moves |-> moves]
Limit(files, does, moves, clicks) ==
    [kind |-> "battery", bus |-> TRUE, files |-> files, writable |-> files, supported |-> TRUE,
     whole |-> <<2, 4>>, limited |-> <<1, 2>>, hundred |-> 4,
     does |-> does, moves |-> moves, clicks |-> clicks]
Mode(does, moves, clicks) ==
    [kind |-> "profiles", offered |-> {"saver", "balanced"}, does |-> does, moves |-> moves, clicks |-> clicks]
Watch(ids, does, moves) == [kind |-> "privacy", ids |-> ids, local |-> 3, does |-> does, moves |-> moves]
Headphones(levels, does, moves) ==
    [kind |-> "headset", levels |-> levels, tools |-> {"old", "new"}, working |-> {"new"}, room |-> 2,
     does |-> does, moves |-> moves]
Strip(ids, named, does, moves, clicks) ==
    [kind |-> "niri", ids |-> ids, named |-> named, does |-> does, moves |-> moves, clicks |-> clicks]
Ask(asks, raises, does, moves) ==
    [kind |-> "requests", asks |-> asks, raises |-> raises, does |-> does, moves |-> moves]

MCParts == [
    volume |-> Volume({"speaker"}, {}, {}, 1, 1, {"drag", "outside"}, 1, 2),
    lost   |-> Volume({"speaker"}, {}, {}, 2, 2, {"drag", "server", "late"}, 1, 1),
    keys   |-> Volume({"speaker"}, {}, {}, 2, 3, {"mute", "step", "ceiling", "cli"}, 0, 2),
    ceiling |-> Volume({"speaker"}, {}, {}, 1, 2, {"ceiling", "outside"}, 1, 3),
    outs   |-> Volume({"speaker", "hdmi"}, {}, {"hdmi"}, 2, 2, {"choose", "plug"}, 2, 1),
    outs_dragged |-> Volume({"speaker", "hdmi"}, {}, {"hdmi"}, 1, 1, {"choose", "drag"}, 0, 5),
    mic    |-> Volume({"speaker"}, {"mic"}, {}, 1, 1, {"mic", "input", "record"}, 2, 1),
    mic_plug |-> Volume({}, {"mic"}, {}, 1, 1, {"mic", "record", "plug"}, 2, 1),

    \* A fine controller dragged while something else moves it; one with half as many steps.
    screen |-> Screen(<<0, 2>>, 2, TRUE, {"drag", "outside", "refuse"}, 1, 2),
    coarse |-> Screen(<<2>>, 4, FALSE, {"drag", "late", "cli", "outside"}, 1, 2),

    \* One screen whose capsule is asked for again and again; two, of which one comes and goes.
    osd     |-> Osd({1}, {1, 2}, {"change", "frame", "inhibit", "reload"}, 3),
    screens |-> Osd({1, 2}, {1}, {"change", "focus", "plug"}, 4),

    \* The limit set through the kernel's files, and through UPower where there are none.
    kernel |-> Limit(TRUE, {"set", "tlp", "fail", "unplug"}, 2, 2),
    upower |-> Limit(FALSE, {"set", "charge", "upower"}, 2, 2),

    \* The power mode, chosen here and elsewhere; with a daemon that comes and goes; and one
    \* that takes its name before it answers.
    mode        |-> Mode({"set", "outside", "refuse"}, 3, 2),
    mode_daemon |-> Mode({"set", "outside", "daemon"}, 2, 2),
    mode_slow   |-> Mode({"daemon", "slow"}, 2, 0),

    \* Numbers of PipeWire's apart from the library's own, and the same ones.
    watch     |-> Watch(<<10, 11, 12>>, {"share", "other", "state", "remove"}, 5),
    watch_ids |-> Watch(<<3, 4, 5>>, {"share", "other", "state", "remove", "die"}, 4),

    headset       |-> Headphones({1, 2}, {"charge", "off", "reload", "resume", "hang"}, 3),
    headset_twice |-> Headphones({1}, {"reload", "twice"}, 2),

    \* The compositor's workspaces while it changes, restarts and sleeps; a sleep that falls
    \* in the first words of a connection; a line the panel cannot read; the strip in motion,
    \* and under the wheel.
    strip          |-> Strip({1, 2, 3}, {1, 2}, {"focus", "list", "window", "click"}, 2, 1),
    strip_again    |-> Strip({1, 2}, {1}, {"list", "layout", "restart", "sleep"}, 2, 0),
    strip_early    |-> Strip({1, 2}, {1}, {"sleep", "early"}, 1, 0),
    strip_new      |-> Strip({1, 2, 3}, {1, 2}, {"focus", "garble"}, 2, 0),
    strip_drawn    |-> Strip({1, 2, 3}, {1, 2}, {"focus", "list", "urgent", "click", "motion"}, 2, 1),
    strip_scrolled |-> Strip({1, 2, 3}, {1, 2}, {"list", "scroll"}, 1, 3),

    \* Three requests, one of which raises a window; two of which niri is slow to answer.
    asking      |-> Ask({1, 2, 3}, {1}, {"restart", "refuse"}, 2),
    asking_late |-> Ask({1, 2, 3}, {}, {"late", "restart"}, 1)]
=============================================================================

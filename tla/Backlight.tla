----------------------------- MODULE Backlight -----------------------------
(***************************************************************************)
(* The screen's brightness: the task that owns it, the gate that lets one  *)
(* call out at a time, logind or sysfs, the kernel's events, `topbar       *)
(* brightness` beside them, and the slider.                                *)
(*                                                                         *)
(* A brightness is a number of 0 .. Full, Full being 100%; the controller  *)
(* has Steps of its own, fewer on the firmware's.                          *)
(***************************************************************************)
EXTENDS Common, Integers, Sequences

CONSTANTS
    Controllers,   \* what is in /sys/class/backlight, best rank first: their steps, or 0
    Full,
    Session,       \* whether there is a logind session to write through
    NoOne,
    Does,          \* part of {"drag", "late", "outside", "refuse", "cli"}
    MaxMoves, MaxClicks

VARIABLES
    panel,   \* the task, its gate, the slider
    world,   \* the controller
    wire     \* commands, the call that is out, events, the command line

vars == <<panel, world, wire>>
Now == [panel |-> panel, world |-> world, wire |-> wire]
Become(s) == \E t \in {s} : panel' = t.panel /\ world' = t.world /\ wire' = t.wire

-----------------------------------------------------------------------------
(* device.rs                                                               *)

\* discover_in: the first whose scale can be divided by.
Discovered == LET usable == {i \in DOMAIN Controllers : Controllers[i] > 0}
              IN  IF usable = {} THEN 0 ELSE Controllers[Lowest(usable)]

\* Backlight::raw and Backlight::percent: round() of a quotient.
Rounded(a, b) == (2 * a + b) \div (2 * b)
Raw(percent) == Rounded((IF percent < Full THEN percent ELSE Full) * Discovered, Full)
Percent(raw) == IF Discovered = 0 THEN 0 ELSE Rounded(raw * Full, Discovered)

Read(s) == Percent(s.world.raw)

\* NoOne is no brightness, of the panel's or of the controller's.
ConstantsOK ==
    /\ Full \in Nat \ {0} /\ Discovered \in Nat
    /\ NoOne \notin 0 .. Full \cup {Raw(percent) : percent \in 0 .. Full}

-----------------------------------------------------------------------------
(* task.rs and throttle.rs                                                 *)

\* step
Step(current, delta) ==
    LET to == current + delta IN IF to < 0 THEN 0 ELSE IF to > Full THEN Full ELSE to

\* publish: only what moved, with who moved it; a new change wakes its watchers.
Publish(s, percent) ==
    IF s.panel.percent = percent THEN s
    ELSE LET by == Attribute(s.panel.echoes, "brightness", percent) IN
         [s EXCEPT !.panel.percent = percent, !.panel.change = by.source, !.panel.echoes = by.echoes,
                   !.panel.heard = FALSE, !.panel.due = TRUE]

\* The kernel tells of every write, of one that changes nothing too.
Stored(s, raw) == [s EXCEPT !.world.raw = raw, !.wire.events = @ + 1]

\* write: logind's answer is waited for on a task of its own, sysfs is written at once.
Write(s, percent) ==
    IF Session THEN [s EXCEPT !.wire.call = Raw(percent)]
    ELSE [Stored(s, Raw(percent)) EXCEPT !.wire.finished = TRUE]

\* Throttle::request, and the write it lets out.
Requested(s, percent) ==
    IF s.panel.inFlight THEN [s EXCEPT !.panel.pending = percent]
    ELSE Write([s EXCEPT !.panel.inFlight = TRUE], percent)

\* Throttle::finished, likewise.
Finished(s) ==
    IF s.panel.pending = NoOne THEN [s EXCEPT !.panel.inFlight = FALSE]
    ELSE Write([s EXCEPT !.panel.pending = NoOne], s.panel.pending)

\* run: a command is shown before it is done.  Without a controller it is refused.
Command(s, c) ==
    LET target == IF c.do = "set" THEN c.to ELSE Step(s.panel.percent, c.to)
        noted == [s EXCEPT !.panel.echoes = Record(@, "brightness", target, c.source),
                           !.world.asked = target]
    IN  IF Discovered = 0 THEN s ELSE Requested(Publish(noted, target), target)

TakeCommand ==
    \E c \in wire.sent : Become(Command([Now EXCEPT !.wire.sent = @ \ {c}], c))

\* run: what was waiting goes out, and then the screen is read.
Complete(s) == LET t == Finished(s) IN Publish(t, Read(t))
TakeCompletion == wire.finished /\ Become(Complete([Now EXCEPT !.wire.finished = FALSE]))

\* Monitor::changed, watch_udev: what is read is what is there by now.
TakeEvent ==
    /\ wire.events > 0
    /\ LET s == [Now EXCEPT !.wire.events = @ - 1] IN Become(Publish(s, Read(s)))

\* WINDOW: an echo nobody answered in time.
Expire ==
    /\ "late" \in Does /\ panel.echoes # <<>>
    /\ Become([Now EXCEPT !.panel.echoes = Tail(@), !.world.touched = @ \cup {"late"}])

-----------------------------------------------------------------------------
(* logind, the keyboard's own keys, and `topbar brightness`.               *)

LogindWrites ==
    /\ wire.call # NoOne /\ ~wire.finished
    /\ \/ Become([Stored(Now, wire.call) EXCEPT !.wire.call = NoOne, !.wire.landed = TRUE])
       \/ "refuse" \in Does /\ world.moves < MaxMoves
          /\ Become([Now EXCEPT !.wire.call = NoOne, !.wire.finished = TRUE,
                                !.world.moves = @ + 1, !.world.touched = @ \cup {"refuse"}])
LogindAnswers == wire.landed /\ Become([Now EXCEPT !.wire.landed = FALSE, !.wire.finished = TRUE])

Outside ==
    \E raw \in 0 .. Discovered :
        /\ "outside" \in Does /\ world.moves < MaxMoves /\ raw # world.raw
        /\ Become([Stored(Now, raw) EXCEPT !.world.moves = @ + 1, !.world.touched = @ \cup {"outside"}])

\* BrightnessCli::open, percent, step; without a controller it is an error.
CliReads ==
    /\ "cli" \in Does /\ Discovered # 0 /\ wire.cli = NoOne /\ world.clicks < MaxClicks
    /\ \E delta \in {-1, 1} :
          Become([Now EXCEPT !.wire.cli = Step(Read(Now), delta), !.world.clicks = @ + 1,
                             !.world.touched = @ \cup {"cli"}])

\* BrightnessCli::set, and the frame that raises the capsule.
CliWrites ==
    /\ wire.cli # NoOne
    /\ Become([Stored(Now, Raw(wire.cli)) EXCEPT !.wire.cli = NoOne, !.wire.frames = @ + 1])
TakeFrame == wire.frames > 0 /\ Become([Now EXCEPT !.wire.frames = @ - 1, !.panel.raised = TRUE])

-----------------------------------------------------------------------------
(* The slider, and the watcher that raises the capsule.                    *)

\* render_brightness, quietly; Watcher::brightness.
Draw ==
    /\ panel.due
    /\ Become([Now EXCEPT !.panel.slider = panel.percent, !.panel.due = FALSE, !.panel.heard = TRUE,
                          !.panel.raised = @ \/ (~panel.heard /\ ShowsOsd(panel.change))])

\* wire: a task for each value, which may overtake one another; inc and dec likewise.  The row
\* is there with a controller.
Send(s, do, to) ==
    [s EXCEPT !.wire.sent = @ \cup {[n |-> s.world.clicks, do |-> do, to |-> to, source |-> "ui"]},
              !.world.clicks = @ + 1, !.world.touched = @ \cup {"ui"}]
Drag ==
    /\ "drag" \in Does /\ world.clicks < MaxClicks
    /\ \/ \E v \in 0 .. Full \ {panel.slider} :
             Discovered # 0 /\ Become([Send(Now, "set", v) EXCEPT !.panel.slider = v])
       \/ \E delta \in {-1, 1} : Become(Send(Now, "step", delta))

-----------------------------------------------------------------------------

Start == Percent(Raw(1))

Init ==
    /\ panel = [percent |-> Start, change |-> NoOne, heard |-> TRUE, echoes |-> <<>>, inFlight |-> FALSE,
                pending |-> NoOne, slider |-> Start, due |-> FALSE, raised |-> FALSE]
    /\ world = [raw |-> Raw(1), asked |-> NoOne, touched |-> {}, moves |-> 0, clicks |-> 0]
    /\ wire = [sent |-> {}, call |-> NoOne, landed |-> FALSE, finished |-> FALSE, events |-> 0,
               cli |-> NoOne, frames |-> 0]

Turn == TakeCommand \/ TakeCompletion \/ TakeEvent
Server == LogindWrites \/ LogindAnswers \/ CliWrites
Loop == Draw \/ TakeFrame

TurnDue == wire.sent # {} \/ wire.finished \/ wire.events > 0
ServerDue == wire.call # NoOne \/ wire.landed \/ wire.cli # NoOne
LoopDue == panel.due \/ wire.frames > 0

Next == Turn \/ Server \/ Loop \/ Drag \/ Outside \/ CliReads \/ Expire

Spec == Init /\ [][Next]_vars /\ WF_vars(Turn) /\ WF_vars(Server) /\ WF_vars(Loop)

-----------------------------------------------------------------------------
(* Properties.                                                             *)

Rest == ~TurnDue /\ ~ServerDue /\ ~LoopDue

\* At rest the panel and the slider show the screen as it is.
QuietIsCurrent == Rest => panel.percent = Read(Now) /\ panel.slider = panel.percent

\* "the final value always sent, which is the only one the user checks" (throttle.rs:14): with
\* nobody else at the screen it ends as the last command the task took would have it.
TheLastIsSet ==
    Rest /\ world.touched = {"ui"} /\ world.asked # NoOne => world.raw = Raw(world.asked)

\* A gate that is shut opens.
Shut == panel.inFlight

\* "keeps the OSD capsule off the screen while the user is dragging" (sliders.rs:18).
DragIsQuiet == world.touched \subseteq {"ui"} => ~panel.raised
=============================================================================

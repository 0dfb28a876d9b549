------------------------------ MODULE Headset ------------------------------
(***************************************************************************)
(* The headset's battery: a timer, one subprocess at a time, and the       *)
(* widget.  A reload tells the poll its new section from a task of its     *)
(* own, a resume asks for a reading at once.                               *)
(***************************************************************************)
EXTENDS Naturals, Sequences

CONSTANTS
    Levels,     \* what the headset may report
    Tools,      \* the commands the configuration may name
    Working,    \* those that are installed and answer
    Commands,   \* room in the queue
    NoOne,
    Does,       \* part of {"charge", "off", "reload", "twice", "resume", "hang"}
    MaxMoves

VARIABLES
    panel,   \* the poll, the widget
    world,   \* the headset and the configuration
    wire     \* the queue and what is to be put there

vars == <<panel, world, wire>>
Now == [panel |-> panel, world |-> world, wire |-> wire]
Become(s) == \E t \in {s} : panel' = t.panel /\ world' = t.world /\ wire' = t.wire

-----------------------------------------------------------------------------
(* The poll.                                                               *)

\* parse: a device that is absent, asleep or has nothing to say is no reading.
Parsed(tool, device) == IF tool \in Working /\ device.on THEN device.level ELSE NoOne

\* run: a command re-arms the timer, whose first tick is immediate, ...
TakeCommand ==
    /\ panel.doing = "waiting" /\ wire.queue # <<>>
    /\ LET c == Head(wire.queue)
           s == [Now EXCEPT !.wire.queue = Tail(@)]
       IN  Become(CASE c.kind = "now" -> [s EXCEPT !.panel.due = TRUE]
                    [] c.kind = "configure" ->
                         IF c.tool = panel.tool THEN s ELSE [s EXCEPT !.panel.tool = c.tool, !.panel.due = TRUE])

\* ... a tick starts the tool, and nothing else is looked at before it has ended.
Tick == panel.doing = "waiting" /\ panel.due /\ Become([Now EXCEPT !.panel.doing = "reading", !.panel.due = FALSE])
Elapse == panel.doing = "waiting" /\ ~panel.due /\ Become([Now EXCEPT !.panel.due = TRUE])

Ended(reading) ==
    LET s == [Now EXCEPT !.panel.doing = "waiting"]
    IN  IF reading = panel.reading THEN s
        ELSE [s EXCEPT !.panel.reading = reading, !.panel.draw = TRUE]

\* The tool ends or is killed.
Read ==
    /\ panel.doing = "reading"
    /\ \/ Become(Ended(Parsed(panel.tool, world.device)))
       \/ /\ "hang" \in Does /\ world.moves < MaxMoves
          /\ Become([Ended(NoOne) EXCEPT !.world.moves = @ + 1])

-----------------------------------------------------------------------------
(* Around it.                                                              *)

Spare(what) == what \in Does /\ world.moves < MaxMoves
Did(s) == [s EXCEPT !.world.moves = @ + 1]

Charge ==
    \E l \in Levels \ {world.device.level} :
        Spare("charge") /\ Become([Did(Now) EXCEPT !.world.device.level = l])
Switch == Spare("off") /\ Become([Did(Now) EXCEPT !.world.device.on = ~@])

\* reconfigure_services, poll_now: each call is a task that waits for room in the queue.
Send(s, c) == [s EXCEPT !.wire.tasks = @ \cup {[n |-> world.moves, c |-> c]}]
Reload ==
    \E tool \in Tools \ {world.tool} :
        /\ Spare("reload")
        /\ "twice" \in Does \/ \A t \in wire.tasks : t.c.kind = "now"
        /\ Become(Send([Did(Now) EXCEPT !.world.tool = tool], [kind |-> "configure", tool |-> tool]))
Resume == Spare("resume") /\ Become(Send(Did(Now), [kind |-> "now"]))
Enqueue ==
    \E t \in wire.tasks :
        /\ Len(wire.queue) < Commands
        /\ Become([Now EXCEPT !.wire.tasks = @ \ {t}, !.wire.queue = Append(@, t.c)])

\* HeadsetWidget: nothing to draw is no widget.
Draw == panel.draw /\ Become([Now EXCEPT !.panel.draw = FALSE, !.panel.drawn = panel.reading])

-----------------------------------------------------------------------------

Init ==
    /\ world \in [device : [on : BOOLEAN, level : {CHOOSE l \in Levels : TRUE}], tool : Tools, moves : {0}]
    /\ panel = [doing |-> "waiting", due |-> TRUE, tool |-> world.tool, reading |-> NoOne,
                draw |-> FALSE, drawn |-> NoOne]
    /\ wire = [tasks |-> {}, queue |-> <<>>]

Turn == Read
Server == Enqueue
Asked == TakeCommand
Clock == Tick \/ Elapse
Loop == Draw

TurnDue == panel.doing = "reading"
ServerDue == wire.tasks # {} /\ Len(wire.queue) < Commands
AskedDue == panel.doing = "waiting" /\ wire.queue # <<>>
ClockDue == panel.doing = "waiting"
LoopDue == panel.draw

Next == Turn \/ Server \/ Asked \/ Clock \/ Loop \/ Charge \/ Switch \/ Reload \/ Resume

\* A select! picks at random from what is ready.
Spec == Init /\ [][Next]_vars /\ WF_vars(Turn) /\ WF_vars(Server) /\ SF_vars(Asked) /\ SF_vars(Clock) /\ WF_vars(Loop)

-----------------------------------------------------------------------------
(* Properties.                                                             *)

\* With nothing on its way the tool that is run is the one the file names.
ToolIsCurrent == (wire.tasks = {} /\ wire.queue = <<>>) => panel.tool = world.tool

\* A change of the headset is drawn in the end, whatever hung or was reloaded meanwhile.
Behind == panel.drawn # Parsed(world.tool, world.device)
=============================================================================

-------------------------------- MODULE Niri --------------------------------
(***************************************************************************)
(* The compositor's workspaces and keyboard layout: niri, which tells a    *)
(* fresh connection everything and then each change; the task that folds   *)
(* its lines into a state and publishes what the panel draws of it; a      *)
(* machine that sleeps and leaves the socket open and silent; the strip,   *)
(* whose pill slides while it is clicked and scrolled.  One output, one    *)
(* window at most on a workspace, and dots that carry no label.            *)
(***************************************************************************)
EXTENDS Common, Integers, Sequences, FiniteSets

CONSTANTS
    Ids,       \* workspaces there may be, in their order
    Named,     \* those with a name of their own
    NoOne,
    Does,      \* part of {"focus", "list", "window", "layout", "restart", "sleep", "early", "garble", "click",
               \* "urgent", "scroll", "motion"}
    MaxMoves, MaxClicks

ConstantsOK == IsFiniteSet(Ids) /\ Named \subseteq Ids

VARIABLES
    panel,   \* the task and the two widgets
    world,   \* niri and the machine
    wire     \* lines on the connection, kicks, what the strip asked for

vars == <<panel, world, wire>>
Now == [panel |-> panel, world |-> world, wire |-> wire]
Become(s) == \E t \in {s} : panel' = t.panel /\ world' = t.world /\ wire' = t.wire

-----------------------------------------------------------------------------
(* What is told, and what the panel may see of it.                         *)

\* EventStreamState::default
Nothing == [ids |-> {}, active |-> NoOne, windows |-> {}, urgent |-> {}, layout |-> NoOne]

\* WorkspacesSnapshot and KeyboardLayoutSnapshot: whether a workspace has windows comes from
\* the windows, of which those on a workspace that is not known are drawn nowhere.
Workspaces(state, connected) ==
    [connected |-> connected, ids |-> state.ids, active |-> state.active,
     windows |-> state.windows \cap state.ids, urgent |-> state.urgent \cap state.ids]
Layout(state, connected) == [connected |-> connected, layout |-> state.layout]

\* visible_slots, with show_unoccupied off.
Slots(snapshot) ==
    {i \in snapshot.ids : i \in Named \cup snapshot.windows \cup snapshot.urgent \cup {snapshot.active}}

\* EventStreamState::apply, and where it panics.
Fits(state, event) ==
    CASE event.what = "activated" -> event.id \in state.ids
      [] event.what = "closed"    -> event.id \in state.windows
      [] event.what = "switched"  -> state.layout # NoOne
      [] OTHER -> TRUE
Applied(state, event) ==
    CASE event.what = "workspaces" -> [state EXCEPT !.ids = event.ids, !.active = event.active,
                                                    !.urgent = event.urgent]
      [] event.what = "activated"  -> [state EXCEPT !.active = event.id]
      [] event.what = "windows"    -> [state EXCEPT !.windows = event.ids]
      [] event.what = "opened"     -> [state EXCEPT !.windows = @ \cup {event.id}]
      [] event.what = "closed"     -> [state EXCEPT !.windows = @ \ {event.id}]
      [] event.what = "urgency"    -> [state EXCEPT !.urgent = IF event.on THEN @ \cup {event.id} ELSE @ \ {event.id}]
      [] event.what \in {"layouts", "switched"} -> [state EXCEPT !.layout = event.layout]

-----------------------------------------------------------------------------
(* The task.                                                               *)

\* send_if_changed, on each of the two channels.
Send(s, workspaces, layout) ==
    [s EXCEPT !.panel.workspaces = workspaces, !.panel.layout = layout,
              !.panel.stripDue = @ \/ s.panel.workspaces # workspaces,
              !.panel.layoutDue = @ \/ s.panel.layout # layout]

\* publish, publish_disconnected
Publish(s) == Send(s, Workspaces(s.panel.state, TRUE), Layout(s.panel.state, TRUE))
Dimmed(s) ==
    Send(s, [s.panel.workspaces EXCEPT !.connected = FALSE], [s.panel.layout EXCEPT !.connected = FALSE])
Ended(s) ==
    [Dimmed(s) EXCEPT !.panel.phase = "waiting", !.wire.open = FALSE, !.wire.told = FALSE,
                      !.wire.silent = FALSE, !.wire.lines = <<>>]

\* run, session: the kicks there are are answered by the connection about to be made.
Connect ==
    /\ panel.phase = "waiting"
    /\ LET s == [Now EXCEPT !.wire.kicked = FALSE]
       IN  Become(IF world.up
                  THEN [s EXCEPT !.panel.phase = "shaking", !.wire.open = TRUE]
                  ELSE Dimmed(s))

\* "Handled", or the end.
TakeHandshake ==
    /\ panel.phase = "shaking" /\ wire.lines # <<>>
    /\ Become(IF Head(wire.lines).what = "handled"
              THEN Publish([Now EXCEPT !.panel.phase = "open", !.panel.state = Nothing,
                                       !.wire.lines = Tail(@)])
              ELSE Ended(Now))

\* apply_line: what cannot be read is skipped, what does not follow ends the connection.
TakeLine ==
    /\ panel.phase = "open" /\ wire.lines # <<>>
    /\ LET event == Head(wire.lines)
           s == [Now EXCEPT !.wire.lines = Tail(@)]
       IN  Become(CASE event.what = "unreadable" -> s
                    [] event.what = "end" -> Ended(s)
                    [] OTHER -> IF Fits(panel.state, event)
                                THEN Publish([s EXCEPT !.panel.state = Applied(@, event)])
                                ELSE Ended(s))

TakeKick == panel.phase = "open" /\ wire.kicked /\ Become(Ended([Now EXCEPT !.wire.kicked = FALSE]))

-----------------------------------------------------------------------------
(* niri, and a machine that sleeps.                                        *)

\* A line goes to whoever listens; into a socket that sleep has cut it goes unread, and one
\* that the panel's niri-ipc does not know is a line it cannot read.
Tell(s, event) ==
    IF s.wire.open /\ s.wire.told /\ ~s.wire.silent
    THEN [s EXCEPT !.wire.lines = Append(@, event)] ELSE s

\* EventStream answered, and everything told.
Answer ==
    /\ panel.phase = "shaking" /\ wire.open /\ ~wire.told /\ ~wire.silent
    /\ Become([Now EXCEPT
          !.wire.told = TRUE,
          !.wire.lines = @ \o
             <<[what |-> "handled"], [what |-> "workspaces", ids |-> world.ids, active |-> world.active, urgent |-> world.urgent],
               [what |-> "windows", ids |-> world.windows],
               [what |-> "layouts", layout |-> world.layout]>>])

Spare(what) == what \in Does /\ world.moves < MaxMoves /\ world.up
Did(s) == [s EXCEPT !.world.moves = @ + 1]

Focused(s, id) ==
    IF id \in s.world.ids /\ id # s.world.active
    THEN Tell([s EXCEPT !.world.active = id], [what |-> "activated", id |-> id]) ELSE s
Listed(s, ids, active) ==
    Tell([s EXCEPT !.world.ids = ids, !.world.active = active, !.world.urgent = @ \cap ids],
         [what |-> "workspaces", ids |-> ids, active |-> active, urgent |-> s.world.urgent \cap ids])

Focuses == \E id \in world.ids \ {world.active} : Spare("focus") /\ Become(Focused(Did(Now), id))
Appears == \E id \in Ids \ world.ids : Spare("list") /\ Become(Listed(Did(Now), world.ids \cup {id}, id))
Goes ==
    \E id \in world.ids \ (Named \cup world.windows) : \E next \in world.ids \ {id} :
        Spare("list") /\ Become(Listed(Did(Now), world.ids \ {id}, next))
Opens ==
    \E id \in world.ids \ world.windows :
        /\ Spare("window")
        /\ Become(Tell([Did(Now) EXCEPT !.world.windows = @ \cup {id}], [what |-> "opened", id |-> id]))
Closes ==
    \E id \in world.windows :
        /\ Spare("window")
        /\ Become(Tell([Did(Now) EXCEPT !.world.windows = @ \ {id}], [what |-> "closed", id |-> id]))
Urges ==
    \E id \in world.ids :
        LET on == id \notin world.urgent IN
        /\ Spare("urgent")
        /\ Become(Tell([Did(Now) EXCEPT !.world.urgent = IF on THEN @ \cup {id} ELSE @ \ {id}],
                       [what |-> "urgency", id |-> id, on |-> on]))
Switches ==
    /\ Spare("layout")
    /\ LET next == 1 - world.layout
       IN  Become(Tell([Did(Now) EXCEPT !.world.layout = next], [what |-> "switched", layout |-> next]))
\* A change told in words the panel's library has not learnt.
Garbles ==
    \E id \in Ids \ world.ids :
        /\ Spare("garble")
        /\ Become(Tell([Did(Now) EXCEPT !.world.ids = @ \cup {id}, !.world.active = id], [what |-> "unreadable"]))

\* niri starts over, with nothing but what is named.
Dies ==
    /\ Spare("restart")
    /\ Become([Did(Now) EXCEPT !.world.up = FALSE, !.wire.told = FALSE,
                 !.wire.lines = IF wire.open /\ ~wire.silent THEN Append(@, [what |-> "end"]) ELSE @])
Starts ==
    /\ ~world.up
    /\ \E first \in Named :
          Become([Now EXCEPT !.world.up = TRUE, !.world.ids = Named, !.world.active = first,
                             !.world.windows = {}, !.world.urgent = {}, !.world.layout = 0])

\* The socket stays open and nothing comes of it any more; on resume the task is kicked
\* (health_check), unless it is to be already.
Sleeps ==
    /\ Spare("sleep") /\ panel.phase \in {"open"} \cup (IF "early" \in Does THEN {"shaking"} ELSE {})
    /\ Become([Did(Now) EXCEPT !.wire.silent = TRUE, !.world.asleep = TRUE, !.wire.told = FALSE])
Resumes ==
    /\ world.asleep
    /\ Become([Now EXCEPT !.world.asleep = FALSE, !.wire.kicked = TRUE])

\* FocusWorkspace, which a workspace that has gone does not take.
Serves ==
    \E id \in wire.asked :
        Become(LET s == [Now EXCEPT !.wire.asked = @ \ {id}] IN IF world.up THEN Focused(s, id) ELSE s)

-----------------------------------------------------------------------------
(* The strip, in pixels.  A run of an animation is at 0, half way or over. *)

DOT_SIZE == 8
SLOT_GAP == 8
ACTIVE_DELTA == 2 * DOT_SIZE
Over == 2

\* slot_rects, total_width
SlotRects(ids, active) ==
    [i \in ids |->
       LET before == {j \in ids : j < i} IN
       [x |-> Cardinality(before) * (DOT_SIZE + SLOT_GAP) + (IF active \in before THEN ACTIVE_DELTA ELSE 0),
        width |-> DOT_SIZE + (IF i = active THEN ACTIVE_DELTA ELSE 0)]]
TotalWidth(ids) ==
    IF ids = {} THEN 0 ELSE Cardinality(ids) * DOT_SIZE + ACTIVE_DELTA + SLOT_GAP * (Cardinality(ids) - 1)

\* lerp_rects, current_rects: where the two layouts differ in a slot, the slots are the same.
Lerp(from, to, progress) == from + ((to - from) * progress) \div Over
\* Mutant: a slot is as wide as it will be, while it is still on its way.
CurrentRects_Grown(strip) ==
    LET to == SlotRects(strip.slots, strip.pill) IN
    [i \in DOMAIN to |-> [x |-> Lerp(strip.from[i].x, to[i].x, strip.progress), width |-> to[i].width]]
CurrentRects(strip) ==
    LET to == SlotRects(strip.slots, strip.pill) IN
    [i \in DOMAIN to |-> [x |-> Lerp(strip.from[i].x, to[i].x, strip.progress),
                          width |-> Lerp(strip.from[i].width, to[i].width, strip.progress)]]

\* How large snapshot paints a slot, in halves: one that is new grows, one that is urgent swells.
Size(strip, id) == IF id \in strip.fresh THEN strip.runs.appear ELSE Over
Swells(strip, id) == id \in strip.urgent /\ strip.runs.pulse \notin {0, Over}

\* What nothing reads again is forgotten: where a slide that is over began, what was new.
Tidy(strip) ==
    [strip EXCEPT !.from  = IF strip.progress = Over THEN SlotRects(strip.slots, strip.pill) ELSE @,
                  !.fresh = IF strip.runs.appear = Over THEN {} ELSE @]

\* set_slots: a set that changes snaps into place, and its new slots grow unless they are the
\* first; otherwise the pill slides from where it is.  Animation::start, without motion, ends
\* at once.
Started == IF "motion" \in Does THEN 0 ELSE Over
SetSlots(strip, ids, active, urgent) ==
    LET structural == ids # strip.slots
        fresh == IF structural /\ strip.slots # {} THEN ids \ strip.slots ELSE {}
        target == SlotRects(ids, active)
        settled == target = SlotRects(strip.slots, strip.pill) /\ strip.progress = Over
        slides == ~structural /\ ~settled
    IN  Tidy([strip EXCEPT
          !.slots = ids, !.pill = active, !.urgent = urgent, !.fresh = fresh,
          !.from = IF structural THEN target ELSE CurrentRects(strip),
          !.progress = IF structural THEN Over ELSE IF slides THEN Started ELSE @,
          !.runs.transfer = IF slides THEN Started ELSE @,
          !.runs.appear = IF fresh # {} THEN Started ELSE @,
          !.runs.pulse = IF urgent # {} /\ strip.urgent = {} THEN Started ELSE @])

\* A frame: each run there is goes on, some by nothing.
Frame ==
    \E runs \in [{"transfer", "appear", "pulse"} -> 0..Over] :
        /\ runs # panel.runs /\ \A r \in DOMAIN runs : runs[r] >= panel.runs[r]
        /\ Become([Now EXCEPT !.panel = Tidy([panel EXCEPT
              !.runs = runs,
              !.progress = IF panel.runs.transfer = Over THEN panel.progress ELSE runs.transfer])])
Moving == \E r \in DOMAIN panel.runs : panel.runs[r] # Over

\* hit_test: the slot the point is on, or the one whose edge is nearest, the first of two.
HitTest(rects, x) ==
    LET Distance(i) == Highest({rects[i].x - x, x - (rects[i].x + rects[i].width), 0}) IN
    {i \in DOMAIN rects : \A j \in DOMAIN rects \ {i} :
        Distance(i) < Distance(j) \/ (Distance(i) = Distance(j) /\ i < j)}
Points == {p \in 0..TotalWidth(Ids) : p % (SLOT_GAP \div 2) = 0}

\* ScrollAccumulator::feed, in halves of a step; step_target, which stops at the ends.
SCROLL_STEP == 2
Truncated(pending) == IF pending < 0 THEN -((-pending) \div SCROLL_STEP) ELSE pending \div SCROLL_STEP
StepTarget(steps) ==
    LET Place(i) == Cardinality({j \in panel.slots : j <= i})
        to == AtLeast(1, AtMost(Cardinality(panel.slots), Place(panel.pill) + steps))
    IN  {i \in panel.slots \ {panel.pill} : panel.pill \in panel.slots /\ Place(i) = to}

-----------------------------------------------------------------------------
(* The widgets.                                                            *)

\* "Dim rather than empty."
DrawStrip ==
    /\ panel.stripDue
    /\ LET shown == panel.workspaces IN
       Become([Now EXCEPT !.panel = [SetSlots(@, Slots(shown), shown.active, shown.urgent)
                                       EXCEPT !.stripDue = FALSE, !.dim = ~shown.connected]])

\* One layout is not a choice; none is not one either.
DrawLayout ==
    /\ panel.layoutDue
    /\ Become([Now EXCEPT !.panel.layoutDue = FALSE, !.panel.text = panel.layout.layout])

\* focus: what is asked for is a workspace by its id.
Ask(s, ids) == [s EXCEPT !.wire.asked = @ \cup ids, !.world.clicks = @ + 1]
Used(what) == what \in Does /\ world.clicks < MaxClicks

\* install_click: the slot that is drawn there, wherever the pill is on its way.
Click ==
    \E x \in Points : \E id \in HitTest(CurrentRects(panel), x) \ {panel.pill} :
        Used("click") /\ Become(Ask(Now, {id}))

\* install_scroll: the slot so many steps from the pill.
Scroll ==
    \E delta \in {-SCROLL_STEP, -1, 1, SCROLL_STEP} :
        LET pending == panel.scroll.pending + delta
            steps == IF panel.scroll.pooling THEN 0 ELSE Truncated(pending)
        IN  /\ Used("scroll")
            /\ Become(Ask([Now EXCEPT !.panel.scroll = [pending |-> pending - steps * SCROLL_STEP,
                                                        pooling |-> @.pooling \/ steps # 0]],
                          StepTarget(steps)))
\* SCROLL_DEBOUNCE after the last step: nothing runs, the next delta is not pooled.
WindowEnds == panel.scroll.pooling /\ Become([Now EXCEPT !.panel.scroll.pooling = FALSE])

-----------------------------------------------------------------------------

Init ==
    /\ panel = [phase |-> "waiting", state |-> Nothing,
                workspaces |-> Workspaces(Nothing, FALSE), layout |-> Layout(Nothing, FALSE),
                stripDue |-> TRUE, layoutDue |-> TRUE, dim |-> FALSE, text |-> NoOne,
                slots |-> {}, pill |-> NoOne, urgent |-> {}, fresh |-> {}, from |-> SlotRects({}, NoOne),
                progress |-> Over, runs |-> [r \in {"transfer", "appear", "pulse"} |-> Over],
                scroll |-> [pending |-> 0, pooling |-> FALSE]]
    /\ world \in {[up |-> TRUE, ids |-> Named, active |-> a, windows |-> {}, urgent |-> {}, layout |-> 0,
                   asleep |-> FALSE, moves |-> 0, clicks |-> 0] : a \in Named}
    /\ wire = [open |-> FALSE, told |-> FALSE, silent |-> FALSE, lines |-> <<>>, kicked |-> FALSE, asked |-> {}]

Turn == Connect \/ TakeHandshake \/ TakeLine \/ TakeKick
Server == Answer \/ Starts \/ Resumes \/ Serves
Loop == DrawStrip \/ DrawLayout \/ Frame

TurnDue ==
    \/ panel.phase = "waiting"
    \/ panel.phase \in {"shaking", "open"} /\ wire.lines # <<>>
    \/ panel.phase = "open" /\ wire.kicked
ServerDue ==
    \/ panel.phase = "shaking" /\ wire.open /\ ~wire.told /\ ~wire.silent
    \/ ~world.up \/ world.asleep \/ wire.asked # {}
LoopDue == panel.stripDue \/ panel.layoutDue \/ Moving

Next ==
    \/ Turn \/ Server \/ Loop
    \/ Focuses \/ Appears \/ Goes \/ Opens \/ Closes \/ Urges \/ Switches \/ Garbles \/ Dies \/ Sleeps
    \/ Click \/ Scroll \/ WindowEnds

Spec == Init /\ [][Next]_vars /\ WF_vars(Turn) /\ WF_vars(Server) /\ WF_vars(Loop)

-----------------------------------------------------------------------------
(* Properties.                                                             *)

Rest == ~TurnDue /\ ~ServerDue /\ ~LoopDue

Real == [ids |-> world.ids, active |-> world.active, windows |-> world.windows,
         urgent |-> world.urgent, layout |-> world.layout]

\* At rest the strip and the label show niri as it is, whatever restarts, sleeps, lines that
\* crossed a connection and kicks came on the way; and the pill is where it belongs, every
\* slot whole, whatever changed in the middle of a slide.
QuietIsCurrent ==
    Rest =>
        /\ panel.slots = Slots(Workspaces(Real, TRUE)) /\ panel.pill = world.active
        /\ ~panel.dim /\ panel.text = world.layout
        /\ CurrentRects(panel) = SlotRects(panel.slots, panel.pill)
        /\ \A i \in panel.slots : Size(panel, i) = Over /\ ~Swells(panel, i)

\* In the middle of a slide too, one that was turned aside included, the row is as wide as it
\* is at rest and its slots stand a gap apart: a click has one slot to mean.
RowHolds ==
    LET rects == CurrentRects(panel) IN
    panel.pill \in panel.slots =>
        /\ \A i \in panel.slots : LET before == {j \in panel.slots : j < i} IN
              rects[i].x = IF before = {} THEN 0
                           ELSE rects[Highest(before)].x + rects[Highest(before)].width + SLOT_GAP
        /\ LET last == rects[Highest(panel.slots)] IN last.x + last.width = TotalWidth(panel.slots)

\* A delta of the wheel moves the pill by one step at most.
OneStepTaken ==
    panel'.scroll # panel.scroll =>
        \A id \in wire'.asked \ wire.asked :
            {i \in panel.slots : (id < i /\ i < panel.pill) \/ (panel.pill < i /\ i < id)} = {}

\* No whole step is kept for a delta of later.
PoolIsSpent == panel.scroll.pooling \/ Truncated(panel.scroll.pending) = 0

\* A silent socket is found out, a lost connection made again.
Cut == world.up /\ (wire.silent \/ panel.phase # "open")
=============================================================================

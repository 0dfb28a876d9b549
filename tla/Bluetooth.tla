----------------------------- MODULE Bluetooth -----------------------------
(***************************************************************************)
(* The Bluetooth service: the task that re-reads BlueZ's tree whenever it  *)
(* moves, the discovery burst behind the device list, pairings that run    *)
(* beside the task, and the questions BlueZ asks through its agent.        *)
(*                                                                         *)
(* Handlers are functions on the whole state, as in module Network.  Two   *)
(* calls take long enough for the world to move while the loop waits for   *)
(* them: the radio switch and a device's Connect (panel.busy).  Commands   *)
(* are sent on tasks of their own and arrive in any order (wire.sent).     *)
(***************************************************************************)
EXTENDS Integers, SequencesExt, FiniteSetsExt

CONSTANTS
    Devices,     \* numbered in the order of their names
    Paired,      \* those paired from the start
    Named,       \* those that have told BlueZ a name
    NoOne,
    MaxMoves,    \* what BlueZ and the devices do unasked
    MaxAsks,     \* questions put to the agent
    MaxClicks    \* what the user does

VARIABLES
    panel,   \* the task's World, and the list and pairing box that draw it
    world,   \* BlueZ and the devices
    wire     \* the "tree moved" flag, agent messages, commands, questions

vars == <<panel, world, wire>>
Now == [panel |-> panel, world |-> world, wire |-> wire]
Become(s) == \E t \in {s} : panel' = t.panel /\ world' = t.world /\ wire' = t.wire

-----------------------------------------------------------------------------
(* The list.                                                               *)

Row(d, w, held) == [dev |-> d, paired |-> d \in w.paired, connected |-> d \in w.connected,
                    pending |-> held = d]

\* order: connected, then paired, then found; by name within each.
Before(a, b) ==
    IF a.connected # b.connected THEN a.connected
    ELSE IF a.paired # b.paired THEN a.paired
    ELSE a.dev < b.dev

\* listed, and the row that is being paired, which keeps its place.
Listed(p, w) ==
    {d \in w.there : d \in w.paired \/ ((p.browsing \/ p.pending = d) /\ d \in Named)}

Rows(p, w) == SetToSortSeq({Row(d, w, p.pending) : d \in Listed(p, w)}, Before)

Shown(p) == [available |-> p.available, powered |-> p.powered, powering |-> p.powering,
             browsing |-> p.browsing, scanning |-> p.scanning, rows |-> p.rows,
             prompt |-> p.prompt]

Publish(s) == CHOOSE r \in {[t EXCEPT !.panel.last = Shown(t.panel)] : t \in {s}} : TRUE

MarkPending(s) ==
    [s EXCEPT !.panel.rows =
        [i \in DOMAIN @ |-> [@[i] EXCEPT !.pending = s.panel.pending = s.panel.rows[i].dev]]]

\* read_tree.  BlueZ that is not there takes everything with it but the
\* question, the pairing and whether the list is open.
ReadTree(s) ==
    LET p == s.panel
        w == s.world
        here == w.up /\ w.adapter
        on == here /\ w.powered
    IN  [s EXCEPT !.panel.available = here, !.panel.powered = on,
                  !.panel.scanning = @ /\ on, !.panel.deadline = @ /\ on,
                  !.panel.rows = IF here THEN Rows(p, w) ELSE <<>>]

-----------------------------------------------------------------------------
(* Questions.                                                              *)

Answer(s, ask, answer, seen) ==
    IF ask # 0 /\ s.wire.asks[ask].answer = "waiting"
    THEN [s EXCEPT !.wire.asks[ask].answer = answer, !.wire.asks[ask].seen = seen]
    ELSE s

\* Dropping the sender is how a question hears that its row went away.
DropAnswer(s) == [Answer(s, s.panel.answer, "gone", 0) EXCEPT !.panel.answer = 0]

ClearPrompt(s) == [DropAnswer(s) EXCEPT !.panel.prompt = NoOne]

Ask(s, id) ==
    LET q == s.wire.asks[id] IN
    [DropAnswer(s) EXCEPT !.panel.prompt = [dev |-> q.dev, kind |-> q.kind, ask |-> id],
                          !.panel.answer = IF q.kind = "display" THEN 0 ELSE id]

Message(s, m) == Publish(IF m = 0 THEN ClearPrompt(s) ELSE Ask(s, m))

\* A code to type elsewhere goes once the device it was for is paired.
SettlePrompt(s) ==
    LET p == s.panel.prompt
        paired == {s.panel.rows[i].dev : i \in {j \in DOMAIN s.panel.rows : s.panel.rows[j].paired}}
    IN  IF p # NoOne /\ p.kind = "display" /\ p.dev \in paired THEN ClearPrompt(s) ELSE s

AnswerPrompt(s, c) ==
    IF s.panel.answer = 0 THEN s
    ELSE [Answer(s, s.panel.answer, IF c.on THEN "yes" ELSE "no", c.of)
            EXCEPT !.panel.answer = 0, !.panel.prompt = NoOne]

-----------------------------------------------------------------------------
(* Discovery.                                                              *)

\* Refused is the usual answer when the session is already gone.
StopScanning(s) ==
    LET off == [s EXCEPT !.panel.deadline = FALSE, !.panel.scanning = FALSE]
    IN  IF s.panel.scanning /\ s.world.discovering
        THEN [off EXCEPT !.world.discovering = FALSE, !.wire.moved = TRUE]
        ELSE off

SetDiscovery(s, on) ==
    LET wanted == on /\ s.panel.powered
        open == [s EXCEPT !.panel.browsing = on]
        can == s.world.up /\ s.world.adapter /\ s.world.powered
    IN  IF s.panel.browsing = on /\ s.panel.scanning = wanted THEN s
        ELSE IF ~wanted THEN ReadTree(StopScanning(open))
        ELSE IF ~can THEN open
        ELSE ReadTree([open EXCEPT !.world.discovering = TRUE, !.wire.moved = TRUE,
                                   !.panel.scanning = TRUE, !.panel.deadline = TRUE])

-----------------------------------------------------------------------------
(* Radio, connections and pairings.                                        *)

\* The loop waits for these two; what they ask is asked in PowerAnswers and
\* ConnectAnswers.
SetPowered(s, on) ==
    IF ~s.panel.available THEN Publish(s)
    ELSE Publish([s EXCEPT !.panel.powering = TRUE, !.panel.busy = [do |-> "power", on |-> on]])

SetConnected(s, d, up) ==
    IF s.panel.pending # NoOne THEN Publish(s)
    ELSE Publish(MarkPending([s EXCEPT !.panel.pending = d,
                                       !.panel.busy = [do |-> "connect", of |-> d, up |-> up]]))

PairPrecondition(s, d) ==
    /\ s.panel.powered /\ s.panel.pending = NoOne
    /\ \A i \in DOMAIN s.panel.rows : ~(s.panel.rows[i].dev = d /\ s.panel.rows[i].paired)

\* begin_pair: the chain itself runs beside the loop.
BeginPair(s, d) ==
    IF ~PairPrecondition(s, d) THEN s
    ELSE Publish(MarkPending([StopScanning(s) EXCEPT !.panel.pending = d,
                                !.wire.pairing = [dev |-> d, stage |-> "calling", ask |-> 0]]))

\* A mutant: only a pairing that succeeded frees the row.
SettlePair_OnlyIfPaired(s, d) ==
    Publish(ReadTree(IF d \in s.world.paired THEN [s EXCEPT !.panel.pending = NoOne] ELSE s))

SettlePair(s, d) ==
    LET a == IF s.panel.pending = d THEN [s EXCEPT !.panel.pending = NoOne] ELSE s
    IN  Publish(ReadTree(a))

OnCommand(s, c) ==
    CASE c.do = "power"    -> SetPowered(s, c.on)
      [] c.do = "connect"  -> SetConnected(s, c.of, c.on)
      [] c.do = "pair"     -> BeginPair(s, c.of)
      [] c.do = "discover" -> Publish(SetDiscovery(s, c.on))
      [] c.do = "answer"   -> Publish(AnswerPrompt(s, c))

-----------------------------------------------------------------------------
(* The task's loop: nothing below happens while it waits for BlueZ.        *)

Idle == panel.busy = NoOne

TakeCommand ==
    /\ Idle
    /\ \E c \in wire.sent : Become(OnCommand([Now EXCEPT !.wire.sent = @ \ {c}], c))

TreeMoved ==
    /\ Idle /\ wire.moved
    /\ Become(Publish(SettlePrompt(ReadTree([Now EXCEPT !.wire.moved = FALSE]))))

TakeMessage ==
    /\ Idle /\ wire.messages # <<>>
    /\ Become(Message([Now EXCEPT !.wire.messages = Tail(@)], Head(wire.messages)))

TakePaired ==
    /\ Idle /\ wire.pairing # NoOne /\ wire.pairing.stage = "finished"
    /\ Become(SettlePair([Now EXCEPT !.wire.pairing = NoOne], wire.pairing.dev))

PromptExpires == Idle /\ panel.prompt # NoOne /\ Become(Publish(ClearPrompt(Now)))
ScanExpires == Idle /\ panel.deadline /\ Become(Publish(StopScanning(Now)))

-----------------------------------------------------------------------------
(* BlueZ, after bluetooth/fake.rs.                                         *)

Moved(s) == [s EXCEPT !.wire.moved = TRUE]
Reachable(d) == world.up /\ world.adapter /\ d \in world.there

\* A radio that goes off takes the discovery session with it.
Powered(s, on) ==
    Moved([s EXCEPT !.world.powered = on, !.world.discovering = @ /\ on])

PowerAnswers ==
    /\ ~Idle /\ panel.busy.do = "power"
    /\ LET back == [Now EXCEPT !.panel.busy = NoOne, !.panel.powering = FALSE]
       IN  \/ Become(Publish(back))     \* refused
           \/ /\ world.up /\ world.adapter
              /\ Become(Publish(ReadTree(Powered(back, panel.busy.on))))

ConnectAnswers ==
    /\ ~Idle /\ panel.busy.do = "connect"
    /\ LET d == panel.busy.of
           back == [Now EXCEPT !.panel.busy = NoOne, !.panel.pending = NoOne]
       IN  \/ panel.busy.up /\ Become(Publish(ReadTree(back)))   \* did not answer
           \/ ~Reachable(d) /\ Become(Publish(ReadTree(back)))
           \/ /\ Reachable(d)
              /\ Become(Publish(ReadTree(Moved([back EXCEPT !.world.connected =
                     IF panel.busy.up THEN @ \cup {d} ELSE @ \ {d}]))))

Waiting(a) == a \in DOMAIN wire.asks /\ wire.asks[a].answer = "waiting"
CanAsk == world.up /\ world.agent /\ Len(wire.asks) < MaxAsks

\* ask, and show for a code that wants no answer.
AskAgent(s, d, kind) ==
    LET id == Len(s.wire.asks) + 1 IN
    [s EXCEPT !.wire.asks = Append(@, [dev |-> d, kind |-> kind, seen |-> 0,
                  answer |-> IF kind = "display" THEN "shown" ELSE "waiting"]),
              !.wire.messages = Append(@, id)]

\* pair_and_connect, one call at a time: Pair asks the agent first, ...
PairCalls ==
    /\ wire.pairing # NoOne /\ wire.pairing.stage = "calling"
    /\ \/ /\ CanAsk /\ Reachable(wire.pairing.dev)
          /\ Become([AskAgent(Now, wire.pairing.dev, "confirm") EXCEPT
                       !.wire.pairing.stage = "asking", !.wire.pairing.ask = Len(wire.asks) + 1])
       \/ Become([Now EXCEPT !.wire.pairing.stage = "finished"])

\* ... and answers when it has; then the device is trusted, and connected if it will.
PairAnswers ==
    /\ wire.pairing # NoOne /\ wire.pairing.stage = "asking" /\ ~Waiting(wire.pairing.ask)
    /\ LET d == wire.pairing.dev
           over == [Now EXCEPT !.wire.pairing.stage = "finished"]
       IN  IF wire.asks[wire.pairing.ask].answer # "yes" \/ ~Reachable(d) THEN Become(over)
           ELSE \E comes \in BOOLEAN :
                  Become(Moved([over EXCEPT !.world.paired = @ \cup {d},
                                            !.world.connected = IF comes THEN @ \cup {d} ELSE @]))

\* The agent's own limit on a question.
AgentGivesUp(a) == Waiting(a) /\ Become(Answer(Now, a, "gone", 0))

Spare == world.moves < MaxMoves
Did(s) == [s EXCEPT !.world.moves = @ + 1]

\* A device's own pairing, a code shown, and BlueZ's second thoughts.
TriggerConfirmation ==
    /\ Spare /\ CanAsk
    /\ \E d \in Devices, kind \in {"confirm", "display"} :
          Reachable(d) /\ d \notin world.paired /\ Become(AskAgent(Did(Now), d, kind))

Cancel ==
    /\ Spare /\ \E a \in DOMAIN wire.asks : Waiting(a)
    /\ LET a == CHOOSE x \in DOMAIN wire.asks : Waiting(x)
       IN  Become([Did(Answer(Now, a, "gone", 0)) EXCEPT !.wire.messages = Append(@, 0)])

Elsewhere ==
    /\ Spare /\ world.up
    /\ \/ Become(Powered(Did(Now), ~world.powered))
       \/ Become(Moved([Did(Now) EXCEPT !.world.adapter = ~@, !.world.discovering = FALSE]))
       \/ \E d \in Devices :
            \/ d \notin world.there /\ Become(Moved([Did(Now) EXCEPT !.world.there = @ \cup {d}]))
            \/ /\ d \in world.there
               /\ Become(Moved([Did(Now) EXCEPT !.world.there = @ \ {d}, !.world.paired = @ \ {d},
                                                !.world.connected = @ \ {d}]))
            \/ /\ d \in world.there
               /\ Become(Moved([Did(Now) EXCEPT !.world.connected =
                                  IF d \in @ THEN @ \ {d} ELSE @ \cup {d}]))

\* BlueZ restarts: its questions, its sessions and its agents are gone.
Restart ==
    /\ Spare
    /\ IF world.up
       THEN Become(Did([Now EXCEPT !.world.up = FALSE, !.world.discovering = FALSE,
                          !.world.agent = FALSE, !.world.connected = {},
                          !.wire.asks = [a \in DOMAIN @ |->
                              IF Waiting(a) THEN [@[a] EXCEPT !.answer = "gone"] ELSE @[a]]]))
       ELSE Become(Moved([Now EXCEPT !.world.up = TRUE]))

-----------------------------------------------------------------------------
(* The user, the device list and the pairing box.                          *)

\* of: a device, or the question the box showed when its button was pressed.
Send(s, c) == [s EXCEPT !.wire.sent = @ \cup {c}]

\* sync_discovery: after every change of the accordion, and every snapshot.
SyncDiscovery(s) ==
    LET wanted == s.panel.open /\ s.panel.last.powered
    IN  IF s.panel.discovering = wanted THEN s
        ELSE Send([s EXCEPT !.panel.discovering = wanted], [do |-> "discover", of |-> 0, on |-> wanted])

Draw ==
    /\ panel.drawn # panel.last
    /\ Become(SyncDiscovery([Now EXCEPT !.panel.drawn = panel.last]))

ToggleList ==
    /\ world.clicks < MaxClicks
    /\ Become(SyncDiscovery([Now EXCEPT !.panel.open = ~@, !.world.clicks = @ + 1]))

\* A paired row's switch connects; a found row pairs, as a whole.
Live(r) == panel.drawn.powered /\ ~r.pending
RowClicks == {[do |-> IF r.paired THEN "connect" ELSE "pair", of |-> r.dev, on |-> ~r.connected] :
                r \in {x \in Range(panel.drawn.rows) : panel.open /\ Live(x)}}

\* The pairing box has buttons under a question that can be answered.
BoxClicks == {[do |-> "answer", of |-> p.ask, on |-> y] :
                y \in BOOLEAN, p \in {q \in {panel.drawn.prompt} : q # NoOne /\ q.kind # "display"}}

PillClicks == IF panel.last.available /\ ~panel.last.powering
              THEN {[do |-> "power", of |-> 0, on |-> ~panel.last.powered]} ELSE {}

Click ==
    /\ world.clicks < MaxClicks
    /\ \E c \in RowClicks \cup BoxClicks \cup PillClicks :
          Become(Send([Now EXCEPT !.world.clicks = @ + 1], c))

-----------------------------------------------------------------------------

Init ==
    LET w == [up |-> TRUE, adapter |-> TRUE, powered |-> TRUE, discovering |-> FALSE,
              agent |-> TRUE, there |-> Devices, paired |-> Paired, connected |-> {},
              moves |-> 0, clicks |-> 0]
        q == [available |-> TRUE, powered |-> TRUE, powering |-> FALSE, pending |-> NoOne,
              browsing |-> FALSE, scanning |-> FALSE, deadline |-> FALSE, busy |-> NoOne,
              prompt |-> NoOne, answer |-> 0, open |-> FALSE, discovering |-> FALSE]
        p == [f \in DOMAIN q \cup {"rows"} |-> IF f = "rows" THEN Rows(q, w) ELSE q[f]]
    IN  /\ world = w
        /\ panel = [f \in DOMAIN p \cup {"last", "drawn"} |->
                      IF f \in {"last", "drawn"} THEN Shown(p) ELSE p[f]]
        /\ wire = [moved |-> FALSE, messages |-> <<>>, sent |-> {}, asks |-> <<>>,
                   pairing |-> NoOne]

\* When each fair action is enabled, written out.
TurnDue == Idle /\ (\/ wire.sent # {} \/ wire.moved \/ wire.messages # <<>>
                    \/ wire.pairing # NoOne /\ wire.pairing.stage = "finished")
ClockDue == \/ Idle /\ (panel.prompt # NoOne \/ panel.deadline)
            \/ \E a \in DOMAIN wire.asks : Waiting(a)
BlueZDue == \/ ~Idle
            \/ wire.pairing # NoOne
               /\ \/ wire.pairing.stage = "calling"
                  \/ wire.pairing.stage = "asking" /\ ~Waiting(wire.pairing.ask)

Turn == TakeCommand \/ TreeMoved \/ TakeMessage \/ TakePaired
Clock == PromptExpires \/ ScanExpires \/ \E a \in DOMAIN wire.asks : AgentGivesUp(a)
BlueZ == PowerAnswers \/ ConnectAnswers \/ PairCalls \/ PairAnswers

Next ==
    \/ Turn \/ Clock \/ BlueZ
    \/ Draw \/ ToggleList \/ Click
    \/ TriggerConfirmation \/ Cancel \/ Elsewhere \/ Restart

Spec == Init /\ [][Next]_vars /\ WF_vars(Turn) /\ WF_vars(Clock) /\ WF_vars(BlueZ)
-----------------------------------------------------------------------------
(* Properties.                                                             *)

\* While the loop is idle and BlueZ is up with no change unread, the panel shows BlueZ's
\* adapter and devices as they are; the row being paired may keep its old place.
QuietIsCurrent ==
    LET Others(rows) == SelectSeq(rows, LAMBDA r : r.dev # panel.pending) IN
    Idle /\ ~wire.moved /\ world.up =>
        /\ panel.available = world.adapter
        /\ panel.powered = (world.adapter /\ world.powered)
        /\ Others(panel.rows) = IF world.adapter THEN Others(Rows(panel, world)) ELSE <<>>
        /\ panel.last = Shown(panel)

\* The radio never searches without the panel saying so, nor without a deadline.
NobodyLooksUnseen ==
    (world.discovering => panel.scanning) /\ (panel.scanning => panel.deadline)

\* What comes to an end: the radio's search, a prompt, a pairing or connection that keeps
\* every other one waiting, a question BlueZ asked.
Searching == world.discovering
Asking == panel.prompt # NoOne \/ \E a \in DOMAIN wire.asks : Waiting(a)
Busy == panel.pending # NoOne

\* A yes goes to the question the box showed when it was pressed (bluetooth/task.rs:544).
AnswersGoHome == \A a \in DOMAIN wire.asks : wire.asks[a].answer = "yes" => wire.asks[a].seen = a

\* Devices that were found come after those that are paired (bluetooth/model.rs:99).
FoundAreLast ==
    \A i, j \in DOMAIN panel.rows : i < j /\ panel.rows[j].paired => panel.rows[i].paired
=============================================================================

------------------------------ MODULE Battery ------------------------------
(***************************************************************************)
(* The battery: the task that joins the kernel's files with UPower, the    *)
(* charge limit it writes, and the card.  The files win on the limit,      *)
(* UPower fills in the rest; of the files' changes nobody tells.           *)
(*                                                                         *)
(* A limit is a pair of percentages, 0 .. Hundred.                         *)
(***************************************************************************)
EXTENDS Integers, Sequences

CONSTANTS
    Bus,              \* whether there is a system bus
    Files, Writable,  \* whether the kernel has limit files, and the user may write them
    Supported,        \* whether UPower can limit the charge
    FULL_PRESET, LIMIT_PRESET, Hundred,
    NoOne,
    Does,             \* part of {"set", "charge", "tlp", "fail", "upower", "unplug"}
    MaxMoves, MaxClicks

VARIABLES
    panel,   \* the task, the card
    world,   \* the kernel and UPower
    wire     \* commands and signals

vars == <<panel, world, wire>>
Now == [panel |-> panel, world |-> world, wire |-> wire]
Become(s) == \E t \in {s} : panel' = t.panel /\ world' = t.world /\ wire' = t.wire

\* What the kernel takes: a start below the end.
Takes(pair) == pair[1] < pair[2]
Limited(pair) == pair[2] < Hundred

\* Presets are pairs the kernel takes, and only the full one goes up to the whole.
ConstantsOK ==
    /\ Hundred \in Nat \ {0, 1}
    /\ \A pair \in {FULL_PRESET, LIMIT_PRESET} :
          pair \in Nat \X Nat /\ Takes(pair) /\ pair[2] <= Hundred
    /\ ~Limited(FULL_PRESET) /\ Limited(LIMIT_PRESET)
    /\ NoOne \notin {FULL_PRESET, LIMIT_PRESET, TRUE}

-----------------------------------------------------------------------------
(* model.rs, sysfs.rs                                                      *)

\* validate
Validate(pair) == pair[2] <= Hundred /\ Takes(pair)

\* Mutant: the start is always written first.
OrderedWrites_StartFirst(pair, currentEnd) ==
    <<[file |-> 1, to |-> pair[1]], [file |-> 2, to |-> pair[2]]>>

\* ordered_writes: the end first where the start would meet the old end.
OrderedWrites(pair, currentEnd) ==
    IF pair[1] >= currentEnd THEN <<[file |-> 2, to |-> pair[2]], [file |-> 1, to |-> pair[1]]>>
    ELSE <<[file |-> 1, to |-> pair[1]], [file |-> 2, to |-> pair[2]]>>

\* BatteryState::default, can_set_thresholds
Nothing == [available |-> FALSE, charge |-> NoOne, limit |-> NoOne, writable |-> FALSE, upower |-> FALSE]
CanSet(state) == (state.limit # NoOne /\ state.writable) \/ state.upower

-----------------------------------------------------------------------------
(* task.rs: one question at a time, and everything read again after it.    *)

\* read, the kernel's half.
Kernel(w) ==
    [Nothing EXCEPT !.available = w.battery,
                    !.limit = IF w.battery /\ Files THEN w.limit ELSE NoOne,
                    !.writable = w.battery /\ Files /\ Writable]

\* read, UPower's: what stands on the bus is asked, whether it answers or not.
Joined(w, k, probed) ==
    LET a == IF ~Bus THEN k
             ELSE IF w.upower /\ w.battery THEN [k EXCEPT !.available = TRUE, !.charge = w.charge]
             ELSE [k EXCEPT !.available = FALSE]
    IN  IF ~probed THEN a
        ELSE [a EXCEPT !.upower = w.upower /\ Supported,
                       !.limit = IF @ = NoOne /\ w.upower /\ w.battery THEN w.limit ELSE @]

\* publish, and the answer to whoever asked.
Publish(s, next) ==
    LET t == [s EXCEPT !.panel.doing = "nothing", !.panel.read = NoOne, !.panel.asked = NoOne,
                       !.panel.answer = IF s.panel.asked = NoOne THEN @ ELSE s.panel.pending]
    IN  IF next = s.panel.state THEN t ELSE [t EXCEPT !.panel.state = next, !.panel.due = TRUE]

Reads(s) == [s EXCEPT !.panel.doing = "kernel"]
Settled(s, ok) == [Reads(s) EXCEPT !.panel.pending = ok, !.panel.writes = <<>>]

\* apply_thresholds: the files first, ...
TakeCommand ==
    /\ panel.doing = "nothing"
    /\ \E c \in wire.sent :
          LET s == [Now EXCEPT !.wire.sent = @ \ {c}, !.panel.asked = c.pair, !.world.asked = c.pair] IN
          Become(IF ~Validate(c.pair) THEN Settled(s, FALSE)
                 ELSE IF world.battery /\ Files /\ Writable
                      THEN [s EXCEPT !.panel.doing = "write",
                                     !.panel.writes = OrderedWrites(c.pair, world.limit[2])]
                 ELSE [s EXCEPT !.panel.doing = "upower"])

\* write_thresholds: the first write that is refused ends it.
WriteFile ==
    /\ panel.doing = "write"
    /\ LET w == Head(panel.writes)
           new == [world.limit EXCEPT ![w.file] = w.to]
           done == [Now EXCEPT !.world.limit = new, !.panel.writes = Tail(@)]
           refused == [Now EXCEPT !.panel.doing = "upower", !.panel.writes = <<>>]
       IN  \/ Become(IF ~world.battery \/ ~Takes(new) THEN refused
                     ELSE IF Len(panel.writes) > 1 THEN done ELSE Settled(done, TRUE))
           \/ "fail" \in Does /\ world.moves < MaxMoves
              /\ Become([refused EXCEPT !.world.moves = @ + 1, !.world.touched = @ \cup {"fail"}])

\* ... UPower second, which has numbers of its own.
AskUpower ==
    /\ panel.doing = "upower"
    /\ Become(IF ~panel.probed \/ ~world.upower \/ ~Supported THEN Settled(Now, FALSE)
              ELSE Settled([Now EXCEPT !.world.limit = IF Limited(panel.asked) THEN LIMIT_PRESET
                                                       ELSE <<0, Hundred>>], TRUE))

ReadKernel ==
    /\ panel.doing = "kernel"
    /\ Become([Now EXCEPT !.panel.doing = "join", !.panel.read = Kernel(world), !.world.untold = FALSE])
ReadUpower ==
    /\ panel.doing = "join"
    /\ Become(Publish(Now, Joined(world, panel.read, panel.probed)))

\* run: a signal, or the clock.
TakeSignal ==
    /\ panel.doing = "nothing" /\ wire.signal
    /\ Become(Reads([Now EXCEPT !.wire.signal = FALSE]))
Poll == panel.doing = "nothing" /\ Become(Reads(Now))

-----------------------------------------------------------------------------
(* The machine.                                                            *)

Did(s, what) == [s EXCEPT !.world.moves = @ + 1, !.world.touched = @ \cup {what}]
Spare(what) == what \in Does /\ world.moves < MaxMoves
Signalled(s) == IF Bus /\ s.world.upower THEN [s EXCEPT !.wire.signal = TRUE] ELSE s

Charges ==
    \E c \in {0, 1} \ {world.charge} :
        Spare("charge") /\ world.battery /\ Become(Signalled([Did(Now, "charge") EXCEPT !.world.charge = c]))

\* `tlp`, or the firmware's own setup.
Retuned ==
    \E pair \in {FULL_PRESET, LIMIT_PRESET, <<0, 1>>} :
        /\ Spare("tlp") /\ world.battery /\ pair # world.limit
        /\ Become([Did(Now, "tlp") EXCEPT !.world.limit = pair, !.world.untold = TRUE])

\* UPower is started again by the next thing that asks for it, or is not there at all.
Daemon ==
    /\ Spare("upower")
    /\ Become([Did(Now, "upower") EXCEPT !.world.upower = ~@, !.world.untold = TRUE])

\* A battery taken out and put back.
Swapped ==
    /\ Spare("unplug")
    /\ Become(Signalled([Did(Now, "unplug") EXCEPT !.world.battery = ~@, !.world.untold = TRUE]))

-----------------------------------------------------------------------------
(* The card.                                                               *)

\* render
Draw == panel.due /\ Become([Now EXCEPT !.panel.due = FALSE, !.panel.card = panel.state])

Click ==
    \E pair \in {FULL_PRESET, LIMIT_PRESET} :
        /\ "set" \in Does /\ world.clicks < MaxClicks
        /\ panel.card.limit # NoOne \/ panel.card.upower
        /\ CanSet(panel.card)
        /\ Become([Now EXCEPT !.wire.sent = @ \cup {[n |-> world.clicks, pair |-> pair]},
                              !.world.clicks = @ + 1, !.world.touched = @ \cup {"ui"}])

-----------------------------------------------------------------------------

\* display_device and battery_device are looked for once, at the start.
Init ==
    /\ world \in [battery : IF "unplug" \in Does THEN BOOLEAN ELSE {TRUE}, limit : {LIMIT_PRESET},
                  charge : {0}, upower : IF "upower" \in Does THEN BOOLEAN ELSE {TRUE}, untold : {FALSE},
                  asked : {NoOne}, touched : {{}}, moves : {0}, clicks : {0}]
    /\ panel = [doing |-> "kernel", read |-> NoOne, state |-> Nothing, asked |-> NoOne, writes |-> <<>>,
                pending |-> FALSE, answer |-> NoOne, probed |-> Bus /\ world.battery,
                due |-> FALSE, card |-> Nothing]
    /\ wire = [sent |-> {}, signal |-> FALSE]

Turn == TakeCommand \/ WriteFile \/ AskUpower \/ ReadKernel \/ ReadUpower \/ TakeSignal
Loop == Draw

TurnDue == panel.doing # "nothing" \/ wire.sent # {} \/ wire.signal
LoopDue == panel.due
PollDue == panel.doing = "nothing"

Next == Turn \/ Loop \/ Poll \/ Charges \/ Retuned \/ Daemon \/ Swapped \/ Click

Spec == Init /\ [][Next]_vars /\ WF_vars(Turn) /\ WF_vars(Loop) /\ SF_vars(Poll)

-----------------------------------------------------------------------------
(* Properties.                                                             *)

Rest == ~TurnDue /\ ~LoopDue

\* Read and drawn, and with no file changed behind its back since, the card says what the
\* machine does, and not what was asked of it.
QuietIsCurrent ==
    (Rest /\ ~world.untold) =>
        /\ panel.state = Joined(world, Kernel(world), panel.probed)
        /\ panel.card = panel.state

\* What was said to be set is what is set, when nobody else set it since: through the files
\* as it was asked for, through UPower at least the kind of it.
SaidIsDone ==
    (Rest /\ panel.answer = TRUE /\ world.touched \subseteq {"ui", "charge", "fail"}) =>
        /\ Limited(world.limit) = Limited(world.asked)
        /\ (Files /\ Writable /\ "fail" \notin world.touched) => (world.limit = world.asked)

\* The kernel is never asked for a pair it refuses by the order of the two writes alone.
NeverCrossed ==
    (panel.doing = "write" /\ world.battery /\ world.touched \subseteq {"ui", "charge", "fail"}) =>
        Takes([world.limit EXCEPT ![Head(panel.writes).file] = Head(panel.writes).to])

\* A file changed by somebody else is read in the end.
Untold == world.untold

\* "no UPower ...; the battery is read from sysfs alone" (task.rs:232).
ReadFromSysfsAlone == (Rest /\ ~world.untold /\ world.battery) => panel.state.available
=============================================================================

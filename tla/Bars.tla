--------------------------------- MODULE Bars ---------------------------------
(***************************************************************************)
(* One bar per monitor, across hotplug, reloads and `topbar bar`           *)
(* (topbar/src/bar/manager.rs).  Everything here runs on the main loop.    *)
(*                                                                         *)
(* GDK hands out a fresh object each time a monitor is plugged in.  It is  *)
(* listed at once; its connector name and its geometry follow, without a   *)
(* signal on the list.                                                     *)
(***************************************************************************)
EXTENDS Naturals, Sequences, FiniteSets, SequencesExt

CONSTANTS
    Connectors,  \* names of outputs
    Unnamed,     \* the name of a monitor that has none yet
    PlugBound,   \* bounds the monitors ever plugged in
    AskBound     \* bounds the reloads and the visibility commands

ConstantsOK == Unnamed \notin Connectors /\ Connectors \cap Nat = {} /\ PlugBound \in Nat

VARIABLES
    monitors,    \* GDK's list: records of object, output, name and size
    plugged,     \* monitor objects so far
    bars,        \* per key, the object the bar was built on and whether it shows
    pending,     \* a sync is queued on a timer
    waiting,     \* "no", "short" or "long": the wait for half-arrived monitors
    wanted,      \* what the last visibility command made of the bars
    asked        \* reloads and visibility commands so far

vars == <<monitors, plugged, bars, pending, waiting, wanted, asked>>

\* A monitor is ready once it has a name and a size.
IsReady(monitor) == monitor.name # Unnamed /\ monitor.sized

\* The key of the monitor at an index: its name, or the index while it has none.
Key(i) == IF monitors[i].name # Unnamed THEN monitors[i].name ELSE i

NoBars == [key \in {} |-> TRUE]

Init ==
    /\ monitors = <<>> /\ plugged = 0
    /\ bars = NoBars
    /\ pending = FALSE /\ waiting = "no"
    /\ wanted = TRUE /\ asked = 0

-----------------------------------------------------------------------------
(* BarManager::sync.                                                       *)

\* Who is passed over: a half-arrived monitor, until the wait has been long.
Skipped == {i \in DOMAIN monitors : ~IsReady(monitors[i]) /\ waiting # "long"}

\* The bars a sync leaves, starting from some.  Mutant: one for every monitor,
\* arrived or not, and those that left are kept.
Synced_KeepsAll(before) ==
    LET present == {Key(i) : i \in DOMAIN monitors \ Skipped}
    IN  [key \in present \cup DOMAIN before |->
            IF key \in DOMAIN before THEN before[key]
            ELSE LET i == CHOOSE j \in DOMAIN monitors \ Skipped : Key(j) = key
                 IN  [object |-> monitors[i].object, shown |-> TRUE]]

Synced(before) ==
    LET present == {Key(i) : i \in DOMAIN monitors \ Skipped}
    IN  [key \in present |->
            IF key \in DOMAIN before THEN before[key]
            ELSE LET i == CHOOSE j \in DOMAIN monitors \ Skipped : Key(j) = key
                 IN  [object |-> monitors[i].object, shown |-> TRUE]]

\* The wait starts at the first monitor passed over, and ends when none is.
\* Mutant: every sync clears the clock, so that no wait gets long.
Waits_Untimed ==
    /\ waiting' = "no"
    /\ pending' = (Skipped # {})

Waits ==
    /\ waiting' = IF Skipped = {} THEN "no" ELSE IF waiting = "no" THEN "short" ELSE waiting
    /\ pending' = (Skipped # {})

\* The queued sync runs.
SyncFires ==
    /\ pending
    /\ bars' = Synced(bars)
    /\ Waits
    /\ UNCHANGED <<monitors, plugged, wanted, asked>>

\* Five seconds of waiting are over.
WaitIsLong ==
    /\ waiting = "short"
    /\ waiting' = "long"
    /\ UNCHANGED <<monitors, plugged, bars, pending, wanted, asked>>

-----------------------------------------------------------------------------
(* A reload, and `topbar bar show|hide|toggle`.                            *)

AnyShown(set) == \E key \in DOMAIN set : set[key].shown

ShowAll(set, shown) == [key \in DOMAIN set |-> [set[key] EXCEPT !.shown = shown]]

\* rebuild(): every bar is thrown away and made again, and hidden if none showed.
\* Mutant: what was hidden comes back.
Rebuild_Shows ==
    /\ asked < AskBound
    /\ asked' = asked + 1
    /\ bars' = Synced(NoBars)
    /\ waiting' = IF Skipped = {} THEN "no" ELSE IF waiting = "no" THEN "short" ELSE waiting
    /\ pending' = (pending \/ Skipped # {})
    /\ UNCHANGED <<monitors, plugged, wanted>>

Rebuild ==
    /\ asked < AskBound
    /\ asked' = asked + 1
    /\ bars' = IF AnyShown(bars) THEN Synced(NoBars) ELSE ShowAll(Synced(NoBars), FALSE)
    /\ waiting' = IF Skipped = {} THEN "no" ELSE IF waiting = "no" THEN "short" ELSE waiting
    /\ pending' = (pending \/ Skipped # {})
    /\ UNCHANGED <<monitors, plugged, wanted>>

SetBarsVisible(visible) ==
    /\ asked < AskBound
    /\ asked' = asked + 1
    /\ bars' = ShowAll(bars, visible)
    /\ wanted' = visible
    /\ UNCHANGED <<monitors, plugged, pending, waiting>>

Toggle == SetBarsVisible(~AnyShown(bars))

-----------------------------------------------------------------------------
(* Monitors: the list signals queue a sync, what follows does not.         *)

Plug(output) ==
    /\ plugged < PlugBound
    /\ \A i \in DOMAIN monitors : monitors[i].output # output
    /\ plugged' = plugged + 1
    /\ \E named \in BOOLEAN, size \in BOOLEAN :
        monitors' = Append(monitors,
            [object |-> plugged + 1, output |-> output,
             name |-> IF named THEN output ELSE Unnamed, sized |-> size])
    /\ pending' = TRUE
    /\ UNCHANGED <<bars, waiting, wanted, asked>>

Unplug(i) ==
    /\ monitors' = RemoveAt(monitors, i)
    /\ pending' = TRUE
    /\ UNCHANGED <<plugged, bars, waiting, wanted, asked>>

Arrive(i) ==
    /\ ~IsReady(monitors[i])
    /\ monitors' = [monitors EXCEPT ![i].name = monitors[i].output, ![i].sized = TRUE]
    /\ UNCHANGED <<plugged, bars, pending, waiting, wanted, asked>>

Name(i) ==
    /\ monitors[i].name = Unnamed /\ ~monitors[i].sized
    /\ monitors' = [monitors EXCEPT ![i].name = monitors[i].output]
    /\ UNCHANGED <<plugged, bars, pending, waiting, wanted, asked>>

Next ==
    \/ SyncFires \/ WaitIsLong \/ Rebuild \/ Toggle
    \/ \E visible \in BOOLEAN : SetBarsVisible(visible)
    \/ \E output \in Connectors : Plug(output)
    \/ \E i \in DOMAIN monitors : Unplug(i) \/ Arrive(i) \/ Name(i)

\* Both timers are the main loop's own.
Fairness == WF_vars(SyncFires) /\ WF_vars(WaitIsLong)

Spec == Init /\ [][Next]_vars /\ Fairness

-----------------------------------------------------------------------------
(* Properties.                                                             *)

\* Every variable has its type.
TypeOK ==
    /\ monitors \in Seq([object : 1..PlugBound, output : Connectors,
                         name : Connectors \cup {Unnamed}, sized : BOOLEAN])
    /\ plugged \in 0..PlugBound
    /\ DOMAIN bars \subseteq Connectors \cup Nat
    /\ \A key \in DOMAIN bars : bars[key] \in [object : 1..PlugBound, shown : BOOLEAN]
    /\ pending \in BOOLEAN /\ waiting \in {"no", "short", "long"}
    /\ wanted \in BOOLEAN /\ asked \in Nat

\* With no sync queued there are as many bars as monitors, whatever bursts,
\* half-arrivals and reloads came before: none without a bar and no duplicate
\* left by a name that arrived late.
OneBarEach == ~pending => Cardinality(DOMAIN bars) = Len(monitors)

\* The wait is bounded: once monitors stop coming and going the syncs stop, even
\* if one of them never gets a size.
SettlesDown == <>[]~pending

\* "A reload must not put a hidden bar back on screen" (manager.rs:251): a bar that
\* was hidden shows again only after a command asked for bars, or beside others
\* that show.
ReloadKeepsHidden ==
    [][\A key \in DOMAIN bars \cap DOMAIN bars' :
        ~bars[key].shown /\ bars'[key].shown => wanted' \/ AnyShown(bars)]_vars

\* "Bars for monitors that are still present are left untouched"
\* (manager.rs:126): no sync removes the bar of a monitor on the list.
PresentIsUntouched ==
    [][SyncFires => \A i \in DOMAIN monitors :
        Key(i) \in DOMAIN bars => Key(i) \in DOMAIN bars']_vars

\* "A bar nobody can find is worse than one nobody asked for" (manager.rs:282):
\* bars are hidden only after a command that hid them.
HiddenWasAsked == wanted => \A key \in DOMAIN bars : bars[key].shown

\* A burst of changes reconfigures the bars "from the state the display settled
\* in" (manager.rs:307): with no sync queued, each bar is on a listed object.
OnAListedMonitor ==
    ~pending => \A key \in DOMAIN bars :
        \E i \in DOMAIN monitors : monitors[i].object = bars[key].object
=============================================================================

-------------------------------- MODULE Custom --------------------------------
(***************************************************************************)
(* The custom-* widgets: one task per configured widget that is the only   *)
(* thing to start its script (topbar-services/src/custom/task.rs), and the *)
(* registry a reload brings in line with the file (custom/mod.rs).         *)
(*                                                                         *)
(* A reload replaces a task; the old one goes on while the bar still holds *)
(* its handle, and a script it started outlives it.  Tasks are numbered.   *)
(***************************************************************************)
EXTENDS Naturals, FiniteSets

CONSTANTS
    Configs,     \* sections, told apart by what a task does with them
    None,
    Repeats,     \* the sections with an interval; the others run once
    NeedsNet,    \* the sections with requires_network
    Labelled,    \* the sections with a label to show when the script says nothing
    TaskBound,   \* bounds the tasks ever spawned
    ChangeBound  \* bounds network changes and manual refreshes

\* What a task owns.
Task == [config : Configs, text : BOOLEAN, good : BOOLEAN, loading : BOOLEAN,
         due : BOOLEAN, busy : BOOLEAN, deferred : BOOLEAN, online : BOOLEAN]

ConstantsOK ==
    /\ None \notin Configs \cup Task
    /\ Repeats \cup NeedsNet \cup Labelled \subseteq Configs
    /\ TaskBound \in Nat \ {0}

VARIABLES
    section,     \* the widget's section in the running file, None if not placed
    registry,    \* its task in the registry, 0 if it has none
    held,        \* the task whose handle the bar holds, 0 if none
    tasks,       \* per number, what that task owns; None if not spawned
    scripts,     \* the tasks whose script is running
    net,         \* whether the machine is online
    changes

vars == <<section, registry, held, tasks, scripts, net, changes>>

Numbers == 1..TaskBound
Spawned == {n \in Numbers : tasks[n] # None}

\* A task runs while somebody holds its handle.
Alive == {n \in Spawned : n \in {registry, held}}

Fresh(config, on) ==
    [config |-> config, text |-> config \in Labelled, good |-> FALSE, loading |-> FALSE,
     due |-> TRUE, busy |-> FALSE, deferred |-> FALSE, online |-> on]

-----------------------------------------------------------------------------
(* The registry: CustomWidgets::sync, from a reload.                       *)

NextNumber == Cardinality(Spawned) + 1

Init ==
    /\ section \in Configs
    /\ net \in BOOLEAN
    /\ tasks = [n \in Numbers |-> IF n = 1 THEN Fresh(section, net) ELSE None]
    /\ registry = 1 /\ held = 1
    /\ scripts = {}
    /\ changes = 0

\* A section that did not change keeps its task, timer and all.
Sync(config) ==
    /\ config # section
    /\ section' = config
    /\ IF config = None THEN registry' = 0 /\ UNCHANGED tasks
       ELSE /\ NextNumber \in Numbers
            /\ registry' = NextNumber
            /\ tasks' = [tasks EXCEPT ![NextNumber] = Fresh(config, net)]
    /\ UNCHANGED <<held, scripts, net, changes>>

\* The bar's widget is built again, and takes the handle the registry has.
Rebuild ==
    /\ held # registry
    /\ held' = registry
    /\ UNCHANGED <<section, registry, tasks, scripts, net, changes>>

-----------------------------------------------------------------------------
(* One task.                                                               *)

\* What a start leaves: dropped while a run is out, owed while offline.  The
\* placeholder goes up only where there is nothing to read.
\* Mutant: the placeholder stays.
Started_LeavesLoading(task) ==
    IF task.busy THEN [task EXCEPT !.due = FALSE, !.loading = TRUE]
    ELSE IF task.config \in NeedsNet /\ ~task.online
         THEN [task EXCEPT !.due = FALSE, !.deferred = TRUE, !.loading = TRUE]
    ELSE [task EXCEPT !.due = FALSE, !.deferred = FALSE, !.busy = TRUE, !.loading = ~task.text]

Started(task) ==
    IF task.busy THEN [task EXCEPT !.due = FALSE]
    ELSE IF task.config \in NeedsNet /\ ~task.online
         THEN [task EXCEPT !.due = FALSE, !.deferred = TRUE, !.loading = @ /\ task.good]
    ELSE [task EXCEPT !.due = FALSE, !.deferred = FALSE, !.busy = TRUE, !.loading = ~task.text]

Start(n, task) ==
    /\ tasks' = [tasks EXCEPT ![n] = Started(task)]
    /\ scripts' = IF Started(task).busy THEN scripts \cup {n} ELSE scripts

Tick(n) ==
    /\ n \in Alive /\ tasks[n].due
    /\ Start(n, tasks[n])
    /\ UNCHANGED <<section, registry, held, net, changes>>

Refresh(n) ==
    /\ n \in Alive /\ n = held
    /\ changes < ChangeBound
    /\ changes' = changes + 1
    /\ Start(n, tasks[n])
    /\ UNCHANGED <<section, registry, held, net>>

\* settle() and schedule(): a failure keeps what the script last said.
Settled(task, outcome) ==
    [task EXCEPT !.busy = FALSE, !.loading = FALSE, !.good = @ \/ outcome # "failed",
                 !.text = IF outcome = "failed" /\ task.good THEN @
                          ELSE outcome = "value" \/ task.config \in Labelled,
                 !.due = task.config \in Repeats]

\* The script ends, or is killed; a task that is gone does not hear of it.
End(n, outcome) ==
    /\ n \in scripts
    /\ scripts' = scripts \ {n}
    /\ tasks' = IF n \in Alive THEN [tasks EXCEPT ![n] = Settled(@, outcome)] ELSE tasks
    /\ UNCHANGED <<section, registry, held, net, changes>>

NetChanges ==
    /\ changes < ChangeBound
    /\ changes' = changes + 1
    /\ net' = ~net
    /\ UNCHANGED <<section, registry, held, tasks, scripts>>

SetOnline(n) ==
    /\ n \in Alive /\ tasks[n].online # net
    /\ LET task == [tasks[n] EXCEPT !.online = net]
       IN  IF net /\ task.deferred THEN Start(n, task)
           ELSE tasks' = [tasks EXCEPT ![n] = task] /\ UNCHANGED scripts
    /\ UNCHANGED <<section, registry, held, net, changes>>

Next ==
    \/ \E config \in Configs \cup {None} : Sync(config)
    \/ Rebuild \/ NetChanges
    \/ \E n \in Numbers :
        Tick(n) \/ Refresh(n) \/ SetOnline(n) \/ \E outcome \in {"value", "blank", "failed"} : End(n, outcome)

Spec == Init /\ [][Next]_vars

-----------------------------------------------------------------------------
(* Properties.                                                             *)

\* Every variable has its type.
TypeOK ==
    /\ section \in Configs \cup {None}
    /\ {registry, held} \subseteq 0..TaskBound
    /\ tasks \in [Numbers -> Task \cup {None}]
    /\ scripts \subseteq Spawned
    /\ net \in BOOLEAN /\ changes \in Nat

\* The registry runs the section in the running file, and only that.
RegistryFollows ==
    /\ (registry = 0) = (section = None)
    /\ registry # 0 => tasks[registry].config = section

\* A widget with an interval always has another run coming: on the clock, out, or
\* owed until the network is back.  A failure or a lost network never ends it.
AlwaysAnotherRun ==
    \A n \in Alive :
        LET task == tasks[n]
        IN  task.config \in Repeats => task.due \/ task.busy \/ (task.deferred /\ ~task.online)

\* "The ellipsis would be a promise the task cannot keep" (custom/task.rs:181): a
\* placeholder is on the bar only while a script that is running can replace it.
LoadingIsKept == \A n \in Alive : tasks[n].loading => n \in scripts

\* "Runs never overlap" (custom/task.rs:6): a widget's script runs once at a time.
RunsNeverOverlap == Cardinality(scripts) <= 1
=============================================================================

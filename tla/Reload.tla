-------------------------------- MODULE Reload --------------------------------
(***************************************************************************)
(* How a changed configuration reaches a running panel                     *)
(* (topbar/src/reload.rs, topbar-core/src/delta.rs).                       *)
(*                                                                         *)
(* A configuration is a function from its sections, or the keys of one     *)
(* that are routed apart, to values.  What is on screen is a set of parts, *)
(* each built from the sections it reads.  An install compares the new     *)
(* configuration with the running one, builds again the parts it finds     *)
(* changed, and sends the changed settings to the services, each on a task *)
(* of its own.                                                             *)
(***************************************************************************)
EXTENDS Naturals, Sequences, FiniteSets, SequencesExt

CONSTANTS
    Files,       \* the configurations the file may hold
    Start,       \* the one the panel starts from
    Broken,      \* a file that does not parse or does not validate
    BlurOffered, \* whether the compositor offers the blur protocol
    QueueLimit,  \* how many file events wait for the watcher
    SaveBound    \* bounds the times the file changes, and the reload commands

VARIABLES
    file,      \* what the file holds
    config,    \* the shared cell
    drawn,     \* per part, the values it was built from
    plain,     \* the parts whose labels have not had the font workaround applied
    told,      \* per service, the settings it works from
    sent,      \* per service, the settings on their way to it
    events,    \* file events in the watcher's queue
    watcher,   \* "idle", "settling", "reading" or "read"
    loaded,    \* what the watcher has read
    commands,  \* `topbar reload` commands so far
    saves

screen == <<drawn, plain>>
watching == <<events, watcher, loaded>>
vars == <<file, config, screen, told, sent, watching, commands, saves>>

Sections == DOMAIN Start

\* What each part is built from.
Reads ==
    [sheet      |-> {"bar", "styling", "colours", "states", "typography"},
     motion     |-> {"animations"},
     bars       |-> {"bar", "layout"} \cup IF BlurOffered THEN {"blur"} ELSE {},
     labels     |-> {"advanced", "typography", "bar"},
     workspaces |-> {"workspaces", "states", "bar", "animations"},
     clock      |-> {"clock", "weather"},
     weather    |-> {"weather"},
     osd        |-> {"osd", "colours", "states"}]

Parts == DOMAIN Reads
Widgets == {"workspaces", "clock", "weather"}
Services == {"weather", "updates", "audio"}

Build(part, c) == [s \in Reads[part] |-> c[s]]

ConstantsOK ==
    /\ Start \in Files /\ Broken \notin Files
    /\ \A p \in Parts : Reads[p] \subseteq Sections
    /\ BlurOffered \in BOOLEAN
    /\ QueueLimit \in Nat \ {0}

-----------------------------------------------------------------------------
(* ConfigDelta: what an install has to do about the sections that differ.  *)

Delta(old, new) == {s \in Sections : old[s] # new[s]}

Restyles(delta) == delta \cap {"bar", "styling", "colours", "states", "typography"} # {}

RebuildsBars(delta) == delta \cap {"bar", "layout", "advanced"} # {}

\* A blur that cannot be had is nothing to rebuild for.
BlurRebuilds(delta, new) == "blur" \in delta /\ (new["blur"] = 0 \/ BlurOffered)

Rebuilt(delta, new) ==
    LET everything == RebuildsBars(delta) \/ BlurRebuilds(delta, new)
    IN  {p \in Parts :
            \/ p = "sheet" /\ Restyles(delta)
            \/ p = "motion" /\ "animations" \in delta
            \/ p \notin {"sheet", "motion"} /\ everything
            \/ p \in Widgets \cup {"osd"} /\ p \in delta}

-----------------------------------------------------------------------------
Init ==
    /\ file = Start /\ config = Start
    /\ drawn = [p \in Parts |-> Build(p, Start)]
    /\ plain = {}
    /\ told = [s \in Services |-> Start[s]]
    /\ sent = [s \in Services |-> <<>>]
    /\ events = 0 /\ watcher = "idle" /\ loaded = Broken
    /\ commands = 0 /\ saves = 0

\* Mutant: the cell is replaced after the widgets have been built from it.
Install_CellLast(new) ==
    LET delta == Delta(config, new)
    IN  /\ config' = new
        /\ drawn' = [p \in Parts |->
                IF p \in Rebuilt(delta, new) THEN Build(p, config) ELSE drawn[p]]
        /\ plain' = plain
        /\ sent' = sent

\* Reloader::install.  Labels are restated when the bars are built, and not when
\* one widget of theirs is built again.
Install(new) ==
    LET delta == Delta(config, new)
        rebuilt == Rebuilt(delta, new)
    IN  /\ config' = new
        /\ drawn' = [p \in Parts |-> IF p \in rebuilt THEN Build(p, new) ELSE drawn[p]]
        /\ plain' = IF "bars" \in rebuilt THEN {} ELSE plain \cup (rebuilt \cap Widgets)
        /\ sent' = [s \in Services |->
                IF s \in delta THEN Append(sent[s], new[s]) ELSE sent[s]]

\* A task that was spawned to tell a service gets to it, in any order.
Tell(s) ==
    \E i \in DOMAIN sent[s] :
        /\ told' = [told EXCEPT ![s] = sent[s][i]]
        /\ sent' = [sent EXCEPT ![s] = RemoveAt(@, i)]
        /\ UNCHANGED <<file, config, screen, watching, commands, saves>>

\* `topbar reload`: reads and installs at once, on the main thread.
Command ==
    /\ commands < SaveBound
    /\ commands' = commands + 1
    /\ IF file = Broken THEN UNCHANGED <<config, screen, sent>> ELSE Install(file)
    /\ UNCHANGED <<file, told, watching, saves>>

-----------------------------------------------------------------------------
(* The watcher.                                                            *)

\* Mutant: the queue has no end.
Save_NeverDropped(new) ==
    /\ saves < SaveBound
    /\ saves' = saves + 1
    /\ file' = new
    /\ events' = events + 1
    /\ UNCHANGED <<config, screen, told, sent, watcher, loaded, commands>>

\* Somebody writes the file; an event that finds the queue full is dropped.
Save(new) ==
    /\ saves < SaveBound
    /\ saves' = saves + 1
    /\ file' = new
    /\ events' = IF events < QueueLimit THEN events + 1 ELSE events
    /\ UNCHANGED <<config, screen, told, sent, watcher, loaded, commands>>

Notice ==
    /\ watcher = "idle" /\ events > 0
    /\ watcher' = "settling"
    /\ events' = events - 1
    /\ UNCHANGED <<file, config, screen, told, sent, loaded, commands, saves>>

\* The debounce is over: the burst is drained, and the file is read elsewhere.
Settle ==
    /\ watcher = "settling"
    /\ watcher' = "reading"
    /\ events' = 0
    /\ UNCHANGED <<file, config, screen, told, sent, loaded, commands, saves>>

Read ==
    /\ watcher = "reading"
    /\ watcher' = "read"
    /\ loaded' = file
    /\ UNCHANGED <<file, config, screen, told, sent, events, commands, saves>>

\* Mutant: the queue is drained when the install is done, events of a later save
\* with it.
InstallRead_Drains ==
    /\ watcher = "read"
    /\ watcher' = "idle"
    /\ loaded' = Broken
    /\ events' = 0
    /\ IF loaded = Broken THEN UNCHANGED <<config, screen, sent>> ELSE Install(loaded)
    /\ UNCHANGED <<file, told, commands, saves>>

InstallRead ==
    /\ watcher = "read"
    /\ watcher' = "idle"
    /\ loaded' = Broken
    /\ IF loaded = Broken THEN UNCHANGED <<config, screen, sent>> ELSE Install(loaded)
    /\ UNCHANGED <<file, told, events, commands, saves>>

Watch == Notice \/ Settle \/ Read \/ InstallRead

Next ==
    \/ Watch \/ Command
    \/ \E s \in Services : Tell(s)
    \/ \E new \in Files \cup {Broken} : Save(new)

\* The main loop runs the watcher's future, and the pool the blocking read.
Fairness == WF_vars(Watch) /\ \A s \in Services : WF_vars(Tell(s))

Spec == Init /\ [][Next]_vars /\ Fairness

-----------------------------------------------------------------------------
(* Properties.                                                             *)

\* Every variable has its type.
TypeOK ==
    /\ file \in Files \cup {Broken} /\ config \in Files /\ loaded \in Files \cup {Broken}
    /\ DOMAIN drawn = Parts /\ \A p \in Parts : DOMAIN drawn[p] = Reads[p]
    /\ plain \subseteq Widgets
    /\ DOMAIN told = Services /\ DOMAIN sent = Services
    /\ events \in 0..QueueLimit
    /\ watcher \in {"idle", "settling", "reading", "read"}
    /\ commands \in Nat /\ saves \in Nat

\* What each part reads but no install builds it again for.
Unrouted ==
    [p \in Parts |->
        CASE p = "workspaces" -> {"states", "animations"}
          [] p = "osd" -> {"colours", "states"}
          [] p = "clock" -> {"weather"}
          [] p = "labels" -> {"typography"}
          [] OTHER -> {}]

\* "Everything built from here on ... has to read the new values"
\* (reload.rs:222): whatever the order of saves, commands and late reads, every
\* part shows the running configuration in every section it is rebuilt for.
RoutedIsDrawn ==
    \A p \in Parts : \A s \in Reads[p] \ Unrouted[p] : drawn[p][s] = config[s]

\* A file that stops changing is what the panel ends up with, however the events
\* of its saves were drained, dropped or overtaken by a command, unless it is
\* invalid; docs/configuration.md:601, "saving the configuration file" reloads.
LastSaveWins == []<>(file = Broken \/ config = file)

\* docs/configuration.md:617, a changed theme colour or state needs no widget
\* touched: the strip and the capsule show the palette of the running file.
PaintFollowsTheme ==
    \A p \in {"workspaces", "osd"} : \A s \in Reads[p] \cap {"colours", "states"} :
        drawn[p][s] = config[s]

\* docs/configuration.md:618, animations are two switches: the strip moves, or
\* does not, as the running file says.
StripFollowsMotion == drawn["workspaces"]["animations"] = config["animations"]

\* docs/configuration.md:620, a changed section rebuilds that widget: the forecast
\* on the clock's panel is the running [widgets.weather].
ForecastFollowsWeather == drawn["clock"]["weather"] = config["weather"]

\* fonts.rs:18, "Apply the workaround to every label": with it on, no widget's
\* labels are left at GTK's own sizes.
EveryLabelRestated == config["advanced"] = 1 => plain = {}

\* reload.rs:293, "Hand the changed sections to the services that own them": when
\* everything sent has arrived, the services work from the running settings.
ToldTheLast == \A s \in Services : sent[s] = <<>> => told[s] = config[s]
=============================================================================

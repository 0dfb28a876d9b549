---------------------------------- MODULE Ipc ----------------------------------
(***************************************************************************)
(* One panel at a time, and the commands it is sent: processes that take   *)
(* the lock, clear the path and bind their socket on it, and may be killed *)
(* at any point; a task for each connection, which queues what it is asked *)
(* for the main thread and waits for the answer, for so long; and clients, *)
(* who wait for so long too.  Some commands only a panel can carry out;    *)
(* the keys act on the device by themselves and then tell a panel.         *)
(***************************************************************************)
EXTENDS Integers, SequencesExt, FiniteSets

CONSTANTS
    Procs, Clients,
    Version,        \* the protocol each of them speaks
    Asks,           \* part of the requests, Keys and "default_config"
    Top,            \* levels are 0 .. Top
    QUEUE,          \* how many requests wait for the main thread
    Does,           \* part of {"kill", "no lock", "accept", "slow", "device", "hang", "large"}
    NoOne,
    MaxMoves, MaxClicks

VARIABLES
    panel,   \* the processes: how far each has started, and its queue
    world,   \* the lock, what is on the path, the devices, what each client was told
    wire     \* connections, as each end has them

vars == <<panel, world, wire>>
Now == [panel |-> panel, world |-> world, wire |-> wire]
Become(s) == \E t \in {s} : panel' = t.panel /\ world' = t.world /\ wire' = t.wire

Moved(s, what) == what \in Does /\ s.world.moves < MaxMoves
Count(s) == [s EXCEPT !.world.moves = @ + 1]

-----------------------------------------------------------------------------
(* What can be asked of a panel, and how it answers.                       *)

Keys == {"volume", "brightness"}
Reports == {"volume_changed", "volume_unavailable", "brightness_changed"}

\* IpcRequest: what the main thread does itself, and what waits for a service.
AtOnce == Reports \cup {"bar", "popover", "reload", "dump"}
Later == {"toggle_inhibitor", "media"}

\* A popover nobody has, a file that does not load: an error, and nothing was done.
Refusable == {"popover", "reload", "dump"}

-----------------------------------------------------------------------------
(* A process.                                                              *)

NoOutput == -1
Nothing == -2
Off == [up |-> FALSE, bound |-> "no", queue |-> <<>>, tasks |-> {}, shown |-> Nothing]

\* InstanceLock::acquire; one that finds it taken says so and exits, one that cannot open
\* the file goes on without.
Start ==
    \E p \in Procs :
        /\ ~panel[p].up /\ world.clicks < MaxClicks /\ world.lock = NoOne
        /\ Become([Now EXCEPT !.world.clicks = @ + 1, !.world.lock = p, !.panel[p].up = TRUE])
StartUnlocked ==
    \E p \in Procs :
        /\ ~panel[p].up /\ Moved(Now, "no lock")
        /\ Become([Count(Now) EXCEPT !.panel[p].up = TRUE])

\* listen: what is on the path goes, then a socket of its own comes.
Clear ==
    \E p \in Procs :
        /\ panel[p].up /\ panel[p].bound = "no"
        /\ Become([Now EXCEPT !.panel[p].bound = "cleared", !.world.path = NoOne])
Bind ==
    \E p \in Procs :
        /\ panel[p].bound = "cleared"
        /\ Become(IF world.path = NoOne THEN [Now EXCEPT !.panel[p].bound = "listens", !.world.path = p]
                  ELSE [Now EXCEPT !.panel[p].bound = "failed"])

\* accept fails, for once, and that is that.
StopAccepting ==
    \E p \in Procs :
        /\ Moved(Now, "accept") /\ panel[p].bound = "listens"
        /\ Become([Count(Now) EXCEPT !.panel[p].bound = "stopped"])

\* A process ends however it ends: the kernel lets go of the lock and cuts its connections,
\* the file stays.
Kill ==
    \E p \in Procs :
        /\ Moved(Now, "kill") /\ panel[p].up
        /\ Become([Count(Now) EXCEPT
               !.panel[p] = Off,
               !.world.lock = IF @ = p THEN NoOne ELSE @,
               !.world.path = IF @ = p THEN "stale" ELSE @,
               !.wire = [c \in Clients |-> IF @[c].to = p THEN [@[c] EXCEPT !.server = "gone"] ELSE @[c]]])

-----------------------------------------------------------------------------
(* A client: run, connect, request_at, through_panel, notify.             *)

\* A key's result is its own; any other command's is what the panel said.
Told(s, c, what) == [s EXCEPT !.wire[c].client = "done",
                              !.world.told[c] = IF s.wire[c].result # NoOne THEN s.wire[c].result ELSE what]

\* The handshake: a panel of another version is not asked.
Ask(s, c, ask) ==
    LET p == s.world.path
        there == p \in Procs /\ s.panel[p].bound = "listens" /\ Version[p] = Version[c]
    IN  IF there THEN [s EXCEPT !.wire[c] = [@ EXCEPT !.client = "waits", !.to = p, !.ask = ask, !.server = "read"]]
        ELSE Told(s, c, "unreachable")

\* run: what goes to the panel as it is, and the example that is printed here.
Connect ==
    \E c \in Clients, ask \in Asks \cap (AtOnce \cup Later) :
        wire[c].client = "idle" /\ Become(Ask(Now, c, ask))
DumpExample ==
    \E c \in Clients :
        /\ wire[c].client = "idle" /\ "default_config" \in Asks
        /\ Become(Told([Now EXCEPT !.world.applied[c] = @ + 1], c, "ok"))

\* notify: the request says what the key did.
Notify ==
    \E c \in Clients : wire[c].client = "acted" /\ Become(Ask(Now, c, wire[c].ask))

Receive ==
    \E c \in Clients :
        /\ wire[c].client = "waits" /\ wire[c].server = "answered"
        /\ Become(Told(Now, c, wire[c].answer))

\* The read timeout, or the end of the stream.
GiveUp ==
    \E c \in Clients :
        /\ wire[c].client = "waits" /\ wire[c].server # "answered"
        /\ Become(Told(Now, c, "unreachable"))

-----------------------------------------------------------------------------
(* A key: the device is read, then written, by a process of its own.       *)

Failed(s, c) == [s EXCEPT !.wire[c].client = "done", !.world.told[c] = "failed"]
Acted(s, c, result, ask, value) ==
    [s EXCEPT !.wire[c] = [@ EXCEPT !.client = "acted", !.result = result, !.ask = ask, !.value = value]]

\* AudioCli::connect, BrightnessCli::open: no sink, no backlight, or no answer ends it.
OpenKey ==
    \E c \in Clients, key \in Asks \cap Keys :
        /\ wire[c].client = "idle"
        /\ Become(IF world.device[key] = "gone" THEN Failed(Now, c)
                  ELSE [Now EXCEPT !.wire[c] = [@ EXCEPT !.client = "opened", !.ask = key,
                                                         !.value = world.level[key],
                                                         !.ready = world.device[key] = "ready"]])

\* inc and dec, from what was read and within the range.
Asked(n) == {IF n = 0 THEN 0 ELSE n - 1, IF n = Top THEN Top ELSE n + 1}
Put(s, c, key, n) == [s EXCEPT !.world.level[key] = n, !.world.applied[c] = @ + 1]

\* volume: a step up from the top asks nothing; what is asked is asked of the sink that
\* was read, and that the request is over is all that is waited for.  A server that stops
\* answering is an error that nobody is told of.
Volume ==
    \E c \in Clients, hangs \in BOOLEAN : \E n \in Asked(wire[c].value) :
        /\ wire[c].client = "opened" /\ wire[c].ask = "volume"
        /\ hangs => "hang" \in Does
        /\ LET there == world.device["volume"] = "ready"
               s == IF there THEN Put(Now, c, "volume", n) ELSE Now
           IN  Become(IF n = Top /\ wire[c].value = Top
                         THEN Acted([Now EXCEPT !.world.applied[c] = @ + 1], c, "ok", "volume_changed", n)
                      ELSE IF ~wire[c].ready THEN Acted(Now, c, "failed", "volume_unavailable", NoOutput)
                      ELSE IF hangs THEN Failed(s, c)
                      ELSE Acted(s, c, "ok", "volume_changed", n))

\* brightness: the same, but a write says whether it went in.
Brightness ==
    \E c \in Clients : \E n \in Asked(wire[c].value) :
        /\ wire[c].client = "opened" /\ wire[c].ask = "brightness"
        /\ Become(IF world.device["brightness"] # "ready" THEN Failed(Now, c)
                  ELSE Acted(Put(Now, c, "brightness", n), c, "ok", "brightness_changed", n))

\* The device goes, comes back, or is there and takes nothing.
Device ==
    \E key \in Asks \cap Keys : \E how \in {"gone", "busy", "ready"} \ {world.device[key]} :
        Moved(Now, "device") /\ Become([Count(Now) EXCEPT !.world.device[key] = how])

-----------------------------------------------------------------------------
(* The panel's end: serve, answer.                                         *)

\* A place in the queue; the time an answer may take starts then.
Forward ==
    \E c \in Clients :
        LET p == wire[c].to IN
        /\ wire[c].server = "read" /\ Len(panel[p].queue) < QUEUE
        /\ Become([Now EXCEPT !.wire[c].server = "asked", !.panel[p].queue = Append(@, c)])

\* The answer is written to whoever is still there.
Write(s, c, answer) ==
    IF s.wire[c].server # "asked" THEN s
    ELSE [s EXCEPT !.wire[c].server = "answered", !.wire[c].answer = answer]
\* An answer that does not fit a frame: the connection is dropped instead.
Overlong ==
    \E c \in Clients :
        /\ "large" \in Does /\ wire[c].ask = "dump" /\ wire[c].server = "answered" /\ wire[c].client = "waits"
        /\ Become([Now EXCEPT !.wire[c].server = "gone"])
TimeOut ==
    \E c \in Clients : wire[c].server = "asked" /\ "slow" \in Does /\ Become(Write(Now, c, "no answer"))

\* raise: the capsule shows what a key says it did.
Raise(s, p, c) == IF wire[c].ask \in Reports THEN [s EXCEPT !.panel[p].shown = wire[c].value] ELSE s

\* control::handle, in order; what has to wait for a service does so on a task of its own.
Handle ==
    \E p \in Procs, refused \in BOOLEAN :
        /\ panel[p].queue # <<>>
        /\ LET c == Head(panel[p].queue)
               ask == wire[c].ask
               s == [Now EXCEPT !.panel[p].queue = Tail(@)]
           IN  /\ refused => ask \in Refusable
               /\ Become(IF ask \in Later THEN [s EXCEPT !.panel[p].tasks = @ \cup {c}]
                         ELSE IF refused THEN Write(s, c, "refused")
                         ELSE Write(Raise([s EXCEPT !.world.applied[c] = IF ask \in Reports THEN @ ELSE @ + 1], p, c), c, "ok"))
\* answer_async
Settle ==
    \E p \in Procs, ok \in BOOLEAN : \E c \in panel[p].tasks :
        LET s == [Now EXCEPT !.panel[p].tasks = @ \ {c}]
        IN  Become(IF ok THEN Write([s EXCEPT !.world.applied[c] = @ + 1], c, "ok") ELSE Write(s, c, "refused"))

Init ==
    /\ panel = [p \in Procs |-> Off]
    /\ world = [lock |-> NoOne, path |-> NoOne, told |-> [c \in Clients |-> NoOne],
                applied |-> [c \in Clients |-> 0], moves |-> 0, clicks |-> 0,
                level |-> [k \in Keys |-> 0], device |-> [k \in Keys |-> "ready"]]
    /\ wire = [c \in Clients |-> [client |-> "idle", to |-> NoOne, ask |-> NoOne, server |-> NoOne,
                                  answer |-> NoOne, result |-> NoOne, value |-> Nothing, ready |-> FALSE]]

Turn == Clear \/ Bind \/ Forward \/ Handle \/ Notify \/ Volume \/ Brightness
TurnDue == \/ \E p \in Procs : \/ panel[p].up /\ panel[p].bound = "no"
                               \/ panel[p].bound = "cleared" \/ panel[p].queue # <<>>
           \/ \E c \in Clients : \/ wire[c].server = "read" /\ Len(panel[wire[c].to].queue) < QUEUE
                                \/ wire[c].client \in {"opened", "acted"}
Clock == Receive \/ GiveUp \/ TimeOut
AtPanel == \E c \in Clients : wire[c].client = "waits"
Waiting == \E c \in Clients : wire[c].client \notin {"idle", "done"}
ClockDue == AtPanel \/ ("slow" \in Does /\ \E c \in Clients : wire[c].server = "asked")
Daemon == Settle
DaemonDue == \E p \in Procs : panel[p].tasks # {}
Next == Turn \/ Clock \/ Daemon \/ Start \/ StartUnlocked \/ StopAccepting \/ Kill \/ Connect
        \/ DumpExample \/ Overlong \/ OpenKey \/ Device

Spec == Init /\ [][Next]_vars /\ WF_vars(Turn) /\ WF_vars(Clock) /\ WF_vars(Daemon)

-----------------------------------------------------------------------------
(* Properties.                                                             *)

\* Every panel but one that could not open the lock file has it, and whoever listens is
\* found on the path: a start never takes it from under a panel that runs.
ListenersAreFound ==
    \A p \in Procs :
        /\ panel[p].up => world.lock = p
        /\ panel[p].bound = "listens" => world.path = p
        /\ panel[p].bound # "failed"

\* What a client was told is so: done once when it was said to be done, not done when it
\* was refused or nobody was there; and nothing is done twice.  A key needs no panel: it is
\* never told that there is none.
ToldTheTruth ==
    \A c \in Clients :
        LET told == world.told[c] IN
        /\ world.applied[c] <= 1
        /\ told = "ok" /\ wire[c].ask # "volume_changed" => world.applied[c] = 1
        /\ \/ told = "refused"
           \/ told = "failed" /\ "hang" \notin Does
           \/ told = "unreachable" /\ wire[c].to = NoOne => world.applied[c] = 0
        /\ told \in {"unreachable", "no answer", "refused"} => wire[c].ask \notin Keys \cup Reports

\* What the capsule shows, some key did or met.
ShownIsReported ==
    \A p \in Procs : panel[p].shown # Nothing =>
        \E c \in Clients : wire[c].ask \in Reports /\ wire[c].value = panel[p].shown

\* Setting the volume is "returning the value that was actually applied" (audio/cli.rs:124).
AppliedIsReturned == \A c \in Clients :
    world.told[c] = "ok" /\ wire[c].ask = "volume_changed" => world.applied[c] = 1

\* Two presses of a key are two steps.
PressesAddUp == \A key \in Asks \cap Keys :
    (\A c \in Clients : world.told[c] = "ok" /\ wire[c].value > 0) => world.level[key] = Cardinality(Clients)

\* The handshake lets "an old CLI fail loudly against a new panel" (topbar-core ipc.rs:6).
MismatchIsLoud == \A c \in Clients : \A p \in Procs :
    world.told[c] = "ok" /\ world.path = p /\ Version[p] # Version[c] => wire[c].ask \notin Reports

\* "a command that the panel gave up on and one the client gave up on cannot disagree about
\* which happened" (ipc_client.rs:22).
GaveUpAlike == \A c \in Clients :
    world.told[c] \in {"unreachable", "no answer"} => world.applied[c] = 0

\* "Accept connections until the panel stops" (ipc.rs:186).
AcceptsUntilItStops == \A p \in Procs : panel[p].up => panel[p].bound # "stopped"

\* Listening is "Only ever called by a process holding the" lock (ipc.rs:147).
OnlyHoldersListen == \A p \in Procs : panel[p].bound # "no" => world.lock = p
=============================================================================

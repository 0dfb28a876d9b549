-------------------------------- MODULE Wake --------------------------------
(***************************************************************************)
(* Suspend and resume.  One task (topbar-services/src/lifecycle.rs)        *)
(* subscribes to logind's PrepareForSleep, holds a delay lock while the    *)
(* machine is awake, publishes what it hears and lets go only afterwards.  *)
(* What a resume refreshes is in topbar-services/src/runtime.rs: one       *)
(* consumer wakes every service in a fixed order, awaiting each send, and  *)
(* awaiting the answer of the battery and of the network.  A service that  *)
(* nothing on the bar draws has its queue but no task (lazy.rs): what is   *)
(* sent to it stays there until a reload places its widget.                *)
(*                                                                         *)
(* logind is external.  It announces a sleep, waits for the delay locks or *)
(* until its own patience (InhibitDelayMaxSec) ends, sleeps, and announces *)
(* the return.  While it is going down it refuses new delay locks.         *)
(***************************************************************************)
EXTENDS Naturals, Sequences, FiniteSets

CONSTANT SuspendBound   \* bounds how often the machine is put to sleep

VARIABLES
    machine,    \* "awake", "going" (announced, waiting for locks) or "asleep"
    slept,      \* how often it has been asleep
    overran,    \* logind stopped waiting for the sleep under way
    promised,   \* the panel was at rest with its lock when the sleep was announced
    signals,    \* announcements not yet heard: TRUE going down, FALSE back
    doing,      \* where the lifecycle task is
    lock,       \* the delay inhibitor's descriptor is open
    state       \* the published LifecycleState

logindVars == <<machine, slept, overran, promised>>
lifeVars == <<machine, slept, overran, promised, signals, doing, lock, state>>

Awake == [suspends |-> 0, resumes |-> 0, suspending |-> FALSE, inhibited |-> FALSE]

LifeInit ==
    /\ machine \in {"awake", "going"}
    /\ slept = 0
    /\ overran = FALSE
    /\ promised = FALSE
    /\ signals = <<>>
    /\ doing = "connecting"
    /\ lock = FALSE
    /\ state = Awake

-----------------------------------------------------------------------------
(* logind.  A signal reaches the panel only once it has subscribed.        *)

Listening == doing \notin {"connecting", "gone"}
Signalled(start) == signals' = IF Listening THEN Append(signals, start) ELSE signals

Announce ==
    /\ machine = "awake"
    /\ slept < SuspendBound
    /\ machine' = "going"
    /\ promised' = (lock /\ doing = "following" /\ signals = <<>>)
    /\ Signalled(TRUE)
    /\ UNCHANGED <<slept, overran, doing, lock, state>>

FallAsleep ==
    /\ machine = "going"
    /\ ~lock
    /\ machine' = "asleep"
    /\ slept' = slept + 1
    /\ UNCHANGED <<overran, promised, signals, doing, lock, state>>

LoseWaiting ==
    /\ machine = "going"
    /\ lock
    /\ machine' = "asleep"
    /\ slept' = slept + 1
    /\ overran' = TRUE
    /\ UNCHANGED <<promised, signals, doing, lock, state>>

ComeBack ==
    /\ machine = "asleep"
    /\ machine' = "awake"
    /\ overran' = FALSE
    /\ Signalled(FALSE)
    /\ UNCHANGED <<slept, promised, doing, lock, state>>

Logind == Announce \/ FallAsleep \/ LoseWaiting \/ ComeBack

-----------------------------------------------------------------------------
(* The lifecycle task.  Nothing in the panel runs while the machine sleeps.*)

Running == machine # "asleep"

Connect ==
    /\ Running
    /\ doing = "connecting"
    /\ doing' \in {"locking", "gone"}
    /\ UNCHANGED <<logindVars, signals, lock, state>>

\* Inhibit may always fail, and does while the machine is going down.
LockTaken == IF machine = "awake" THEN BOOLEAN ELSE {FALSE}

TakeFirstLock ==
    /\ Running
    /\ doing = "locking"
    /\ lock' \in LockTaken
    /\ state' = [state EXCEPT !.inhibited = lock']
    /\ doing' = "following"
    /\ UNCHANGED <<logindVars, signals>>

\* Mutants of the three handlers: a lock dropped before anything is said, a flag
\* left standing, and a lock believed without looking at the answer.
HearSleep_ReleaseFirst ==
    /\ Running
    /\ doing = "following"
    /\ signals # <<>> /\ Head(signals)
    /\ signals' = Tail(signals)
    /\ lock' = FALSE
    /\ state' = state
    /\ doing' = "releasing"
    /\ UNCHANGED logindVars

Retake_LockAssumed ==
    /\ Running
    /\ doing = "retaking"
    /\ lock' \in LockTaken
    /\ state' = [state EXCEPT !.resumes = @ + 1, !.suspending = FALSE, !.inhibited = TRUE]
    /\ doing' = "following"
    /\ UNCHANGED <<logindVars, signals>>

\* The state is published first; the descriptor is dropped by Release.
HearSleep ==
    /\ Running
    /\ doing = "following"
    /\ signals # <<>> /\ Head(signals)
    /\ signals' = Tail(signals)
    /\ state' = [state EXCEPT !.suspends = @ + 1, !.suspending = TRUE, !.inhibited = FALSE]
    /\ doing' = "releasing"
    /\ UNCHANGED <<logindVars, lock>>

Release ==
    /\ Running
    /\ doing = "releasing"
    /\ lock' = FALSE
    /\ doing' = "following"
    /\ UNCHANGED <<logindVars, signals, state>>

HearWake ==
    /\ Running
    /\ doing = "following"
    /\ signals # <<>> /\ ~Head(signals)
    /\ signals' = Tail(signals)
    /\ doing' = "retaking"
    /\ UNCHANGED <<logindVars, lock, state>>

Retake ==
    /\ Running
    /\ doing = "retaking"
    /\ lock' \in LockTaken
    /\ state' = [state EXCEPT !.resumes = @ + 1, !.suspending = FALSE, !.inhibited = lock']
    /\ doing' = "following"
    /\ UNCHANGED <<logindVars, signals>>

Follow == Connect \/ TakeFirstLock \/ HearSleep \/ Release \/ HearWake \/ Retake

-----------------------------------------------------------------------------
(* The services and what a resume wakes in them.                           *)

CONSTANTS
    Room,       \* capacity of each service's command queue
    Placements  \* the sets of widgets a configuration may place

\* The order of Services::wake.  niri's health check is a flag nobody waits for.
WakeOrder == <<"resources", "headset", "battery", "updates", "notmuch",
               "network", "weather", "crypto">>
Services == {WakeOrder[k] : k \in DOMAIN WakeOrder}
\* The two whose handle waits for an answer after the send.
Answering == {"battery", "network"}

ASSUME RoomAssumption == Room \in [Services -> Nat \ {0}]

VARIABLES
    started,    \* services whose task runs
    queue,      \* commands waiting for each service
    seen,       \* the resume count the consumer last acted on
    step,       \* 0, or the index in WakeOrder the consumer has got to
    asking,     \* it has sent and waits for the answer
    networkAt,  \* the resume count when the network was last read
    previous,   \* the sleep count at the last CPU sample, or <<>> without one
    reading     \* the published CPU reading: "none", "recent" or "overnight"

consumer == <<seen, step, asking>>
sampler == <<previous, reading>>
vars == <<lifeVars, started, queue, consumer, networkAt, sampler>>

\* Which services a configuration's widgets ask for; the others ask for none.  The
\* network is not optional.
Demand(widgets) ==
    LET for == [crypto |-> {"crypto"}, notmuch |-> {"notmuch"}, weather |-> {"weather"},
                headset |-> {"headset"}, clock |-> {"weather"}, system_monitor |-> {"resources"},
                quick_settings |-> {"resources", "updates", "battery"}]
    IN {"network"} \cup UNION {for[w] : w \in widgets \cap DOMAIN for}

Init ==
    /\ LifeInit
    /\ \E widgets \in Placements : started = Demand(widgets)
    /\ queue = [s \in Services |-> 0]
    /\ seen = 0 /\ step = 0 /\ asking = FALSE
    /\ networkAt = 0
    /\ previous = <<>> /\ reading = "none"

-----------------------------------------------------------------------------

LifecycleStep ==
    /\ Logind \/ Follow
    /\ UNCHANGED <<started, queue, consumer, networkAt, sampler>>

\* Deferred::start takes the held task out of its cell, once; nothing puts one back.
Start(services) == started' = started \cup services

\* A reload starts what it places and never stops anything.
StartIfNeeded(widgets) ==
    /\ ~Demand(widgets) \subseteq started
    /\ Start(Demand(widgets))
    /\ UNCHANGED <<lifeVars, queue, consumer, networkAt, sampler>>

Reload == Running /\ \E widgets \in Placements : StartIfNeeded(widgets)

\* Mutant: a resume is acted on once.
NoticeResume_Once ==
    /\ Running
    /\ step = 0 /\ seen = 0
    /\ state.resumes # seen
    /\ seen' = state.resumes
    /\ step' = 1
    /\ UNCHANGED <<lifeVars, started, queue, asking, networkAt, sampler>>

NoticeResume ==
    /\ Running
    /\ step = 0
    /\ state.resumes # seen
    /\ seen' = state.resumes
    /\ step' = 1
    /\ UNCHANGED <<lifeVars, started, queue, asking, networkAt, sampler>>

After(k) == IF k = Len(WakeOrder) THEN 0 ELSE k + 1

\* Mutant: no answer is waited for.
Ask_NothingAwaited(s) ==
    /\ queue' = [queue EXCEPT ![s] = @ + 1]
    /\ asking' = FALSE
    /\ step' = After(step)

\* One send of wake(): it waits for room, and an answering service holds it.
Ask(s) ==
    /\ queue' = [queue EXCEPT ![s] = @ + 1]
    /\ asking' = (s \in Answering)
    /\ step' = IF s \in Answering THEN step ELSE After(step)

Wake ==
    /\ Running
    /\ step > 0
    /\ ~asking
    /\ queue[WakeOrder[step]] < Room[WakeOrder[step]]
    /\ Ask(WakeOrder[step])
    /\ UNCHANGED <<lifeVars, started, seen, networkAt, sampler>>

\* A running service takes a command; one that answers releases the consumer.
Serve(s) ==
    /\ Running
    /\ s \in started /\ queue[s] > 0
    /\ queue' = [queue EXCEPT ![s] = @ - 1]
    /\ IF asking /\ WakeOrder[step] = s
       THEN asking' = FALSE /\ step' = After(step)
       ELSE UNCHANGED <<asking, step>>
    /\ networkAt' = IF s = "network" THEN state.resumes ELSE networkAt
    /\ UNCHANGED <<lifeVars, started, seen>>

\* The CPU pair.  stale_after compares Instants, and the monotonic clock they
\* read does not run while the machine sleeps, so it never rejects a pair for
\* having a sleep in it.
Sample(before) ==
    /\ reading' = CASE before = <<>> -> "none"
                    [] before = <<slept>> -> "recent"
                    [] OTHER -> "overnight"
    /\ previous' = <<slept>>

\* Mutant: the command is taken and the pair is kept.
DiscardStaleSample_Kept == Serve("resources") /\ UNCHANGED sampler

\* Discard drops the pair and the loop samples again at once.
DiscardStaleSample == Serve("resources") /\ Sample(<<>>)

SampleTick ==
    /\ Running
    /\ "resources" \in started
    /\ Sample(previous)
    /\ UNCHANGED <<lifeVars, started, queue, consumer, networkAt>>

ServeOther(s) == s # "resources" /\ Serve(s) /\ UNCHANGED sampler

Next ==
    \/ LifecycleStep
    \/ Reload
    \/ NoticeResume
    \/ Wake
    \/ DiscardStaleSample
    \/ SampleTick
    \/ \E s \in Services : ServeOther(s)

\* The tasks are scheduled, a machine that sleeps is woken, a running service
\* empties its queue.  Nobody is obliged to reload, or to suspend.
Fairness ==
    /\ WF_vars(LifecycleStep /\ (ComeBack \/ Follow))
    /\ WF_vars(NoticeResume)
    /\ WF_vars(Wake)
    /\ WF_vars(DiscardStaleSample)
    /\ \A s \in Services : WF_vars(ServeOther(s))

Spec == Init /\ [][Next]_vars /\ Fairness

-----------------------------------------------------------------------------
(* Properties.                                                             *)

\* "The lock is released after the state is published, which is the whole
\* point of taking it" (lifecycle.rs:24): if the panel, with nothing left to
\* hear, held the lock when the sleep was announced, and logind did not lose
\* patience, then the machine is not asleep before the panel has published that
\* it is going down.
ToldBeforeSleep ==
    [][machine' = "asleep" /\ promised /\ ~overran' => state.suspending]_machine

\* The panel's view of logind is true: at rest it thinks the machine is going down exactly
\* when it is (a panel that came up halfway through has heard nothing yet), and between any
\* two awaits the lock it says it has is held, and is not counted on while going down.
LogindIsBelieved ==
    /\ doing = "following" /\ signals = <<>> /\ state.suspends + state.resumes > 0
          => state.suspending = (machine # "awake")
    /\ state.inhibited => lock /\ ~state.suspending

\* "connectivity ... is right by the time the weather asks" (runtime.rs:345):
\* nothing is sent to the two services that go out over the network before the
\* network has been read again since the resume being handled.
NetworkReadFirst ==
    [][\A s \in {"weather", "crypto"} : queue'[s] > queue[s] => networkAt >= seen]_queue

\* Once the sampler has taken everything a resume sent it, its pair no longer
\* starts before the sleep, whatever its own timer did meanwhile.
PairIsRefreshed ==
    /\ state.resumes > 0 /\ seen = state.resumes /\ step # 1 /\ queue["resources"] = 0
    /\ doing = "following" /\ signals = <<>> /\ machine = "awake"
    /\ "resources" \in started
    => previous = <<slept>>

\* "Refresh everything a sleep made stale, and keep doing it" (runtime.rs:303):
\* every resume the panel hears of is carried through to the last service.
KeepsWaking == (state.resumes > seen) ~> (step = 0 /\ seen = state.resumes)

\* Once everything it wakes has been started, the consumer carries every resume
\* through to the last service, and never waits for an answer that is not coming,
\* however short the queues and whatever piled up in them before.
WakesOnceStarted == <>(started = Services) => KeepsWaking

\* "The next reading has to start a fresh pair rather than report a spike"
\* (runtime.rs:336): no published reading spans a sleep.
NeverOvernight == reading # "overnight"

-----------------------------------------------------------------------------
(* Bounds.                                                                 *)

\* Queues of one, and of two where the code has the longest.
SmallRoom == [s \in Services |-> IF s \in {"weather", "crypto", "network", "battery"} THEN 2 ELSE 1]

\* A clock that is later joined by Quick Settings, or by everything there is; and
\* a bar that never gets a mail count, a headset or anything that asks for them.
Everything == {"crypto", "notmuch", "weather", "headset", "quick_settings"}
Growing == {{"clock"}, {"clock", "quick_settings"}, Everything}
OnlyQuickSettings == {{"clock", "quick_settings", "crypto"}}

=============================================================================

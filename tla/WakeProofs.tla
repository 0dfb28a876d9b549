----------------------------- MODULE WakeProofs -----------------------------
(***************************************************************************)
(* What is proved of sleeping and waking, for any number of sleeps, any    *)
(* queue capacities and any configurations: what the panel believes of     *)
(* logind, what it does before the machine goes down, and in which order   *)
(* it wakes its services.  That every resume is carried through (liveness) *)
(* stays with the model checker.                                           *)
(***************************************************************************)
EXTENDS Wake, SequenceTheorems, TLAPS

LifecycleState ==
    [suspends : Nat, resumes : Nat, suspending : BOOLEAN, inhibited : BOOLEAN]

Typed ==
    /\ machine \in {"awake", "going", "asleep"}
    /\ slept \in Nat
    /\ overran \in BOOLEAN
    /\ promised \in BOOLEAN
    /\ signals \in Seq(BOOLEAN)
    /\ doing \in {"connecting", "gone", "locking", "following", "releasing", "retaking"}
    /\ lock \in BOOLEAN
    /\ state \in LifecycleState

\* What the task has heard: nothing before the first announcement, and while it takes
\* the lock again, that the machine is back.
Heard == doing = "retaking" \/ state.suspends + state.resumes > 0
Believed == doing # "retaking" /\ state.suspending

\* Announcements alternate, and the last of them is the truth: what is believed
\* is wrong in exactly the way the next announcement says.
Told ==
    /\ \A i \in 1 .. Len(signals) - 1 : signals[i + 1] <=> ~signals[i]
    /\ signals # <<>> => (signals[Len(signals)] <=> machine # "awake")
    /\ Heard /\ signals = <<>> => (Believed <=> machine # "awake")
    /\ Heard /\ signals # <<>> => (signals[1] <=> ~Believed)

\* The lock the panel says it has.
Held ==
    /\ doing \in {"connecting", "gone", "locking"} => ~lock /\ state = Awake
    /\ doing \in {"connecting", "gone"} => signals = <<>>
    /\ doing = "releasing" => state.suspending /\ ~state.inhibited
    /\ ~Heard => ~state.suspending
    /\ state.inhibited => lock /\ ~state.suspending

\* A sleep that was announced to a panel at rest with its lock has not begun before
\* the panel heard of it, and the panel keeps the lock until it has said so.
Warned ==
    machine = "going" /\ promised =>
        \/ doing = "following" /\ signals = <<TRUE>> /\ lock
        \/ doing \in {"following", "releasing"} /\ signals = <<>> /\ state.suspending

LifeInv == Typed /\ Told /\ Held /\ Warned

-----------------------------------------------------------------------------
(* The lifecycle task and logind.                                          *)

\* What joins a queue at its end, and what is left when the oldest is taken.
LEMMA JoinEnd ==
    ASSUME NEW S, NEW s \in Seq(S), NEW e \in S
    PROVE  /\ Append(s, e) \in Seq(S)
           /\ Append(s, e) # <<>>
           /\ Len(Append(s, e)) = Len(s) + 1
           /\ \A i \in 1 .. Len(s) : Append(s, e)[i] = s[i]
           /\ Append(s, e)[Len(s) + 1] = e
           /\ s = <<>> => Append(s, e) = <<e>>
<1>1. s = <<>> => Append(s, e) = <<e>>
  OBVIOUS
<1> QED
  BY <1>1, AppendProperties

LEMMA TakeOldest ==
    ASSUME NEW S, NEW s \in Seq(S), s # <<>>
    PROVE  /\ Tail(s) \in Seq(S)
           /\ Len(s) \in Nat \ {0}
           /\ Len(Tail(s)) = Len(s) - 1
           /\ \A i \in 1 .. Len(s) - 1 : Tail(s)[i] = s[i + 1]
           /\ Head(s) = s[1]
           /\ Tail(s) = <<>> <=> Len(s) = 1
<1>1. /\ Tail(s) \in Seq(S) /\ Len(Tail(s)) = Len(s) - 1 /\ Head(s) = s[1]
      /\ \A i \in 1 .. Len(Tail(s)) : Tail(s)[i] = s[i + 1]
  BY HeadTailProperties
<1>2. Len(s) \in Nat \ {0}
  BY EmptySeq
<1>3. Tail(s) = <<>> => Len(Tail(s)) = 0
  BY EmptySeq
<1>4. Tail(s) # <<>> => Len(Tail(s)) # 0
  BY <1>1, EmptySeq
<1> QED
  BY <1>1, <1>2, <1>3, <1>4

\* An announcement joins the end of the queue.
LEMMA SignalledEffect ==
    ASSUME signals \in Seq(BOOLEAN), NEW start \in BOOLEAN, Signalled(start)
    PROVE  /\ signals' \in Seq(BOOLEAN)
           /\ ~Listening => signals' = signals
           /\ Listening => /\ Len(signals') = Len(signals) + 1
                           /\ signals' # <<>>
                           /\ \A i \in 1 .. Len(signals) : signals'[i] = signals[i]
                           /\ signals'[Len(signals) + 1] = start
                           /\ signals = <<>> => signals' = <<start>>
<1>1. CASE Listening
  <2>1. signals' = Append(signals, start)
    BY <1>1 DEF Signalled
  <2> QED
    BY <1>1, <2>1, JoinEnd
<1>2. CASE ~Listening
  BY <1>2 DEF Signalled
<1> QED
  BY <1>1, <1>2

\* A handler takes the oldest.
LEMMA TakenEffect ==
    ASSUME signals \in Seq(BOOLEAN), signals # <<>>, signals' = Tail(signals)
    PROVE  /\ signals' \in Seq(BOOLEAN)
           /\ Len(signals) \in Nat \ {0}
           /\ Len(signals') = Len(signals) - 1
           /\ \A i \in 1 .. Len(signals) - 1 : signals'[i] = signals[i + 1]
           /\ Head(signals) = signals[1]
           /\ signals' = <<>> <=> Len(signals) = 1
  BY TakeOldest

LEMMA LifeInitInv == LifeInit => LifeInv
<1> SUFFICES ASSUME LifeInit PROVE LifeInv
  OBVIOUS
<1>1. signals \in Seq(BOOLEAN)
  BY DEF LifeInit
<1>2. state \in LifecycleState
  BY DEF LifeInit, Awake, LifecycleState
<1>3. Typed
  BY <1>1, <1>2 DEF LifeInit, Typed
<1>4. Told /\ Held /\ Warned
  BY DEF LifeInit, Told, Held, Warned, Awake, Heard
<1> QED
  BY <1>3, <1>4 DEF LifeInv

\* What logind announces keeps the queue alternating and its last word true.
LEMMA AnnounceInv == LifeInv /\ Announce => LifeInv'
<1> SUFFICES ASSUME LifeInv, Announce PROVE LifeInv'
  OBVIOUS
<1>0. Typed /\ Told /\ Held
  BY DEF LifeInv
<1>1. /\ machine = "awake" /\ machine' = "going"
      /\ promised' = (lock /\ doing = "following" /\ signals = <<>>)
      /\ Signalled(TRUE) /\ UNCHANGED <<slept, overran, doing, lock, state>>
  BY DEF Announce
<1>2. /\ signals' \in Seq(BOOLEAN)
      /\ ~Listening => signals' = signals
      /\ Listening => /\ Len(signals') = Len(signals) + 1
                      /\ \A i \in 1 .. Len(signals) : signals'[i] = signals[i]
                      /\ signals' # <<>>
                      /\ signals'[Len(signals) + 1] = TRUE
                      /\ signals = <<>> => signals' = <<TRUE>>
  <2>1. signals \in Seq(BOOLEAN) /\ TRUE \in BOOLEAN
    BY <1>0 DEF Typed
  <2> QED
    BY <1>1, <2>1, SignalledEffect
<1>3. Typed'
  BY <1>0, <1>1, <1>2 DEF Typed
<1>4. Told'
  <2>1. CASE ~Listening
    BY <2>1, <1>0, <1>1, <1>2 DEF Listening, Told, Held, Heard, Believed, Awake
  <2>2. CASE Listening
    BY <2>2, <1>0, <1>1, <1>2 DEF Typed, Told, Heard, Believed
  <2> QED
    BY <2>1, <2>2
<1>5. Held'
  BY <1>0, <1>1, <1>2 DEF Held, Heard, Listening
<1>6. Warned'
  BY <1>1, <1>2 DEF Warned, Listening
<1> QED
  BY <1>3, <1>4, <1>5, <1>6 DEF LifeInv

LEMMA ComeBackInv == LifeInv /\ ComeBack => LifeInv'
<1> SUFFICES ASSUME LifeInv, ComeBack PROVE LifeInv'
  OBVIOUS
<1>0. Typed /\ Told /\ Held
  BY DEF LifeInv
<1>1. /\ machine = "asleep" /\ machine' = "awake" /\ overran' = FALSE
      /\ Signalled(FALSE) /\ UNCHANGED <<slept, promised, doing, lock, state>>
  BY DEF ComeBack
<1>2. /\ signals' \in Seq(BOOLEAN)
      /\ ~Listening => signals' = signals
      /\ Listening => /\ Len(signals') = Len(signals) + 1
                      /\ \A i \in 1 .. Len(signals) : signals'[i] = signals[i]
                      /\ signals' # <<>>
                      /\ signals'[Len(signals) + 1] = FALSE
  <2>1. signals \in Seq(BOOLEAN) /\ FALSE \in BOOLEAN
    BY <1>0 DEF Typed
  <2> QED
    BY <1>1, <2>1, SignalledEffect
<1>3. Typed'
  BY <1>0, <1>1, <1>2 DEF Typed
<1>4. Told'
  <2>1. CASE ~Listening
    BY <2>1, <1>0, <1>1, <1>2 DEF Listening, Told, Held, Heard, Believed, Awake
  <2>2. CASE Listening
    BY <2>2, <1>0, <1>1, <1>2 DEF Typed, Told, Heard, Believed
  <2> QED
    BY <2>1, <2>2
<1>5. Held'
  BY <1>0, <1>1, <1>2 DEF Held, Heard, Listening
<1>6. Warned'
  BY <1>1 DEF Warned
<1> QED
  BY <1>3, <1>4, <1>5, <1>6 DEF LifeInv

LEMMA FallAsleepInv == LifeInv /\ (FallAsleep \/ LoseWaiting) => LifeInv'
<1> SUFFICES ASSUME LifeInv, FallAsleep \/ LoseWaiting PROVE LifeInv'
  OBVIOUS
<1>1. /\ machine = "going" /\ machine' = "asleep" /\ slept' = slept + 1
      /\ UNCHANGED <<promised, signals, doing, lock, state>>
  BY DEF FallAsleep, LoseWaiting
<1>2. Typed'
  <2>1. overran' \in BOOLEAN
    BY DEF FallAsleep, LoseWaiting, LifeInv, Typed
  <2> QED
    BY <1>1, <2>1 DEF LifeInv, Typed
<1>3. Told' /\ Held' /\ Warned'
  BY <1>1 DEF LifeInv, Told, Held, Warned, Heard, Believed
<1> QED
  BY <1>2, <1>3 DEF LifeInv

\* A queue without its oldest announcement still alternates and still ends in the
\* truth; what is left begins with the opposite of what was taken.
LEMMA OldestTaken ==
    ASSUME Typed, Told, signals # <<>>, signals' = Tail(signals), machine' = machine
    PROVE  /\ signals' \in Seq(BOOLEAN)
           /\ \A i \in 1 .. Len(signals') - 1 : signals'[i + 1] <=> ~signals'[i]
           /\ signals' # <<>> => (signals'[Len(signals')] <=> machine' # "awake")
           /\ signals' = <<>> => (Head(signals) <=> machine' # "awake")
           /\ signals' # <<>> => (signals'[1] <=> ~Head(signals))
           /\ Head(signals) = signals[1]
<1>1. /\ signals' \in Seq(BOOLEAN)
      /\ Len(signals) \in Nat \ {0}
      /\ Len(signals') = Len(signals) - 1
      /\ \A i \in 1 .. Len(signals) - 1 : signals'[i] = signals[i + 1]
      /\ Head(signals) = signals[1]
      /\ signals' = <<>> <=> Len(signals) = 1
  BY TakenEffect DEF Typed
<1>2. /\ \A i \in 1 .. Len(signals) - 1 : signals[i + 1] <=> ~signals[i]
      /\ signals[Len(signals)] <=> machine # "awake"
  BY DEF Told
<1>3. \A i \in 1 .. Len(signals') - 1 : signals'[i + 1] <=> ~signals'[i]
  <2> SUFFICES ASSUME NEW i \in 1 .. Len(signals') - 1
               PROVE  signals'[i + 1] <=> ~signals'[i]
    OBVIOUS
  <2>1. /\ i \in 1 .. Len(signals) - 1 /\ i + 1 \in 1 .. Len(signals) - 1
    BY <1>1
  <2>2. signals'[i] = signals[i + 1] /\ signals'[i + 1] = signals[(i + 1) + 1]
    BY <1>1, <2>1
  <2> QED
    BY <1>2, <2>1, <2>2
<1>4. CASE signals' = <<>>
  BY <1>1, <1>2, <1>3, <1>4
<1>5. CASE signals' # <<>>
  <2>1. Len(signals) - 1 \in 1 .. Len(signals) - 1 /\ 1 \in 1 .. Len(signals) - 1
    BY <1>1, <1>5
  <2>2. signals'[Len(signals')] = signals[Len(signals)]
    BY <1>1, <2>1
  <2>3. signals'[1] = signals[1 + 1]
    BY <1>1, <2>1
  <2>4. signals[1 + 1] <=> ~signals[1]
    BY <1>2, <2>1
  <2> QED
    BY <1>1, <1>2, <1>3, <1>5, <2>2, <2>3, <2>4
<1> QED
  BY <1>4, <1>5

LEMMA Alone == ASSUME NEW e PROVE Head(<<e>>) = e /\ Tail(<<e>>) = <<>>
  OBVIOUS

\* A warning that is alone in the queue is what is heard next.
LEMMA AloneIsHeard ==
    ASSUME Typed, signals = <<TRUE>>, signals' = Tail(signals)
    PROVE  signals' = <<>> /\ Head(signals)
  BY Alone

\* The record published at either turn.
LEMMA SleepPublished ==
    ASSUME state \in LifecycleState, NEW going \in BOOLEAN, NEW held \in BOOLEAN,
           state' = [state EXCEPT !.suspends = @ + 1, !.suspending = going, !.inhibited = held]
    PROVE  /\ state' \in LifecycleState
           /\ state'.suspends = state.suspends + 1 /\ state'.resumes = state.resumes
           /\ state'.suspending = going /\ state'.inhibited = held
           /\ state'.suspends + state'.resumes > 0
<1>1. state.suspends \in Nat /\ state.resumes \in Nat
  BY DEF LifecycleState
<1>2. /\ state'.suspends = state.suspends + 1 /\ state'.resumes = state.resumes
      /\ state'.suspending = going /\ state'.inhibited = held
  BY DEF LifecycleState
<1>3. state' = [suspends |-> state.suspends + 1, resumes |-> state.resumes, suspending |-> going,
                 inhibited |-> held]
  BY DEF LifecycleState
<1>4. state' \in LifecycleState
  BY <1>1, <1>3 DEF LifecycleState
<1> QED
  BY <1>1, <1>2, <1>4

LEMMA WakePublished ==
    ASSUME state \in LifecycleState, NEW going \in BOOLEAN, NEW held \in BOOLEAN,
           state' = [state EXCEPT !.resumes = @ + 1, !.suspending = going, !.inhibited = held]
    PROVE  /\ state' \in LifecycleState
           /\ state'.suspends = state.suspends /\ state'.resumes = state.resumes + 1
           /\ state'.suspending = going /\ state'.inhibited = held
           /\ state'.suspends + state'.resumes > 0
<1>1. state.suspends \in Nat /\ state.resumes \in Nat
  BY DEF LifecycleState
<1>2. /\ state'.suspends = state.suspends /\ state'.resumes = state.resumes + 1
      /\ state'.suspending = going /\ state'.inhibited = held
  BY DEF LifecycleState
<1>3. state' = [suspends |-> state.suspends, resumes |-> state.resumes + 1, suspending |-> going,
                 inhibited |-> held]
  BY DEF LifecycleState
<1>4. state' \in LifecycleState
  BY <1>1, <1>3 DEF LifecycleState
<1> QED
  BY <1>1, <1>2, <1>4

\* What the oldest announcement says becomes what the panel believes.
LEMMA HearSleepInv == LifeInv /\ HearSleep => LifeInv'
<1> SUFFICES ASSUME LifeInv, HearSleep PROVE LifeInv'
  OBVIOUS
<1>0. Typed /\ Told /\ Held /\ Warned /\ state \in LifecycleState
  BY DEF LifeInv, Typed
<1>1. /\ doing = "following" /\ signals # <<>> /\ Head(signals)
      /\ signals' = Tail(signals) /\ doing' = "releasing"
      /\ UNCHANGED <<machine, slept, overran, promised, lock>>
  BY DEF HearSleep, logindVars
<1>2. state' = [state EXCEPT !.suspends = @ + 1, !.suspending = TRUE, !.inhibited = FALSE]
  BY DEF HearSleep
<1>3. /\ state' \in LifecycleState
      /\ state'.suspends = state.suspends + 1 /\ state'.resumes = state.resumes
      /\ state'.suspending /\ ~state'.inhibited
      /\ state'.suspends + state'.resumes > 0
  BY <1>0, <1>2, SleepPublished
<1>4. /\ signals' \in Seq(BOOLEAN)
      /\ \A i \in 1 .. Len(signals') - 1 : signals'[i + 1] <=> ~signals'[i]
      /\ signals' # <<>> => (signals'[Len(signals')] <=> machine' # "awake")
      /\ signals' = <<>> => machine' # "awake"
      /\ signals' # <<>> => ~signals'[1]
  BY <1>0, <1>1, OldestTaken
<1>5. Typed'
  BY <1>0, <1>1, <1>3, <1>4 DEF Typed
<1>6. Told'
  BY <1>1, <1>3, <1>4 DEF Told, Believed
<1>7. Held'
  BY <1>1, <1>3 DEF Held, Heard
<1>8. Warned'
  <2>1. signals = <<TRUE>> => signals' = <<>>
    BY <1>0, <1>1, AloneIsHeard
  <2> QED
    BY <1>0, <1>1, <1>3, <2>1 DEF Warned
<1> QED
  BY <1>5, <1>6, <1>7, <1>8 DEF LifeInv

LEMMA HearWakeInv == LifeInv /\ HearWake => LifeInv'
<1> SUFFICES ASSUME LifeInv, HearWake PROVE LifeInv'
  OBVIOUS
<1>0. Typed /\ Told /\ Held /\ Warned
  BY DEF LifeInv
<1>1. /\ doing = "following" /\ signals # <<>> /\ ~Head(signals)
      /\ signals' = Tail(signals) /\ doing' = "retaking"
      /\ UNCHANGED <<machine, slept, overran, promised, lock, state>>
  BY DEF HearWake, logindVars
<1>2. /\ signals' \in Seq(BOOLEAN)
      /\ \A i \in 1 .. Len(signals') - 1 : signals'[i + 1] <=> ~signals'[i]
      /\ signals' # <<>> => (signals'[Len(signals')] <=> machine' # "awake")
      /\ signals' = <<>> => machine' = "awake"
      /\ signals' # <<>> => signals'[1]
  BY <1>0, <1>1, OldestTaken
<1>3. Typed'
  BY <1>0, <1>1, <1>2 DEF Typed
<1>4. Told'
  BY <1>1, <1>2 DEF Told, Believed
<1>5. Held'
  BY <1>0, <1>1 DEF Held, Heard
<1>6. Warned'
  <2>1. signals # <<TRUE>>
    BY <1>0, <1>1, AloneIsHeard
  <2> QED
    BY <1>0, <1>1, <2>1 DEF Warned
<1> QED
  BY <1>3, <1>4, <1>5, <1>6 DEF LifeInv

\* The first lock, the one let go and the one taken again: none touches the queue.
LEMMA LockInv ==
    LifeInv /\ (Connect \/ TakeFirstLock \/ Release \/ Retake) => LifeInv'
<1> SUFFICES ASSUME LifeInv, Connect \/ TakeFirstLock \/ Release \/ Retake PROVE LifeInv'
  OBVIOUS
<1>0. Typed /\ Told /\ Held /\ Warned
  BY DEF LifeInv
<1>1. UNCHANGED <<machine, slept, overran, promised, signals>>
  BY DEF Connect, TakeFirstLock, Release, Retake, logindVars
<1>2. CASE Connect
  <2>1. /\ doing = "connecting" /\ doing' \in {"locking", "gone"}
        /\ UNCHANGED <<lock, state>>
    BY <1>2 DEF Connect
  <2> QED
    BY <2>1, <1>0, <1>1 DEF LifeInv, Typed, Told, Held, Warned, Heard, Believed
<1>3. CASE TakeFirstLock
  <2>1. /\ doing = "locking" /\ doing' = "following" /\ lock' \in BOOLEAN /\ state = Awake
        /\ ~Heard
    <3>1. doing = "locking" /\ doing' = "following" /\ lock' \in LockTaken
      BY <1>3 DEF TakeFirstLock
    <3>2. state = Awake
      BY <3>1, <1>0 DEF Held
    <3>3. lock' \in BOOLEAN
      BY <3>1 DEF LockTaken
    <3>4. ~Heard
      BY <3>1, <3>2 DEF Heard, Awake
    <3> QED
      BY <3>1, <3>2, <3>3, <3>4
  <2>2. /\ state' \in LifecycleState /\ state'.suspends = 0 /\ state'.resumes = 0
        /\ state'.inhibited = lock' /\ ~state'.suspending
    BY <1>3, <2>1 DEF TakeFirstLock, Awake, LifecycleState
  <2>3. Typed'
    BY <2>1, <2>2, <1>0, <1>1 DEF Typed
  <2>4. Told'
    BY <2>1, <2>2, <1>0, <1>1 DEF Told, Heard
  <2>5. Held' /\ Warned'
    BY <2>1, <2>2, <1>0, <1>1 DEF Held, Warned, Heard, Awake
  <2> QED
    BY <2>3, <2>4, <2>5 DEF LifeInv
<1>4. CASE Release
  <2>1. /\ doing = "releasing" /\ doing' = "following" /\ lock' = FALSE /\ state' = state
    BY <1>4 DEF Release
  <2>2. Typed'
    BY <2>1, <1>0, <1>1 DEF Typed
  <2>3. Told' /\ Held' /\ Warned'
    BY <2>1, <1>0, <1>1 DEF Told, Held, Warned, Heard, Believed
  <2> QED
    BY <2>2, <2>3 DEF LifeInv
<1>5. CASE Retake
  <2>1. /\ doing = "retaking" /\ doing' = "following" /\ lock' \in BOOLEAN
    BY <1>5 DEF Retake, LockTaken
  <2>2. /\ state' \in LifecycleState
        /\ state'.suspends = state.suspends /\ state'.resumes = state.resumes + 1
        /\ state'.inhibited = lock' /\ ~state'.suspending
    <3>1. state \in LifecycleState
      BY <1>0 DEF Typed
    <3>2. state' = [state EXCEPT !.resumes = @ + 1, !.suspending = FALSE, !.inhibited = lock']
      BY <1>5 DEF Retake
    <3> QED
      BY <2>1, <3>1, <3>2, WakePublished
  <2>3. Typed'
    BY <2>1, <2>2, <1>0, <1>1 DEF Typed
  <2>4. Told'
    BY <2>1, <2>2, <1>0, <1>1 DEF Told, Heard, Believed
  <2>5. Held'
    BY <2>1, <2>2, <1>0 DEF Held, Heard, Typed, LifecycleState
  <2>6. Warned'
    BY <2>1, <1>0, <1>1 DEF Warned
  <2> QED
    BY <2>3, <2>4, <2>5, <2>6 DEF LifeInv
<1> QED
  BY <1>2, <1>3, <1>4, <1>5

LEMMA LifeStepInv == LifeInv /\ (Logind \/ Follow \/ UNCHANGED lifeVars) => LifeInv'
<1>1. ASSUME LifeInv, UNCHANGED lifeVars PROVE LifeInv'
  <2>1. Typed'
    BY <1>1 DEF LifeInv, lifeVars, Typed
  <2>2. Told'
    BY <1>1 DEF LifeInv, lifeVars, Told, Heard, Believed
  <2>3. Held' /\ Warned'
    BY <1>1 DEF LifeInv, lifeVars, Held, Warned, Heard
  <2> QED
    BY <2>1, <2>2, <2>3 DEF LifeInv
<1> QED
  BY <1>1, AnnounceInv, ComeBackInv, FallAsleepInv, HearSleepInv, HearWakeInv, LockInv
     DEF Logind, Follow

-----------------------------------------------------------------------------
(* The consumer of resumes and the CPU sampler.                            *)

ConsumerTyped ==
    /\ started \subseteq Services
    /\ queue \in [Services -> Nat]
    /\ seen \in Nat
    /\ step \in 0 .. Len(WakeOrder)
    /\ asking \in BOOLEAN
    /\ networkAt \in Nat

\* The consumer is never ahead of what was published, waits only for those that
\* answer, and has read the network for the resume it is at when it is past it.
InOrder ==
    /\ seen <= state.resumes
    /\ asking => step # 0 /\ WakeOrder[step] \in Answering
    /\ step > 6 => networkAt >= seen

\* What was sent to a sampler that is not running is still there when it starts.
Waits == "resources" \notin started /\ seen > 0 /\ step # 1 => queue["resources"] > 0

IInv == LifeInv /\ ConsumerTyped /\ InOrder /\ Waits /\ PairIsRefreshed

\* Where each service stands in the order, as far as the proofs ask.
LEMMA Order ==
    /\ Len(WakeOrder) = 8
    /\ \A k \in 1 .. 8 : WakeOrder[k] \in Services
    /\ \A k \in 1 .. 8 : WakeOrder[k] = "resources" <=> k = 1
    /\ \A k \in 1 .. 8 : WakeOrder[k] \in Answering <=> k \in {3, 6}
    /\ WakeOrder[6] = "network"
    /\ \A k \in 1 .. 8 : WakeOrder[k] \in {"weather", "crypto"} <=> k \in {7, 8}
    /\ "resources" \in Services
<1>1. /\ Len(WakeOrder) = 8
      /\ WakeOrder[1] = "resources" /\ WakeOrder[2] = "headset" /\ WakeOrder[3] = "battery"
      /\ WakeOrder[4] = "updates" /\ WakeOrder[5] = "notmuch" /\ WakeOrder[6] = "network"
      /\ WakeOrder[7] = "weather" /\ WakeOrder[8] = "crypto"
  BY DEF WakeOrder
<1>2. DOMAIN WakeOrder = 1 .. 8
  BY DEF WakeOrder
<1>3. \A k \in 1 .. 8 : k \in {1, 2, 3, 4, 5, 6, 7, 8}
  OBVIOUS
<1>4. \A k \in 1 .. 8 : WakeOrder[k] \in Services
  BY <1>2 DEF Services
<1> QED
  BY <1>1, <1>3, <1>4 DEF Answering

LEMMA DemandIsServices == ASSUME NEW widgets PROVE Demand(widgets) \subseteq Services
<1> DEFINE for == [crypto |-> {"crypto"}, notmuch |-> {"notmuch"}, weather |-> {"weather"},
                   headset |-> {"headset"}, clock |-> {"weather"}, system_monitor |-> {"resources"},
                   quick_settings |-> {"resources", "updates", "battery"}]
<1>1. {"crypto", "notmuch", "weather", "headset", "resources", "updates", "battery", "network"} \subseteq Services
  <2>1. DOMAIN WakeOrder = 1 .. 8
    BY DEF WakeOrder
  <2> QED
    BY <2>1 DEF Services, WakeOrder
<1>2. \A w \in DOMAIN for : for[w] \subseteq Services
  BY <1>1
<1>3. Demand(widgets) = {"network"} \cup UNION {for[w] : w \in widgets \cap DOMAIN for}
  BY DEF Demand
<1> HIDE DEF for
<1> QED
  BY <1>1, <1>2, <1>3

LEMMA InitIInv == Init => IInv
<1> SUFFICES ASSUME Init PROVE IInv
  OBVIOUS
<1>1. LifeInv
  BY LifeInitInv DEF Init
<1>2. ConsumerTyped
  <2>1. started \subseteq Services
    BY DemandIsServices DEF Init
  <2>2. queue \in [Services -> Nat]
    BY DEF Init
  <2>3. seen \in Nat /\ step \in 0 .. 8 /\ networkAt \in Nat
    BY DEF Init
  <2>4. asking \in BOOLEAN
    BY DEF Init
  <2> QED
    BY <2>1, <2>2, <2>3, <2>4, Order DEF ConsumerTyped
<1>3. InOrder /\ Waits /\ PairIsRefreshed
  BY DEF Init, LifeInit, Awake, InOrder, Waits, PairIsRefreshed
<1> QED
  BY <1>1, <1>2, <1>3 DEF IInv

\* The lifecycle task publishes a resume only after the consumer's last look, and no
\* rest with the machine awake survives a sleep unheard.
LEMMA LifecycleStepIInv == IInv /\ LifecycleStep => IInv'
<1> SUFFICES ASSUME IInv, LifecycleStep PROVE IInv'
  OBVIOUS
<1>1. UNCHANGED <<started, queue, seen, step, asking, networkAt, previous, reading>>
  BY DEF LifecycleStep, consumer, sampler
<1>2. LifeInv /\ LifeInv'
  BY LifeStepInv DEF IInv, LifecycleStep
<1>3. Typed /\ Told /\ Held /\ Typed' /\ Told' /\ Held'
  BY <1>2 DEF LifeInv
<1>4. state.resumes \in Nat /\ state'.resumes \in Nat /\ state.suspends \in Nat
  BY <1>3 DEF Typed, LifecycleState
<1>5. state'.resumes = state.resumes \/ state'.resumes = state.resumes + 1
  <2>1. CASE Retake
    BY <2>1, <1>3, <1>4 DEF Retake, Typed, LifecycleState
  <2>2. CASE HearSleep
    BY <2>2, <1>3, <1>4 DEF HearSleep, Typed, LifecycleState
  <2>3. CASE TakeFirstLock
    BY <2>3, <1>3, <1>4 DEF TakeFirstLock, Typed, LifecycleState
  <2>4. CASE Connect \/ Release \/ HearWake \/ Logind
    BY <2>4 DEF Connect, Release, HearWake, Logind, Announce, FallAsleep, LoseWaiting, ComeBack
  <2> QED
    BY <2>1, <2>2, <2>3, <2>4 DEF LifecycleStep, Follow
<1>6. ConsumerTyped'
  BY <1>1 DEF IInv, ConsumerTyped
<1>7. InOrder'
  BY <1>1, <1>4, <1>5 DEF IInv, InOrder, ConsumerTyped
<1>8. Waits'
  BY <1>1 DEF IInv, Waits
<1>9. PairIsRefreshed'
  <2> SUFFICES ASSUME state'.resumes > 0, seen' = state'.resumes, step' # 1, queue'["resources"] = 0,
                      doing' = "following", signals' = <<>>, machine' = "awake",
                      "resources" \in started'
               PROVE  previous' = <<slept'>>
    BY DEF PairIsRefreshed
  <2>1. state'.resumes = state.resumes
    BY <1>1, <1>4, <1>5 DEF IInv, InOrder, ConsumerTyped
  <2>2. Heard
    BY <2>1, <1>4 DEF Heard
  <2>3. CASE Logind
    <3>1. ComeBack
      BY <2>3 DEF Logind, Announce, FallAsleep, LoseWaiting
    <3>2. Listening /\ Signalled(FALSE) /\ signals \in Seq(BOOLEAN)
      BY <3>1, <1>3 DEF ComeBack, Listening, Typed
    <3> QED
      BY <3>2, SignalledEffect
  <2>4. CASE Follow
    <3>1. Release
      <4>1. ~Retake
        <5> SUFFICES ASSUME Retake PROVE FALSE
          OBVIOUS
        <5>1. state \in LifecycleState
          BY <1>3 DEF Typed
        <5>2. state'.resumes = state.resumes + 1
          BY <5>1 DEF Retake, LifecycleState
        <5> QED
          BY <5>2, <2>1, <1>4
      <4>2. ~TakeFirstLock
        BY <2>2, <1>3, <1>4 DEF TakeFirstLock, Held, Awake, Heard
      <4> QED
        BY <4>1, <4>2, <2>4 DEF Follow, Connect, HearSleep, HearWake
    <3>2. doing = "releasing" /\ signals = <<>> /\ machine = "awake"
      BY <3>1 DEF Release, logindVars
    <3> QED
      BY <2>2, <3>2, <1>3 DEF Told, Held, Believed
  <2> QED
    BY <2>3, <2>4 DEF LifecycleStep
<1> QED
  BY <1>2, <1>6, <1>7, <1>8, <1>9 DEF IInv

\* Everything else leaves the lifecycle task where it is.
LEMMA NoticeResumeIInv == IInv /\ NoticeResume => IInv'
<1> SUFFICES ASSUME IInv, NoticeResume PROVE IInv'
  OBVIOUS
<1>1. /\ UNCHANGED lifeVars /\ UNCHANGED <<started, queue, asking, networkAt, previous, reading>>
      /\ step = 0 /\ seen' = state.resumes /\ step' = 1
  BY DEF NoticeResume, sampler
<1>2. LifeInv'
  BY <1>1, LifeStepInv DEF IInv
<1>3. state.resumes \in Nat /\ state' = state
  BY <1>1 DEF IInv, LifeInv, Typed, LifecycleState, lifeVars
<1>4. ConsumerTyped'
  BY <1>1, <1>3, Order DEF IInv, ConsumerTyped
<1>5. InOrder' /\ Waits' /\ PairIsRefreshed'
  BY <1>1, <1>3 DEF IInv, ConsumerTyped, InOrder, Waits, PairIsRefreshed
<1> QED
  BY <1>2, <1>4, <1>5 DEF IInv

LEMMA ReloadIInv == IInv /\ Reload => IInv'
<1> SUFFICES ASSUME IInv, NEW widgets, StartIfNeeded(widgets) PROVE IInv'
  BY DEF Reload
<1>1. /\ UNCHANGED lifeVars /\ UNCHANGED <<queue, seen, step, asking, networkAt, previous, reading>>
      /\ started' = started \cup Demand(widgets)
  BY DEF StartIfNeeded, Start, consumer, sampler
<1>2. LifeInv'
  BY <1>1, LifeStepInv DEF IInv
<1>3. state.resumes \in Nat /\ state' = state /\ UNCHANGED <<doing, signals, machine, slept>>
  BY <1>1 DEF IInv, LifeInv, Typed, LifecycleState, lifeVars
<1>4. ConsumerTyped'
  BY <1>1, DemandIsServices DEF IInv, ConsumerTyped
<1>5. InOrder' /\ Waits'
  BY <1>1, <1>3 DEF IInv, InOrder, Waits
<1>6. PairIsRefreshed'
  BY <1>1, <1>3 DEF IInv, ConsumerTyped, Waits, PairIsRefreshed
<1> QED
  BY <1>2, <1>4, <1>5, <1>6 DEF IInv

\* A send moves the consumer on, or leaves it waiting for the one that answers.
LEMMA WakeIInv == IInv /\ Wake => IInv'
<1> SUFFICES ASSUME IInv, Wake PROVE IInv'
  OBVIOUS
<1> DEFINE s == WakeOrder[step]
<1>1. /\ UNCHANGED lifeVars /\ UNCHANGED <<started, seen, networkAt, previous, reading>>
      /\ step > 0 /\ ~asking
      /\ queue' = [queue EXCEPT ![s] = @ + 1]
      /\ asking' = (s \in Answering)
      /\ step' = IF s \in Answering THEN step ELSE After(step)
  BY DEF Wake, Ask, sampler
<1>2. LifeInv'
  BY <1>1, LifeStepInv DEF IInv
<1>3. state.resumes \in Nat /\ state' = state /\ UNCHANGED <<doing, signals, machine, slept>>
  BY <1>1 DEF IInv, LifeInv, Typed, LifecycleState, lifeVars
<1>4. step \in 1 .. 8 /\ s \in Services
  BY <1>1, Order DEF IInv, ConsumerTyped
<1>5. /\ s \in Answering <=> step \in {3, 6}
      /\ s = "resources" <=> step = 1
      /\ step' = IF step \in {3, 6} THEN step ELSE IF step = 8 THEN 0 ELSE step + 1
  <2>1. After(step) = IF step = 8 THEN 0 ELSE step + 1
    BY Order DEF After
  <2>2. (s \in Answering <=> step \in {3, 6}) /\ (s = "resources" <=> step = 1)
    BY <1>4, Order
  <2> QED
    BY <1>1, <2>1, <2>2
<1>6. ConsumerTyped'
  <2>1. queue' \in [Services -> Nat]
    BY <1>1, <1>4 DEF IInv, ConsumerTyped
  <2>2. asking' \in BOOLEAN
    BY <1>1
  <2> QED
    BY <1>1, <1>4, <1>5, <2>1, <2>2, Order DEF IInv, ConsumerTyped
<1>7. InOrder'
  <2>1. asking' => step' # 0 /\ WakeOrder[step'] \in Answering
    <3> SUFFICES ASSUME asking' PROVE step' # 0 /\ WakeOrder[step'] \in Answering
      OBVIOUS
    <3>1. s \in Answering
      BY <1>1
    <3>2. step' = step
      BY <3>1, <1>1
    <3> QED
      BY <1>4, <3>1, <3>2
  <2>2. step' > 6 => step > 6
    BY <1>4, <1>5
  <2> QED
    BY <1>1, <1>3, <2>1, <2>2 DEF IInv, InOrder
<1>8. Waits' /\ PairIsRefreshed'
  <2>1. queue'["resources"] = IF step = 1 THEN queue["resources"] + 1 ELSE queue["resources"]
    BY <1>1, <1>4, <1>5, Order DEF IInv, ConsumerTyped
  <2>2. queue["resources"] \in Nat
    BY Order DEF IInv, ConsumerTyped
  <2> QED
    BY <1>1, <1>3, <1>4, <1>5, <2>1, <2>2 DEF IInv, Waits, PairIsRefreshed
<1> QED
  BY <1>2, <1>6, <1>7, <1>8 DEF IInv

\* What a running service does with a command, and what it tells the consumer.
LEMMA ServeEffect ==
    ASSUME IInv, NEW s \in Services, Serve(s)
    PROVE  /\ LifeInv' /\ ConsumerTyped' /\ InOrder' /\ Waits'
           /\ state' = state /\ UNCHANGED <<started, seen, doing, signals, machine, slept>>
           /\ s # "resources" => queue'["resources"] = queue["resources"]
           /\ s # "resources" /\ step' # 1 => step # 1
<1>1. /\ UNCHANGED lifeVars /\ UNCHANGED <<started, seen>>
      /\ s \in started
      /\ queue[s] > 0 /\ queue' = [queue EXCEPT ![s] = @ - 1]
      /\ IF asking /\ WakeOrder[step] = s
         THEN asking' = FALSE /\ step' = After(step)
         ELSE UNCHANGED <<asking, step>>
      /\ networkAt' = IF s = "network" THEN state.resumes ELSE networkAt
  BY DEF Serve
<1>2. LifeInv'
  BY <1>1, LifeStepInv DEF IInv
<1>3. state.resumes \in Nat /\ state' = state /\ UNCHANGED <<doing, signals, machine, slept>>
  BY <1>1 DEF IInv, LifeInv, Typed, LifecycleState, lifeVars
<1>4. \/ step' = step /\ asking' = asking
      \/ /\ step \in {3, 6} /\ asking' = FALSE /\ WakeOrder[step] = s
         /\ step' = step + 1 
  <2>1. CASE asking /\ WakeOrder[step] = s
    <3>1. step \in 1 .. 8 /\ WakeOrder[step] \in Answering
      BY <2>1, Order DEF IInv, InOrder, ConsumerTyped
    <3>2. step \in {3, 6}
      BY <3>1, Order
    <3>3. After(step) = step + 1
      BY <3>2, Order DEF After
    <3> QED
      BY <1>1, <2>1, <3>2, <3>3
  <2>2. CASE ~(asking /\ WakeOrder[step] = s)
    BY <1>1, <2>2
  <2> QED
    BY <2>1, <2>2
<1>5. ConsumerTyped'
  <2>1. queue' \in [Services -> Nat]
    BY <1>1 DEF IInv, ConsumerTyped
  <2>2. networkAt' \in Nat
    BY <1>1, <1>3 DEF IInv, ConsumerTyped
  <2>3. asking' \in BOOLEAN
    BY <1>4 DEF IInv, ConsumerTyped
  <2> QED
    BY <1>1, <1>4, <2>1, <2>2, <2>3, Order DEF IInv, ConsumerTyped
<1>6. InOrder'
  <2>1. asking' => step' # 0 /\ WakeOrder[step'] \in Answering
    BY <1>4 DEF IInv, InOrder
  <2>2. seen' <= state'.resumes
    BY <1>1, <1>3 DEF IInv, InOrder
  <2>3. step' > 6 => networkAt' >= seen'
    BY <1>1, <1>3, <1>4, Order DEF IInv, InOrder, ConsumerTyped
  <2> QED
    BY <2>1, <2>2, <2>3 DEF InOrder
<1>7. s # "resources" => queue'["resources"] = queue["resources"]
  BY <1>1, Order DEF IInv, ConsumerTyped
<1>8. Waits'
  BY <1>1, <1>4, <1>7 DEF IInv, Waits
<1> QED
  BY <1>1, <1>2, <1>3, <1>4, <1>5, <1>6, <1>7, <1>8

\* Whoever samples has a pair from after the last sleep.
LEMMA SampleEffect ==
    ASSUME NEW before, Sample(before), slept' = slept
    PROVE  previous' = <<slept'>>
  BY DEF Sample

LEMMA ServeIInv ==
    IInv /\ (DiscardStaleSample \/ \E s \in Services : ServeOther(s)) => IInv'
<1>1. ASSUME IInv, DiscardStaleSample PROVE IInv'
  <2>1. Serve("resources") /\ Sample(<<>>)
    BY <1>1 DEF DiscardStaleSample
  <2>2. LifeInv' /\ ConsumerTyped' /\ InOrder' /\ Waits' /\ slept' = slept
    BY <1>1, <2>1, ServeEffect, Order
  <2>3. previous' = <<slept'>>
    BY <2>1, <2>2, SampleEffect
  <2> QED
    BY <2>2, <2>3 DEF IInv, PairIsRefreshed
<1>2. ASSUME IInv, NEW s \in Services, ServeOther(s) PROVE IInv'
  <2>1. Serve(s) /\ s # "resources" /\ previous' = previous
    BY <1>2 DEF ServeOther, sampler
  <2>2. /\ LifeInv' /\ ConsumerTyped' /\ InOrder' /\ Waits'
        /\ state' = state /\ UNCHANGED <<started, seen, doing, signals, machine, slept>>
        /\ queue'["resources"] = queue["resources"]
        /\ step' # 1 => step # 1
    BY <1>2, <2>1, ServeEffect
  <2>3. PairIsRefreshed'
    BY <1>2, <2>1, <2>2 DEF IInv, PairIsRefreshed
  <2> QED
    BY <2>2, <2>3 DEF IInv
<1> QED
  BY <1>1, <1>2

LEMMA SampleTickIInv == IInv /\ SampleTick => IInv'
<1> SUFFICES ASSUME IInv, SampleTick PROVE IInv'
  OBVIOUS
<1>1. /\ UNCHANGED lifeVars /\ UNCHANGED <<started, queue, seen, step, asking, networkAt>>
      /\ Sample(previous)
  BY DEF SampleTick, consumer
<1>2. LifeInv' /\ slept' = slept /\ state' = state
  BY <1>1, LifeStepInv DEF IInv, lifeVars
<1>3. previous' = <<slept'>>
  BY <1>1, <1>2, SampleEffect
<1>4. ConsumerTyped' /\ InOrder' /\ Waits'
  BY <1>1, <1>2 DEF IInv, ConsumerTyped, InOrder, Waits
<1> QED
  BY <1>2, <1>3, <1>4 DEF IInv, PairIsRefreshed

LEMMA StepIInv == IInv /\ [Next]_vars => IInv'
<1>1. ASSUME IInv, UNCHANGED vars PROVE IInv'
  <2>1. /\ UNCHANGED lifeVars
        /\ UNCHANGED <<started, queue, seen, step, asking, networkAt, previous, reading>>
    BY <1>1 DEF vars, consumer, sampler
  <2>2. LifeInv' /\ state' = state /\ UNCHANGED <<doing, signals, machine, slept>>
    BY <1>1, <2>1, LifeStepInv DEF IInv, lifeVars
  <2>3. ConsumerTyped' /\ InOrder' /\ Waits' /\ PairIsRefreshed'
    BY <1>1, <2>1, <2>2 DEF IInv, ConsumerTyped, InOrder, Waits, PairIsRefreshed
  <2> QED
    BY <2>2, <2>3 DEF IInv
<1> QED
  BY <1>1, LifecycleStepIInv, ReloadIInv, NoticeResumeIInv, WakeIInv, ServeIInv, SampleTickIInv
     DEF Next

-----------------------------------------------------------------------------
(* What follows for every behaviour.                                       *)

LEMMA Invariant == Spec => []IInv
  BY InitIInv, StepIInv, PTL DEF Spec

\* Every variable of the lifecycle task, of logind and of the consumer has its type.
THEOREM TypeCorrect == Spec => [](Typed /\ ConsumerTyped)
<1>1. IInv => Typed /\ ConsumerTyped
  BY DEF IInv, LifeInv
<1> QED
  BY <1>1, Invariant, PTL

\* The panel's view of logind is true, whatever was announced while it was connecting,
\* taking its lock, letting it go or asleep (lifecycle.rs:24): at rest it believes the
\* machine is going down exactly when it is, and the lock it says it has is held.
THEOREM LogindBelieved == Spec => []LogindIsBelieved
<1>1. IInv => LogindIsBelieved
  <2> SUFFICES ASSUME IInv PROVE LogindIsBelieved
    OBVIOUS
  <2>1. ASSUME doing = "following", signals = <<>>, state.suspends + state.resumes > 0
        PROVE  state.suspending = (machine # "awake")
    <3>1. Believed <=> machine # "awake"
      BY <2>1 DEF IInv, LifeInv, Told, Heard
    <3>2. state.suspending \in BOOLEAN
      BY DEF IInv, LifeInv, Typed, LifecycleState
    <3> QED
      BY <2>1, <3>1, <3>2 DEF Believed
  <2> QED
    BY <2>1 DEF IInv, LifeInv, Held, LogindIsBelieved
<1> QED
  BY <1>1, Invariant, PTL

\* Once the sampler has taken everything a resume sent it, its pair starts after the
\* sleep (runtime.rs:336), wherever a reload, its own timer or another sleep came in.
THEOREM PairRefreshed == Spec => []PairIsRefreshed
<1>1. IInv => PairIsRefreshed
  BY DEF IInv
<1> QED
  BY <1>1, Invariant, PTL

\* The machine is not asleep before the panel has published that it is going down, if
\* the panel was at rest with its lock and logind kept its patience (lifecycle.rs:24).
THEOREM TellsBeforeSleep == Spec => ToldBeforeSleep
<1>1. IInv /\ [Next]_vars => [machine' = "asleep" /\ promised /\ ~overran' => state.suspending]_machine
  <2> SUFFICES ASSUME IInv, [Next]_vars, machine' # machine,
                      machine' = "asleep", promised, ~overran'
               PROVE  state.suspending
    OBVIOUS
  <2>1. Logind
    BY DEF Next, vars, lifeVars, logindVars, LifecycleStep, Reload, StartIfNeeded, NoticeResume, Wake,
           DiscardStaleSample, SampleTick, ServeOther, Serve, Follow, Connect, TakeFirstLock,
           HearSleep, Release, HearWake, Retake
  <2>2. machine = "going" /\ ~lock
    BY <2>1 DEF Logind, Announce, FallAsleep, LoseWaiting, ComeBack
  <2> QED
    BY <2>2 DEF IInv, LifeInv, Warned
<1> QED
  BY <1>1, Invariant, PTL DEF Spec, ToldBeforeSleep

\* Nothing is sent to the two services that go out over the network before the network
\* has been read again since the resume being handled (runtime.rs:345).
THEOREM ReadsNetworkFirst == Spec => NetworkReadFirst
<1>1. IInv /\ [Next]_vars =>
          [\A s \in {"weather", "crypto"} : queue'[s] > queue[s] => networkAt >= seen]_queue
  <2> SUFFICES ASSUME IInv, [Next]_vars, queue' # queue, NEW s \in {"weather", "crypto"},
                      queue'[s] > queue[s]
               PROVE  networkAt >= seen
    OBVIOUS
  <2>1. s \in Services /\ queue \in [Services -> Nat] /\ queue[s] \in Nat
    <3>1. DOMAIN WakeOrder = 1 .. 8 /\ WakeOrder[7] = "weather" /\ WakeOrder[8] = "crypto"
      BY DEF WakeOrder
    <3> QED
      BY <3>1 DEF Services, IInv, ConsumerTyped
  <2>2. ASSUME NEW t \in Services, Serve(t) PROVE FALSE
    BY <2>1, <2>2 DEF Serve
  <2>3. Wake
    BY <2>2, Order DEF Next, vars, LifecycleStep, Reload, StartIfNeeded, NoticeResume,
           DiscardStaleSample, SampleTick, ServeOther
  <2>4. queue' = [queue EXCEPT ![WakeOrder[step]] = @ + 1] /\ step \in 1 .. 8
    BY <2>3, Order DEF Wake, Ask, IInv, ConsumerTyped
  <2>5. WakeOrder[step] = s
    BY <2>1, <2>4
  <2>6. step \in {7, 8}
    BY <2>4, <2>5, Order
  <2> QED
    BY <2>6 DEF IInv, InOrder
<1> QED
  BY <1>1, Invariant, PTL DEF Spec, NetworkReadFirst

=============================================================================

------------------------------- MODULE Inhibitor -------------------------------
(***************************************************************************)
(* The idle inhibitor (topbar-services/src/inhibitor.rs): one task that    *)
(* holds, or does not hold, a descriptor from logind.                      *)
(*                                                                         *)
(* logind is external.  Its lives are numbered; a descriptor belongs to    *)
(* the life that gave it and is worth nothing in a later one.              *)
(***************************************************************************)
EXTENDS Naturals, Sequences

CONSTANTS
    LifeBound,   \* bounds logind's lives
    AskBound,    \* bounds the commands
    QueueLimit   \* how many commands wait

ConstantsOK == LifeBound \in Nat \ {0} /\ AskBound \in Nat /\ QueueLimit \in Nat \ {0}

VARIABLES
    life,        \* logind's current life
    up,          \* logind is on the bus
    owners,      \* new owners announced and not yet heard of
    lock,        \* the life that gave the descriptor held, 0 if none is
    active,      \* what the snapshot says
    queue,       \* commands: "on", "off" or "toggle"
    answered,    \* what the last command that was answered Ok asked for
    calling,     \* "no", or who waits for Inhibit: "command" or "owner"
    asked

vars == <<life, up, owners, lock, active, queue, answered, calling, asked>>

Init ==
    /\ life = 1 /\ up = TRUE /\ owners = 0
    /\ lock = 0 /\ active = FALSE
    /\ queue = <<>> /\ answered = FALSE
    /\ calling = "no"
    /\ asked = 0

-----------------------------------------------------------------------------
(* logind, and the panel's toggle.                                         *)

Dies ==
    /\ up
    /\ up' = FALSE
    /\ UNCHANGED <<life, owners, lock, active, queue, answered, calling, asked>>

Starts ==
    /\ ~up /\ life < LifeBound
    /\ up' = TRUE
    /\ life' = life + 1
    /\ owners' = owners + 1
    /\ UNCHANGED <<lock, active, queue, answered, calling, asked>>

\* Mutant: the channel is unbounded.
Send_Unbounded(command) ==
    /\ asked < AskBound
    /\ asked' = asked + 1
    /\ queue' = Append(queue, command)
    /\ UNCHANGED <<life, up, owners, lock, active, answered, calling>>

Send(command) ==
    /\ asked < AskBound
    /\ asked' = asked + 1
    /\ Len(queue) < QueueLimit
    /\ queue' = Append(queue, command)
    /\ UNCHANGED <<life, up, owners, lock, active, answered, calling>>

-----------------------------------------------------------------------------
(* run(): a command, or a new owner, whichever select picks.               *)

Wanted(command) == command = "on" \/ (command = "toggle" /\ lock = 0)

\* A lock that has to be taken is a call; anything else is done at once.
Receive ==
    /\ calling = "no" /\ queue # <<>>
    /\ IF Wanted(Head(queue)) /\ lock = 0
       THEN calling' = "command" /\ UNCHANGED <<queue, lock, active, answered>>
       ELSE /\ queue' = Tail(queue)
            /\ lock' = IF Wanted(Head(queue)) THEN lock ELSE 0
            /\ active' = Wanted(Head(queue))
            /\ answered' = Wanted(Head(queue))
            /\ UNCHANGED calling
    /\ UNCHANGED <<life, up, owners, asked>>

\* What was held died with the old process.
HearOwner ==
    /\ calling = "no" /\ owners > 0
    /\ owners' = owners - 1
    /\ IF lock # 0 THEN lock' = 0 /\ calling' = "owner" ELSE UNCHANGED <<lock, calling>>
    /\ UNCHANGED <<life, up, active, queue, answered, asked>>

\* The call returns: with a descriptor of the current life, or refused.
Return(ok) ==
    /\ calling # "no"
    /\ ok => up
    /\ calling' = "no"
    /\ lock' = IF ok THEN life ELSE 0
    /\ active' = IF calling = "owner" \/ ok THEN ok ELSE active
    /\ queue' = IF calling = "command" THEN Tail(queue) ELSE queue
    /\ answered' = IF calling = "command" /\ ok THEN TRUE ELSE answered
    /\ UNCHANGED <<life, up, owners, asked>>

Task == Receive \/ HearOwner \/ \E ok \in BOOLEAN : Return(ok)

Next == Dies \/ Starts \/ (\E command \in {"on", "off", "toggle"} : Send(command)) \/ Task

\* The task is polled, and select does not pass a ready branch over for ever.
Fairness ==
    /\ WF_vars(\E ok \in BOOLEAN : Return(ok))
    /\ SF_vars(Receive) /\ SF_vars(HearOwner)

Spec == Init /\ [][Next]_vars /\ Fairness

-----------------------------------------------------------------------------
(* Properties.                                                             *)

\* Every variable has its type.
TypeOK ==
    /\ life \in 1..LifeBound /\ up \in BOOLEAN /\ owners \in 0..LifeBound
    /\ lock \in 0..LifeBound /\ active \in BOOLEAN /\ answered \in BOOLEAN
    /\ queue \in Seq({"on", "off", "toggle"}) /\ Len(queue) <= QueueLimit
    /\ calling \in {"no", "command", "owner"}
    /\ asked \in 0..AskBound

\* Between calls the toggle shows whether a descriptor is held, whichever of a
\* command and a restart came first and whether or not logind gave the lock back.
ShownIsHeld == calling = "no" => active = (lock # 0)

\* Once logind stays up, a toggle that shows on is a lock logind honours: the
\* service notices the restarts and takes the lock again (inhibitor.rs:15).
ActiveIsHonoured == <>[]up => <>[](active => lock = life)

\* "A caffeine toggle that silently stopped caffeinating is worse than one that was
\* never there" (inhibitor.rs:16): once logind stays up and every command has been
\* answered, what was last asked for, and granted, is what is held.
StaysAwake == <>[]up => <>[](queue = <<>> /\ answered => lock # 0)
=============================================================================

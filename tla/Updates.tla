-------------------------------- MODULE Updates --------------------------------
(***************************************************************************)
(* The update check (topbar-services/src/updates/task.rs): a timer, a      *)
(* subprocess and a snapshot.  The loop waits for the subprocess, so       *)
(* commands and connectivity queue up meanwhile.                           *)
(***************************************************************************)
EXTENDS Naturals, Sequences

CONSTANTS
    Configs,     \* [updates] sections
    Runnable,    \* those that name, or deduce, something to run
    None,
    QueueLimit,  \* how many commands wait
    ChangeBound  \* bounds reloads, resumes and network changes

ConstantsOK ==
    Runnable \subseteq Configs /\ None \notin Configs /\ QueueLimit \in Nat \ {0}

VARIABLES
    config,      \* the section being served
    busy,        \* the loop is waiting for a check
    due,         \* when the next check is: "now", "later" or "never"
    deferred,    \* one was skipped offline
    net, online, \* connectivity, and what the loop heard of it
    shown,       \* the snapshot: whose count is available (None if none), and checking
    queue,       \* commands: a section to start over with, or None to check again
    unanswered,  \* a resume has asked, and no check has started since
    changes

vars == <<config, busy, due, deferred, net, online, shown, queue, unanswered, changes>>

\* A fresh serve(): the first check is immediate.
Serve(c, on) ==
    /\ config' = c
    /\ busy' = FALSE
    /\ due' = IF c \in Runnable THEN "now" ELSE "never"
    /\ deferred' = FALSE
    /\ online' = on

Init ==
    /\ config \in Configs
    /\ busy = FALSE /\ due = (IF config \in Runnable THEN "now" ELSE "never") /\ deferred = FALSE
    /\ net \in BOOLEAN /\ online = net
    /\ shown = [source |-> None, checking |-> FALSE]
    /\ queue = <<>> /\ unanswered = FALSE
    /\ changes = 0

-----------------------------------------------------------------------------
(* check(), up to and after the subprocess.                                *)

Check ==
    /\ ~busy /\ due # "never"
    /\ due' = "never"
    /\ IF online
       THEN /\ busy' = TRUE
            /\ unanswered' = FALSE
            /\ shown' = [shown EXCEPT !.checking = TRUE]
            /\ UNCHANGED deferred
       ELSE deferred' = TRUE /\ UNCHANGED <<busy, unanswered, shown>>
    /\ UNCHANGED <<config, net, online, queue, changes>>

\* A count that cannot be made hides the card.
Checked(ok) ==
    /\ busy
    /\ busy' = FALSE /\ due' = "later"
    /\ shown' = [source |-> IF ok THEN config ELSE None, checking |-> FALSE]
    /\ UNCHANGED <<config, deferred, net, online, queue, unanswered, changes>>

-----------------------------------------------------------------------------
(* Connectivity and commands.                                              *)

NetChanges ==
    /\ changes < ChangeBound
    /\ changes' = changes + 1
    /\ net' = ~net
    /\ UNCHANGED <<config, busy, due, deferred, online, shown, queue, unanswered>>

SetOnline ==
    /\ ~busy /\ config \in Runnable
    /\ online # net
    /\ online' = net
    /\ IF net /\ deferred THEN deferred' = FALSE /\ due' = "now" ELSE UNCHANGED <<deferred, due>>
    /\ UNCHANGED <<config, busy, net, shown, queue, unanswered, changes>>

\* A reload, and a resume.  A full queue makes them wait.
Send(command) ==
    /\ changes < ChangeBound
    /\ changes' = changes + 1
    /\ Len(queue) < QueueLimit
    /\ queue' = Append(queue, command)
    /\ UNCHANGED <<config, busy, due, deferred, net, online, shown, unanswered>>

\* Mutant: a recheck leaves the timer where it was.
Receive_LeavesTimer ==
    /\ ~busy /\ queue # <<>>
    /\ queue' = Tail(queue)
    /\ IF Head(queue) # None THEN Serve(Head(queue), net) /\ unanswered' = (unanswered /\ Head(queue) \in Runnable)
       ELSE /\ unanswered' = (config \in Runnable)
            /\ UNCHANGED <<config, busy, due, deferred, online>>
    /\ UNCHANGED <<net, shown, changes>>

\* A recheck with nothing to run is nothing; one that was heard is owed its check by the next
\* section, if that has something to run.
Receive ==
    /\ ~busy /\ queue # <<>>
    /\ queue' = Tail(queue)
    /\ IF Head(queue) # None THEN Serve(Head(queue), net) /\ unanswered' = (unanswered /\ Head(queue) \in Runnable)
       ELSE /\ due' = IF config \in Runnable THEN "now" ELSE "never"
            /\ unanswered' = (config \in Runnable)
            /\ UNCHANGED <<config, busy, deferred, online>>
    /\ UNCHANGED <<net, shown, changes>>

Next ==
    \/ Check \/ \E ok \in BOOLEAN : Checked(ok)
    \/ NetChanges \/ SetOnline \/ Receive
    \/ \E command \in Configs \cup {None} : Send(command)

CheckNow == due = "now" /\ Check

\* A check that is due now is made, without waiting for an interval to pass;
\* the task is polled, subprocesses end or are killed at their timeout, and select
\* does not pass a ready branch over for ever.
Fairness ==
    /\ WF_vars(CheckNow) /\ WF_vars(\E ok \in BOOLEAN : Checked(ok))
    /\ SF_vars(SetOnline) /\ SF_vars(Receive)

Spec == Init /\ [][Next]_vars /\ Fairness

-----------------------------------------------------------------------------
(* Properties.                                                             *)

\* Every variable has its type.
TypeOK ==
    /\ config \in Configs
    /\ due \in {"now", "later", "never"}
    /\ {busy, deferred, net, online, unanswered} \subseteq BOOLEAN
    /\ shown \in [source : Configs \cup {None}, checking : BOOLEAN]
    /\ queue \in Seq(Configs \cup {None}) /\ Len(queue) <= QueueLimit
    /\ changes \in Nat

\* With something to run there is always another check coming: on the clock, under
\* way, or owed until the loop hears that the network is back.
AlwaysAnotherCheck == config \in Runnable => due # "never" \/ busy \/ (deferred /\ ~online)

\* "Checking" is on the card only while a subprocess is out.
CheckingIsTrue == shown.checking => busy

\* A resume's request is met by a check that starts after it, without an interval
\* passing first, once the network is up for good, and however many sections and requests are queued with it.
RecheckIsMet == <>[]net => (unanswered ~> ~unanswered)

\* With nothing to run, "the snapshot stays at its default -- unavailable, count
\* zero -- and the card never appears" (updates/task.rs:79).
NothingToShow == config \notin Runnable => shown.source = None
=============================================================================

------------------------------- MODULE Subprocess -------------------------------
(***************************************************************************)
(* The programs the panel starts (topbar-services/src/proc.rs): those whose *)
(* output it wants, which it reads to the end or kills, and those of a      *)
(* click, which it watches for a moment and leaves alone.                  *)
(*                                                                         *)
(* A program prints some pieces into a pipe that holds so many, may leave  *)
(* behind a program of its own that holds the pipe open, and ends or not.  *)
(***************************************************************************)
EXTENDS Integers, FiniteSets

CONSTANTS
    Calls,      \* each starts one program
    Captures,   \* the calls that are `capture`; the others are `run`
    CAP, PIPE,  \* pieces that are kept, and that fit in a pipe
    Prints,     \* how much a program may print
    Does,       \* part of {"missing", "child", "stay", "fail"}
    MaxClicks

VARIABLES
    panel,   \* per call: how far it is, what it has kept, its answer
    world,   \* per call: the program
    wire     \* per call: what is in the pipe

vars == <<panel, world, wire>>
Now == [panel |-> panel, world |-> world, wire |-> wire]
Become(s) == \E t \in {s} : panel' = t.panel /\ world' = t.world /\ wire' = t.wire

-----------------------------------------------------------------------------
(* The panel's end.                                                        *)

Idle == [at |-> "idle", kept |-> 0, code |-> "none", answer |-> "none"]

\* A program that is not there is an error at once.
Begin ==
    \E c \in Calls : \E missing \in {FALSE} \cup {m \in {TRUE} : "missing" \in Does} :
        \E prints \in Prints : \E child \in {FALSE} \cup {x \in {TRUE} : "child" \in Does} :
        \E end \in {"well"} \cup {e \in {"fail", "stay"} : e \in Does} :
        /\ panel[c].at = "idle" /\ Cardinality({d \in Calls : panel[d].at # "idle"}) < MaxClicks
        /\ Become(IF missing THEN [Now EXCEPT !.panel[c].at = "over", !.panel[c].answer = "error"]
                  ELSE [Now EXCEPT !.panel[c].at = "waits",
                                   !.world[c] = [@ EXCEPT !.runs = TRUE, !.prints = prints, !.child = child, !.end = end]])

Say(s, c, answer) == [s EXCEPT !.panel[c].answer = answer]

\* Nobody else has the other end of the pipe, and nothing is left in it.
AtEnd(c) == ~world[c].runs /\ ~world[c].child /\ wire[c] = 0

\* read_stream: what is past the cap is read all the same.
Drain ==
    \E c \in Captures :
        /\ panel[c].at = "waits" /\ wire[c] > 0
        /\ Become([Now EXCEPT !.wire[c] = @ - 1, !.panel[c].kept = IF @ < CAP THEN @ + 1 ELSE @])

\* wait: the system forgets the program once it has been asked how it ended.
Reap(s, c) == [s EXCEPT !.world[c].zombie = FALSE, !.panel[c].code = world[c].end]
Captured ==
    \E c \in Captures :
        /\ panel[c].at = "waits" /\ AtEnd(c)
        /\ Become(Say([Reap(Now, c) EXCEPT !.panel[c].at = "over"], c, "captured"))

\* The time is up: the future is dropped, and the program with it.
TimedOut ==
    \E c \in Captures :
        /\ panel[c].at = "waits"
        /\ Become(Say([Now EXCEPT !.panel[c].at = "dropped", !.wire[c] = 0,
                                  !.world[c].zombie = @ \/ world[c].runs, !.world[c].runs = FALSE], c, "error"))

\* run: it has ended within the grace, well or not; what it said is read before the answer.
Ended ==
    \E c \in Calls \ Captures :
        /\ panel[c].at = "waits" /\ ~world[c].runs
        /\ Become(IF world[c].end = "well" THEN Say([Reap(Now, c) EXCEPT !.panel[c].at = "over"], c, "ok")
                  ELSE [Reap(Now, c) EXCEPT !.panel[c].at = "reads"])
Complaint ==
    \E c \in Calls \ Captures :
        /\ panel[c].at = "reads" /\ wire[c] > 0
        /\ Become([Now EXCEPT !.wire[c] = @ - 1])
Complained ==
    \E c \in Calls \ Captures :
        /\ panel[c].at = "reads" /\ AtEnd(c)
        /\ Become(Say([Now EXCEPT !.panel[c].at = "over"], c, "error"))

\* It still runs when the grace is over, which is the normal case.
Detach ==
    \E c \in Calls \ Captures :
        /\ panel[c].at = "waits" /\ world[c].runs
        /\ Become(Say([Now EXCEPT !.panel[c].at = "detached"], c, "ok"))

\* The reaper, and tokio's own for what was dropped.
Reaped ==
    \E c \in Calls :
        /\ panel[c].at \in {"detached", "dropped"} /\ world[c].zombie
        /\ Become([Reap(Now, c) EXCEPT !.panel[c].at = "over"])

-----------------------------------------------------------------------------
(* The programs.                                                           *)

PrintOne ==
    \E c \in Calls :
        /\ world[c].runs /\ world[c].printed < world[c].prints /\ wire[c] < PIPE
        /\ Become([Now EXCEPT !.world[c].printed = @ + 1, !.wire[c] = @ + 1])
End ==
    \E c \in Calls :
        /\ world[c].runs /\ world[c].printed = world[c].prints /\ world[c].end # "stay"
        /\ Become([Now EXCEPT !.world[c].runs = FALSE, !.world[c].zombie = TRUE])
\* The one it left behind ends too, some time or never.
ChildEnds ==
    \E c \in Calls :
        /\ world[c].child /\ ~world[c].runs
        /\ Become([Now EXCEPT !.world[c].child = FALSE])

Init ==
    /\ panel = [c \in Calls |-> Idle]
    /\ world = [c \in Calls |-> [runs |-> FALSE, zombie |-> FALSE, prints |-> 0, printed |-> 0, child |-> FALSE,
                                 end |-> "well"]]
    /\ wire = [c \in Calls |-> 0]

Turn == Drain \/ Captured \/ Ended \/ Complaint \/ Complained \/ Reaped
TurnDue ==
    \/ \E c \in Captures : panel[c].at = "waits" /\ (wire[c] > 0 \/ AtEnd(c))
    \/ \E c \in Calls \ Captures : \/ panel[c].at = "waits" /\ ~world[c].runs
                                   \/ panel[c].at = "reads" /\ (wire[c] > 0 \/ AtEnd(c))
    \/ \E c \in Calls : panel[c].at \in {"detached", "dropped"} /\ world[c].zombie
Clock == TimedOut \/ Detach
ClockDue == \/ \E c \in Captures : panel[c].at = "waits"
            \/ \E c \in Calls \ Captures : panel[c].at = "waits" /\ world[c].runs
Daemon == PrintOne \/ End
DaemonDue == \E c \in Calls :
    world[c].runs /\ IF world[c].printed < world[c].prints THEN wire[c] < PIPE ELSE world[c].end # "stay"
Next == Turn \/ Clock \/ Daemon \/ ChildEnds \/ Begin

Spec == Init /\ [][Next]_vars /\ WF_vars(Turn) /\ WF_vars(Clock) /\ WF_vars(Daemon)

-----------------------------------------------------------------------------
(* Properties.                                                             *)

\* A call that is answered with what a program printed has all of it, as far as is kept; one
\* answered well has not missed a program that failed while it was watched.
AnswersAreWhole ==
    \A c \in Calls :
        /\ panel[c].answer = "captured" => /\ panel[c].kept = IF world[c].prints < CAP THEN world[c].prints ELSE CAP
                                           /\ panel[c].code = world[c].end
        /\ panel[c].answer = "ok" /\ panel[c].at = "over" /\ panel[c].code = "fail" => world[c].printed = world[c].prints

\* "The child dies with the task": no program whose output was wanted runs on once nobody
\* waits for it.
NoneOutlives == \A c \in Captures : panel[c].at # "waits" => ~world[c].runs

\* Who asked for a program is told something.
Waiting == \E c \in Calls : panel[c].at \in {"waits", "reads"}

\* It "returns as soon as the command has either failed or been running for GRACE"
\* (proc.rs:241): reading what a failed one said waits for nobody else.
ReadingIsShort == \A c \in Calls : panel[c].at = "reads" => ~world[c].child

\* A detached one is "left alone" (proc.rs:17): it does not come to a halt over what it prints.
DetachedGoOn == \A c \in Calls :
    panel[c].at = "detached" /\ world[c].runs /\ world[c].printed < world[c].prints => wire[c] < PIPE

\* A service that is torn down "must not leave `apt-get` behind" (proc.rs:169).
LeavesNobody == \A c \in Captures : panel[c].at = "over" => ~world[c].child
=============================================================================

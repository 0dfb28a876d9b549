------------------------------ MODULE Requests ------------------------------
(***************************************************************************)
(* What the panel asks niri to do: requests on tasks of their own, one     *)
(* connection among them behind a lock that is handed on in order, a       *)
(* second try on a fresh connection, two seconds for all of it, and a      *)
(* connection thrown away when they pass.  Raising a window is two         *)
(* requests, one after the other.                                          *)
(***************************************************************************)
EXTENDS Integers, Sequences

CONSTANTS
    Asks,      \* requests, in the order of their numbers
    Raises,    \* those that ask for the windows first
    NoOne,
    Does,      \* part of {"late", "restart", "refuse"}
    MaxMoves

VARIABLES
    panel,   \* the requests, the lock and the connection behind it
    world,   \* niri
    wire     \* requests and replies on each connection

vars == <<panel, world, wire>>
Now == [panel |-> panel, world |-> world, wire |-> wire]
Become(s) == \E t \in {s} : panel' = t.panel /\ world' = t.world /\ wire' = t.wire

ConstantsOK == NoOne \notin Asks

-----------------------------------------------------------------------------
(* The lock, and the connection in it.                                     *)

\* tokio's mutex is fair: it goes to the one that has waited longest; one that gives up waiting
\* leaves the line.
Holder == IF panel.line = <<>> THEN NoOne ELSE Head(panel.line)
Queued(s, a) == [s EXCEPT !.panel.line = Append(@, a)]
Released(s) == [s EXCEPT !.panel.line = Tail(@)]
Left(s, i) == [s EXCEPT !.panel.line = SubSeq(@, 1, i - 1) \o SubSeq(@, i + 1, Len(@))]

\* Mutant: a request that fails leaves with the lock in its hand.
Ended_HoldsOn(s, a, how) ==
    [(IF how = "failed" THEN s ELSE Released(s)) EXCEPT !.panel.ask[a] = how, !.panel.at[a] = NoOne]
Ended(s, a, how) == [Released(s) EXCEPT !.panel.ask[a] = how, !.panel.at[a] = NoOne]

\* round_trip: one request written to a connection, one line awaited from it.
Write(s, a, c) ==
    [s EXCEPT !.panel.at[a] = c, !.panel.ask[a] = "sent",
              !.wire[c].to = IF s.wire[c].open THEN Append(@, [a |-> a, step |-> s.panel.step[a]]) ELSE @]

\* UnixStream::connect, to a niri that is there.
Fresh(s, a) ==
    IF s.world.up
    THEN LET c == s.world.made + 1
             new == [open |-> TRUE, to |-> <<>>, back |-> <<>>]
         IN  Write([s EXCEPT !.world.made = c, !.panel.fresh[a] = TRUE,
                             !.wire = [x \in 1..c |-> IF x = c THEN new ELSE @[x]]], a, c)
    ELSE Ended(s, a, "failed")

-----------------------------------------------------------------------------
(* A request.                                                              *)

\* request, exchange: a click, a notification.
Asked ==
    \E a \in Asks :
        /\ panel.ask[a] = "idle"
        /\ Become(Queued([Now EXCEPT !.panel.ask[a] = "queued"], a))

\* The lock is had: on the connection there is, or on a fresh one.
Begin ==
    \E a \in Asks :
        /\ panel.ask[a] = "queued" /\ Holder = a
        /\ Become(IF panel.conn # NoOne THEN Write(Now, a, panel.conn) ELSE Fresh(Now, a))

\* The reply, or what is taken for it: the first line there is.  The first half of raising a
\* window lets go of the lock before the second half asks for it again (focus_app).
Kept(s, a) == [s EXCEPT !.panel.conn = s.panel.at[a]]
Read(s, a, reply) ==
    IF reply.how = "windows" /\ s.panel.step[a] = 1 /\ a \in Raises
    THEN Queued([Released(s) EXCEPT !.panel.step[a] = 2, !.panel.ask[a] = "queued",
                                       !.panel.at[a] = NoOne, !.panel.fresh[a] = FALSE], a)
    ELSE IF reply.how = "handled" /\ (a \notin Raises \/ s.panel.step[a] = 2)
    THEN Ended([s EXCEPT !.panel.by[a] = reply.a], a, "done")
    ELSE Ended(s, a, "failed")
TakeReply ==
    \E a \in Asks :
        /\ panel.ask[a] = "sent" /\ wire[panel.at[a]].back # <<>>
        /\ LET c == panel.at[a]
           IN  Become(Read([Kept(Now, a) EXCEPT !.wire[c].back = Tail(@)], a, Head(wire[c].back)))

\* A connection that broke is dropped, and made again once.
Breaks ==
    \E a \in Asks :
        /\ panel.ask[a] = "sent" /\ ~wire[panel.at[a]].open /\ wire[panel.at[a]].back = <<>>
        /\ LET s == [Now EXCEPT !.panel.conn = NoOne]
           IN  Become(IF panel.fresh[a] THEN Ended(s, a, "failed") ELSE Fresh(s, a))

\* Two seconds: the exchange is dropped and its lock with it, and then the lock is waited for
\* again, to throw the connection away.
Elapses ==
    \E i \in DOMAIN panel.line :
        LET a == panel.line[i] IN
        /\ "late" \in Does /\ panel.ask[a] \in {"queued", "sent"}
        /\ Become(Queued([Left(Now, i) EXCEPT !.panel.ask[a] = "throwing", !.panel.at[a] = NoOne], a))
Throw ==
    \E a \in Asks :
        /\ panel.ask[a] = "throwing" /\ Holder = a
        /\ Become(Ended([Now EXCEPT !.panel.conn = NoOne], a, "failed"))

-----------------------------------------------------------------------------
(* niri, which answers one connection in the order it is asked.            *)

Reply(r) ==
    [a |-> r.a, how |-> IF r.a \in Raises /\ r.step = 1 THEN "windows" ELSE "handled"]
Answers ==
    \E c \in DOMAIN wire :
        /\ wire[c].open /\ wire[c].to # <<>>
        /\ LET s == [Now EXCEPT !.wire[c].to = Tail(@)]
               reply == Reply(Head(wire[c].to))
           IN  \/ Become([s EXCEPT !.wire[c].back = Append(@, reply)])
               \/ /\ "refuse" \in Does /\ world.moves < MaxMoves
                  /\ Become([s EXCEPT !.wire[c].back = Append(@, [reply EXCEPT !.how = "refused"]),
                                      !.world.moves = @ + 1])

Dies ==
    /\ "restart" \in Does /\ world.up /\ world.moves < MaxMoves
    /\ Become([Now EXCEPT !.world.up = FALSE, !.world.moves = @ + 1,
                          !.wire = [c \in DOMAIN wire |-> [wire[c] EXCEPT !.open = FALSE]]])
Starts == ~world.up /\ Become([Now EXCEPT !.world.up = TRUE])

-----------------------------------------------------------------------------

Init ==
    /\ panel = [ask |-> [a \in Asks |-> "idle"], step |-> [a \in Asks |-> 1],
                at |-> [a \in Asks |-> NoOne], fresh |-> [a \in Asks |-> FALSE],
                by |-> [a \in Asks |-> NoOne], line |-> <<>>, conn |-> NoOne]
    /\ world = [up |-> TRUE, made |-> 0, moves |-> 0]
    /\ wire = <<>>

Turn == Begin \/ TakeReply \/ Breaks \/ Throw
Server == Answers \/ Starts
Clock == Elapses

Next == Asked \/ Turn \/ Server \/ Clock \/ Dies

TurnDue ==
    \E a \in Asks :
        \/ panel.ask[a] \in {"queued", "throwing"} /\ Holder = a
        \/ /\ panel.ask[a] = "sent"
           /\ ~wire[panel.at[a]].open \/ wire[panel.at[a]].back # <<>>
ServerDue == (\E c \in DOMAIN wire : wire[c].open /\ wire[c].to # <<>>) \/ ~world.up
ClockDue == "late" \in Does /\ \E a \in Asks : panel.ask[a] \in {"queued", "sent"}

Spec == Init /\ [][Next]_vars /\ WF_vars(Turn) /\ WF_vars(Server) /\ WF_vars(Clock)

-----------------------------------------------------------------------------
(* Properties.                                                             *)

\* What a request is told is what niri said to that request.
RepliesGoHome == \A a \in Asks : panel.ask[a] = "done" => panel.by[a] = a

\* Nor is it told anything else but while one that gave up has yet to throw the connection
\* away: its late reply does not outlive that.
StraysAreThrown ==
    (\A b \in Asks : panel.ask[b] # "throwing") =>
        \A a \in Asks :
            panel.ask[a] = "sent" =>
                LET back == wire[panel.at[a]].back IN \A i \in DOMAIN back : back[i].a = a

\* A request ends.
Busy == \E a \in Asks : panel.ask[a] \notin {"idle", "done", "failed"}
=============================================================================

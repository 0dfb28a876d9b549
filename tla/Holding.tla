------------------------------- MODULE Holding -------------------------------
(***************************************************************************)
(* The power rows of quick settings: each is held until it fills, with the *)
(* pointer or with a key, and then acts; what goes wrong is written under  *)
(* it.  With motion the frame clock counts, without it a timeout does.     *)
(* Every monitor has a panel of its own, and a caption belongs to the row  *)
(* of that name on all of them.                                            *)
(***************************************************************************)
EXTENDS Integers, Sequences, FiniteSets, FiniteSetsExt, TLC

CONSTANTS
    Panels, Rows,
    HOLD_MS,      \* how long a row is held, in frames
    Does,         \* part of {"both", "repeat", "motion", "rebuild"}
    NoOne,
    MaxMoves, MaxClicks

VARIABLES
    panel,   \* the rows of each panel, its captions, whether it is there
    world,   \* what is held down
    wire     \* what has been asked of logind and the compositor

vars == <<panel, world, wire>>
Now == [panel |-> panel, world |-> world, wire |-> wire]
Become(s) == \E t \in {s} : panel' = t.panel /\ world' = t.world /\ wire' = t.wire

-----------------------------------------------------------------------------
(* HoldRow.                                                                *)

\* The machine, when the hold started, the callback and the timeout there is a handle for,
\* those there is none for any more, and what is drawn.
Still ==
    [held |-> FALSE, age |-> NoOne, tick |-> FALSE, stray |-> FALSE, timeout |-> NoOne, lost |-> <<>>,
     fill |-> FALSE, tint |-> FALSE]

\* begin: the machine is made anew before it is asked whether it was held.
Begin(s, p, r) ==
    LET h == s.panel.row[p][r]
        started == [h EXCEPT !.held = TRUE, !.age = NoOne, !.fill = FALSE]
    IN  [s EXCEPT !.panel.row[p][r] =
            IF s.panel.motion THEN [started EXCEPT !.tick = TRUE, !.stray = @ \/ h.tick]
            ELSE [started EXCEPT !.tint = TRUE, !.timeout = HOLD_MS,
                                 !.lost = IF h.timeout = NoOne THEN @ ELSE Append(@, h.timeout)]]

\* stop, and the row put back
Stop(h) ==
    [h EXCEPT !.held = FALSE, !.tick = FALSE, !.timeout = NoOne, !.fill = FALSE, !.tint = FALSE]

Cancel(s, p, r) ==
    IF s.panel.row[p][r].held
    THEN [s EXCEPT !.panel.row[p][r] = Stop(@), !.world.since[p][r] = NoOne] ELSE s

\* inline's report, clear and clear_all, each on every panel.
Report(s, r) == [s EXCEPT !.panel.captions = [p \in Panels |-> @[p] \cup {r}]]
Clear(s, r)  == [s EXCEPT !.panel.captions = [p \in Panels |-> @[p] \ {r}]]
ClearAll(s)  == [s EXCEPT !.panel.captions = [p \in Panels |-> {}]]

\* attempt: the call is a task of its own.
Attempt(s, r) ==
    LET n == CHOOSE i \in 0..Cardinality(s.wire.asks) : \A a \in s.wire.asks : a.n # i
    IN  [Clear(s, r) EXCEPT !.wire.asks = @ \cup {[row |-> r, n |-> n]}]

\* finish, fire
Finish(s, p, r) ==
    LET since == s.world.since[p][r]
        t == [s EXCEPT !.panel.row[p][r] = Stop(@), !.world.since[p][r] = NoOne,
                       !.world.hasty = @ \/ IF since = NoOne THEN TRUE ELSE since < HOLD_MS]
    IN  Attempt(t, r)

\* frame: counted from the first frame there was.
Frame(s, p, r) ==
    LET h == s.panel.row[p][r]
        age == IF h.age = NoOne THEN 0 ELSE h.age
    IN  IF ~(h.tick \/ h.stray) \/ s.panel.phase[p] = "closed" THEN s
        ELSE IF ~h.held THEN [s EXCEPT !.panel.row[p][r].stray = FALSE]
        ELSE IF age >= HOLD_MS THEN Finish(s, p, r)
        ELSE [s EXCEPT !.panel.row[p][r].age = age, !.panel.row[p][r].fill = age > 0]

-----------------------------------------------------------------------------
(* Time: the timeouts that are due, oldest first, then the frame.          *)

Later(n, most) == IF n = NoOne THEN n ELSE IF n < most THEN n + 1 ELSE n
Aged(s, p, r) ==
    LET h == s.panel.row[p][r]
    IN  [s EXCEPT !.panel.row[p][r] = [h EXCEPT !.age = Later(@, HOLD_MS),
                                                !.timeout = IF @ = NoOne THEN @ ELSE @ - 1,
                                                !.lost = [k \in DOMAIN @ |-> @[k] - 1]],
                  !.world.since[p][r] = Later(@, HOLD_MS + 2)]
Elapsed(s, p, r) ==
    LET aged == Aged(s, p, r)
        lost == aged.panel.row[p][r].lost
        due == {k \in DOMAIN lost : lost[k] = 0}
        t == [aged EXCEPT !.panel.row[p][r].lost = SelectSeq(@, LAMBDA n : n > 0)]
        u == FoldSet(LAMBDA k, v : Finish(v, p, r), t, due)
        w == IF u.panel.row[p][r].timeout = 0 THEN Finish(u, p, r) ELSE u
    IN  Frame(w, p, r)

Counts(p, r) == LET h == panel.row[p][r] IN h.held \/ h.tick \/ h.stray \/ h.timeout # NoOne \/ h.lost # <<>>
Counting == \E p \in Panels, r \in Rows : Counts(p, r)
Pass ==
    /\ Counting
    /\ Become(FoldSet(LAMBDA x, s : Elapsed(s, x[1], x[2]), Now, Panels \X Rows))

-----------------------------------------------------------------------------
(* The user.                                                               *)

Clicked == world.clicks < MaxClicks
Did(s) == [s EXCEPT !.world.clicks = @ + 1]
Down(how) == \E p \in Panels, r \in Rows : how \in world.down[p][r]
There(p) == panel.phase[p] # "closed"

\* HoldRow::attach.  A key sends more presses while it is down.
Press ==
    \E p \in Panels, r \in Rows, how \in {"pointer", "key"} :
        /\ Clicked /\ There(p) /\ ~Down(how)
        /\ "both" \in Does \/ ~(Down("pointer") \/ Down("key"))
        /\ Become([Begin(Did(Now), p, r) EXCEPT !.world.down[p][r] = @ \cup {how},
                                                !.world.since[p][r] = IF @ = NoOne THEN 0 ELSE @])
Repeat ==
    \E p \in Panels, r \in Rows :
        /\ "repeat" \in Does /\ Clicked /\ There(p) /\ "key" \in world.down[p][r]
        /\ Become([Begin(Did(Now), p, r) EXCEPT !.world.since[p][r] = IF @ = NoOne THEN 0 ELSE @])
Release ==
    \E p \in Panels, r \in Rows : \E how \in world.down[p][r] :
        Become(Cancel([Now EXCEPT !.world.down[p][r] = @ \ {how}], p, r))
\* The pointer leaves, whatever it is that holds the row.
Leave ==
    \E p \in Panels, r \in Rows :
        /\ panel.row[p][r].held
        /\ Become(Cancel([Now EXCEPT !.world.down[p][r] = @ \ {"pointer"}], p, r))

OpenPanel == \E p \in Panels : Clicked /\ panel.phase[p] # "open" /\ Become([Did(Now) EXCEPT !.panel.phase[p] = "open"])
Dismiss == \E p \in Panels : panel.phase[p] = "open" /\ Become([Now EXCEPT !.panel.phase[p] = "leaving"])

\* Panel::closed, once it has faded.
CancelHolds(s, p) == FoldSet(LAMBDA r, t : Cancel(t, p, r), s, Rows)
Closed(s, p) ==
    ClearAll([CancelHolds(s, p) EXCEPT !.panel.phase[p] = "closed", !.world.down[p] = [r \in Rows |-> {}]])
Faded == \E p \in Panels : panel.phase[p] = "leaving" /\ Become(Closed(Now, p))

\* act: logind's answer, or its refusal.
Answer ==
    \E a \in wire.asks, ok \in BOOLEAN :
        LET s == [Now EXCEPT !.wire.asks = @ \ {a}]
        IN  Become(IF ok THEN s ELSE Report(s, a.row))

\* A reload: another motion setting, or every panel made again; timers find no row then.
Fresh == [phase |-> [p \in Panels |-> "closed"], row |-> [p \in Panels |-> [r \in Rows |-> Still]],
          captions |-> [p \in Panels |-> {}]]
Nothing == [down |-> [p \in Panels |-> [r \in Rows |-> {}]], since |-> [p \in Panels |-> [r \in Rows |-> NoOne]]]
Moved(what) == what \in Does /\ world.moves < MaxMoves
Reduce == Moved("motion") /\ Become([Now EXCEPT !.panel.motion = ~@, !.world.moves = @ + 1])
Rebuild ==
    /\ Moved("rebuild")
    /\ Become([Now EXCEPT !.panel = Fresh @@ [motion |-> panel.motion],
                          !.world = Nothing @@ [@ EXCEPT !.moves = world.moves + 1]])

Init ==
    /\ panel \in {Fresh @@ [motion |-> on] : on \in BOOLEAN}
    /\ world = Nothing @@ [hasty |-> FALSE, moves |-> 0, clicks |-> 0]
    /\ wire = [asks |-> {}]

Clock == Pass
ClockDue == Counting
Turn == Faded
TurnDue == \E p \in Panels : panel.phase[p] = "leaving"
Daemon == Answer
DaemonDue == wire.asks # {}
Next == Clock \/ Turn \/ Daemon \/ Press \/ Repeat \/ Release \/ Leave \/ OpenPanel \/ Dismiss \/ Reduce \/ Rebuild

Spec == Init /\ [][Next]_vars /\ WF_vars(Clock) /\ WF_vars(Turn) /\ WF_vars(Daemon)

-----------------------------------------------------------------------------
(* Properties.                                                             *)

\* "letting go before that cancels it, and nothing happens" (hold.rs:6): nothing counts for
\* a row that nobody holds, or that is not on the screen.
LettingGoCancels ==
    \A p \in Panels, r \in Rows :
        LET h == panel.row[p][r] IN
        h.held \/ h.timeout # NoOne \/ h.lost # <<>> => world.down[p][r] # {} /\ There(p)

\* A row that acts has been held for as long as it takes, and one that has been held so long
\* has acted.
HeldToTheEnd ==
    /\ ~world.hasty
    /\ \A p \in Panels, r \in Rows : world.since[p][r] # NoOne => world.since[p][r] <= HOLD_MS + 1

\* What is drawn is what is counted.
ShownIsHeld ==
    \A p \in Panels, r \in Rows :
        LET h == panel.row[p][r] IN
        /\ h.fill \/ h.tint => h.held
        /\ ~(h.fill /\ h.tint)

\* A row "dismissed mid-press must not still be counting down" (power.rs:158).
DismissedIsStill ==
    \A p \in Panels, r \in Rows : panel.phase[p] = "leaving" => ~panel.row[p][r].held

\* When a panel goes, "so does everything that went wrong" (quick_settings/panel.rs:366); a
\* failure nobody can see is "the defect this whole path exists to prevent" (bridge.rs:177).
ClosedIsClean == \A p \in Panels : panel.phase[p] = "closed" => panel.captions[p] = {}
=============================================================================

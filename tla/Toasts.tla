-------------------------------- MODULE Toasts --------------------------------
(***************************************************************************)
(* The notification daemon from where the user sits: the banners on the    *)
(* monitor that has the focus, which slide in and out while others come    *)
(* and go, and the column of the control panel.  The daemon is reduced to  *)
(* what they see of it (module Notifications has it whole); every click    *)
(* and every hover is a task of its own, so that one may overtake another. *)
(***************************************************************************)
EXTENDS Integers, SequencesExt, FiniteSets

CONSTANTS
    Monitors,
    MaxId,        \* ids handed out; two after another are of one application
    Full,         \* how many frames a slide takes
    Does,         \* part of {"focus", "replace", "hover", "click", "panel", "dnd"}
    NoOne,
    MaxMoves, MaxClicks

VARIABLES
    panel,   \* surfaces, the pointer, the column
    world,   \* the daemon's lists, and the monitor in focus
    wire     \* who is to be called for what is new, and what is asked of the daemon

vars == <<panel, world, wire>>
Now == [panel |-> panel, world |-> world, wire |-> wire]
Become(s) == \E t \in {s} : panel' = t.panel /\ world' = t.world /\ wire' = t.wire

AppOf(id) == (id + 1) \div 2
Call(s, who) == [s EXCEPT !.wire.due = @ \cup who]
Everyone == Monitors \cup {"column"}

\* act: a task on the runtime, with no place in any order.
Act(s, what, arg) ==
    LET n == CHOOSE i \in 0..Cardinality(s.wire.asks) : \A a \in s.wire.asks : a.n # i
    IN  [s EXCEPT !.wire.asks = @ \cup {[what |-> what, arg |-> arg, n |-> n]}]

-----------------------------------------------------------------------------
(* The daemon, as it is seen.                                              *)

\* close, dismiss_toast, remove_toast
WithoutBanner(w, id) == [w EXCEPT !.toasts = Remove(@, id), !.held = @ \ {id}]
Closed(w, id) ==
    LET history == Remove(w.history, id)
    IN  [WithoutBanner(w, id) EXCEPT !.history = history,
                                     !.unseen = IF @ > Len(history) THEN Len(history) ELSE @]
ClosedAll(w, ids) == FoldSet(LAMBDA id, v : Closed(v, id), w, ids)

\* Daemon::apply
Applied(w, a) ==
    CASE a.what = "pause"   -> [w EXCEPT !.held = @ \cup (ToSet(w.toasts) \cap {a.arg})]
      [] a.what = "resume"  -> [w EXCEPT !.held = @ \ {a.arg}]
      [] a.what = "dismiss" -> WithoutBanner(w, a.arg)
      [] a.what = "close"   -> Closed(w, a.arg)
      [] a.what = "group"   -> ClosedAll(w, {id \in ToSet(w.history) : AppOf(id) = a.arg})
      [] a.what = "all"     -> ClosedAll(w, ToSet(w.history))
      [] a.what = "dnd"     -> [w EXCEPT !.dnd = a.arg]
      [] a.what = "seen"    -> [w EXCEPT !.unseen = 0]
Serve ==
    \E a \in wire.asks :
        LET s == [Now EXCEPT !.wire.asks = @ \ {a}, !.world = Applied(@, a)]
        IN  Become(IF s.world = world THEN s ELSE Call(s, Everyone))

\* A notification comes, or a sender has another say about one that is in the history.
Arrive ==
    /\ world.next <= MaxId
    /\ LET id == world.next
           w == [world EXCEPT !.next = @ + 1, !.history = <<id>> \o @, !.unseen = @ + 1, !.unread = @ \cup {id},
                              !.toasts = IF world.dnd THEN @ ELSE <<id>> \o @]
       IN  Become(Call([Now EXCEPT !.world = w], Everyone))
Replace ==
    \E id \in ToSet(world.history) :
        /\ "replace" \in Does /\ world.moves < MaxMoves /\ ~world.dnd
        /\ LET w == [world EXCEPT !.moves = @ + 1, !.held = @ \ {id},
                                  !.toasts = IF Contains(@, id) THEN @ ELSE <<id>> \o @]
           IN  Become(Call([Now EXCEPT !.world = w], Everyone))
Expire ==
    \E id \in ToSet(world.toasts) \ world.held :
        Become(Call([Now EXCEPT !.world = WithoutBanner(@, id)], Everyone))

\* niri's focus moves.
Focus ==
    \E m \in Monitors :
        /\ "focus" \in Does /\ world.moves < MaxMoves /\ m # world.focus
        /\ Become(Call([Now EXCEPT !.world.focus = m, !.world.moves = @ + 1], Monitors))

-----------------------------------------------------------------------------
(* A banner's surface.                                                     *)

\* is_host, render
WantedOn(s, m) == IF s.world.focus = m THEN s.world.toasts ELSE <<>>

Live(cards) == SelectSeq(cards, LAMBDA c : ~c.leaving)

\* The pointer notices what is taken from under it.
Left(s, gone) ==
    IF s.panel.over # NoOne /\ s.panel.over.n \in gone
    THEN [Act(s, "resume", s.panel.over.id) EXCEPT !.panel.over = NoOne] ELSE s

\* Where every slide out ends: the card goes, and with the last one the surface.
Landed(s, m) ==
    LET all == s.panel.surf[m].cards
        stay == SelectSeq(all, LAMBDA c : ~(c.leaving /\ c.to = NoOne))
        t == [s EXCEPT !.panel.surf[m].cards = stay,
                       !.panel.surf[m].visible = IF stay # all THEN @ /\ stay # <<>> ELSE @]
    IN  Left(t, {all[k].n : k \in DOMAIN all} \ {stay[k].n : k \in DOMAIN stay})

\* retire_missing.  A slide with no way to go lands at once.
RetireMissing(s, m) ==
    LET cards == s.panel.surf[m].cards
        going == {k \in DOMAIN cards : ~cards[k].leaving /\ ~Contains(WantedOn(s, m), cards[k].id)}
        Gone(c) == [c EXCEPT !.leaving = TRUE, !.to = IF c.reveal = 0 THEN NoOne ELSE 0]
        t == [s EXCEPT !.panel.surf[m].cards = [k \in DOMAIN @ |-> IF k \in going THEN Gone(@[k]) ELSE @[k]],
                       !.panel.surf[m].bare = @ \/ (going # {} /\ Cardinality(going) = Len(cards))]
    IN  Landed(t, m)

\* A card is known by a number of its own, which no other has while it is there.
Numbers(s) == UNION {{s.panel.surf[m].cards[k].n : k \in DOMAIN s.panel.surf[m].cards} : m \in Monitors}
Fresh(s) == CHOOSE i \in 0..Cardinality(Numbers(s)) : i \notin Numbers(s)

\* insert, move_to: what is wanted comes first and in its order, what leaves after it.
Insert(s, m, id, i) ==
    LET card == [id |-> id, n |-> Fresh(s), leaving |-> FALSE, reveal |-> 0, to |-> Full]
    IN  [s EXCEPT !.panel.surf[m].cards = InsertAt(@, i, card), !.panel.surf[m].bare = FALSE,
                  !.panel.surf[m].visible = TRUE]
MoveTo(s, m, k, i) ==
    [s EXCEPT !.panel.surf[m].cards = InsertAt(RemoveAt(@, k), i, s.panel.surf[m].cards[k])]
Placed(s, m, i) ==
    LET id == WantedOn(s, m)[i]
        have == {k \in DOMAIN s.panel.surf[m].cards :
                   s.panel.surf[m].cards[k].id = id /\ ~s.panel.surf[m].cards[k].leaving}
    IN  IF have = {} THEN Insert(s, m, id, i) ELSE MoveTo(s, m, CHOOSE k \in have : TRUE, i)
Render(s, m) ==
    LET t == FoldLeft(LAMBDA u, i : Placed(u, m, i), RetireMissing(s, m), [i \in DOMAIN WantedOn(s, m) |-> i])
    IN  [t EXCEPT !.panel.surf[m].visible = t.panel.surf[m].cards # <<>>]

\* Card::slide, a frame of all that move.
Slides(m) == \E k \in DOMAIN panel.surf[m].cards : panel.surf[m].cards[k].to # NoOne
Slid(c) ==
    LET r == IF c.to = NoOne THEN c.reveal ELSE IF c.reveal < c.to THEN c.reveal + 1 ELSE c.reveal - 1
    IN  [c EXCEPT !.reveal = r, !.to = IF r = @ THEN NoOne ELSE @]
Frame ==
    \E m \in Monitors :
        /\ panel.surf[m].visible /\ Slides(m)
        /\ Become(Landed([Now EXCEPT !.panel.surf[m].cards = [k \in DOMAIN @ |-> Slid(@[k])]], m))

\* install_gestures: the pointer over a banner, a click on it, its close button.
Card(m, k) == panel.surf[m].cards[k]
Clicked(what) == what \in Does /\ world.clicks < MaxClicks
Did(s) == [s EXCEPT !.world.clicks = @ + 1]
Enter ==
    \E m \in Monitors : \E k \in DOMAIN panel.surf[m].cards :
        /\ Clicked("hover") /\ panel.over = NoOne
        /\ Become([Act(Did(Now), "pause", Card(m, k).id) EXCEPT !.panel.over = [n |-> Card(m, k).n, id |-> Card(m, k).id]])
Leave == panel.over # NoOne /\ Become([Act(Now, "resume", panel.over.id) EXCEPT !.panel.over = NoOne])
ClickBanner ==
    \E m \in Monitors : \E k \in DOMAIN panel.surf[m].cards, what \in {"close", "dismiss"} :
        /\ Clicked("click")
        /\ what = "close" => Contains(world.toasts, Card(m, k).id)
        /\ Become(Act(Did(Now), what, Card(m, k).id))

-----------------------------------------------------------------------------
(* The column.                                                             *)

\* Column::render, counts_as_read
RenderColumn(s) ==
    LET t == [s EXCEPT !.panel.rows = s.world.history, !.panel.switch = s.world.dnd,
                       !.world.unread = IF s.panel.open THEN @ \ ToSet(s.world.history) ELSE @]
    IN  IF s.panel.open /\ s.world.unseen > 0 THEN Act(t, "seen", NoOne) ELSE t

OpenColumn ==
    /\ Clicked("panel") /\ ~panel.open
    /\ Become(RenderColumn([Did(Now) EXCEPT !.panel.open = TRUE, !.panel.expanded = {}]))
CloseColumn == panel.open /\ Become([Now EXCEPT !.panel.open = FALSE])

\* build_group: one that is alone has nothing to unfold.
Expand ==
    \E app \in {AppOf(id) : id \in ToSet(panel.rows)} :
        /\ Clicked("panel") /\ panel.open /\ Cardinality({id \in ToSet(panel.rows) : AppOf(id) = app}) > 1
        /\ Become([Did(Now) EXCEPT !.panel.expanded = IF app \in @ THEN @ \ {app} ELSE @ \cup {app}])
\* A click beside its buttons also closes the panel, as CloseColumn may at any time.
ClickRow ==
    \E id \in ToSet(panel.rows) :
        /\ Clicked("panel") /\ panel.open
        /\ \E ask \in {<<"close", id>>, <<"group", AppOf(id)>>, <<"all", NoOne>>} :
             Become(Act(Did(Now), ask[1], ask[2]))
Switch ==
    /\ Clicked("dnd") /\ panel.open
    /\ Become(Act([Did(Now) EXCEPT !.panel.switch = ~@, !.panel.wanted = ~panel.switch], "dnd", ~panel.switch))

\* bind_state: each is called on a turn of its own, for what there is by then.
Called ==
    \E who \in wire.due :
        LET s == [Now EXCEPT !.wire.due = @ \ {who}]
        IN  Become(IF who = "column" THEN RenderColumn(s) ELSE Render(s, who))

-----------------------------------------------------------------------------

Init ==
    /\ panel = [surf |-> [m \in Monitors |-> [cards |-> <<>>, visible |-> FALSE, bare |-> FALSE]],
                over |-> NoOne, rows |-> <<>>, switch |-> FALSE, open |-> FALSE, expanded |-> {}, wanted |-> FALSE]
    /\ world = [toasts |-> <<>>, history |-> <<>>, held |-> {}, unseen |-> 0, unread |-> {}, dnd |-> FALSE, next |-> 1,
                focus |-> CHOOSE m \in Monitors \cup {NoOne} : Monitors # {} => m # NoOne, moves |-> 0, clicks |-> 0]
    /\ wire = [due |-> {}, asks |-> {}]

Turn == Called
TurnDue == wire.due # {}
Clock == Frame
ClockDue == \E m \in Monitors : panel.surf[m].visible /\ Slides(m)
Daemon == Serve
DaemonDue == wire.asks # {}
Next == Turn \/ Clock \/ Daemon \/ Arrive \/ Replace \/ Expire \/ Focus
        \/ Enter \/ Leave \/ ClickBanner \/ OpenColumn \/ CloseColumn \/ Expand \/ ClickRow \/ Switch

Spec == Init /\ [][Next]_vars /\ WF_vars(Turn) /\ WF_vars(Clock) /\ WF_vars(Daemon)

-----------------------------------------------------------------------------
(* Properties.                                                             *)

Ids(cards) == [k \in DOMAIN cards |-> cards[k].id]

\* Once everyone has been called, the monitor in focus shows the banners there are, newest
\* first, no other shows any but those on their way out, and the column shows the history;
\* when nothing moves any more what is there is whole, and a surface without banners is gone.
QuietIsCurrent ==
    wire.due = {} =>
        /\ \A m \in Monitors :
            LET cards == panel.surf[m].cards IN
            /\ Ids(Live(cards)) = WantedOn(Now, m)
            /\ panel.surf[m].visible = (cards # <<>>)
            /\ ~Slides(m) => \A k \in DOMAIN cards : ~cards[k].leaving /\ cards[k].reveal = Full
        /\ panel.rows = world.history
        /\ wire.asks = {} => panel.switch = world.dnd /\ (panel.open => world.unseen = 0)

\* A banner that is up has its blur; the pointer is over a banner that is there; no
\* notification has two banners on one monitor.
BannersFit ==
    /\ \A m \in Monitors :
        LET cards == panel.surf[m].cards IN
        /\ IsInjective(Ids(Live(cards)))
        /\ Live(cards) # <<>> => ~panel.surf[m].bare
    /\ panel.over # NoOne => \E m \in Monitors : \E k \in DOMAIN panel.surf[m].cards : Card(m, k).n = panel.over.n

\* What leaves is gone.
Leaving == \E m \in Monitors : \E k \in DOMAIN panel.surf[m].cards : Card(m, k).leaving

\* "the region comes off as the last one starts leaving" (toast.rs:261).
BlurComesOff == \A m \in Monitors :
    panel.surf[m].cards # <<>> /\ Live(panel.surf[m].cards) = <<>> => panel.surf[m].bare

\* A banner is held "while the pointer is over it" (notifications/mod.rs, pause_toast).
HoldsEnd == wire.asks = {} /\ panel.over = NoOne => world.held = {}

\* The switch that was thrown last is the one that counts.
LastSwitchWins == wire.asks = {} /\ wire.due = {} => world.dnd = panel.wanted

\* "Record that the user has looked at the history" (notifications/mod.rs, mark_seen): the
\* mark on the button goes when everything in it has been looked at.
SeenWasShown == world.unseen = 0 => world.unread \cap ToSet(world.history) = {}
=============================================================================

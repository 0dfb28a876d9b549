------------------------------- MODULE Media -------------------------------
(***************************************************************************)
(* The media service and its card: the task that follows the players on    *)
(* the bus and picks the one to show, a watcher per player, covers fetched *)
(* beside the task, and the card with its transport, switcher and ticker.  *)
(*                                                                         *)
(* Tracks are numbered, 0 for none, and a track's cover goes by the        *)
(* track's number.  The relevance rule's two counters are kept as the      *)
(* orders they stand for: panel.players by appearance, panel.recent by     *)
(* the last change of status.  Where a track has got to is not modelled.   *)
(***************************************************************************)
EXTENDS Integers, SequencesExt, FiniteSetsExt

CONSTANTS
    Names,       \* bus names of players
    LastTrack,   \* tracks are 0 .. LastTrack
    Covered,     \* those that have a cover
    NoOne,
    Does,        \* what players do: part of {"come", "go", "play", "skip", "slow"}
    Asks,        \* what the user does: part of {"panel", "control", "select", "key"}
    MaxMoves,
    MaxClicks

VARIABLES
    panel,   \* the task, and the card that draws it
    world,   \* the players themselves
    wire     \* queues, watchers, fetches, commands

vars == <<panel, world, wire>>
Now == [panel |-> panel, world |-> world, wire |-> wire]
Become(s) == \E t \in {s} : panel' = t.panel /\ world' = t.world /\ wire' = t.wire

-----------------------------------------------------------------------------
(* Which player the card shows.                                            *)

Rank(v) == CASE v.status = "Playing" -> 3
             [] v.status = "Paused" /\ v.track # 0 -> 2
             [] v.status = "Paused" /\ v.track = 0 -> 1
             [] v.status = "Stopped" -> 0

Known(p) == {p.players[i].name : i \in DOMAIN p.players}
IndexOf(q, n) == CHOOSE i \in DOMAIN q : q[i].name = n
View(p, n) == p.players[IndexOf(p.players, n)]
Position(q, n) == CHOOSE i \in DOMAIN q : q[i] = n

\* select: the pin, then rank, then the latest change of status.
Select(p) ==
    IF p.pinned \in Known(p) THEN p.pinned
    ELSE IF Known(p) = {} THEN NoOne
    ELSE CHOOSE n \in Known(p) : \A m \in Known(p) \ {n} :
            \/ Rank(View(p, n)) > Rank(View(p, m))
            \/ /\ Rank(View(p, n)) = Rank(View(p, m))
               /\ Position(p.recent, n) > Position(p.recent, m)

Reselect(s) ==
    LET p == IF s.panel.pinned \in Known(s.panel) THEN s.panel ELSE [s.panel EXCEPT !.pinned = NoOne]
    IN  [s EXCEPT !.panel = [p EXCEPT !.active = Select(p)]]

Shown(p) == [players |-> [i \in DOMAIN p.players |->
                            [name |-> p.players[i].name, status |-> p.players[i].status,
                             track |-> p.players[i].track, art |-> p.players[i].art]],
             active |-> p.active]

\* should_poll, and the timer kept in step with it.
ShouldPoll(p) == p.tracking /\ p.active # NoOne /\ View(p, p.active).status = "Playing"

\* What every turn of the loop ends with.
Publish(s) ==
    CHOOSE r \in {[t EXCEPT !.panel.poll = ShouldPoll(t.panel), !.panel.last = Shown(t.panel)]
                    : t \in {s}} : TRUE

-----------------------------------------------------------------------------
(* Players coming, going and changing.                                     *)

Bare(n) == [name |-> n, ready |-> FALSE, status |-> "Stopped", track |-> 0,
            art |-> 0, url |-> 0, pending |-> NoOne]

Add(s, n) ==
    IF n \in Known(s.panel) THEN s
    ELSE Reselect([s EXCEPT !.panel.players = Append(@, Bare(n)), !.panel.recent = Append(@, n),
                            !.wire.watchers[n] = "reading", !.wire.stream[n] = <<>>])

RemovePlayer(s, n) ==
    IF n \notin Known(s.panel) THEN s
    ELSE Reselect([s EXCEPT !.panel.players = SelectSeq(@, LAMBDA v : v.name # n),
                            !.panel.recent = Remove(@, n),
                            !.panel.pinned = IF @ = n THEN NoOne ELSE @,
                            !.wire.watchers[n] = "none", !.wire.stream[n] = <<>>])

\* ArtDebounce::want: back to what is shown, nothing waits; asked again, the
\* clock is not restarted.
Want(v, url) == [v EXCEPT !.pending = IF url = v.url THEN NoOne ELSE url]

Cover(track) == IF track \in Covered THEN track ELSE 0

\* apply_delta: a status that did not move does not count as recent.
ApplyDelta(s, n, d) ==
    LET i == IndexOf(s.panel.players, n)
        v == s.panel.players[i]
        moved == d.status # v.status
    IN  [s EXCEPT !.panel.players[i] = Want([v EXCEPT !.status = d.status, !.track = d.track], Cover(d.track)),
                  !.panel.recent = IF moved THEN Append(Remove(@, n), n) ELSE @]

Introduce(s, n, d) ==
    IF n \notin Known(s.panel) THEN s
    ELSE Reselect(ApplyDelta([s EXCEPT !.panel.players[IndexOf(s.panel.players, n)].ready = TRUE], n, d))

Change(s, n, d) == IF n \notin Known(s.panel) THEN s ELSE Reselect(ApplyDelta(s, n, d))

\* arrived_art: a cover the track has moved on from is dropped.
ArrivedArt(s, n, url, art) ==
    IF n \notin Known(s.panel) THEN s
    ELSE IF View(s.panel, n).url # url THEN s
    ELSE [s EXCEPT !.panel.players[IndexOf(s.panel.players, n)].art = art]

\* settle_art: no cover is an answer, a cached one is shown, another fetched.
SettleArt ==
    \E n \in Known(panel), cached \in BOOLEAN :
        LET i == IndexOf(panel.players, n)
            url == panel.players[i].pending
            s == [Now EXCEPT !.panel.players[i].url = url, !.panel.players[i].pending = NoOne]
        IN  /\ url # NoOne
            /\ Become(Publish(IF url = 0 \/ cached THEN [s EXCEPT !.panel.players[i].art = url]
                              ELSE [s EXCEPT !.wire.fetches = @ \cup {[name |-> n, url |-> url]}]))

-----------------------------------------------------------------------------
(* Commands.                                                               *)

\* The players, after media/fake.rs: what a call does to one, and its signal.
Says(s, n) ==
    IF s.wire.watchers[n] = "none" \/ s.wire.watchers[n] = "over" THEN s
    ELSE [s EXCEPT !.wire.stream[n] = Append(@, s.world.players[n])]

Skip(s, n) ==
    Says([s EXCEPT !.world.players[n].track = IF @ < LastTrack THEN @ + 1 ELSE 1], n)

Toggle(s, n) ==
    Says([s EXCEPT !.world.players[n].status = IF @ = "Playing" THEN "Paused" ELSE "Playing"], n)

\* control: the player active when the command is taken, which the card that
\* sent it (c.from, c.track) may not have drawn; a seek names the track.
OnControl(s, c) ==
    LET n == s.panel.active
        at == [to |-> n, from |-> c.from, aimed |-> c.track,
               track |-> IF n = NoOne THEN 0 ELSE View(s.panel, n).track]
    IN  IF n = NoOne THEN s
        ELSE IF ~View(s.panel, n).ready \/ n \notin s.world.up THEN s
        ELSE CASE c.do = "toggle" -> Toggle(s, n)
               [] c.do = "next"   -> Skip(s, n)
               [] c.do = "seek"   -> IF at.track # s.world.players[n].track THEN s
                                     ELSE [s EXCEPT !.world.seeks = @ \cup {at}]

OnSelect(s, c) ==
    IF c.from \notin Known(s.panel) THEN s ELSE Reselect([s EXCEPT !.panel.pinned = c.from])

ApplyCommand(s, c) ==
    CASE c.do \in {"toggle", "next", "seek"} -> OnControl(s, c)
      [] c.do = "select" -> OnSelect(s, c)
      [] c.do = "track"  -> [s EXCEPT !.panel.tracking = c.on]

ApplyEvent(s, e) ==
    CASE e.ev = "appeared" -> Add(s, e.of)
      [] e.ev = "vanished" -> RemovePlayer(s, e.of)
      [] e.ev = "ready"    -> Introduce(s, e.of, e.delta)
      [] e.ev = "changed"  -> Change(s, e.of, e.delta)
      [] e.ev = "art"      -> ArrivedArt(s, e.of, e.delta.track, e.art)

TakeCommand ==
    \E c \in wire.sent : Become(Publish(ApplyCommand([Now EXCEPT !.wire.sent = @ \ {c}], c)))

TakeEvent ==
    /\ wire.events # <<>>
    /\ Become(Publish(ApplyEvent([Now EXCEPT !.wire.events = Tail(@)], Head(wire.events))))

-----------------------------------------------------------------------------
(* What feeds the task.                                                    *)

Event(ev, n) == [ev |-> ev, of |-> n, delta |-> [status |-> "Stopped", track |-> 0], art |-> 0]
Queue(s, e) == [s EXCEPT !.wire.events = Append(@, e)]

Discover ==
    /\ wire.names # <<>>
    /\ LET g == Head(wire.names) IN
       Become(Queue([Now EXCEPT !.wire.names = Tail(@)], Event(g.ev, g.of)))

\* watch_player: subscribed before the first read, so what changes meanwhile
\* is repeated, never lost.
WatcherReads(n) ==
    /\ wire.watchers[n] = "reading"
    /\ IF n \in world.up
       THEN Become(Queue([Now EXCEPT !.wire.watchers[n] = "following"],
                         [Event("ready", n) EXCEPT !.delta = world.players[n]]))
       ELSE Become(Queue([Now EXCEPT !.wire.watchers[n] = "over"], Event("vanished", n)))

WatcherHears(n) ==
    /\ wire.watchers[n] = "following" /\ wire.stream[n] # <<>>
    /\ Become(Queue([Now EXCEPT !.wire.stream[n] = Tail(@)],
                    [Event("changed", n) EXCEPT !.delta = Head(wire.stream[n])]))

\* fetch: a cover that was found, or none.
Fetched ==
    \E f \in wire.fetches, found \in BOOLEAN :
        Become(Queue([Now EXCEPT !.wire.fetches = @ \ {f}],
                     [Event("art", f.name) EXCEPT !.delta.track = f.url,
                                                  !.art = IF found THEN f.url ELSE 0]))

Spare(what) == what \in Does /\ world.moves < MaxMoves
Did(s) == [s EXCEPT !.world.moves = @ + 1]

Comes ==
    \E n \in Names \ world.up :
        /\ Spare("come")
        /\ Become([Did(Now) EXCEPT !.world.up = @ \cup {n},
                                   !.world.players[n] = [status |-> "Playing", track |-> 1],
                                   !.wire.names = Append(@, [ev |-> "appeared", of |-> n])])

Goes ==
    \E n \in world.up :
        /\ Spare("go")
        /\ Become([Did(Now) EXCEPT !.world.up = @ \ {n},
                                   !.wire.names = Append(@, [ev |-> "vanished", of |-> n])])

Plays == \E n \in world.up : \/ Spare("play") /\ Become(Toggle(Did(Now), n))
                             \/ Spare("skip") /\ Become(Skip(Did(Now), n))

\* CALL_TIMEOUT: a player too busy starting to introduce itself.
Slow ==
    \E n \in world.up :
        /\ Spare("slow") /\ wire.watchers[n] = "reading"
        /\ Become(Did(Queue([Now EXCEPT !.wire.watchers[n] = "over"], Event("vanished", n))))

-----------------------------------------------------------------------------
(* The card.                                                               *)

Active(shown) == IF shown.active = NoOne THEN NoOne
                 ELSE shown.players[IndexOf(shown.players, shown.active)]
Plays1(shown) == Active(shown) # NoOne /\ Active(shown).status = "Playing"

\* render_art: the cover asked for last is the only one that may be drawn.
RenderArt(s, key) ==
    IF s.panel.artKey = key THEN s
    ELSE IF key = 0 THEN [s EXCEPT !.panel.artKey = key, !.panel.art = 0, !.panel.decoding = 0]
    ELSE [s EXCEPT !.panel.artKey = key, !.panel.decoding = key]

\* start_ticking stops first, so it is also how a player that stops is heard.
Render(s) ==
    LET v == Active(s.panel.last)
        t == [s EXCEPT !.panel.drawn = s.panel.last,
                       !.panel.ticker = @ /\ Plays1(s.panel.last)]
    IN  IF v = NoOne THEN t ELSE RenderArt(t, v.art)

Draw == panel.drawn # panel.last /\ Become(Render(Now))

Decoded ==
    /\ panel.decoding # 0
    /\ \E ok \in BOOLEAN :
          Become([Now EXCEPT !.panel.art = IF ok THEN panel.decoding ELSE 0, !.panel.decoding = 0])

Send(s, do, from, track, on) ==
    [s EXCEPT !.wire.sent = @ \cup {[do |-> do, from |-> from, track |-> track, on |-> on]},
              !.world.clicks = @ + 1]

\* refresh and closed
OpenPanel(s) ==
    LET r == Render(s)
    IN  Send([r EXCEPT !.panel.open = TRUE, !.panel.ticker = Plays1(r.panel.drawn)],
             "track", NoOne, 0, TRUE)
ClosePanel(s) == Send([s EXCEPT !.panel.open = FALSE, !.panel.ticker = FALSE], "track", NoOne, 0, FALSE)

PanelClicks == IF panel.open THEN {ClosePanel(Now)} ELSE {OpenPanel(Now)}

\* connect_transport and connect_seek
TransportClicks ==
    LET v == Active(panel.drawn) IN
    IF ~panel.open \/ v = NoOne THEN {}
    ELSE {Send(Now, do, v.name, v.track, FALSE) : do \in {"toggle", "next", "seek"}}

\* switcher_button: one per player, when there are two.
SwitcherClicks ==
    IF ~panel.open \/ Len(panel.drawn.players) < 2 THEN {}
    ELSE {Send(Now, "select", panel.drawn.players[i].name, 0, FALSE) : i \in DOMAIN panel.drawn.players}

Click ==
    /\ world.clicks < MaxClicks
    /\ \E s \in (IF "panel" \in Asks THEN PanelClicks ELSE {})
                \cup (IF "control" \in Asks THEN TransportClicks ELSE {})
                \cup (IF "select" \in Asks THEN SwitcherClicks ELSE {}) : Become(s)

-----------------------------------------------------------------------------
(* topbar media: a process of its own that looks at the bus itself.        *)

\* survey: the rule without its two counters, so any of those of the highest rank.
Survey == {n \in world.up : \A m \in world.up : Rank(world.players[n]) >= Rank(world.players[m])}

\* Survey, then control: with nothing on the bus it fails.
Key ==
    /\ "key" \in Asks /\ world.clicks < MaxClicks
    /\ \E n \in Survey : \E s \in {Toggle(Now, n), Skip(Now, n)} :
          Become([s EXCEPT !.world.clicks = @ + 1])

-----------------------------------------------------------------------------

Init ==
    \E up \in SUBSET Names :
        LET shown == [players |-> <<>>, active |-> NoOne] IN
        /\ panel = [players |-> <<>>, recent |-> <<>>, active |-> NoOne, pinned |-> NoOne,
                    tracking |-> FALSE, poll |-> FALSE, last |-> shown, drawn |-> shown,
                    open |-> FALSE, ticker |-> FALSE, artKey |-> 0, art |-> 0, decoding |-> 0]
        /\ world = [up |-> up, players |-> [n \in Names |-> [status |-> "Playing", track |-> 1]],
                    seeks |-> {}, moves |-> 0, clicks |-> 0]
        /\ wire = [events |-> <<>>, names |-> SetToSeq({[ev |-> "appeared", of |-> n] : n \in up}),
                   watchers |-> [n \in Names |-> "none"], stream |-> [n \in Names |-> <<>>],
                   fetches |-> {}, sent |-> {}]

Turn == TakeCommand \/ TakeEvent \/ SettleArt
Feeds == Discover \/ Fetched \/ \E n \in Names : WatcherReads(n) \/ WatcherHears(n)
Card == Draw \/ Decoded

TurnDue == \/ wire.sent # {} \/ wire.events # <<>>
           \/ \E i \in DOMAIN panel.players : panel.players[i].pending # NoOne
FeedsDue == \/ wire.names # <<>> \/ wire.fetches # {}
            \/ \E n \in Names : \/ wire.watchers[n] = "reading"
                                \/ wire.watchers[n] = "following" /\ wire.stream[n] # <<>>
CardDue == panel.drawn # panel.last \/ panel.decoding # 0

Next ==
    \/ Turn \/ Feeds \/ Card \/ Click \/ Key
    \/ Comes \/ Goes \/ Plays \/ Slow

Spec == Init /\ [][Next]_vars /\ WF_vars(Turn) /\ WF_vars(Feeds) /\ WF_vars(Card)
-----------------------------------------------------------------------------
(* Properties.                                                             *)

Rest == ~TurnDue /\ ~FeedsDue /\ ~CardDue

\* At rest the players are those on the bus, as they are, the card draws them, and it
\* shows the one the relevance rule picks.
QuietIsCurrent ==
    Rest =>
        /\ \A v \in Range(panel.players) :
              v.name \in world.up /\ v.ready
              => [status |-> v.status, track |-> v.track] = world.players[v.name]
        /\ panel.drawn = Shown(panel) /\ panel.active = Select(panel)
        /\ Known(panel) \subseteq world.up

\* A cover at rest is its own track's or none, in the list and on the card, whatever order
\* the fetches and the decoding came back in.
CoverBelongs ==
    Rest =>
        /\ \A v \in Range(panel.players) : v.art \in {0, Cover(v.track)}
        /\ panel.active # NoOne => panel.art \in {0, Cover(View(panel, panel.active).track)}

\* A player picked by hand is shown for as long as it is there, and forgotten with it.
PinIsThere == panel.pinned # NoOne => panel.pinned \in Known(panel) /\ panel.active = panel.pinned

\* The position ticks while the card is open on something that plays (media.rs:774).
Ticks == panel.open /\ Plays1(panel.drawn) => panel.ticker

\* A seek lands in the track it was aimed at (media/task.rs:108); a control reaches the
\* player the card showed (task.rs:51).
SeekLands == \A k \in world.seeks : k.aimed = k.track
ControlLands == \A k \in world.seeks : k.to = k.from

\* "the key acts on the player the card would have been showing" (media/cli.rs:8).
KeyMeetsCard == Rest /\ panel.active # NoOne => Survey \subseteq {panel.active}
=============================================================================

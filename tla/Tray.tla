-------------------------------- MODULE Tray --------------------------------
(***************************************************************************)
(* The system tray: the task that follows StatusNotifierItems and may      *)
(* itself be the session's watcher, the watcher interface with its shared  *)
(* registry, one follower per item, and the widget with its menu popover.  *)
(*                                                                         *)
(* Four sources feed the task's one queue (wire.events), each through a    *)
(* queue of its own: registrations with the panel's watcher                *)
(* (wire.registered), names that left the bus (wire.names), the signals of *)
(* whoever holds the watcher's name (wire.signals), and the followers.     *)
(* Taking the name over is the one thing the loop waits for (panel.taking).*)
(***************************************************************************)
EXTENDS Integers, SequencesExt, FiniteSetsExt

CONSTANTS
    Items,       \* numbered in the order of their identifiers
    AppOf,       \* [Items -> the bus name that serves it]
    Menus,       \* the items that publish a menu
    Subs,        \* those among them whose menu has a submenu
    max_icons,   \* widgets.tray.max_icons
    NoOne,
    Does,        \* what applications and watchers do: part of
                 \* {"register", "status", "deaf", "quit", "watcher"}
    MaxMoves,    \* how often
    MaxClicks    \* what the user does

VARIABLES
    panel,   \* the task, the registry it shares, and the widget
    world,   \* the applications, and who holds the watcher's name
    wire     \* queues, followers, menus being fetched

vars == <<panel, world, wire>>
Now == [panel |-> panel, world |-> world, wire |-> wire]
Become(s) == \E t \in {s} : panel' = t.panel /\ world' = t.world /\ wire' = t.wire

Apps == {AppOf[i] : i \in Items}
Served(w, i) == i \in w.served /\ AppOf[i] \in w.alive

-----------------------------------------------------------------------------
(* The task.  panel.items maps every item to its status, "none" when it is *)
(* not followed.                                                           *)

Followed(p) == {i \in Items : p.items[i] # "none"}
IsVisible(status) == status \in {"Active", "NeedsAttention"}

\* publish: in the order of the identifiers, the passive ones left out.
Publish(s) ==
    LET seen == {i \in Items : IsVisible(s.panel.items[i])}
    IN  [s EXCEPT !.panel.last =
            [k \in 1..Cardinality(seen) |->
                LET i == SetToSortSeq(seen, <)[k] IN [id |-> i, status |-> s.panel.items[i]]]]

Touch(s) == [s EXCEPT !.panel.debounce = TRUE]

\* add: an item already followed is not announced again.
Add(s, i) ==
    IF s.panel.items[i] # "none" THEN s
    ELSE [s EXCEPT !.panel.items[i] = "Passive", !.wire.followers[i] = "read"]

Read(s, i, status) ==
    IF s.panel.items[i] = "none" THEN s ELSE Touch([s EXCEPT !.panel.items[i] = status])

\* announce_departure: heard by follow_watcher too, once the panel holds the name.
AnnounceDeparture(s, gone) ==
    IF s.panel.is_watcher /\ s.panel.following
    THEN [s EXCEPT !.wire.signals = @ \o SetToSeq({[ev |-> "gone", of |-> i] : i \in gone})]
    ELSE s

\* drop_name: everything the name served, and its registrations.
DropName(s, app) ==
    LET gone == {i \in Followed(s.panel) : AppOf[i] = app}
        off == [s EXCEPT !.panel.items = [i \in Items |-> IF i \in gone THEN "none" ELSE @[i]],
                         !.wire.followers = [i \in Items |-> IF i \in gone THEN "none" ELSE @[i]],
                         !.panel.registry = @ \ gone]
    IN  IF gone = {} THEN s ELSE Touch(AnnounceDeparture(off, gone \cap s.panel.registry))

\* take_the_watcher_name: DoNotQueue, so it is refused when somebody holds it.
TakeTheWatcherName(s) ==
    IF s.panel.is_watcher THEN s
    ELSE IF s.world.owner # "none" THEN s
    ELSE [s EXCEPT !.world.owner = "panel", !.panel.taking = TRUE,
                   !.world.heard = s.world.served]

\* ... and the slate is wiped when the answer is back.
TakeOver ==
    /\ panel.taking
    /\ LET known == Followed(panel) IN
       Become(Touch([Now EXCEPT !.panel.taking = FALSE, !.panel.is_watcher = TRUE,
                                !.panel.items = [i \in Items |-> "none"],
                                !.wire.followers = [i \in Items |-> "none"],
                                !.panel.registry = @ \ known]))

ApplyEvent(s, e) ==
    CASE e.ev = "appeared" -> Add(s, e.of)
      [] e.ev = "gone"     -> DropName(s, AppOf[e.of])
      [] e.ev = "read"     -> Read(s, e.of, e.status)
      [] e.ev = "watcher"  -> TakeTheWatcherName(s)

Event(ev, i) == [ev |-> ev, of |-> i, status |-> "none"]
Queue(s, e) == [s EXCEPT !.wire.events = Append(@, e)]

TakeEvent ==
    /\ ~panel.taking /\ wire.events # <<>>
    /\ Become(ApplyEvent([Now EXCEPT !.wire.events = Tail(@)], Head(wire.events)))

\* The debounce: bounded by BURST_LIMIT, so a burst cannot put it off for good.
PublishDue ==
    /\ ~panel.taking /\ panel.debounce
    /\ Become(Publish([Now EXCEPT !.panel.debounce = FALSE]))

-----------------------------------------------------------------------------
(* What feeds the queue.                                                   *)

PumpRegistration ==
    /\ wire.registered # <<>>
    /\ Become(Queue([Now EXCEPT !.wire.registered = Tail(@)],
                    Event("appeared", Head(wire.registered))))

\* discover: a name of 0 is the watcher's.
Discover ==
    /\ wire.names # <<>>
    /\ LET n == Head(wire.names)
           s == [Now EXCEPT !.wire.names = Tail(@)]
       IN  IF n = 0 THEN Become(Queue(s, Event("watcher", 0)))
           ELSE Become(Queue(s, Event("gone", CHOOSE i \in Items : AppOf[i] = n)))

FollowWatcher ==
    /\ wire.signals # <<>>
    /\ LET g == Head(wire.signals) IN
       Become(Queue([Now EXCEPT !.wire.signals = Tail(@)], Event(g.ev, g.of)))

\* follow: one read answered, refused or given up on; then the next signal.
Follow(i) ==
    /\ wire.followers[i] = "read"
    /\ IF Served(world, i)
       THEN Become(Queue([Now EXCEPT !.wire.followers[i] = "wait"],
                         [Event("read", i) EXCEPT !.status = world.status[i]]))
       ELSE Become(Queue([Now EXCEPT !.wire.followers[i] = "over"], Event("gone", i)))

-----------------------------------------------------------------------------
(* The watcher interface, and the applications (after tray/fake.rs).       *)

\* register_status_notifier_item
Register(s, i) ==
    IF s.world.owner = "panel"
    THEN IF i \in s.panel.registry THEN s
         ELSE [s EXCEPT !.panel.registry = @ \cup {i},
                        !.wire.registered = Append(@, i),
                        !.wire.signals = IF s.panel.following THEN Append(@, [ev |-> "appeared", of |-> i])
                                         ELSE @]
    ELSE IF s.world.owner = "none" THEN s
    ELSE IF i \in s.world.listed THEN s
    ELSE [s EXCEPT !.world.listed = @ \cup {i},
                   !.wire.signals = IF s.panel.following THEN Append(@, [ev |-> "appeared", of |-> i])
                                    ELSE @]

Spare(what) == what \in Does /\ world.moves < MaxMoves
Did(s) == [s EXCEPT !.world.moves = @ + 1]

\* An application shows an item it did not show before, or says so again.
FakeRegister ==
    \E i \in Items :
        /\ Spare("register") /\ AppOf[i] \in world.alive
        /\ Become(Register(Did([Now EXCEPT !.world.served = @ \cup {i}]), i))

\* What applications do when the watcher's name reappears.
Reregister ==
    \E i \in world.heard :
        LET s == [Now EXCEPT !.world.heard = @ \ {i}]
        IN  Become(IF Served(world, i) THEN Register(s, i) ELSE s)

SetStatus ==
    \E i \in Items, st \in {"Passive", "Active", "NeedsAttention"} :
        /\ Spare("status") /\ Served(world, i) /\ world.status[i] # st
        /\ Become([Did(Now) EXCEPT !.world.status[i] = st,
                                   !.wire.followers[i] = IF @ = "wait" THEN "read" ELSE @])

\* An item stops answering in time; its follower gives up on it.
NoAnswer ==
    \E i \in Items :
        /\ Spare("deaf") /\ wire.followers[i] = "read"
        /\ Become(Did(Queue([Now EXCEPT !.wire.followers[i] = "over"], Event("gone", i))))

Quit ==
    \E a \in world.alive :
        /\ Spare("quit")
        /\ Become([Did(Now) EXCEPT !.world.alive = @ \ {a}, !.wire.names = Append(@, a),
                                   !.world.listed = {i \in @ : AppOf[i] # a},
                                   !.wire.signals = IF world.owner = "other"
                                     THEN @ \o SetToSeq({[ev |-> "gone", of |-> i] :
                                               i \in {j \in world.listed : AppOf[j] = a}})
                                     ELSE @])

\* Somebody else's watcher: strikes an item off, quits, or comes first.
OtherWatcher ==
    /\ Spare("watcher")
    /\ \/ /\ world.owner = "other"
          /\ \E i \in world.listed :
                Become([Did(Now) EXCEPT !.world.listed = @ \ {i}, !.world.served = @ \ {i},
                                        !.wire.signals = Append(@, [ev |-> "gone", of |-> i])])
       \/ /\ world.owner = "other"
          /\ Become([Did(Now) EXCEPT !.world.owner = "none", !.world.listed = {},
                                     !.wire.names = Append(@, 0)])
       \/ /\ world.owner = "none"
          /\ Become([Did(Now) EXCEPT !.world.owner = "other", !.world.heard = world.served])

-----------------------------------------------------------------------------
(* The widget.                                                             *)

\* split: the chevron takes a place of its own.
Split(total) == IF total <= max_icons THEN total ELSE IF max_icons = 0 THEN 0 ELSE max_icons - 1

Ids(shown) == {shown[k].id : k \in DOMAIN shown}

\* render: the icons that fit, the rest behind the chevron, and a menu whose
\* item has left is forgotten and closed.
Draw ==
    /\ panel.drawn # panel.last
    /\ LET open == panel.menu.of
           gone == open # NoOne /\ open \notin Ids(panel.last)
       IN  Become([Now EXCEPT !.panel.drawn = panel.last,
                              !.panel.inline = Split(Len(panel.last)),
                              !.panel.menu = IF gone THEN [of |-> NoOne, rows |-> NoOne, path |-> 0,
                                                           open |-> FALSE] ELSE @])

\* fetch_menu, asked on the way from a spawned task; answered in MenuAnswers.
FetchMenu(s, i) ==
    IF s.panel.items[i] # "none" /\ i \in Menus THEN [s EXCEPT !.wire.fetches = @ \cup {i}] ELSE s

\* aim_at, and the open that refreshes what it opens.
AimAt(s, i) ==
    FetchMenu([s EXCEPT !.panel.menu =
                 [of |-> i, rows |-> IF @.of = i THEN @.rows ELSE NoOne, path |-> 0, open |-> TRUE]], i)

Close(s) == [s EXCEPT !.panel.menu.open = FALSE, !.panel.menu.path = 0]

\* act: what a call on an item comes to.
Act(s, i) ==
    IF s.panel.items[i] = "none" \/ ~Served(s.world, i) THEN s
    ELSE [s EXCEPT !.world.did = @ \cup {[to |-> i, row |-> 0]}]

\* open_menu, under the icon: one without a menu is asked to put up its own.
OpenMenu(s, i) ==
    IF i \notin Menus THEN Act(s, i)
    ELSE IF s.panel.menu.open /\ s.panel.menu.of = i THEN Close(s)
    ELSE AimAt(s, i)

\* draw: back down to where the user was, as far as the layout still goes.
DrawMenu(s) ==
    LET m == s.panel.menu IN
    IF m.rows \in Subs THEN s ELSE [s EXCEPT !.panel.menu.path = 0]

\* The layout that arrived belongs to whoever the popover is aimed at by now.
MenuAnswers ==
    \E i \in wire.fetches :
        LET s == [Now EXCEPT !.wire.fetches = @ \ {i}] IN
        \/ Become(s)                                 \* refused, or too late
        \/ /\ Served(world, i)
           /\ Become(DrawMenu(IF panel.menu.of = NoOne THEN s
                              ELSE [s EXCEPT !.panel.menu.rows = i]))

\* send_menu_event: to the item the popover is aimed at.
SendMenuEvent(s, row) ==
    LET i == s.panel.menu.of IN
    IF i = NoOne THEN s
    ELSE IF s.panel.items[i] = "none" \/ ~Served(s.world, i) THEN s
    ELSE [s EXCEPT !.world.did = @ \cup {[to |-> i, row |-> row]}]

\* Rows are known by the item whose menu they are drawn from.
Enter(s) == SendMenuEvent(DrawMenu([s EXCEPT !.panel.menu.path = 1]), s.panel.menu.rows)
Leave(s) == DrawMenu([s EXCEPT !.panel.menu.path = 0])
Choose(s) == Close(SendMenuEvent(s, s.panel.menu.rows))

IconClicks == {Act(Now, i) : i \in Ids(panel.drawn)} \cup {OpenMenu(Now, i) : i \in Ids(panel.drawn)}

MenuClicks ==
    IF ~panel.menu.open \/ panel.menu.rows = NoOne THEN {}
    ELSE {Choose(Now), Close(Now)} \cup
         (IF panel.menu.path = 1 THEN {Leave(Now)}
          ELSE IF panel.menu.rows \in Subs THEN {Enter(Now)} ELSE {})

Click ==
    /\ world.clicks < MaxClicks
    /\ \E s \in IconClicks \cup MenuClicks : Become([s EXCEPT !.world.clicks = @ + 1])

-----------------------------------------------------------------------------

\* become_a_host: what is registered already is followed, ours or not.
BecomeAHost(s) ==
    [s EXCEPT !.panel.registry = s.world.listed,
              !.panel.following = ~s.panel.is_watcher,
              !.wire.events = [k \in 1..Cardinality(s.world.listed) |->
                                 Event("appeared", SetToSortSeq(s.world.listed, <)[k])]]

Init ==
    \E there \in {"panel", "other"} :
        LET fresh ==
              [panel |-> [is_watcher |-> there = "panel", taking |-> FALSE, following |-> FALSE,
                          items |-> [i \in Items |-> "none"], registry |-> {}, debounce |-> FALSE,
                          last |-> <<>>, drawn |-> <<>>, inline |-> 0,
                          menu |-> [of |-> NoOne, rows |-> NoOne, path |-> 0, open |-> FALSE]],
               world |-> [owner |-> there, alive |-> Apps, served |-> {1},
                          listed |-> IF there = "other" THEN {1} ELSE {},
                          heard |-> IF there = "panel" THEN {1} ELSE {},
                          status |-> [i \in Items |-> "Active"], did |-> {}, moves |-> 0, clicks |-> 0],
               wire |-> [events |-> <<>>, registered |-> <<>>, names |-> <<>>, signals |-> <<>>,
                         followers |-> [i \in Items |-> "none"], fetches |-> {}]]
            s == BecomeAHost(fresh)
        IN  panel = s.panel /\ world = s.world /\ wire = s.wire

Feeds == PumpRegistration \/ Discover \/ FollowWatcher \/ \E i \in Items : Follow(i)
Turn == TakeEvent \/ PublishDue \/ TakeOver \/ Feeds

TurnDue ==
    \/ panel.taking \/ wire.events # <<>> \/ panel.debounce
    \/ wire.registered # <<>> \/ wire.names # <<>> \/ wire.signals # <<>>
    \/ \E i \in Items : wire.followers[i] = "read"

Next ==
    \/ Turn \/ Draw \/ Click \/ MenuAnswers
    \/ FakeRegister \/ Reregister \/ SetStatus \/ NoAnswer \/ Quit \/ OtherWatcher

Spec == Init /\ [][Next]_vars /\ WF_vars(Turn) /\ WF_vars(Draw)
-----------------------------------------------------------------------------
(* Properties.                                                             *)

\* With every queue empty and every read answered, each item followed is its living
\* application's, shown with the status it has now, the passive ones left out.
QuietIsCurrent ==
    ~TurnDue =>
        /\ \A i \in Followed(panel) :
              AppOf[i] \in world.alive /\ (Served(world, i) => panel.items[i] = world.status[i])
        /\ Ids(panel.last) = {i \in Items : IsVisible(panel.items[i])}

\* The registry other hosts read names nothing the panel itself does not follow.
RegistryHasItems == ~TurnDue /\ panel.is_watcher => panel.registry \subseteq Followed(panel)

\* Icons of an application that has quit leave the bar.
GhostShown == \E i \in Ids(panel.drawn) : AppOf[i] \notin world.alive

\* A row chosen is told to the application whose menu it was (tray/task.rs:464).
RowsGoHome == \A d \in world.did : d.row # 0 => d.row = d.to

\* Taking the watcher's name over loses no item that has registered (tray/task.rs:600).
TakeoverKeeps ==
    ~TurnDue /\ panel.is_watcher /\ panel.following /\ world.heard = {}
    => \A i \in world.served : Served(world, i) => i \in Followed(panel)
=============================================================================

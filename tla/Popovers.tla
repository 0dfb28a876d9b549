------------------------------ MODULE Popovers ------------------------------
(***************************************************************************)
(* The popovers: one host per monitor, which shows one content at a time   *)
(* and fades it in and out; the widgets that own the contents, registered  *)
(* under their names; a transparent surface that catches the clicks beside *)
(* it; and in quick settings the lists that unfold, one of which has the   *)
(* Bluetooth radio look around.  Widgets and whole bars are built again    *)
(* and monitors go at any moment of a fade.                                *)
(***************************************************************************)
EXTENDS Integers, SequencesExt, FiniteSets

CONSTANTS
    Monitors, Names,
    Lists,       \* those of quick settings: part of {"bluetooth", "wifi"}
    Full,        \* how many frames a whole fade takes
    Animated,    \* theme.animations
    NoOne,
    Does,        \* part of {"click", "cli", "dismiss", "again", "widget", "bars", "plug", "power"}
    MaxMoves, MaxClicks

VARIABLES
    panel,   \* hosts, widgets, lists
    world,   \* monitors and the radio
    wire     \* what is asked of the Bluetooth service, each by a task of its own

vars == <<panel, world, wire>>
Now == [panel |-> panel, world |-> world, wire |-> wire]
Become(s) == \E t \in {s} : panel' = t.panel /\ world' = t.world /\ wire' = t.wire

\* A widget's claim on its popover: the n-th built under that name on that monitor.
Entries == [m : Monitors, name : Names, n : 1..(MaxMoves + 1)]
Entry(s, m, name) == [m |-> m, name |-> name, n |-> s.panel.built[m][name]]

-----------------------------------------------------------------------------
(* The lists in a panel, at most one unfolded (Accordion).                 *)

Folded == [expanded |-> FALSE, shown |-> FALSE, reveal |-> 0, to |-> NoOne]
Unfolded == [expanded |-> TRUE, shown |-> TRUE, reveal |-> Full, to |-> NoOne]

\* Section::set_expanded, animate: from where it is; nothing to travel, nothing started.
Slid(list, open) ==
    LET target == IF open THEN Full ELSE 0
        l == [list EXCEPT !.expanded = open, !.shown = @ \/ open]
    IN  IF list.expanded = open THEN list
        ELSE IF ~Animated THEN (IF open THEN Unfolded ELSE Folded)
        ELSE IF list.reveal = target THEN l ELSE [l EXCEPT !.to = target]

\* collapse_now
CollapsedNow(list) == IF list.expanded THEN Folded ELSE list

Toggled(lists, l) ==
    IF lists[l].expanded THEN [lists EXCEPT ![l] = Slid(@, FALSE)]
    ELSE [k \in Lists |-> IF k = l THEN Slid(lists[k], TRUE) ELSE CollapsedNow(lists[k])]

SlidOne(list) ==
    LET r == IF list.reveal < list.to THEN list.reveal + 1 ELSE list.reveal - 1
    IN  IF r = list.to THEN [list EXCEPT !.reveal = r, !.to = NoOne, !.shown = r > 0]
        ELSE [list EXCEPT !.reveal = r]

\* sync_discovery: the radio looks around while its list is open and it is on.
Wanted(s, e) == "bluetooth" \in Lists /\ s.panel.lists[e]["bluetooth"].expanded /\ s.world.powered
SyncDiscovery(s, e) ==
    IF Wanted(s, e) = (e \in s.panel.seeking) THEN s
    ELSE [s EXCEPT !.panel.seeking = IF Wanted(s, e) THEN @ \cup {e} ELSE @ \ {e},
                   !.wire.asks = @ \cup {[on |-> Wanted(s, e), n |-> s.wire.sent]}, !.wire.sent = @ + 1]

\* Panel::closed: everything the user opened goes back.
Closed(s, e) ==
    IF e.name # "quick" THEN s
    ELSE SyncDiscovery([s EXCEPT !.panel.lists[e] = [l \in Lists |-> CollapsedNow(@[l])]], e)

-----------------------------------------------------------------------------
(* A host.                                                                 *)

Empty == [phase |-> "closed", at |-> 0, to |-> NoOne, open |-> NoOne,
          catcher |-> FALSE, window |-> FALSE, keys |-> FALSE]

IsOpen(h) == h.phase \in {"opening", "open"}

\* detach: the content is unparented, its button released, and it is told.
Detach(s, m) ==
    LET e == s.panel.host[m].open
    IN  IF e = NoOne THEN s
        ELSE Closed([s EXCEPT !.panel.host[m].open = NoOne, !.panel.checked = @ \ {e}], e)

\* settle: the state that won is kept; what was on its way in is left on the screen.
Settle(s, m, opening) ==
    LET h == s.panel.host[m]
        t == [s EXCEPT !.panel.host[m].phase = IF IsOpen(h) THEN "open" ELSE "closed",
                       !.panel.host[m].at = IF IsOpen(h) THEN Full ELSE 0,
                       !.panel.host[m].to = NoOne,
                       !.panel.bare = @ \ {h.open}]
    IN  IF opening THEN t ELSE Detach([t EXCEPT !.panel.host[m].window = FALSE], m)

\* animate: in motion the outline stands in for the content's border; a run with no
\* distance to cover, or without motion, is over at once.
Animate(s, m, to) ==
    LET from == s.panel.host[m].at
    IN  IF Animated /\ from # to
        THEN [s EXCEPT !.panel.host[m].to = to, !.panel.bare = @ \cup ({s.panel.host[m].open} \ {NoOne})]
        ELSE Settle(s, m, to > from)

\* LayerPopover::open: another's content is swapped in place.
Swapped(s, m, e) ==
    LET h == s.panel.host[m]
        t == IF h.open # NoOne /\ h.open.name # e.name THEN Detach(s, m) ELSE s
    IN  IF t.panel.host[m].open # NoOne THEN t
        ELSE [t EXCEPT !.panel.host[m].open = e, !.panel.checked = @ \cup {e}]
Open(s, m, e) ==
    LET t == [Swapped(s, m, e) EXCEPT !.panel.host[m].catcher = TRUE, !.panel.host[m].window = TRUE,
                                      !.panel.host[m].keys = TRUE]
    IN  IF IsOpen(t.panel.host[m]) THEN t
        ELSE Animate([t EXCEPT !.panel.host[m].phase = "opening"], m, Full)

Close(s, m) ==
    IF ~IsOpen(s.panel.host[m]) THEN s
    ELSE Animate([s EXCEPT !.panel.host[m].phase = "closing", !.panel.host[m].catcher = FALSE,
                           !.panel.host[m].keys = FALSE], m, 0)

\* is_open goes by the name alone, and so does whatever asks it.
Shows(s, e) == IsOpen(s.panel.host[e.m]) /\ s.panel.host[e.m].open # NoOne /\ s.panel.host[e.m].open.name = e.name
CloseEntry(s, e) == IF Shows(s, e) THEN Close(s, e.m) ELSE s
ToggleEntry(s, e) == IF Shows(s, e) THEN Close(s, e.m) ELSE Open(s, e.m, e)
Do(s, what, e) ==
    CASE what = "show" -> Open(s, e.m, e)
      [] what = "hide" -> CloseEntry(s, e)
      [] what = "toggle" -> ToggleEntry(s, e)

-----------------------------------------------------------------------------
(* The user.                                                               *)

Spare(what) == what \in Does /\ world.clicks < MaxClicks
Did(s) == [s EXCEPT !.world.clicks = @ + 1]

\* Unless "again", nothing is asked of a host whose fade out has not begun to show, nor of
\* a list that has not begun to move.
Begun(m) == "again" \in Does \/ ~(panel.host[m].phase = "closing" /\ panel.host[m].at = Full)
BegunAll == \A m \in Monitors : Begun(m)

\* A button of the bar, which the catcher leaves uncovered.
Click ==
    \E m \in world.plugged, name \in Names :
        Spare("click") /\ Begun(m) /\ Become(ToggleEntry(Did(Now), Entry(Now, m, name)))

\* with_entry: the first of that name on the monitor that has the focus, else the first.
Found(name, m) ==
    LET of == SelectSeq(panel.registry, LAMBDA e : e.name = name)
        here == SelectSeq(of, LAMBDA e : e.m = m)
    IN  IF here # <<>> THEN here[1] ELSE of[1]
Cli ==
    \E name \in Names, focus \in Monitors, what \in {"show", "hide", "toggle"} :
        /\ Spare("cli") /\ BegunAll /\ panel.registry # <<>>
        /\ Become(Do(Did(Now), what, Found(name, focus)))

\* close_all: `popover hide`, and a notification that raises a window.
CloseAll ==
    /\ Spare("cli")
    /\ Become(FoldSeq(LAMBDA e, s : CloseEntry(s, e), Did(Now), panel.registry))

\* Escape, and a click beside the popover.
Dismiss ==
    \E m \in Monitors :
        /\ panel.host[m].keys \/ panel.host[m].catcher
        /\ Spare("dismiss") /\ Become(Close(Did(Now), m))

\* A chevron, on a panel that is on the screen.
Unfold ==
    \E m \in Monitors, l \in Lists :
        LET h == panel.host[m] IN
        /\ h.window /\ h.open # NoOne /\ h.open.name = "quick" /\ world.clicks < MaxClicks
        /\ LET list == panel.lists[h.open][l]
           IN "again" \in Does \/ list.to = NoOne \/ list.reveal \notin {0, Full}
        /\ Become(SyncDiscovery([Did(Now) EXCEPT !.panel.lists[h.open] = Toggled(@, l)], h.open))

-----------------------------------------------------------------------------
(* What goes on around it.                                                 *)

SpareMove(what) == what \in Does /\ world.moves < MaxMoves
Moved(s) == [s EXCEPT !.world.moves = @ + 1]

\* A widget's popover is registered, after the others; dropping it closes it.
Mounted(s, m, name) ==
    LET t == [s EXCEPT !.panel.built[m][name] = @ + 1]
    IN  [t EXCEPT !.panel.registry = Append(@, Entry(t, m, name))]
Dropped(s, e) == [CloseEntry(s, e) EXCEPT !.panel.registry = SelectSeq(@, LAMBDA r : r # e)]

\* rebuild_widgets: on every bar the new one is mounted before the old one is dropped.
RebuildWidget ==
    \E name \in Names :
        /\ SpareMove("widget") /\ world.plugged # {}
        /\ Become(FoldSet(LAMBDA m, s : Dropped(Mounted(s, m, name), Entry(s, m, name)), Moved(Now), world.plugged))

\* A bar goes, its widgets and its host with it: a fade that has begun is never finished.
BarDropped(s, m) ==
    LET t == FoldSet(LAMBDA name, u : Dropped(u, Entry(u, m, name)), s, Names)
    IN  [t EXCEPT !.panel.host[m] = Empty, !.panel.checked = {e \in @ : e.m # m},
                  !.panel.bare = {e \in @ : e.m # m}, !.panel.seeking = {e \in @ : e.m # m}]
BarBuilt(s, m) == FoldSet(LAMBDA name, u : Mounted(u, m, name), s, Names)

RebuildBars ==
    /\ SpareMove("bars")
    /\ Become(FoldSet(LAMBDA m, s : BarBuilt(BarDropped(s, m), m), Moved(Now), world.plugged))
Unplug ==
    \E m \in world.plugged :
        SpareMove("plug") /\ Become([BarDropped(Moved(Now), m) EXCEPT !.world.plugged = @ \ {m}])
Plug ==
    \E m \in Monitors \ world.plugged :
        SpareMove("plug") /\ Become([BarBuilt(Moved(Now), m) EXCEPT !.world.plugged = @ \cup {m}])

\* The radio is switched: every panel there is hears of it (render_bluetooth).
Alive(s) == {e \in Entries : e.name = "quick" /\ e.m \in s.world.plugged
                /\ (e = Entry(s, e.m, "quick") \/ e = s.panel.host[e.m].open)}
Power ==
    /\ SpareMove("power")
    /\ LET s == [Moved(Now) EXCEPT !.world.powered = ~@, !.world.radio = FALSE]
       IN  Become(FoldSet(LAMBDA e, t : SyncDiscovery(t, e), s, Alive(s)))

\* A frame of a fade, and of a list: the frame clock is the window's.
Fade ==
    \E m \in Monitors :
        LET h == panel.host[m]
            at == IF h.at < h.to THEN h.at + 1 ELSE h.at - 1
            s == [Now EXCEPT !.panel.host[m].at = at]
        IN  /\ h.to # NoOne
            /\ Become(IF at = h.to THEN Settle(s, m, at = Full) ELSE s)
Slide ==
    \E m \in Monitors, l \in Lists :
        LET e == panel.host[m].open IN
        /\ panel.host[m].window /\ e \in DOMAIN panel.lists /\ panel.lists[e][l].to # NoOne
        /\ Become([Now EXCEPT !.panel.lists[e][l] = SlidOne(@)])

\* The service takes what was asked of it, in whatever order it comes; a radio that is off
\* has no session to open.
Serve ==
    \E a \in wire.asks :
        Become([Now EXCEPT !.wire.asks = @ \ {a}, !.world.radio = IF world.powered THEN a.on ELSE FALSE])

-----------------------------------------------------------------------------

Init ==
    /\ world = [plugged |-> Monitors, powered |-> TRUE, radio |-> FALSE, moves |-> 0, clicks |-> 0]
    /\ panel = [host |-> [m \in Monitors |-> Empty], built |-> [m \in Monitors |-> [name \in Names |-> 1]],
                registry |-> SetToSeq([m : Monitors, name : Names, n : {1}]),
                checked |-> {}, bare |-> {}, seeking |-> {},
                lists |-> [e \in {x \in Entries : x.name = "quick"} |-> [l \in Lists |-> Folded]]]
    /\ wire = [asks |-> {}, sent |-> 0]

Daemon == Serve
Clock == Fade \/ Slide
DaemonDue == wire.asks # {}
ClockDue == \/ \E m \in Monitors : panel.host[m].to # NoOne
            \/ \E m \in Monitors, l \in Lists :
                 \A e \in {panel.host[m].open} :
                     panel.host[m].window /\ e \in DOMAIN panel.lists /\ panel.lists[e][l].to # NoOne

Next == Daemon \/ Clock \/ Click \/ Cli \/ CloseAll \/ Dismiss \/ Unfold
        \/ RebuildWidget \/ RebuildBars \/ Unplug \/ Plug \/ Power

Spec == Init /\ [][Next]_vars /\ WF_vars(Daemon) /\ WF_vars(Clock)

-----------------------------------------------------------------------------
(* Properties.                                                             *)

\* Between two frames a popover is either wholly there, with its button lit, its catcher and
\* the keyboard, or wholly gone; and a list is where it is said to be, no two unfolded, none
\* in a panel that is put away.
Still(m) == panel.host[m].to = NoOne
Whole(h) ==
    /\ h.phase \in {"closed", "open"}
    /\ \A there \in {h.phase = "open"} :
         h.window = there /\ h.catcher = there /\ h.keys = there /\ (h.open # NoOne) = there
ListsAreShown ==
    \A e \in DOMAIN panel.lists :
        /\ Cardinality({l \in Lists : panel.lists[e][l].expanded}) <= 1
        /\ panel.host[e.m].open = e =>
             \A l \in Lists : panel.lists[e][l].to = NoOne => panel.lists[e][l].shown = panel.lists[e][l].expanded
        /\ e \in Alive(Now) /\ panel.host[e.m].open # e => \A l \in Lists : ~panel.lists[e][l].expanded
QuietIsCurrent ==
    /\ \A m \in Monitors :
        Still(m) => Whole(panel.host[m]) /\ {e \in panel.checked : e.m = m} = {panel.host[m].open} \ {NoOne}
    /\ ListsAreShown

\* "The catcher must never outlive the popover it belongs to" (layer_popover.rs:699); and a
\* panel that is put away looks for nothing.
CatcherHasPopover == \A m \in Monitors : panel.host[m].catcher => panel.host[m].window /\ panel.host[m].open # NoOne
SeekersAreSeen == \A e \in panel.seeking : panel.host[e.m].open = e /\ Wanted(Now, e)

\* What fades is gone.
Fading == \E m \in Monitors : panel.host[m].phase = "closing"

\* "A rebuilt widget must not leave its old tree on screen" (popovers.rs:126).
OldTreeGoes == \A m \in Monitors :
    Still(m) /\ panel.host[m].open # NoOne => panel.host[m].open = Entry(Now, m, panel.host[m].open.name)

\* Content at rest has its border.
BorderIsBack == \A m \in Monitors : Still(m) => panel.host[m].open \notin panel.bare

\* "the radio stops looking for things to put in it" (quick_settings/panel.rs:362).
RadioStops == wire.asks = {} /\ world.radio => panel.seeking # {}
=============================================================================

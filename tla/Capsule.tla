------------------------------ MODULE Capsule ------------------------------
(***************************************************************************)
(* The OSD: one click-through surface for each monitor that has a bar, the *)
(* watcher that tells a change from a repetition, the fade, the countdown  *)
(* and the bar that slides.  What it is told comes from the snapshots of   *)
(* the volume (the backlight's is like it) and the inhibitor, and from     *)
(* frames of `topbar volume`.                                              *)
(*                                                                         *)
(* An opacity is 0, Half or Whole; a frame takes a fade one step nearer.   *)
(***************************************************************************)
EXTENDS Common, Integers, FiniteSets

CONSTANTS
    Monitors,   \* 1 .. n, in GDK's order
    Values,     \* fills of the bar
    NoOne,
    Does,       \* part of {"change", "frame", "inhibit", "focus", "reload", "plug"}
    MaxMoves

VARIABLES
    panel,   \* the surfaces
    world,   \* snapshots, monitors, focus
    wire     \* which surface has yet to be called for which snapshot

vars == <<panel, world, wire>>
Now == [panel |-> panel, world |-> world, wire |-> wire]
Become(s) == \E t \in {s} : panel' = t.panel /\ world' = t.world /\ wire' = t.wire

Half == 1
Whole == 2
Snapshots == {"level", "inhibitor"}

-----------------------------------------------------------------------------
(* Which monitor.                                                          *)

\* hosting_output: the focused one, or else GDK's first.
HostingOutput(w) ==
    IF w.listed = {} THEN NoOne ELSE IF w.focus \in w.listed THEN w.focus ELSE Lowest(w.listed)

\* OsdSurface::is_host
IsHost(s, m) == HostingOutput(s.world) = m

-----------------------------------------------------------------------------
(* One surface.                                                            *)

Set(s, m, c) == [s EXCEPT !.panel[m] = c]

\* OsdBar::set_value: what is there already is not slid to.
SetValue(c, v) == IF c.fill = v THEN c ELSE [c EXCEPT !.slide = v]
\* OsdBar::jump_to
JumpTo(c, v) == [c EXCEPT !.fill = v, !.slide = NoOne]

\* Animation::start: a run with nowhere to go ends at once.
Fade(c, to) ==
    IF c.opacity # to THEN [c EXCEPT !.run = to]
    ELSE [c EXCEPT !.run = NoOne, !.visible = @ /\ to = Whole]

\* OsdSurface::show: mapped, and faded in a turn later, unless it is up already.
Show(c) ==
    IF c.shown THEN [c EXCEPT !.visible = TRUE]
    ELSE [c EXCEPT !.visible = TRUE, !.shown = TRUE, !.idle = TRUE]

\* OsdSurface::restart_timer: replaced, never stacked.
RestartTimer(c) == [c EXCEPT !.timer = TRUE]

\* OsdSurface::raise.  An event is a fill, or NoOne for one that is only an icon.
Raised(c, fill) ==
    LET drawn == IF fill = NoOne THEN [c EXCEPT !.bar = FALSE]
                 ELSE [(IF c.shown THEN SetValue(c, fill) ELSE JumpTo(c, fill))
                         EXCEPT !.bar = TRUE, !.told = fill]
    IN  RestartTimer(Show(drawn))

Raise(s, m, fill) ==
    IF ~IsHost(s, m) THEN s
    ELSE [Set(s, m, Raised(s.panel[m], fill)) EXCEPT !.world.lit = @ \cup {m}]

\* OsdSurface::dismiss
Dismiss(c) == IF c.shown THEN Fade([c EXCEPT !.shown = FALSE], 0) ELSE c

-----------------------------------------------------------------------------
(* Watcher.                                                                *)

\* Watcher::audio, Watcher::brightness: once per change, and not for the panel's own.
WatchLevel(s, m) ==
    LET a == s.world.level
        t == [s EXCEPT !.panel[m].heard = a.serial]
    IN  IF a.serial \in {0, s.panel[m].heard} THEN s
        ELSE IF a.source = "ui" THEN t ELSE Raise(t, m, a.value)

\* Watcher::inhibitor: the first reading is where it starts from.
WatchInhibitor(s, m) ==
    LET old == s.panel[m].inhibited
        t == [s EXCEPT !.panel[m].inhibited = s.world.inhibited]
    IN  IF old \in {NoOne, s.world.inhibited} THEN t ELSE Raise(t, m, NoOne)

\* bind_state: a surface is called on a turn of its own for what is current by then.
Called ==
    \E m \in DOMAIN panel, what \in Snapshots :
        /\ <<m, what>> \in wire
        /\ LET s == [Now EXCEPT !.wire = @ \ {<<m, what>>}]
           IN  Become(IF what = "level" THEN WatchLevel(s, m) ELSE WatchInhibitor(s, m))

\* OsdSurface::new: subscribed, which calls it for what there is.
Fresh == [heard |-> 0, inhibited |-> NoOne, shown |-> FALSE, visible |-> FALSE, opacity |-> 0,
          run |-> NoOne, idle |-> FALSE, timer |-> FALSE, bar |-> FALSE, fill |-> NoOne, slide |-> NoOne,
          told |-> NoOne]
Build(s, m) ==
    LET t == [s EXCEPT !.panel = [x \in DOMAIN @ \cup {m} |-> IF x = m THEN Fresh ELSE @[x]],
                       !.wire = {p \in @ : p[1] # m}]
    IN  WatchInhibitor(WatchLevel(t, m), m)

\* Drop: the countdown goes with the window.
Gone(s, m) == [s EXCEPT !.panel = [x \in DOMAIN @ \ {m} |-> @[x]], !.wire = {p \in @ : p[1] # m}]

-----------------------------------------------------------------------------
(* The main loop.                                                          *)

\* The turn after the map.
Idle ==
    \E m \in DOMAIN panel :
        /\ panel[m].idle
        /\ LET c == [panel[m] EXCEPT !.idle = FALSE] IN Become(Set(Now, m, IF c.shown THEN Fade(c, Whole) ELSE c))

\* A frame, of a surface that is mapped.
Step(c) == IF c.run > c.opacity THEN c.opacity + 1 ELSE c.opacity - 1
Frame ==
    \E m \in DOMAIN panel :
        /\ panel[m].visible /\ panel[m].run # NoOne
        /\ LET c == [panel[m] EXCEPT !.opacity = Step(panel[m])]
           IN  Become(Set(Now, m, IF c.opacity = c.run THEN Fade(c, c.run) ELSE c))
Slide ==
    \E m \in DOMAIN panel :
        /\ panel[m].visible /\ panel[m].bar /\ panel[m].slide # NoOne
        /\ Become(Set(Now, m, JumpTo(panel[m], panel[m].slide)))

Countdown ==
    \E m \in DOMAIN panel :
        /\ panel[m].timer
        /\ Become(Set(Now, m, Dismiss([panel[m] EXCEPT !.timer = FALSE])))

\* show: every surface is asked, on one turn.
TakeFrame ==
    \E v \in Values :
        /\ "frame" \in Does /\ world.moves < MaxMoves
        /\ LET s == [Now EXCEPT !.world.moves = @ + 1]
           IN  Become(IF HostingOutput(world) \in DOMAIN panel THEN Raise(s, HostingOutput(world), v) ELSE s)

\* reconfigure_osd: every bar's, one after the other, none kept.
Reload ==
    /\ "reload" \in Does /\ world.moves < MaxMoves
    /\ LET s == [Now EXCEPT !.world.moves = @ + 1, !.world.lit = {}, !.world.reloaded = TRUE]
           built == [m \in DOMAIN panel |-> Build(Gone(s, m), m)]
       IN  Become([s EXCEPT !.panel = [m \in DOMAIN panel |-> built[m].panel[m]],
                            !.world.lit = UNION {built[m].world.lit : m \in DOMAIN panel},
                            !.wire = {p \in @ : p[1] \notin DOMAIN panel}])

\* BarManager::sync: bars for the monitors that are described, and for no others.
Sync ==
    \E m \in Monitors :
        \/ m \in world.described \ DOMAIN panel /\ Become(Build(Now, m))
        \/ m \in DOMAIN panel \ world.listed /\ Become(Gone(Now, m))

-----------------------------------------------------------------------------
(* Everything else.                                                        *)

Spare(what) == what \in Does /\ world.moves < MaxMoves
News(s, what) == [s EXCEPT !.world.moves = @ + 1, !.wire = @ \cup {<<m, what>> : m \in DOMAIN s.panel}]

Change ==
    \E source \in {"ui", "external"}, v \in Values :
        /\ Spare("change")
        /\ Become([News(Now, "level") EXCEPT !.world.level = [serial |-> @.serial + 1, source |-> source, value |-> v],
                                             !.world.lit = {}, !.world.reloaded = FALSE])
Inhibit ==
    Spare("inhibit") /\ Become([News(Now, "inhibitor") EXCEPT !.world.inhibited = ~@, !.world.lit = {}])

FocusMoves ==
    \E m \in Monitors \ {world.focus} :
        Spare("focus") /\ Become([Now EXCEPT !.world.focus = m, !.world.moves = @ + 1])

\* A monitor is in GDK's list before it is described in full.
Plug ==
    \/ \E m \in Monitors \ world.listed :
          Spare("plug") /\ Become([Now EXCEPT !.world.listed = @ \cup {m}, !.world.moves = @ + 1])
    \/ \E m \in world.listed :
          Spare("plug") /\ Become([Now EXCEPT !.world.listed = @ \ {m}, !.world.described = @ \ {m},
                                              !.world.moves = @ + 1])
Described == \E m \in world.listed \ world.described : Become([Now EXCEPT !.world.described = @ \cup {m}])

-----------------------------------------------------------------------------

Init ==
    /\ panel = [m \in {1} |-> [Fresh EXCEPT !.inhibited = FALSE]]
    /\ world = [level |-> [serial |-> 0, source |-> NoOne, value |-> NoOne], inhibited |-> FALSE,
                listed |-> {1}, described |-> {1}, focus |-> 1, lit |-> {}, reloaded |-> FALSE, moves |-> 0]
    /\ wire = {}

Turn == Called \/ Idle \/ Sync
Clock == Frame \/ Slide \/ Countdown
Daemon == Described

TurnDue == \/ wire # {} \/ \E m \in DOMAIN panel : panel[m].idle \/ m \notin world.listed
           \/ \E m \in world.described : m \notin DOMAIN panel
ClockDue == \E m \in DOMAIN panel :
                LET c == panel[m] IN c.timer \/ (c.visible /\ (c.run # NoOne \/ (c.bar /\ c.slide # NoOne)))
DaemonDue == world.listed # world.described

Next == Turn \/ Clock \/ Daemon \/ TakeFrame \/ Reload \/ Change \/ Inhibit \/ FocusMoves \/ Plug

Spec == Init /\ [][Next]_vars /\ WF_vars(Turn) /\ WF_vars(Clock) /\ WF_vars(Daemon)

-----------------------------------------------------------------------------
(* Properties.                                                             *)

\* A capsule on the screen is counted down or fading out.
LeavesInTime == \A m \in DOMAIN panel : panel[m].visible => panel[m].timer \/ panel[m].run = 0

\* What is shown goes away.
Up == \E m \in DOMAIN panel : panel[m].visible

\* "An event arriving mid-dismissal reverses a fade on a surface that never unmapped"
\* (osd.rs:554): a capsule that counts as shown is on the screen.
ShownIsSeen == \A m \in DOMAIN panel : panel[m].shown => panel[m].visible

\* The bar comes to rest at the value it was last given.
BarIsRight ==
    \A m \in DOMAIN panel :
        panel[m].visible /\ panel[m].bar /\ panel[m].slide = NoOne => panel[m].fill = panel[m].told

\* "so a media key pressed on one screen does not light up all of them" (osd.rs:521).
OneCapsule == Cardinality(world.lit) <= 1

\* "Which snapshots have already been shown" (osd.rs:229): a reload shows none of them again.
ReloadIsQuiet == world.reloaded => world.lit = {}

\* "so a banner is never posted to nowhere at all" (toast.rs:79): with a bar anywhere the
\* host is a monitor that has one.
HostHasSurface == panel # <<>> /\ ~TurnDue => HostingOutput(world) \in DOMAIN panel
=============================================================================

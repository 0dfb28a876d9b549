--------------------------------- MODULE Blur ---------------------------------
(***************************************************************************)
(* The blur the compositor draws behind the panel's surfaces: a manager    *)
(* bound on GDK's connection, whose queue is emptied after every request   *)
(* and by a timer; an attachment for each surface, which sends the region  *)
(* once the surface can be measured and takes it back before the surface   *)
(* fades or goes; and a compositor that may stop offering blur.            *)
(***************************************************************************)
EXTENDS Integers, FiniteSets

CONSTANTS
    Bars, Fading,   \* surfaces that are there or not, and those that fade in and out
    Scaled,         \* part of Fading: the region grows with the surface
    Sized,          \* given their size before they are mapped
    Full,           \* how many frames a fade takes
    READY_FRAMES,
    Does,           \* part of {"flip", "hide", "resize", "revoke"}
    NoOne,
    MaxMoves, MaxClicks

VARIABLES
    panel,   \* the manager, what each manager knows, timers, attachments
    world,   \* surfaces as the compositor has them, and whether it draws blur
    wire     \* surfaces it has not configured yet, and the size it wants of the others

Surfaces == Bars \cup Fading

vars == <<panel, world, wire>>
Now == [panel |-> panel, world |-> world, wire |-> wire]
Become(s) == \E t \in {s} : panel' = t.panel /\ world' = t.world /\ wire' = t.wire

Mapped(s, x) == s.world.wl[x] # 0

-----------------------------------------------------------------------------
(* The manager.                                                            *)

\* BlurManager::dispatch; flush does it after every request.
Dispatch(s, g) == [s EXCEPT !.panel.knows[g] = s.world.capable]

\* set_enabled: bound anew, or let go.
SetEnabled(s, on) ==
    IF on = (s.panel.manager # 0) THEN s
    ELSE IF ~on THEN [s EXCEPT !.panel.manager = 0]
    ELSE LET g == s.panel.made + 1
         IN  Dispatch([s EXCEPT !.panel.manager = g, !.panel.made = g, !.panel.timers = @ + 1], g)

\* watch: every half minute, while there is a manager.
Drain ==
    /\ panel.timers > 0
    /\ Become(IF panel.manager = 0 THEN [Now EXCEPT !.panel.timers = @ - 1]
              ELSE Dispatch(Now, panel.manager))

-----------------------------------------------------------------------------
(* An attachment.                                                          *)

\* attach
Attached(g, x) ==
    [manager |-> g, effect |-> NoOne, scale |-> Full, suspended |-> FALSE, waited |-> 0, waiting |-> FALSE,
     watching |-> FALSE, idle |-> FALSE, size |-> IF x \in Sized THEN 1 ELSE 0, laid |-> FALSE,
     at |-> 0, to |-> NoOne]

\* clear
Clear(s, x) ==
    LET e == s.panel.surf[x].effect
    IN  IF e = NoOne THEN s
        ELSE Dispatch([s EXCEPT !.panel.surf[x].effect = NoOne, !.world.objects = @ \ {<<x, e.on>>},
                                !.world.region[x] = NoOne], s.panel.surf[x].manager)

\* wait_a_frame
WaitAFrame(s, x) ==
    IF s.panel.surf[x].waited >= READY_FRAMES THEN s ELSE [s EXCEPT !.panel.surf[x].waiting = TRUE]

\* BlurManager::effect: the object of this very surface, the old one destroyed first.
Owned(s, x) ==
    LET e == s.panel.surf[x].effect
        n == s.world.wl[x]
        held == IF e = NoOne THEN {} ELSE {<<x, e.on>>}
    IN  IF e # NoOne /\ e.on = n THEN s
        ELSE [s EXCEPT !.panel.surf[x].effect = [on |-> n, last |-> NoOne],
                       !.world.objects = (@ \ held) \cup {<<x, n>>},
                       !.world.error = @ \/ <<x, n>> \in s.world.objects \ held]

\* geometry: how big the surface is and how much of it is drawn.
Region(a) == <<a.size, a.scale>>

\* apply
Send(s, x) ==
    LET key == Region(s.panel.surf[x])
    IN  IF s.panel.surf[x].effect.last = key THEN s
        ELSE Dispatch([s EXCEPT !.panel.surf[x].effect.last = key, !.world.region[x] = key],
                      s.panel.surf[x].manager)
Apply(s, x) ==
    LET a == s.panel.surf[x]
        t == [s EXCEPT !.panel.surf[x].watching = TRUE]
    IN  IF a.manager = 0 THEN s
        ELSE IF a.suspended \/ ~s.panel.knows[a.manager] \/ ~Mapped(s, x) THEN s
        ELSE IF a.size = 0 \/ ~a.laid THEN WaitAFrame(t, x)
        ELSE Send(Owned(t, x), x)

Suspend(s, x) == IF s.panel.surf[x].manager = 0 THEN s ELSE Clear([s EXCEPT !.panel.surf[x].suspended = TRUE], x)
Resume(s, x) == Apply([s EXCEPT !.panel.surf[x].suspended = FALSE], x)
SetScale(s, x, v) ==
    IF s.panel.surf[x].manager = 0 \/ s.panel.surf[x].scale = v THEN s
    ELSE Apply([s EXCEPT !.panel.surf[x].scale = v], x)

\* The map handler: a new wl_surface, a fresh budget.
Map(s, x) ==
    Apply([s EXCEPT !.world.born[x] = @ + 1, !.world.wl[x] = s.world.born[x] + 1, !.wire.fresh = @ \cup {x},
                    !.panel.surf[x].suspended = FALSE, !.panel.surf[x].waited = 0], x)
Unmap(s, x) ==
    LET t == Clear(s, x)
    IN  [t EXCEPT !.world.wl[x] = 0, !.world.region[x] = NoOne, !.wire.fresh = @ \ {x}]

-----------------------------------------------------------------------------
(* Those that own the surfaces.                                            *)

\* LayerPopover::open, OsdSurface::show: mapped unless it still is, and asked for by hand.
Open ==
    \E x \in Fading :
        /\ world.clicks < MaxClicks /\ panel.surf[x].to # Full /\ panel.surf[x].at # Full
        /\ LET s == [Now EXCEPT !.world.clicks = @ + 1]
               t == Resume(IF Mapped(s, x) THEN s ELSE Map(s, x), x)
           IN  Become([t EXCEPT !.panel.surf[x].to = Full])

\* LayerPopover::close, OsdSurface::dismiss: the region comes off as the fade starts.
Close ==
    \E x \in Fading :
        /\ Full \in {panel.surf[x].to, panel.surf[x].at} /\ panel.surf[x].to # 0
        /\ Become(IF panel.surf[x].at = 0 THEN [Unmap(Suspend(Now, x), x) EXCEPT !.panel.surf[x].to = NoOne]
                  ELSE [Suspend(Now, x) EXCEPT !.panel.surf[x].to = 0])

\* BarWindow::set_visible
Toggle ==
    \E x \in Bars :
        /\ "hide" \in Does /\ world.clicks < MaxClicks
        /\ LET s == [Now EXCEPT !.world.clicks = @ + 1]
           IN  Become(IF Mapped(s, x) THEN Unmap(s, x) ELSE Map(s, x))

\* reconfigure_blur, and the rebuild it asks for: every window is made again.
Remade(s, x) ==
    LET up == x \in Bars /\ Mapped(s, x)
        t == [Unmap(s, x) EXCEPT !.panel.surf[x] = Attached(s.panel.manager, x), !.wire.given[x] = 1]
    IN  IF up THEN Map(t, x) ELSE t
Flip ==
    \E on \in BOOLEAN :
        /\ "flip" \in Does /\ world.moves < MaxMoves
        /\ LET RemadeAll[some \in SUBSET Surfaces] ==
                   IF some = {} THEN SetEnabled([Now EXCEPT !.world.moves = @ + 1], on)
                   ELSE LET x == CHOOSE y \in some : TRUE IN Remade(RemadeAll[some \ {x}], x)
           IN  Become(RemadeAll[Surfaces])

-----------------------------------------------------------------------------
(* The main loop, and the compositor.                                      *)

\* A frame: tick callbacks in the order they were asked for, then layout.
Waited(s, x) ==
    IF ~s.panel.surf[x].waiting THEN s
    ELSE Apply([s EXCEPT !.panel.surf[x].waiting = FALSE, !.panel.surf[x].waited = @ + 1], x)
Faded(s, x) ==
    LET a == s.panel.surf[x]
        at == IF a.at < a.to THEN a.at + 1 ELSE a.at - 1
        t == [s EXCEPT !.panel.surf[x].at = at, !.panel.surf[x].to = IF at = @ THEN NoOne ELSE @]
        u == IF x \in Scaled THEN SetScale(t, x, at) ELSE t
    IN  IF a.to = NoOne THEN s ELSE IF at = 0 THEN Unmap(u, x) ELSE u
LaidOut(s, x) ==
    LET a == s.panel.surf[x]
    IN  [s EXCEPT !.panel.surf[x].size = s.wire.given[x], !.panel.surf[x].laid = TRUE,
                  !.panel.surf[x].idle = @ \/ (a.watching /\ a.size # s.wire.given[x])]
Stirs(x) ==
    LET a == panel.surf[x]
    IN  /\ Mapped(Now, x) /\ x \notin wire.fresh
        /\ a.waiting \/ a.to # NoOne \/ a.size # wire.given[x] \/ ~a.laid
Frame ==
    \E x \in Surfaces :
        /\ Stirs(x)
        /\ \E s \in {Faded(Waited(Now, x), x), Waited(Faded(Now, x), x)} :
             Become(IF Mapped(s, x) THEN LaidOut(s, x) ELSE s)

\* watch_surface: the turn after a size has changed.
Idle ==
    \E x \in Surfaces : panel.surf[x].idle /\ Become(Apply([Now EXCEPT !.panel.surf[x].idle = FALSE], x))

\* The compositor answers a map; a surface takes another size; blur is withdrawn or back.
Configure == \E x \in wire.fresh : Become([Now EXCEPT !.wire.fresh = @ \ {x}])
Resize ==
    \E x \in Surfaces :
        /\ "resize" \in Does /\ world.moves < MaxMoves /\ Mapped(Now, x) /\ x \notin wire.fresh
        /\ Become([Now EXCEPT !.wire.given[x] = 3 - @, !.world.moves = @ + 1])
Revoke ==
    /\ "revoke" \in Does /\ world.moves < MaxMoves
    /\ Become([Now EXCEPT !.world.capable = ~@, !.world.turned = TRUE, !.world.moves = @ + 1])

Init ==
    /\ panel = [manager |-> 1, made |-> 1, timers |-> 1, knows |-> [g \in 1..(MaxMoves + 1) |-> g = 1],
                surf |-> [x \in Surfaces |-> [Attached(1, x) EXCEPT !.waiting = x \in Bars,
                                                                     !.watching = x \in Bars]]]
    /\ world = [wl |-> [x \in Surfaces |-> IF x \in Bars THEN 1 ELSE 0], born |-> [x \in Surfaces |-> 1],
                objects |-> {}, region |-> [x \in Surfaces |-> NoOne], error |-> FALSE, capable |-> TRUE,
                turned |-> FALSE, moves |-> 0, clicks |-> 0]
    /\ wire = [fresh |-> Bars, given |-> [x \in Surfaces |-> 1]]

Clock == Frame \/ Idle \/ Drain
ClockDue == \/ \E x \in Surfaces : Stirs(x) \/ panel.surf[x].idle
            \/ panel.manager # 0 /\ panel.knows[panel.manager] # world.capable
            \/ panel.manager = 0 /\ panel.timers > 0
Daemon == Configure
DaemonDue == wire.fresh # {}
Next == Clock \/ Daemon \/ Open \/ Close \/ Toggle \/ Flip \/ Resize \/ Revoke

Spec == Init /\ [][Next]_vars /\ WF_vars(Frame) /\ WF_vars(Idle) /\ WF_vars(Drain) /\ WF_vars(Daemon)

-----------------------------------------------------------------------------
(* Properties.                                                             *)

Rests(x) == ~Stirs(x) /\ ~panel.surf[x].idle /\ x \notin wire.fresh
Blurred(x) == world.region[x] = <<wire.given[x], Full>>

\* At rest what is on the screen is blurred, whole and at its size, as long as the
\* compositor has always offered it; what is not on the screen, or not to be blurred, has no
\* region; and every surface goes by the configuration that runs.
QuietIsCurrent ==
    \A x \in Surfaces :
        /\ panel.surf[x].manager = panel.manager
        /\ Mapped(Now, x) /\ panel.manager # 0 /\ Rests(x) /\ ~world.turned => Blurred(x)
        /\ ~Mapped(Now, x) \/ panel.manager = 0 => world.region[x] = NoOne

\* The compositor is never asked twice for one surface, nothing is left behind by a surface
\* that has gone, nothing is blurred behind what fades out, and the blur is never ahead of
\* what fades in.
RegionsFit ==
    /\ ~world.error
    /\ \A o \in world.objects : Mapped(Now, o[1]) /\ world.wl[o[1]] = o[2]
    /\ \A x \in Surfaces :
        LET a == panel.surf[x] IN
        /\ a.to = 0 => world.region[x] = NoOne
        /\ x \in Scaled /\ world.region[x] # NoOne => world.region[x][2] <= a.at

\* That blur has been withdrawn is noticed.
Unheard == panel.manager # 0 /\ panel.knows[panel.manager] # world.capable

\* "Blur is not *required* to be capable here" (blur.rs, init), for a later change is heard
\* of: and then what is on the screen is blurred.
LateIsBlurred ==
    \A x \in Surfaces :
        Mapped(Now, x) /\ panel.manager # 0 /\ Rests(x) /\ world.capable /\ ~Unheard => Blurred(x)

\* Switching off "releases the manager, which also stops its drain timer": there is one.
OneTimer == panel.timers <= 1
=============================================================================

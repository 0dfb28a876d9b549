------------------------------ MODULE Privacy ------------------------------
(***************************************************************************)
(* The dot that says the screen is being watched: the thread that follows  *)
(* PipeWire's graph, and the icon row of the bar.                          *)
(*                                                                         *)
(* PipeWire numbers its objects itself and uses a number again; the panel  *)
(* keeps a proxy of every link, which its own library numbers as well.     *)
(***************************************************************************)
EXTENDS Common, Integers, Sequences, FiniteSets

CONSTANTS
    Ids,        \* PipeWire's numbers, in the order it first gives them
    FirstLocal, \* the least number the library gives a proxy
    NoOne,
    Does,       \* part of {"share", "other", "state", "remove", "die"}
    MaxMoves

ConstantsOK ==
    /\ Ids \in Seq(Nat) /\ FirstLocal \in Nat
    /\ \A i, j \in DOMAIN Ids : Ids[i] = Ids[j] => i = j

VARIABLES
    panel,   \* the thread and the dot
    world,   \* PipeWire
    wire     \* what it has said, in order, and the proxies asked for

vars == <<panel, world, wire>>
Now == [panel |-> panel, world |-> world, wire |-> wire]
Become(s) == \E t \in {s} : panel' = t.panel /\ world' = t.world /\ wire' = t.wire

\* PipeWire's numbers are clear of the library's, which are given out from the least on.
Apart == \A i \in DOMAIN Ids : Ids[i] > FirstLocal + Len(Ids)

\* An object: a node that casts, another, or a link.
Cast == [link |-> FALSE, cast |-> TRUE]
Other == [link |-> FALSE, cast |-> FALSE]
Link(from, active) == [link |-> TRUE, from |-> from, active |-> active]

LinksIn(objects) == {id \in DOMAIN objects : objects[id].link}

\* screen_sharing
ScreenSharing(objects) ==
    \E l \in LinksIn(objects) :
        /\ objects[l].active
        /\ objects[l].from \in DOMAIN objects
        /\ LET n == objects[objects[l].from] IN ~n.link /\ n.cast

Without(f, gone) == [x \in DOMAIN f \ gone |-> f[x]]
With(f, x, v) == [y \in DOMAIN f \cup {x} |-> IF y = x THEN v ELSE f[y]]

-----------------------------------------------------------------------------
(* PipeWire.                                                               *)

Say(s, event) == [s EXCEPT !.wire.events = Append(@, event)]
Spare(what) == what \in Does /\ world.moves < MaxMoves /\ world.up
Did(s) == [s EXCEPT !.world.moves = @ + 1]

\* A number that was given back is the next one given.
Create(object, announced) ==
    /\ world.free # <<>>
    /\ LET id == Head(world.free)
       IN  Become(Say([Did(Now) EXCEPT !.world.objects = With(world.objects, id, object), !.world.free = Tail(world.free)],
                      [kind |-> "global", id |-> id, object |-> announced]))

AddNode == \E node \in {Cast, Other} : Spare(IF node.cast THEN "share" ELSE "other") /\ Create(node, node)

\* A link is announced without its state.
AddLink ==
    \E from \in DOMAIN world.objects \ LinksIn(world.objects), active \in BOOLEAN :
        Spare("share") /\ Create(Link(from, active), Link(from, FALSE))

Told(s, id) ==
    IF id \in s.world.bound
    THEN Say(s, [kind |-> "info", id |-> id, active |-> s.world.objects[id].active]) ELSE s

Toggle ==
    \E id \in LinksIn(world.objects) :
        Spare("state") /\ Become(Told([Did(Now) EXCEPT !.world.objects[id].active = ~@], id))

\* A node takes its links with it, and they go first.  What goes last is given out first.
Orders(S) == {f \in [1..Cardinality(S) -> S] : \A i, j \in DOMAIN f : f[i] = f[j] => i = j}
Remove ==
    \E id \in DOMAIN world.objects :
        /\ Spare("remove")
        /\ LET links == {l \in LinksIn(world.objects) : world.objects[l].from = id} \ {id}
               dead == links \cup {id}
               gone == Append(CHOOSE order \in Orders(links) : TRUE, id)
               n == Len(gone)
           IN  Become([Did(Now) EXCEPT
                  !.world.objects = Without(world.objects, dead),
                  !.world.bound = world.bound \ dead,
                  !.world.free = [i \in 1..n |-> gone[n + 1 - i]] \o world.free,
                  !.wire.events = wire.events \o [i \in 1..n |-> [kind |-> "remove", id |-> gone[i]]]])

\* A proxy is asked for and told the state; of a link that has gone there is none.
Bind ==
    /\ wire.binds # <<>> /\ world.up
    /\ LET id == Head(wire.binds)
           s == [Now EXCEPT !.wire.binds = Tail(@)]
       IN  Become(IF id \in LinksIn(world.objects) \ world.bound
                  THEN Told([s EXCEPT !.world.bound = @ \cup {id}], id) ELSE s)

Die == Spare("die") /\ Become([Did(Now) EXCEPT !.world.up = FALSE, !.wire.binds = <<>>])

-----------------------------------------------------------------------------
(* worker.rs                                                               *)

\* publish
Publish(s) ==
    LET sharing == ScreenSharing(s.panel.graph)
    IN  IF s.panel.sharing = sharing THEN s
        ELSE [s EXCEPT !.panel.sharing = sharing, !.panel.due = TRUE]

Listening == {p.link : p \in {q \in panel.bound : q.alive}}

\* The least free number of the library's own.
Locals == {p.local : p \in {q \in panel.bound : q.alive}}
LocalId == Lowest((FirstLocal .. FirstLocal + Cardinality(Locals)) \ Locals)

\* global: a node is remembered; a link as well, inactive, and a proxy asked for.
Global(s, e) ==
    LET t == [s EXCEPT !.panel.graph = With(s.panel.graph, e.id, e.object)]
    IN  IF ~e.object.link THEN t
        ELSE [t EXCEPT !.wire.binds = Append(@, e.id),
                       !.panel.made = @ + 1,
                       !.panel.bound = @ \cup {[n |-> panel.made, local |-> LocalId, link |-> e.id,
                                                 alive |-> TRUE]}]

\* info, set_link_active: by the listener, where it is still there.
Info(s, e) ==
    IF e.id \in Listening /\ e.id \in LinksIn(panel.graph)
    THEN [s EXCEPT !.panel.graph[e.id].active = e.active] ELSE s

\* global_remove: the object is forgotten, and the proxies are dropped whose own number is
\* the object's.
GlobalRemove(s, e) ==
    LET dead == {IF p.link = e.id THEN [p EXCEPT !.alive = FALSE] ELSE p : p \in s.panel.bound}
    IN  [s EXCEPT !.panel.graph = Without(s.panel.graph, {e.id}),
                  !.panel.bound = {p \in dead : p.local # e.id}]

TakeEvent ==
    /\ wire.events # <<>> /\ panel.following
    /\ LET e == Head(wire.events)
           s == [Now EXCEPT !.wire.events = Tail(@)]
       IN  Become(Publish(CASE e.kind = "global" -> Global(s, e)
                            [] e.kind = "info"   -> Info(s, e)
                            [] OTHER             -> GlobalRemove(s, e)))

\* follow, run: a loop that ends is not an error, and nothing is published.
LoopEnds == ~world.up /\ panel.following /\ wire.events = <<>> /\ Become([Now EXCEPT !.panel.following = FALSE])

\* apply_visibility, set_pulsing
Draw ==
    /\ panel.due
    /\ Become([Now EXCEPT !.panel.due = FALSE, !.panel.dot = panel.sharing, !.panel.pulsing = panel.sharing])

-----------------------------------------------------------------------------

Init ==
    /\ panel = [graph |-> <<>>, bound |-> {}, made |-> 0, sharing |-> FALSE, following |-> TRUE,
                due |-> FALSE, dot |-> FALSE, pulsing |-> FALSE]
    /\ world = [objects |-> <<>>, free |-> Ids, bound |-> {}, up |-> TRUE, moves |-> 0]
    /\ wire = [events |-> <<>>, binds |-> <<>>]

Turn == TakeEvent \/ LoopEnds
Server == Bind
Loop == Draw

TurnDue == panel.following /\ (wire.events # <<>> \/ ~world.up)
ServerDue == wire.binds # <<>> /\ world.up
LoopDue == panel.due

Next == Turn \/ Server \/ Loop \/ AddNode \/ AddLink \/ Toggle \/ Remove \/ Die

Spec == Init /\ [][Next]_vars /\ WF_vars(Turn) /\ WF_vars(Server) /\ WF_vars(Loop)

-----------------------------------------------------------------------------
(* Properties.                                                             *)

Rest == ~TurnDue /\ ~ServerDue /\ ~LoopDue

\* With everything heard the dot is there exactly while a screen is cast to somebody,
\* however links were announced, paused, removed and their numbers used again.
QuietIsCurrent ==
    (Rest /\ world.up) => (panel.dot = ScreenSharing(world.objects) /\ panel.pulsing = panel.dot)

\* A screen that is watched is shown to be, or stops being watched.
Unseen == world.up /\ ScreenSharing(world.objects) /\ ~panel.dot

\* "the panel must not be left claiming a screen is being shared" (worker.rs:48).
NoClaimLeft == Rest /\ ~world.up => ~panel.dot

\* "dropping it is what keeps a session of six hours from accumulating one per stream that
\* ever existed" (worker.rs:147).
DeadAreDropped == Rest => \A p \in panel.bound : p.alive
=============================================================================

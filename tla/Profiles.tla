------------------------------ MODULE Profiles ------------------------------
(***************************************************************************)
(* The power mode: the task that finds the daemon under one of two names,  *)
(* shows a choice before it is made and undoes it when it is refused; the  *)
(* daemon, which others ask too; and the list in Quick Settings.           *)
(***************************************************************************)
EXTENDS Integers, Sequences

CONSTANTS
    Offered,   \* the profiles
    NoOne,
    Does,      \* part of {"set", "outside", "refuse", "daemon", "slow"}
    MaxMoves, MaxClicks

VARIABLES
    panel,   \* the task and the list
    world,   \* the daemon
    wire     \* commands, the call that is out, what the daemon and the bus have said

vars == <<panel, world, wire>>
Now == [panel |-> panel, world |-> world, wire |-> wire]
Become(s) == \E t \in {s} : panel' = t.panel /\ world' = t.world /\ wire' = t.wire

ConstantsOK == Offered # {} /\ NoOne \notin Offered \cup {"done", "refused"}

\* ENDPOINTS, newest first.
Endpoints == {1, 2}

-----------------------------------------------------------------------------
(* The task.                                                               *)

\* PowerProfilesState::default, snapshot.
Unavailable == [available |-> FALSE, active |-> NoOne]
Snapshot(active) == [available |-> TRUE, active |-> active]

Publish(s, next) ==
    IF s.panel.state = next THEN s ELSE [s EXCEPT !.panel.state = next, !.panel.due = TRUE]

\* endpoint, run
Find ==
    /\ panel.phase = "looking"
    /\ IF world.names = {} THEN Become([Publish(Now, Unavailable) EXCEPT !.panel.phase = "idle"])
       ELSE LET e == CHOOSE n \in world.names : \A m \in world.names : n <= m
            IN  Become([Now EXCEPT !.panel.phase = "building", !.panel.endpoint = e])

\* serve: subscribed, then read; a daemon that says nothing of itself is waited out.
Build ==
    /\ panel.phase = "building"
    /\ IF panel.endpoint \in world.names /\ world.ready
       THEN Become([Publish(Now, Snapshot(world.active))
                      EXCEPT !.panel.phase = "serving", !.panel.active = world.active, !.wire.change = NoOne])
       ELSE Become([Publish(Now, Unavailable) EXCEPT !.panel.phase = "idle"])

\* A command is shown before it is asked for ...
Ask(s, profile) ==
    [Publish(s, Snapshot(profile)) EXCEPT
       !.panel.phase = "asking", !.panel.previous = s.panel.active, !.panel.active = profile,
       !.wire.call = profile]

\* ... and refused where nobody is there to ask (idle).
TakeCommand ==
    /\ panel.phase \in {"serving", "idle"}
    /\ \E c \in wire.sent :
          LET s == [Now EXCEPT !.wire.sent = @ \ {c}]
          IN  Become(IF panel.phase = "idle" THEN s ELSE Ask(s, c.to))

\* And visibly back.
Undone(s) == Publish([s EXCEPT !.panel.active = s.panel.previous], Snapshot(s.panel.previous))

TakeAnswer ==
    /\ panel.phase = "asking" /\ wire.answer # NoOne
    /\ LET s == [Now EXCEPT !.panel.phase = "serving", !.wire.answer = NoOne]
       IN  Become(IF wire.answer = "refused" THEN Undone(s) ELSE s)

\* The last change there was, of however many.
TakeChange ==
    /\ panel.phase = "serving" /\ wire.change # NoOne
    /\ Become([Publish(Now, Snapshot(wire.change)) EXCEPT !.panel.active = wire.change, !.wire.change = NoOne])

\* owner_changes: whatever happened, look again.
TakeOwner ==
    /\ panel.phase \in {"serving", "idle"} /\ wire.owners > 0
    /\ Become([Now EXCEPT !.panel.phase = "looking", !.wire.owners = @ - 1])

-----------------------------------------------------------------------------
(* The daemon.                                                             *)

Up == world.names # {}
Active(s, profile) ==
    IF profile = s.world.active THEN s ELSE [s EXCEPT !.world.active = profile, !.wire.change = profile]

\* set_property, which a daemon that has gone does not hear.
DaemonAnswers ==
    /\ wire.call # NoOne
    /\ LET s == [Now EXCEPT !.wire.call = NoOne]
       IN  \/ /\ panel.endpoint \in world.names /\ world.ready
              /\ Become([Active(s, wire.call) EXCEPT !.wire.answer = "done"])
           \/ /\ panel.endpoint \notin world.names \/ ~world.ready
              /\ Become([s EXCEPT !.wire.answer = "refused"])
           \/ /\ "refuse" \in Does /\ world.moves < MaxMoves
              /\ Become([s EXCEPT !.wire.answer = "refused", !.world.moves = @ + 1])

Spare(what) == what \in Does /\ world.moves < MaxMoves
Did(s) == [s EXCEPT !.world.moves = @ + 1]

\* `powerprofilesctl`, a key of the laptop, a cable.
Outside ==
    \E p \in Offered \ {world.active} : Spare("outside") /\ Up /\ Become(Active(Did(Now), p))

\* The two names come and go apart, and each that changes hands is an event of its own.  With
\* the first there is a daemon, with the last there is none.
Dies ==
    \E e \in world.names :
        /\ Spare("daemon")
        /\ Become([Did(Now) EXCEPT !.world.names = @ \ {e}, !.wire.owners = @ + 1])
Starts ==
    \E e \in Endpoints \ world.names, p \in Offered :
        /\ Spare("daemon") /\ Up => p = world.active
        /\ Become([Did(Now) EXCEPT !.world.names = @ \cup {e}, !.world.active = p, !.wire.owners = @ + 1,
                                   !.world.ready = IF Up THEN @ ELSE "slow" \notin Does])
\* A daemon that took its name before it could answer.
Ready == Up /\ ~world.ready /\ Become([Now EXCEPT !.world.ready = TRUE])

-----------------------------------------------------------------------------
(* The list.                                                               *)

\* render_profiles: a list of nobody's profiles is closed.
Draw ==
    /\ panel.due
    /\ Become([Now EXCEPT !.panel.due = FALSE, !.panel.drawn = panel.state,
                          !.panel.open = @ /\ panel.state.available])

\* A row; each is a task of its own.
Click ==
    /\ "set" \in Does /\ world.clicks < MaxClicks /\ panel.drawn.available
    /\ \/ ~panel.open /\ Become([Now EXCEPT !.panel.open = TRUE])
       \/ \E p \in Offered :
             /\ panel.open
             /\ Become([Now EXCEPT !.wire.sent = @ \cup {[n |-> world.clicks, to |-> p]}, !.world.clicks = @ + 1])

-----------------------------------------------------------------------------

Init ==
    /\ panel = [phase |-> "looking", endpoint |-> NoOne, active |-> NoOne, previous |-> NoOne,
                state |-> Unavailable, due |-> FALSE, drawn |-> Unavailable, open |-> FALSE]
    /\ world \in [names : IF "daemon" \in Does THEN SUBSET Endpoints ELSE {Endpoints}, ready : {TRUE},
                  active : {CHOOSE p \in Offered : TRUE}, moves : {0}, clicks : {0}]
    /\ wire = [sent |-> {}, call |-> NoOne, answer |-> NoOne, change |-> NoOne, owners |-> 0]

Turn == Find \/ Build \/ TakeCommand \/ TakeAnswer \/ TakeChange \/ TakeOwner
Server == DaemonAnswers \/ Ready
Loop == Draw

TurnDue ==
    \/ panel.phase \in {"looking", "building"}
    \/ panel.phase = "asking" /\ wire.answer # NoOne
    \/ panel.phase \in {"serving", "idle"} /\ (wire.sent # {} \/ wire.owners > 0)
    \/ panel.phase = "serving" /\ wire.change # NoOne
ServerDue == wire.call # NoOne \/ (Up /\ ~world.ready)
LoopDue == panel.due

Next == Turn \/ Server \/ Loop \/ Outside \/ Dies \/ Starts \/ Click

Spec == Init /\ [][Next]_vars /\ WF_vars(Turn) /\ WF_vars(Server) /\ WF_vars(Loop)

-----------------------------------------------------------------------------
(* Properties.                                                             *)

Rest == ~TurnDue /\ ~ServerDue /\ ~LoopDue

\* At rest the list shows the daemon's own choice, however many choices, refusals, changes
\* by others and restarts crossed; and nothing of a daemon that is not there.
QuietIsCurrent ==
    Rest =>
        /\ panel.state = IF Up THEN Snapshot(world.active) ELSE Unavailable
        /\ panel.drawn = panel.state
        /\ panel.open => panel.state.available

\* Nor does it ever rest on another's: what is shown is the daemon's choice or nothing.
NeverAnothers == Rest => panel.state \in {Unavailable, Snapshot(world.active)}

\* A choice is settled.
Asking == panel.phase = "asking"
=============================================================================

------------------------------- MODULE Sound -------------------------------
(***************************************************************************)
(* The volume: the task that owns it and says who moved it, the thread     *)
(* that speaks to the sound server, the server, `topbar volume` beside     *)
(* them, and the two sliders.  The capsule is module Capsule; here only    *)
(* whether a change was one that raises it.                                *)
(*                                                                         *)
(* A volume is a number of 0 .. Top, Full being 100%.  A change's serial   *)
(* is kept as whether its watchers have seen it.                           *)
(***************************************************************************)
EXTENDS Common, Integers, Sequences, FiniteSets

CONSTANTS
    Outputs, Inputs,   \* devices: sinks, and sources that are not monitors
    Fixed,             \* those with no volume to set
    Full, Top,
    NoOne,
    Does,              \* part of {"late", "drag", "mute", "step", "choose", "ceiling", "mic", "cli",
                       \*          "outside", "input", "plug", "record", "server"}
    MaxMoves, MaxClicks

VARIABLES
    panel,   \* the task, its thread and its callbacks, the sliders
    world,   \* the sound server
    wire     \* queues, the socket, the command line

vars == <<panel, world, wire>>
Now == [panel |-> panel, world |-> world, wire |-> wire]
Become(s) == \E t \in {s} : panel' = t.panel /\ world' = t.world /\ wire' = t.wire

Kinds == {"output", "input"}
Of(k) == IF k = "output" THEN Outputs ELSE Inputs
KindOf(d) == IF d \in Outputs THEN "output" ELSE "input"

\* What the thread makes of what it has read.
Readings ==
    [def : [Kinds -> Outputs \cup Inputs \cup {NoOne}], sinks : SUBSET Outputs, vol : [Kinds -> Int],
     muted : [Kinds -> BOOLEAN], ctl : [Kinds -> BOOLEAN], inUse : BOOLEAN]

ConstantsOK ==
    /\ Outputs \cap Inputs = {} /\ {NoOne, "monitor"} \cap (Outputs \cup Inputs) = {}
    /\ Full \in Nat /\ Top \in Nat /\ Full <= Top
    /\ NoOne \notin Readings

-----------------------------------------------------------------------------
\* WINDOW: an echo nobody answered in time.
Expire ==
    /\ "late" \in Does /\ panel.echoes # <<>>
    /\ Become([Now EXCEPT !.panel.echoes = Tail(@), !.world.touched = @ \cup {"late"}])

-----------------------------------------------------------------------------
(* volume.rs                                                               *)

MaxPercent(allow) == IF allow THEN Top ELSE Full
Clamp(v, max) == IF v < max THEN v ELSE max

\* Above the ceiling louder does nothing and quieter snaps to it.
Step(v, delta, max) ==
    IF delta > 0 THEN (IF v >= max THEN {} ELSE {Clamp(v + delta, max)})
    ELSE IF v > max THEN {max} ELSE {IF v + delta > 0 THEN v + delta ELSE 0}

-----------------------------------------------------------------------------
(* The thread: what it has read, and what it says of it.                   *)

Nothing == [def |-> [k \in Kinds |-> NoOne], devs |-> <<>>, recording |-> FALSE]

\* State::sink and State::source
Default(seen, k) == seen.def[k] \in DOMAIN seen.devs

\* State::reading
Reading(seen) ==
    [def   |-> seen.def,
     sinks |-> DOMAIN seen.devs \cap Outputs,
     vol   |-> [k \in Kinds |-> IF Default(seen, k) THEN seen.devs[seen.def[k]].vol ELSE 0],
     muted |-> [k \in Kinds |-> Default(seen, k) /\ seen.devs[seen.def[k]].muted],
     ctl   |-> [k \in Kinds |-> Default(seen, k) /\ seen.def[k] \notin Fixed],
     inUse |-> seen.recording]

Publish(s) == [s EXCEPT !.wire.reports = Append(@, Reading(s.panel.seen))]

\* A dead connection takes what is written to it and does nothing.
Tell(s, messages) == IF s.wire.conn THEN [s EXCEPT !.wire.up = @ \o messages] ELSE s
Fetch(what) == [do |-> what, dev |-> NoOne, to |-> 0]

\* fetch_sinks, fetch_sources: one list, taken whole, the other left alone.
Listed(seen, k, devs) ==
    [seen EXCEPT !.devs = [d \in (DOMAIN @ \ Of(k)) \cup DOMAIN devs |->
                             IF d \in Of(k) THEN devs[d] ELSE @[d]]]
FetchSinks(s, m) == Publish([s EXCEPT !.panel.seen = Listed(@, "output", m.devs)])
FetchSources(s, m) == Publish([s EXCEPT !.panel.seen = Listed(@, "input", m.devs)])

\* fetch_recording: only clients of a source that was in the list count.
FetchRecording(s, m) ==
    Publish([s EXCEPT !.panel.seen.recording = m.dev \in DOMAIN s.panel.seen.devs \cap Inputs])

\* fetch_server: the names, and then everything they refer to.  (Without a
\* source the other two lists are empty whatever happens, and left out.)
FetchServer(s, m) ==
    Tell([s EXCEPT !.panel.seen.def = m.def],
         <<Fetch("sinks")>> \o IF Inputs = {} THEN <<>> ELSE <<Fetch("sources"), Fetch("recording")>>)

\* subscribe: an event refetches the list it concerns.
Subscribed(s, m) == Tell(s, <<Fetch(m.of)>>)

Heard ==
    /\ wire.down # <<>>
    /\ LET m == Head(wire.down)
           s == [Now EXCEPT !.wire.down = Tail(@)]
       IN  Become(CASE m.re = "server"    -> FetchServer(s, m)
                    [] m.re = "sinks"     -> FetchSinks(s, m)
                    [] m.re = "sources"   -> FetchSources(s, m)
                    [] m.re = "recording" -> FetchRecording(s, m)
                    [] m.re = "event"     -> Subscribed(s, m))

\* What the four setters share: the server is told, and the panel answered at
\* once from what was read.
Write(s, k, what, to) ==
    LET d == s.panel.seen.def[k]
        t == Tell(s, <<[do |-> what, dev |-> d, to |-> to]>>)
    IN  Publish(IF what = "vol" THEN [t EXCEPT !.panel.seen.devs[d].vol = to]
                ELSE [t EXCEPT !.panel.seen.devs[d].muted = to = 1])

\* A volume that is asked for while the default has none, or is not in the list yet, is let
\* fall; without a list no reading had one to set.
Drop(s) == IF DOMAIN s.panel.seen.devs = {} THEN s ELSE [s EXCEPT !.world.touched = @ \cup {"dropped"}]
SetSinkVolume(s, v) ==
    IF Default(s.panel.seen, "output") /\ s.panel.seen.def["output"] \notin Fixed
    THEN Write(s, "output", "vol", v) ELSE Drop(s)
SetSinkMuted(s, m) ==
    IF Default(s.panel.seen, "output") THEN Write(s, "output", "mute", m) ELSE s
SetSourceVolume(s, v) ==
    IF Default(s.panel.seen, "input") /\ s.panel.seen.def["input"] \notin Fixed
    THEN Write(s, "input", "vol", v) ELSE Drop(s)
SetSourceMuted(s, m) ==
    IF Default(s.panel.seen, "input") THEN Write(s, "input", "mute", m) ELSE s

\* What a toggle makes of what the thread last knew.
Flipped(s, k) == IF Default(s.panel.seen, k) /\ s.panel.seen.devs[s.panel.seen.def[k]].muted
                 THEN 0 ELSE 1

\* session, run: the server is gone; everything read from it is dropped, what
\* was asked stays in the queue.
Lose(s) == [s EXCEPT !.panel.thread = "connecting", !.panel.seen = Nothing,
                     !.wire.reports = Append(@, NoOne)]

\* serve
Serve(s, r) ==
    CASE r.do = "vol" /\ r.kind = "output"    -> SetSinkVolume(s, r.to)
      [] r.do = "vol" /\ r.kind = "input"     -> SetSourceVolume(s, r.to)
      [] r.do = "toggle" /\ r.kind = "output" -> SetSinkMuted(s, Flipped(s, "output"))
      [] r.do = "toggle" /\ r.kind = "input"  -> SetSourceMuted(s, Flipped(s, "input"))
      [] r.do = "default" -> Tell(s, <<[do |-> "default", dev |-> r.dev, to |-> 0]>>)
      [] r.do = "check"   -> IF s.wire.conn THEN s ELSE Lose(s)

ThreadTakes ==
    /\ panel.thread = "serving" /\ wire.requests # <<>>
    /\ Become(Serve([Now EXCEPT !.wire.requests = Tail(@)], Head(wire.requests)))

\* connected: subscribed first, then everything is read.
Connect ==
    /\ panel.thread = "connecting" /\ world.alive
    /\ Become([Now EXCEPT !.panel.thread = "serving", !.wire.conn = TRUE, !.wire.up = <<Fetch("server")>>])

-----------------------------------------------------------------------------
(* The task.                                                               *)

Unavailable(max) ==
    [available |-> FALSE, max |-> max, change |-> NoOne, def |-> [k \in Kinds |-> NoOne], sinks |-> {},
     vol |-> [k \in Kinds |-> 0], muted |-> [k \in Kinds |-> FALSE], ctl |-> [k \in Kinds |-> FALSE],
     inUse |-> FALSE]

\* change: every field that moved uses up its echo, mute is the one reported.
Change(echoes, old, new, k) ==
    LET mutes == old.muted[k] # new.muted[k]
        moves == old.vol[k] # new.vol[k]
        a == IF mutes THEN Attribute(echoes, <<"mute", k>>, IF new.muted[k] THEN 1 ELSE 0)
             ELSE [source |-> NoOne, echoes |-> echoes]
        b == IF moves THEN Attribute(a.echoes, <<"vol", k>>, new.vol[k])
             ELSE [source |-> NoOne, echoes |-> a.echoes]
    IN  [source |-> IF mutes THEN a.source ELSE b.source, echoes |-> b.echoes]

\* fold: the first reading of a connection carries no change.
Fold(s, reading) ==
    LET old == s.panel.state IN
    IF reading = NoOne THEN [s EXCEPT !.panel.echoes = <<>>, !.panel.state = Unavailable(old.max),
                                      !.panel.heard = TRUE]
    ELSE LET out == Change(s.panel.echoes, old, reading, "output")
             both == Change(out.echoes, old, reading, "input")
             moved == old.available /\ out.source # NoOne
             own == [available |-> TRUE, max |-> old.max, change |-> IF moved THEN out.source ELSE old.change]
         IN  [s EXCEPT !.panel.echoes = IF old.available THEN both.echoes ELSE @,
                       !.panel.state = [x \in DOMAIN own \cup DOMAIN reading |->
                                           IF x \in DOMAIN own THEN own[x] ELSE reading[x]],
                       !.panel.heard = @ /\ ~moved]

\* send_if_modified: a new serial is a modification.
Published(s, t) ==
    [t EXCEPT !.panel.due = @ \/ t.panel.state # s.panel.state \/ t.panel.heard # s.panel.heard]

TakeReport ==
    /\ wire.reports # <<>>
    /\ LET s == [Now EXCEPT !.wire.reports = Tail(@)]
       IN  Become(Published(s, Fold(s, Head(wire.reports))))

\* sink_target and source_target, require_sink and require_source
MaySet(state, k) == state.available /\ state.ctl[k]
MayMute(state, k) == state.available /\ state.def[k] # NoOne

Request(s, r) == [s EXCEPT !.wire.requests = Append(@, r)]
Ask(do, k, to, dev) == [do |-> do, kind |-> k, to |-> to, dev |-> dev]
Noted(s, field, value, c) == [s EXCEPT !.panel.echoes = Record(@, field, value, c.source)]

\* dispatch: refused, or checked against the state last published, its echo
\* recorded, and handed to the thread.
Dispatch(s, c) ==
    LET st == s.panel.state
        Target(v) == Request(Noted(s, <<"vol", c.kind>>, v, c), Ask("vol", c.kind, v, NoOne))
    IN  CASE c.do = "set" ->
               IF MaySet(st, c.kind) THEN Target(Clamp(c.to, st.max)) ELSE s
          [] c.do = "step" ->
               LET to == Step(st.vol[c.kind], c.to, st.max)
               IN  IF to # {} /\ MaySet(st, c.kind) THEN Target(Lowest(to)) ELSE s
          [] c.do = "toggle" ->
               IF MayMute(st, c.kind)
               THEN Request(Noted(s, <<"mute", c.kind>>, IF st.muted[c.kind] THEN 0 ELSE 1, c),
                            Ask("toggle", c.kind, 0, NoOne))
               ELSE s
          [] c.do = "default" ->
               IF st.available /\ c.dev \in st.sinks THEN Request(s, Ask("default", c.kind, 0, c.dev)) ELSE s

\* run: the ceiling is the task's own business.
SetCeiling(s, max) ==
    IF s.panel.state.max = max THEN s
    ELSE [s EXCEPT !.panel.state.max = max,
                   !.panel.state.vol = [k \in Kinds |-> Clamp(@[k], max)]]

TakeCommand ==
    \E c \in wire.sent :
        LET s == [Now EXCEPT !.wire.sent = @ \ {c}]
        IN  Become(Published(s, IF c.do = "ceiling" THEN SetCeiling(s, c.to) ELSE Dispatch(s, c)))

-----------------------------------------------------------------------------
(* The server.                                                             *)

Events(kinds) == [i \in DOMAIN kinds |-> [re |-> "event", of |-> kinds[i]]]
Say(s, messages) == IF s.wire.conn THEN [s EXCEPT !.wire.down = @ \o messages] ELSE s
ListOf(k) == IF k = "output" THEN "sinks" ELSE "sources"
Devices(w, k) == [d \in w.plugged \cap Of(k) |-> [vol |-> w.vol[d], muted |-> w.muted[d]]]

\* A value that does not move is not news.
Moved(s, d, vol, muted) ==
    LET w == s.world IN
    IF d \notin w.plugged \/ (w.vol[d] = vol /\ w.muted[d] = muted) THEN s
    ELSE Say([s EXCEPT !.world.vol[d] = vol, !.world.muted[d] = muted], Events(<<ListOf(KindOf(d))>>))

Answers(s, m) ==
    LET w == s.world IN
    CASE m.do = "server"    -> Say(s, <<[re |-> "server", def |-> w.def]>>)
      [] m.do = "sinks"     -> Say(s, <<[re |-> "sinks", devs |-> Devices(w, "output")]>>)
      [] m.do = "sources"   -> Say(s, <<[re |-> "sources", devs |-> Devices(w, "input")]>>)
      [] m.do = "recording" -> Say(s, <<[re |-> "recording", dev |-> w.recording]>>)
      [] m.do = "vol"       -> Moved(s, m.dev, m.to, w.muted[m.dev])
      [] m.do = "mute"      -> Moved(s, m.dev, w.vol[m.dev], m.to = 1)
      [] m.do = "default"   -> IF m.dev \notin w.plugged \/ w.def[KindOf(m.dev)] = m.dev THEN s
                               ELSE Say([s EXCEPT !.world.def[KindOf(m.dev)] = m.dev], Events(<<"server">>))

ServerTakes ==
    /\ wire.up # <<>>
    /\ Become(Answers([Now EXCEPT !.wire.up = Tail(@)], Head(wire.up)))

Spare(what) == what \in Does /\ world.moves < MaxMoves
Did(s, what) == [s EXCEPT !.world.moves = @ + 1, !.world.touched = @ \cup {what}]

\* Another mixer, or a headset's own buttons.
Outside ==
    \E d \in world.plugged, v \in 0 .. Top, what \in {"outside", "input"} :
        /\ Spare(what) /\ world.alive /\ (what = "input") = (d \in Inputs) /\ v # world.vol[d]
        /\ Become(Moved(Did(Now, what), d, v, world.muted[d]))

\* The default goes to another device with the one that was it.
Unplug ==
    \E d \in world.plugged :
        LET k == KindOf(d)
            rest == (world.plugged \ {d}) \cap Of(k)
            s == [Did(Now, "plug") EXCEPT !.world.plugged = @ \ {d},
                                          !.world.recording = IF @ = d THEN NoOne ELSE @]
            cut == Events((IF world.recording = d THEN <<"recording">> ELSE <<>>) \o <<ListOf(k)>>)
        IN  /\ Spare("plug") /\ world.alive
            /\ IF world.def[k] # d THEN Become(Say(s, cut))
               ELSE \E new \in (IF rest = {} THEN {NoOne} ELSE rest) :
                       Become(Say([s EXCEPT !.world.def[k] = new], cut \o Events(<<"server">>)))

Plug ==
    \E d \in (Outputs \cup Inputs) \ world.plugged :
        LET k == KindOf(d)
            s == [Did(Now, "plug") EXCEPT !.world.plugged = @ \cup {d}, !.world.def[k] = d]
        IN  Spare("plug") /\ world.alive /\ Become(Say(s, Events(<<ListOf(k), "server">>)))

\* A client starts to listen, to a microphone or to what is being played, or stops.
Records ==
    \E d \in (world.plugged \cap Inputs) \cup {"monitor", NoOne} :
        /\ Spare("record") /\ world.alive /\ d # world.recording
        /\ Become(Say([Did(Now, "record") EXCEPT !.world.recording = d], Events(<<"recording">>)))

\* The state callback queues a look behind whatever was asked before.
Dies ==
    /\ Spare("server") /\ world.alive
    /\ Become([Did(Now, "server") EXCEPT !.world.alive = FALSE, !.wire.conn = FALSE, !.wire.up = <<>>,
                  !.wire.down = <<>>,
                  !.wire.requests = IF wire.conn THEN Append(@, Ask("check", "output", 0, NoOne))
                                    ELSE @])
Returns == ~world.alive /\ Become([Now EXCEPT !.world.alive = TRUE])

-----------------------------------------------------------------------------
(* `topbar volume`: a connection of its own, and a word to the panel.      *)

\* connect and read, then step_volume or set_muted, then the frame.
CliReads ==
    /\ wire.cli = NoOne /\ "cli" \in Does /\ world.clicks < MaxClicks
    /\ world.alive /\ world.def["output"] # NoOne
    /\ \E delta \in {-1, 0, 1}, allow \in BOOLEAN :
          Become([Now EXCEPT !.world.clicks = @ + 1, !.world.touched = @ \cup {"cli"},
                     !.wire.cli = [dev |-> world.def["output"], vol |-> world.vol[world.def["output"]],
                                   muted |-> world.muted[world.def["output"]],
                                   delta |-> delta, max |-> MaxPercent(allow)]])

CliWrites ==
    /\ wire.cli # NoOne
    /\ LET c == wire.cli
           to == Step(c.vol, c.delta, c.max)
           s == [Now EXCEPT !.wire.cli = NoOne]
       IN  IF ~world.alive THEN Become(s)
           ELSE IF c.delta = 0 THEN Become([Moved(s, c.dev, world.vol[c.dev], ~c.muted) EXCEPT !.wire.frames = @ + 1])
           ELSE IF to = {} \/ c.dev \in Fixed THEN Become([s EXCEPT !.wire.frames = @ + 1])
           ELSE Become([Moved(s, c.dev, Lowest(to), world.muted[c.dev]) EXCEPT !.wire.frames = @ + 1])

\* control.rs: the frame raises the capsule by itself.
TakeFrame == wire.frames > 0 /\ Become([Now EXCEPT !.wire.frames = @ - 1, !.panel.raised = TRUE])

-----------------------------------------------------------------------------
(* The sliders, and the watcher that raises the capsule.                   *)

\* render_audio: written quietly, so it is not taken for the user's hand.
RenderAudio(s) ==
    LET st == s.panel.state
        Shown(k) == Clamp(st.vol[k], st.max)
    IN  [s EXCEPT !.panel.slider = [k \in Kinds |-> Shown(k)], !.panel.due = FALSE,
                  !.panel.micShown = st.inUse,
                  !.panel.chooser = @ /\ Cardinality(st.sinks) > 1]

\* Watcher::audio: once per change, and not for the panel's own.
Watch(s) ==
    [s EXCEPT !.panel.heard = TRUE,
              !.panel.raised = @ \/ (~s.panel.heard /\ ShowsOsd(s.panel.state.change))]

Draw == panel.due /\ Become(Watch(RenderAudio(Now)))

\* attempt: a task for each command, which may overtake one another.
Send(s, do, k, to, dev) ==
    [s EXCEPT !.wire.sent = @ \cup {[n |-> s.world.clicks, do |-> do, kind |-> k, to |-> to, dev |-> dev,
                                     source |-> "ui"]},
              !.world.clicks = @ + 1,
              !.world.touched = @ \cup {IF do = "ceiling" THEN do ELSE "ui"}]

Dragged(k) ==
    IF ~MaySet(panel.state, k) THEN {}
    ELSE {[Send(Now, "set", k, v, NoOne) EXCEPT !.panel.slider[k] = v, !.world.last[k] = v]
            : v \in (0 .. panel.state.max) \ {panel.slider[k]}}

\* toggle_chooser, and a row of rebuild_devices
Chosen ==
    IF ~panel.chooser THEN (IF Cardinality(panel.state.sinks) > 1 THEN {[Now EXCEPT !.panel.chooser = TRUE]} ELSE {})
    ELSE {Send(Now, "default", "output", 0, d) : d \in panel.state.sinks}

\* wire, the wheel over the button, and a reload of the ceiling
Click ==
    /\ world.clicks < MaxClicks
    /\ \E s \in (IF "drag" \in Does THEN Dragged("output") ELSE {})
                \cup (IF "mic" \in Does /\ panel.micShown
                      THEN Dragged("input") \cup {Send(Now, "toggle", "input", 0, NoOne)} ELSE {})
                \cup (IF "mute" \in Does /\ panel.state.available
                      THEN {Send(Now, "toggle", "output", 0, NoOne)} ELSE {})
                \cup (IF "step" \in Does THEN {Send(Now, "step", "output", d, NoOne) : d \in {-1, 1}} ELSE {})
                \cup (IF "choose" \in Does THEN Chosen ELSE {})
                \cup (IF "ceiling" \in Does
                      THEN {Send(Now, "ceiling", "output", MaxPercent(a), NoOne) : a \in BOOLEAN} ELSE {}) :
          Become(s)

-----------------------------------------------------------------------------

First(k) == IF Of(k) = {} THEN NoOne ELSE CHOOSE d \in Of(k) : TRUE

Init ==
    /\ panel = [state |-> Unavailable(Full), echoes |-> <<>>, heard |-> TRUE, due |-> FALSE,
                thread |-> "connecting", seen |-> Nothing, slider |-> [k \in Kinds |-> 0],
                micShown |-> FALSE, chooser |-> FALSE, raised |-> FALSE]
    /\ world = [alive |-> TRUE, plugged |-> Outputs \cup Inputs, def |-> [k \in Kinds |-> First(k)],
                vol |-> [d \in Outputs \cup Inputs |-> 1], muted |-> [d \in Outputs \cup Inputs |-> FALSE],
                recording |-> NoOne, touched |-> {}, last |-> [k \in Kinds |-> NoOne],
                moves |-> 0, clicks |-> 0]
    /\ wire = [sent |-> {}, reports |-> <<>>, requests |-> <<>>, up |-> <<>>, down |-> <<>>,
               cli |-> NoOne, frames |-> 0, conn |-> FALSE]

Turn == TakeCommand \/ TakeReport
Thread == ThreadTakes \/ Connect \/ Heard
Server == ServerTakes \/ Returns \/ CliWrites
Loop == Draw \/ TakeFrame

TurnDue == wire.sent # {} \/ wire.reports # <<>>
ThreadDue == \/ panel.thread = "serving" /\ wire.requests # <<>>
             \/ panel.thread = "connecting" /\ world.alive
             \/ wire.down # <<>>
ServerDue == wire.up # <<>> \/ ~world.alive \/ wire.cli # NoOne
LoopDue == panel.due \/ wire.frames > 0

Next ==
    \/ Turn \/ Thread \/ Server \/ Loop \/ Click \/ CliReads
    \/ Outside \/ Unplug \/ Plug \/ Records \/ Dies \/ Expire

Spec == Init /\ [][Next]_vars /\ WF_vars(Turn) /\ WF_vars(Thread) /\ WF_vars(Server) /\ WF_vars(Loop)

-----------------------------------------------------------------------------
(* Properties.                                                             *)

Rest == ~TurnDue /\ ~ThreadDue /\ ~ServerDue /\ ~LoopDue

\* With everything said and done the panel shows the server as it is, whatever lists, local
\* answers and events crossed on the way, and the sliders stand where the volume does unless
\* a volume asked for was let fall: SlidersFollow is of those.  Where a ceiling was set, it
\* goes for what no ceiling hides: CeilingIsPolicy is of the rest.
QuietIsCurrent ==
    Rest =>
        LET st == panel.state
            dev(k) == world.def[k]
            top == IF "ceiling" \in world.touched THEN Full ELSE st.max
        IN  /\ st.available /\ st.def = world.def /\ st.sinks = world.plugged \cap Outputs
            /\ st.inUse = (world.recording \in Inputs) /\ panel.micShown = st.inUse
            /\ \A k \in Kinds : dev(k) # NoOne =>
                  /\ Clamp(st.vol[k], top) = Clamp(world.vol[dev(k)], top)
                  /\ st.muted[k] = world.muted[dev(k)]
                  /\ "dropped" \notin world.touched => panel.slider[k] = Clamp(st.vol[k], st.max)

\* The sliders stand where the volume does, one that was let fall or not.
SlidersFollow ==
    Rest => \A k \in Kinds :
        world.def[k] # NoOne => panel.slider[k] = Clamp(panel.state.vol[k], panel.state.max)

\* A server that went away and came back is shown again.
Away == ~panel.state.available

\* "the OSD capsule off the screen while the user is dragging" (sliders.rs:20).
DragIsQuiet == world.touched \subseteq {"ui"} => ~panel.raised

\* "the first reading after a connection simply carries no change" (audio/task.rs:274).
LoginIsQuiet == world.touched \subseteq {"input", "record"} => ~panel.raised

\* The ceiling hides what is above it, and does no more.
CeilingIsPolicy ==
    Rest => \A k \in Kinds : world.def[k] # NoOne =>
        panel.slider[k] = Clamp(world.vol[world.def[k]], panel.state.max)

\* The last volume dragged to is the one that is set.
LastDragLands ==
    Rest /\ world.touched = {"ui"} => \A k \in Kinds :
        world.last[k] # NoOne => world.vol[world.def[k]] = world.last[k]
=============================================================================

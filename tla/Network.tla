------------------------------ MODULE Network ------------------------------
(***************************************************************************)
(* The network service: the task that follows NetworkManager, one attempt  *)
(* to join a network, the secret agent's delayed answers, and the password *)
(* box the attempt puts on screen.                                         *)
(*                                                                         *)
(* A handler of the task is a function on the whole state (a record of the *)
(* three variables), applied in the order of the Rust calls.  Everything   *)
(* NetworkManager does between two handlers is an action of its own, so    *)
(* signals queue up, questions cross answers, and a click is handled later *)
(* than it was made.  NetworkManager itself stays up and behaves like the  *)
(* repository's stand-in for it (network/fake.rs).                         *)
(***************************************************************************)
EXTENDS Integers, SequencesExt

CONSTANTS Networks, Saved, Vpns, NoOne,
          Unnamed,    \* networks whose SSID is not text: never in a row, and asked about without
          Does,       \* the kinds of command the user sends, whether NetworkManager may "refuse"
                      \* them, and of what moves unasked: the "air" with its cards and VPNs, the
                      \* "agent"'s questions
          MaxMoves,   \* what NetworkManager and the air do unasked
          MaxActs,    \* activations of a wireless profile
          MaxAsks,    \* questions put to the secret agent
          MaxClicks,  \* commands the user sends
          MaxSent     \* commands the task has yet to take

VARIABLES
    panel,   \* the task's World and the password box (task.rs, network.rs)
    world,   \* NetworkManager and the air
    wire     \* signals, questions, answers and the click in flight

vars == <<panel, world, wire>>
Now == [panel |-> panel, world |-> world, wire |-> wire]
Become(s) == \E t \in {s} : panel' = t.panel /\ world' = t.world /\ wire' = t.wire

By == {"user", "panel"}
Profiles == [net : Networks, by : By]
Facts == {"card", "radio", "heard", "loud", "on", "known", "actives"}

-----------------------------------------------------------------------------
(* What the panel is shown: the snapshot the task publishes when it moved. *)

Pending(p) ==
    CASE p.radioPending        -> <<"radio">>
      [] p.attempt # NoOne     -> <<"wifi", p.attempt.net>>
      [] p.vpnWait # NoOne     -> <<"vpn", p.vpnWait.of>>
      [] OTHER                 -> <<>>

VpnRows(p) == [v \in Vpns |->
    [up |-> \E a \in p.actives : a.of = v /\ a.up,
     pending |-> p.vpnWait # NoOne /\ p.vpnWait.of = v]]

Shown(p) ==
    [rows |-> IF p.card /\ p.radio
              THEN {<<n, n \in p.loud, n = p.on, \E k \in p.known : k.net = n,
                      p.attempt # NoOne /\ p.attempt.net = n>> : n \in p.heard}
              ELSE {},
     vpn |-> VpnRows(p), pending |-> Pending(p), prompt |-> p.prompt,
     scanning |-> p.scanning, enabled |-> p.radio]

\* publish: the box has something new to draw only if the snapshot moved.
Publish(s) ==
    CHOOSE r \in {[t EXCEPT !.panel.dirty = @ \/ Shown(t.panel) # t.panel.last,
                            !.panel.last = Shown(t.panel)] : t \in {s}} : TRUE

-----------------------------------------------------------------------------
(* Calls that reach NetworkManager.                                        *)

Signal(s, e) == [s EXCEPT !.wire.queue = Append(@, e)]
Event(kind) == [on |-> kind]
ActiveEvent(id, state, why) == [on |-> "active", id |-> id, state |-> state, why |-> why]

\* start_activation, after a profile was added or found.
Activate(s, profile, fresh) ==
    LET id == s.world.acts + 1
        a  == [s EXCEPT !.world.acts = id,
                        !.world.act = [id |-> id, profile |-> profile,
                                       stage |-> "trying"],
                        !.world.known = @ \cup {profile}]
        b  == IF fresh THEN Signal(a, Event("profiles")) ELSE a
    IN  Signal(b, Event("actives"))

\* SettingsConnection.Delete: an activation of the profile dies with it.
DeleteProfile(s, profile) ==
    LET a == Signal([s EXCEPT !.world.known = @ \ {profile}], Event("profiles"))
    IN  IF a.world.act # NoOne /\ a.world.act.profile = profile
        THEN Signal(Signal([a EXCEPT !.world.act = NoOne],
                           ActiveEvent(a.world.act.id, "down", "other")),
                    Event("actives"))
        ELSE a

\* The agent's delayed reply: sent, or dropped with its sender.
Reply(s, ask, answer) ==
    IF ask # 0 /\ s.wire.asks[ask].answer = "waiting"
    THEN [s EXCEPT !.wire.asks[ask].answer = answer]
    ELSE s

\* A reply with a password in it, on behalf of the attempt there is.  The password carries
\* nothing but itself: key says where it was typed (see Sent), which the code forgets.
ReplySecret(s, ask, key) ==
    IF ask # 0 /\ s.wire.asks[ask].answer = "waiting"
    THEN [Reply(s, ask, "secret") EXCEPT !.wire.asks[ask].key = key,
                                         !.wire.asks[ask].for = s.panel.attempt.net]
    ELSE s

DropPending(s) ==
    [Reply(s, s.panel.pending, "cancelled") EXCEPT !.panel.pending = 0]

-----------------------------------------------------------------------------
(* The reads: each takes what NetworkManager says now, whatever the signal *)
(* that caused it said.                                                    *)

ReadManager(s) == [s EXCEPT !.panel.radio = s.world.radio]

ReadAccessPoints(s) ==
    IF ~s.panel.card THEN s
    ELSE [s EXCEPT !.panel.heard = s.world.heard, !.panel.loud = s.world.loud,
                   !.panel.on = s.world.on, !.panel.scanning = FALSE]

ReadDevices(s) ==
    ReadAccessPoints([s EXCEPT !.panel.card = s.world.card, !.panel.heard = {},
                               !.panel.loud = {}, !.panel.on = NoOne])

ReadProfiles(s) == [s EXCEPT !.panel.known = s.world.known]

\* remember_vpn, called by every read of the list and every move in it.
RememberVpn(s) ==
    LET up == {a.of : a \in {b \in s.panel.actives : b.up}}
    IN  IF up = {} \/ s.panel.lastVpn \in up THEN s
        ELSE [s EXCEPT !.panel.lastVpn = CHOOSE v \in up : TRUE]

ReadActives(s) == RememberVpn([s EXCEPT !.panel.actives = s.world.actives])

ReadDevice(s) == IF s.panel.card THEN [s EXCEPT !.panel.on = s.world.on] ELSE s

ReadAccessPoint(s, net) ==
    IF net \in s.panel.heard /\ net \in s.world.heard
    THEN [s EXCEPT !.panel.loud = IF net \in s.world.loud THEN @ \cup {net}
                                                          ELSE @ \ {net}]
    ELSE s

Refreshed(s) == ReadActives(ReadProfiles(ReadDevices(ReadManager(s))))

-----------------------------------------------------------------------------
(* One attempt: Attempt::apply and World::step.                            *)

More(n) == IF n = 0 THEN 1 ELSE n
Again(n) == 2       \* attempt.max(1) + 1: only "more than one" is ever read

ClearPrompt(s) == [s EXCEPT !.panel.prompt = NoOne]

Ask(s, times) ==
    [s EXCEPT !.panel.attempt.asked = times,
              !.panel.prompt = [net |-> s.panel.attempt.net, asked |-> times]]

BinAdded(s) ==
    IF s.panel.attempt.added
    THEN DeleteProfile([s EXCEPT !.panel.attempt.added = FALSE],
                       [net |-> s.panel.attempt.net, by |-> "panel"])
    ELSE s

FinishAttempt(s) ==
    LET a == ClearPrompt([s EXCEPT !.panel.attempt = NoOne, !.panel.riding = 0])
    IN  [DropPending(a) EXCEPT !.panel.stash = NoOne]

Step(s, e) ==
    IF s.panel.attempt = NoOne THEN s
    ELSE Publish(
      CASE e.is = "asked" ->
             Ask(s, IF e.new THEN Again(s.panel.attempt.asked)
                             ELSE More(s.panel.attempt.asked))
        [] e.is = "submitted" -> s
        [] e.is \in {"cancelled", "timedout"} -> FinishAttempt(BinAdded(s))
        [] e.is = "moved" /\ e.state = "up" -> FinishAttempt(s)
        [] e.is = "moved" /\ e.state = "down" /\ e.why = "nosecrets" ->
             LET delete == s.panel.attempt.added
                 a == Ask(BinAdded(s), Again(s.panel.attempt.asked))
             IN  IF delete THEN [a EXCEPT !.panel.riding = 0] ELSE a
        [] e.is = "moved" /\ e.state = "down" -> FinishAttempt(BinAdded(s))
        [] OTHER -> s)

\* A mutant: whatever is asked during an attempt is taken to be the attempt's question.
SecretsRequested_AnyQuestion(s, ask) ==
    IF s.panel.attempt = NoOne THEN Reply(s, ask, "cancelled")
    ELSE IF s.panel.stash # NoOne
    THEN Step([ReplySecret(s, ask, s.panel.stash) EXCEPT !.panel.stash = NoOne],
              [is |-> "submitted"])
    ELSE Step([DropPending(s) EXCEPT !.panel.pending = ask],
              [is |-> "asked", new |-> s.wire.asks[ask].new])

\* The agent's question, or NetworkManager's cancel of one.  A question that names no
\* network is taken to be the attempt's.
SecretsRequested(s, ask) ==
    LET q == s.wire.asks[ask] IN
    IF s.panel.attempt = NoOne \/ q.profile.net \notin Unnamed \cup {s.panel.attempt.net}
    THEN Reply(s, ask, "cancelled")
    ELSE IF s.panel.stash # NoOne
    THEN Step([ReplySecret(s, ask, s.panel.stash) EXCEPT !.panel.stash = NoOne],
              [is |-> "submitted"])
    ELSE Step([DropPending(s) EXCEPT !.panel.pending = ask],
              [is |-> "asked", new |-> q.new])

AgentMessage(s, m) ==
    IF m.is = "secrets" THEN SecretsRequested(s, m.ask)
    ELSE IF s.panel.pending # 0 /\ s.wire.asks[s.panel.pending].profile = m.profile
    THEN Publish(ClearPrompt(DropPending(s)))
    ELSE s

-----------------------------------------------------------------------------
(* Signals, as the task takes them: the whole queue at once, re-reads      *)
(* collapsed, arrival order kept.                                          *)

\* A mutant: a re-read of the devices taken to be one of everything.
Coalesce_DevicesReadAll(q) ==
    LET devices == \E i \in DOMAIN q : q[i].on = "devices"
    IN  SelectSeq(q, LAMBDA e : e.on \in {"active", "devices"} \/ ~devices)

Coalesce(q) ==
    LET devices == \E i \in DOMAIN q : q[i].on = "devices"
        points  == devices \/ \E i \in DOMAIN q : q[i].on = "aps"
        Keep(i) == \/ q[i].on = "active"
                   \/ /\ \A j \in 1..(i-1) : q[j] # q[i]
                      /\ q[i].on \in {"aps", "device"} => ~devices
                      /\ q[i].on = "ap" => ~points
    IN  FoldLeftDomain(LAMBDA kept, i : IF Keep(i) THEN Append(kept, q[i]) ELSE kept,
                       <<>>, q)

VpnSettled(s, e) ==
    LET wait == s.panel.vpnWait
        mine == wait # NoOne /\ \E a \in s.panel.actives : a.id = e.id /\ a.of = wait.of
        done == \/ wait.up /\ e.state \in {"up", "down"}
                \/ ~wait.up /\ e.state = "down"
    IN  IF mine /\ done THEN [s EXCEPT !.panel.vpnWait = NoOne] ELSE s

ActiveChanged(s, e) ==
    LET listed == \E a \in s.panel.actives : a.id = e.id
        noted  == CASE listed ->
                         [s EXCEPT !.panel.actives =
                            {IF a.id = e.id THEN [a EXCEPT !.up = e.state = "up"] ELSE a : a \in @}]
                    [] ~listed /\ e.state \in {"coming", "up"} -> ReadActives(s)
                    [] OTHER -> s
        settled == VpnSettled(noted, e)
        stepped == IF settled.panel.riding = e.id /\ e.id # 0
                   THEN Step(settled, [is |-> "moved", state |-> e.state, why |-> e.why])
                   ELSE settled
        swept == IF e.state = "down"
                 THEN [stepped EXCEPT !.panel.actives = {a \in @ : a.id # e.id}]
                 ELSE stepped
    IN  RememberVpn(swept)

OnEvent(s, e) ==
    CASE e.on = "devices"  -> ReadDevices(s)
      [] e.on = "manager"  -> [ReadManager(s) EXCEPT !.panel.radioPending = FALSE]
      [] e.on = "profiles" -> ReadProfiles(s)
      [] e.on = "actives"  -> ReadActives(s)
      [] e.on = "aps"      -> ReadAccessPoints(s)
      [] e.on = "ap"       -> ReadAccessPoint(s, e.net)
      [] e.on = "device"   -> ReadDevice(s)
      [] e.on = "active"   -> ActiveChanged(s, e)
      [] e.on = "settled"  -> [s EXCEPT !.panel.scanning = FALSE]

-----------------------------------------------------------------------------
(* Commands.  ok says whether the call to NetworkManager was answered.     *)

InReach(s, net) == s.panel.card /\ net \in s.panel.heard
Accepted(s, net) == s.world.card /\ net \in s.world.heard

SetWifiEnabled(s, on, ok) ==
    LET a == Publish([s EXCEPT !.panel.radioPending = TRUE])
        b == [a EXCEPT !.world.radio = on]
    IN  CASE ~ok                    -> [a EXCEPT !.panel.radioPending = FALSE]
          [] ok /\ on # s.world.radio -> Signal(b, Event("manager"))
          [] OTHER                  -> b

StartConnect(s, net, ok) ==
    IF s.panel.attempt # NoOne \/ ~InReach(s, net) \/ ~Accepted(s, net) \/ ~ok THEN s
    ELSE LET mine  == {k \in s.panel.known : k.net = net}
             fresh == mine = {}
             used  == IF fresh THEN [net |-> net, by |-> "panel"]
                      ELSE CHOOSE k \in mine : TRUE
             a     == Activate(s, used, fresh)
         IN  IF ~fresh /\ used \notin s.world.known THEN s   \* UnknownObject
             ELSE [a EXCEPT !.panel.attempt = [net |-> net, added |-> fresh, asked |-> 0],
                            !.panel.riding = a.world.acts]

RestartAttempt(s, ok) ==
    LET net == s.panel.attempt.net
        a   == Activate(s, [net |-> net, by |-> "panel"], TRUE)
    IN  IF ~InReach(s, net) \/ ~Accepted(s, net) \/ ~ok THEN s
        ELSE [a EXCEPT !.panel.attempt.added = TRUE, !.panel.riding = a.world.acts]

\* The password goes to the attempt there is, whichever it was typed for, and waits in
\* the stash for the question if there is none yet.
SubmitSecret(s, key, ok) ==
    CASE s.panel.attempt = NoOne -> s
      [] s.panel.attempt # NoOne /\ s.panel.pending # 0 ->
           LET a == ReplySecret(s, s.panel.pending, key)
           IN  Step(ClearPrompt([a EXCEPT !.panel.pending = 0]), [is |-> "submitted"])
      [] OTHER -> RestartAttempt(ClearPrompt([s EXCEPT !.panel.stash = key]), ok)

Scan(s, ok) ==
    IF ~s.panel.radio \/ s.panel.scanned \/ ~s.panel.card THEN s
    ELSE [Publish([s EXCEPT !.panel.scanned = TRUE, !.panel.scanning = TRUE,
                            !.wire.backstop = TRUE]) EXCEPT !.panel.scanning = ok]

\* VPNs are activated as wireless profiles are, on the same count of paths.
RaiseVpn(s, of) ==
    Signal([s EXCEPT !.world.acts = @ + 1,
                     !.world.actives = @ \cup {[of |-> of, id |-> s.world.acts + 1, up |-> FALSE]}],
           Event("actives"))
FellVpn(s, a, why) ==
    Signal(Signal([s EXCEPT !.world.actives = @ \ {a}], ActiveEvent(a.id, "down", why)),
           Event("actives"))

SetVpn(s, of, up, ok) ==
    LET listed == {a \in s.panel.actives : a.of = of}
        wait == [s EXCEPT !.panel.vpnWait = [of |-> of, up |-> up]]
    IN  IF s.panel.vpnWait # NoOne \/ ~ok THEN s
        ELSE IF up THEN RaiseVpn(wait, of)
        ELSE LET gone == {a \in s.world.actives : \E l \in listed : l.id = a.id}
             IN  IF gone = {} THEN s
                 ELSE FellVpn(wait, CHOOSE a \in gone : TRUE, "user")

OnCommand(s, c, ok) ==
    Publish(CASE c.do = "connect"    -> StartConnect(s, c.net, ok)
              [] c.do = "submit"     -> SubmitSecret(s, c.key, ok)
              [] c.do = "cancel"     -> Step(DropPending(s), [is |-> "cancelled"])
              [] c.do = "radio"      -> SetWifiEnabled(s, c.on, ok)
              [] c.do = "scan"       -> Scan(s, ok)
              [] c.do = "vpn"        -> SetVpn(s, c.of, c.up, ok)
              [] c.do = "refresh"    -> Refreshed(s)
              [] c.do = "disconnect" ->
                   IF ~s.panel.card \/ s.world.on = NoOne \/ ~ok THEN s
                   ELSE Signal([s EXCEPT !.world.on = NoOne], Event("device")))

-----------------------------------------------------------------------------
(* The task's select loop.                                                 *)

TakeCommand ==
    /\ wire.sent # <<>>
    /\ \E ok \in IF "refuse" \in Does THEN BOOLEAN ELSE {TRUE} :
          Become(OnCommand([Now EXCEPT !.wire.sent = Tail(@)], Head(wire.sent), ok))

TakeEvents ==
    /\ wire.queue # <<>>
    /\ Become(Publish(FoldLeft(OnEvent, [Now EXCEPT !.wire.queue = <<>>],
                               Coalesce(wire.queue))))

TakeMessage ==
    /\ wire.messages # <<>>
    /\ Become(AgentMessage([Now EXCEPT !.wire.messages = Tail(@)], Head(wire.messages)))

PromptExpires ==
    /\ panel.prompt # NoOne
    /\ Become(Step(DropPending(Now), [is |-> "timedout"]))

\* The agent's own timeout, and the scan's.
Waiting(ask) == ask \in DOMAIN wire.asks /\ wire.asks[ask].answer = "waiting"
AgentGivesUp(ask) ==
    /\ Waiting(ask)
    /\ Become(Reply(Now, ask, "none"))

ScanSettles ==
    /\ wire.backstop
    /\ Become(Signal([Now EXCEPT !.wire.backstop = FALSE], Event("settled")))

ScanAgain == panel.scanned /\ ~wire.backstop /\ Become([Now EXCEPT !.panel.scanned = FALSE])

-----------------------------------------------------------------------------
(* The password box and the user.                                          *)

Draw ==
    /\ panel.dirty
    /\ LET b == panel.box
           p == panel.prompt
       IN  Become([Now EXCEPT !.panel.dirty = FALSE, !.panel.box =
               IF p = NoOne THEN [net |-> NoOne, typed |-> FALSE]
               ELSE [net |-> p.net,
                     typed |-> b.net = p.net /\ p.asked = 1 /\ b.typed]])

Type ==
    /\ panel.box.net # NoOne /\ ~panel.box.typed
    /\ Become([Now EXCEPT !.panel.box.typed = TRUE])

\* What the panel offers: a row that joins or leaves, the box's buttons, the
\* pill's radio and its expander's scan, and the switches of the VPN list.
RowClicks == [do : {"connect"}, net : Networks] \cup [do : {"disconnect"}]
BoxClicks ==
    (IF panel.box.typed THEN [do : {"submit"}] ELSE {})
    \cup (IF panel.box.net # NoOne THEN [do : {"cancel"}] ELSE {})
PillClicks ==
    [do : {"scan", "refresh"}]
    \cup (IF panel.last.pending = <<"radio">> THEN {}
          ELSE [do : {"radio"}, on : {~panel.last.enabled}])
VpnClicks == [do : {"vpn"}, of : Vpns, up : BOOLEAN]

\* A password is sent off with where it was typed, which only the properties look at: the
\* network the box was open for, and whether it is in time, that network's attempt being the
\* one under way and nothing sent before it that could start another.
Sent(c) ==
    IF c.do # "submit" THEN c
    ELSE c @@ [key |-> [net |-> panel.box.net,
                        inTime |-> /\ panel.attempt # NoOne /\ panel.attempt.net = panel.box.net
                                   /\ \A i \in DOMAIN wire.sent : wire.sent[i].do # "connect"]]

Click ==
    /\ Len(wire.sent) < MaxSent /\ world.clicks < MaxClicks
    /\ \E c \in RowClicks \cup BoxClicks \cup PillClicks \cup VpnClicks :
          /\ c.do \in Does
          /\ c.do \in {"connect", "submit"} => world.acts < MaxActs
          /\ Become([Now EXCEPT !.wire.sent = Append(@, Sent(c)), !.world.clicks = @ + 1,
                                !.panel.box.typed = IF c.do = "submit" THEN FALSE ELSE @])

-----------------------------------------------------------------------------
(* NetworkManager, after network/fake.rs.                                  *)

InUse == {world.on} \cup (IF world.act = NoOne THEN {} ELSE {world.act.profile.net})
Spare == "air" \in Does /\ Len(wire.queue) < 3 /\ world.moves < MaxMoves
Move(s, e) == Become(Signal([s EXCEPT !.world.moves = @ + 1], e))

AskAgent(s, profile, new) ==
    [s EXCEPT !.wire.asks = Append(@, [profile |-> profile, new |-> new, answer |-> "waiting",
                                       key |-> NoOne, for |-> NoOne]),
              !.wire.messages = Append(@, [is |-> "secrets", ask |-> Len(s.wire.asks) + 1])]

Comes(s) ==
    LET a == s.world.act IN
    Signal(Signal([s EXCEPT !.world.on = a.profile.net, !.world.act = NoOne],
                  ActiveEvent(a.id, "up", "none")), Event("device"))

Fails(s, why) ==
    Signal(Signal([s EXCEPT !.world.act = NoOne],
                  ActiveEvent(s.world.act.id, "down", why)), Event("actives"))

\* drive: an open network or a working key joins, anything else asks first.
Proceed ==
    /\ world.act # NoOne /\ world.act.stage = "trying"
    /\ \/ Become(Comes(Now))
       \/ Become(Fails(Now, "other"))
       \/ /\ Len(wire.asks) < MaxAsks
          /\ Become(AskAgent([Now EXCEPT !.world.act.stage = "asking"],
                             world.act.profile, FALSE))

LastAsk == wire.asks[Len(wire.asks)]

\* ask_for_secrets has its answer: right, wrong, or none at all.
Answered ==
    /\ world.act # NoOne /\ world.act.stage = "asking"
    /\ LastAsk.answer # "waiting"
    /\ \/ LastAsk.answer = "secret" /\ Become(Comes(Now))
       \/ Become(Fails(Now, "nosecrets"))
       \/ /\ LastAsk.answer = "secret" /\ Len(wire.asks) < MaxAsks
          /\ Become(AskAgent(Now, world.act.profile, TRUE))

\* The access point went quiet: NetworkManager withdraws its question.
Withdraws ==
    /\ world.act # NoOne /\ world.act.stage = "asking" /\ LastAsk.answer = "waiting"
    /\ "agent" \in Does /\ world.moves < MaxMoves
    /\ Become(Fails([Now EXCEPT !.world.moves = @ + 1,
                       !.wire.messages = Append(@, [is |-> "cancel",
                                                    profile |-> world.act.profile])],
                    "other"))

VpnRises ==
    \E a \in world.actives :
        /\ ~a.up
        /\ \/ Become(Signal([Now EXCEPT !.world.actives = (@ \ {a}) \cup {[a EXCEPT !.up = TRUE]}],
                            ActiveEvent(a.id, "up", "none")))
           \/ Become(FellVpn(Now, a, "other"))

\* Somebody else's VPN, radio switch, access points and cards.
Elsewhere ==
    /\ Spare
    /\ \/ \E v \in Vpns :
            IF \A a \in world.actives : a.of # v
            THEN Become(RaiseVpn([Now EXCEPT !.world.moves = @ + 1], v))
            ELSE \E a \in world.actives :
                   a.of = v /\ Become(FellVpn([Now EXCEPT !.world.moves = @ + 1], a, "other"))
       \/ Move([Now EXCEPT !.world.radio = ~@], Event("manager"))
       \/ \E n \in Networks :
            \/ n \notin world.heard /\ Move([Now EXCEPT !.world.heard = @ \cup {n}], Event("aps"))
            \/ /\ n \in world.heard /\ n \notin InUse
               /\ Move([Now EXCEPT !.world.heard = @ \ {n}, !.world.loud = @ \ {n}], Event("aps"))
            \/ /\ n \in world.heard
               /\ Move([Now EXCEPT !.world.loud = IF n \in @ THEN @ \ {n} ELSE @ \cup {n}],
                       [on |-> "ap", net |-> n])

Replug ==
    /\ Spare /\ Networks # {} /\ world.act = NoOne
    /\ Move([Now EXCEPT !.world.card = ~@, !.world.on = NoOne], Event("devices"))

\* A question nobody's attempt caused.
StrayAsk ==
    /\ "agent" \in Does /\ world.moves < MaxMoves
    /\ Len(wire.asks) < MaxAsks /\ world.act = NoOne
    /\ \E n \in Networks \cup Unnamed :
          Become(AskAgent([Now EXCEPT !.world.moves = @ + 1], [net |-> n, by |-> "user"], FALSE))

-----------------------------------------------------------------------------

Init ==
    LET p == [card |-> TRUE, radio |-> TRUE, heard |-> Networks, loud |-> {}, on |-> NoOne,
              known |-> [net : Saved, by : {"user"}], actives |-> {}, lastVpn |-> NoOne,
              attempt |-> NoOne, riding |-> 0, pending |-> 0, stash |-> NoOne,
              prompt |-> NoOne, radioPending |-> FALSE, vpnWait |-> NoOne,
              scanning |-> FALSE, scanned |-> FALSE,
              box |-> [net |-> NoOne, typed |-> FALSE], dirty |-> TRUE]
    IN  /\ panel = p @@ [last |-> Shown(p)]
        /\ world = [f \in Facts |-> p[f]] @@ [act |-> NoOne, acts |-> 0, moves |-> 0, clicks |-> 0]
        /\ wire = [queue |-> <<>>, messages |-> <<>>, asks |-> <<>>, sent |-> <<>>,
                   backstop |-> FALSE]

\* When each fair action is enabled, written out: what WF asks TLC to decide.
TurnDue == wire.sent # <<>> \/ wire.queue # <<>> \/ wire.messages # <<>>
ClockDue == panel.prompt # NoOne \/ wire.backstop \/ \E a \in DOMAIN wire.asks : Waiting(a)
ManagerDue ==
    \/ \E a \in world.actives : ~a.up
    \/ /\ world.act # NoOne
       /\ world.act.stage = "asking" => ~Waiting(Len(wire.asks))

Turn == TakeCommand \/ TakeEvents \/ TakeMessage
Clock == PromptExpires \/ ScanSettles \/ \E a \in DOMAIN wire.asks : AgentGivesUp(a)
Manager == Proceed \/ Answered \/ VpnRises

Next ==
    \/ Turn \/ Clock \/ Manager
    \/ Draw \/ Type \/ Click
    \/ ScanAgain \/ Withdraws \/ Elsewhere \/ Replug \/ StrayAsk

Spec == Init /\ [][Next]_vars /\ WF_vars(Turn) /\ WF_vars(Clock) /\ WF_vars(Manager)
-----------------------------------------------------------------------------
(* Properties.                                                             *)

\* With no signal on its way the task has every fact NetworkManager has: a re-read that
\* was collapsed into another, or that read past its own signal, loses nothing.
QuietIsCurrent ==
    wire.queue = <<>> =>
        /\ \A f \in {"radio", "card", "known", "actives"} : panel[f] = world[f]
        /\ world.card => \A f \in {"heard", "loud", "on"} : panel[f] = world[f]

\* A question that names its network is answered with a password only on behalf of that
\* network's attempt, and a password that is sent in time answers no question that names
\* another.  With the attempt goes everything kept for it: question, stash, prompt,
\* activation followed.
Named(a) == a.answer = "secret" /\ a.profile.net \notin Unnamed
SecretsStayHome ==
    /\ \A i \in DOMAIN wire.asks :
          LET a == wire.asks[i] IN
          Named(a) => /\ a.for = a.profile.net
                      /\ a.key.inTime => a.key.net = a.profile.net
    /\ panel.attempt = NoOne =>
          /\ panel.stash = NoOne /\ panel.pending = 0
          /\ panel.riding = 0 /\ panel.prompt = NoOne

\* A password answers only a question about the network its box was open for: not so of a
\* question that names none, nor of a password sent as one attempt gives way to another.
PasswordsStayHome ==
    \A i \in DOMAIN wire.asks :
        wire.asks[i].answer = "secret" => wire.asks[i].key.net = wire.asks[i].profile.net

\* A prompt and a question of the agent's come to an end: answered, cancelled, timed out.
Asking == panel.prompt # NoOne \/ \E a \in DOMAIN wire.asks : Waiting(a)

\* A password being typed stays in the box while its prompt stands (network.rs:18-25).
KeyKept ==
    panel.box.typed /\ panel'.box.net = panel.box.net /\ panel'.last.prompt = panel.last.prompt
        /\ wire'.sent = wire.sent
    => panel'.box.typed

\* An attempt comes to an end, and so do the waits for a VPN and for the radio.
AttemptUnderWay == panel.attempt # NoOne
VpnAwaited == panel.vpnWait # NoOne
RadioAwaited == panel.radioPending
=============================================================================

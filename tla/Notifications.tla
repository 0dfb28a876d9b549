---------------------------- MODULE Notifications ----------------------------
(***************************************************************************)
(* The notification daemon of topbar-services: one tokio task owns the     *)
(* whole state, takes commands off a queue one at a time, retires banners  *)
(* whose deadline has passed, and hands the history to the state store.    *)
(*                                                                         *)
(* Each method of the task is an operator here under its own name: it maps *)
(* the daemon to the daemon it leaves behind, so a method that calls       *)
(* another is the composition of the two.  The loops that await a signal   *)
(* per notification (a group clear, an eviction, an expiry) take one step  *)
(* per notification; the queue is not read before the loop is over.        *)
(*                                                                         *)
(* An operator named X_Something is X with one plausible bug, the mutant   *)
(* that shows which property notices it; nothing else uses it.             *)
(***************************************************************************)
EXTENDS Integers, Sequences, FiniteSets, SequencesExt

CONSTANTS
    Apps,           \* group keys: the applications that send notifications
    Panel,          \* the group key of the panel's own failure reports
    MaxToasts,      \* banners on screen at once (MAX_TOASTS)
    MaxHistory,     \* notifications the history keeps (MAX_HISTORY)
    MaxId,          \* u32::MAX, where ids wrap around
    DefaultTimeout, \* DEFAULT_TIMEOUT, in ticks
    Expires,        \* the expire_timeout arguments senders use, in ticks
    Persisted,      \* the documents an earlier run may have left in the store
    IdBound,        \* model bound: no id above this one is handed out
    UnseenBound     \* model bound: no arrival once this many are unseen

Ids == 1..MaxId
Senders == Apps \cup {Panel}
Reasons == {"expired", "dismissed", "requested", "undefined"}

(* What the state file keeps of one notification, and of the daemon. *)
Entry == [id : Ids, app : Senders, critical : BOOLEAN]
Document == [dnd : BOOLEAN, next : Ids, history : Seq(Entry)]

IdsOf(entries) == {entries[i].id : i \in DOMAIN entries}

ASSUME ConstantsAssumption ==
    /\ MaxToasts \in Nat \ {0}
    /\ MaxHistory \in Nat \ {0}
    /\ MaxId \in Nat \ {0}
    /\ IdBound \in 1..MaxId
    /\ UnseenBound \in Nat
    /\ DefaultTimeout \in Nat \ {0}
    /\ Expires \subseteq Int
    /\ Panel \notin Apps

ASSUME PersistedAssumption ==
    \A doc \in Persisted :
        /\ doc \in Document
        /\ \A i, j \in DOMAIN doc.history :
               doc.history[i].id = doc.history[j].id => i = j

VARIABLES
    daemon,     \* the task's state, see TypeOK
    loop        \* the rest of the `for` loop a handler is in, if any

vars == <<daemon, loop>>

-----------------------------------------------------------------------------
(* policy.rs: every rule the daemon applies, as a function. *)

Route(req, dnd) ==
    [toast   |-> req.internal \/ req.critical \/ ~dnd,
     history |-> ~req.transient /\ ~req.internal]

IsDiscarded(routing) == ~routing.toast /\ ~routing.history

ToastTimer_CriticalExpires(expire, critical) ==
    [expires |-> TRUE, running |-> TRUE,
     left |-> IF expire > 0 THEN expire ELSE DefaultTimeout]

(* A banner's timer: whether it expires at all, the ticks it has left, and *)
(* whether they are running out (a deadline is set) or held.               *)
ToastTimer(expire, critical) ==
    IF critical
    THEN [expires |-> FALSE, left |-> 0, running |-> FALSE]
    ELSE [expires |-> TRUE, running |-> TRUE,
          left |-> IF expire > 0 THEN expire ELSE DefaultTimeout]

IsPaused(timer) == timer.expires /\ ~timer.running

Admit_OffByOne(critical, incoming) ==
    [kind |-> IF Len(critical) <= MaxToasts THEN "room" ELSE "full", index |-> 0]

Admit_NeverReplaces(critical, incoming) ==
    [kind |-> IF Len(critical) < MaxToasts THEN "room" ELSE "full", index |-> 0]

(* Whether a banner fits on a stack of these urgencies, newest first, and  *)
(* the index of the one that has to go when it does not.                   *)
Admit(critical, incoming) ==
    LET ordinary == {i \in DOMAIN critical : ~critical[i]}
    IN CASE Len(critical) < MaxToasts ->
                [kind |-> "room", index |-> 0]
         [] Len(critical) >= MaxToasts /\ incoming /\ ordinary # {} ->
                [kind |-> "replace",
                 index |-> CHOOSE i \in ordinary : \A j \in ordinary : j <= i]
         [] OTHER ->
                [kind |-> "full", index |-> 0]

Overflow(history) == {history[i] : i \in {j \in DOMAIN history : j > MaxHistory}}

-----------------------------------------------------------------------------
(* Publishing, persistence and signals. *)

Smaller(m, n) == IF m <= n THEN m ELSE n
Larger(m, n) == IF m <= n THEN n ELSE m

(* The `internal` filter of persist() is left out: an internal report is   *)
(* never in the history (see OnlyLastingInHistory).                        *)
Persist(d) ==
    [d EXCEPT !.saved =
        [dnd     |-> d.dnd,
         next    |-> d.next,
         history |-> [i \in DOMAIN d.history |->
                        [id       |-> d.history[i],
                         app      |-> d.records[d.history[i]].app,
                         critical |-> d.records[d.history[i]].critical]]]]

EmitClosed_NotWhenEvicted(d, id, reason) ==
    IF d.connected /\ reason # "undefined"
    THEN [d EXCEPT !.signals = Append(@, [id |-> id, reason |-> reason])]
    ELSE d

EmitClosed(d, id, reason) ==
    IF d.connected
    THEN [d EXCEPT !.signals = Append(@, [id |-> id, reason |-> reason])]
    ELSE d

-----------------------------------------------------------------------------
(* Notifications out. *)

RemoveToast(d, id) ==
    [d EXCEPT !.toasts = RemoveFirst(@, id),
              !.timer = [x \in DOMAIN @ \ {id} |-> @[x]]]

UnseenAfterClose_Decrement(unseen, length) == unseen - 1

UnseenAfterClose(unseen, length) == Smaller(unseen, length)

Close(d, id, reason) ==
    IF id \notin DOMAIN d.records THEN d
    ELSE LET history == RemoveFirst(d.history, id)
             gone == [RemoveToast(d, id) EXCEPT
                         !.records = [x \in DOMAIN @ \ {id} |-> @[x]],
                         !.history = history,
                         !.unseen = UnseenAfterClose(@, Len(history))]
             told == EmitClosed(gone, id, reason)
         IN IF Contains(d.history, id) THEN Persist(told) ELSE told

DismissToast(d, id, reason) ==
    IF ~Contains(d.toasts, id) THEN d
    ELSE LET e == RemoveToast(d, id)
         IN IF Contains(e.history, id) THEN e ELSE Close(e, id, reason)

SetPaused(d, id, paused) ==
    IF ~Contains(d.toasts, id) THEN d
    ELSE [d EXCEPT !.timer[id].running = ~paused /\ d.timer[id].expires]

-----------------------------------------------------------------------------
(* Notifications in. *)

(* wrapping_add(1).max(1) on a u32 *)
TakeId(d) == [d EXCEPT !.next = IF @ = MaxId THEN 1 ELSE @ + 1]

Raise(d, id, timer) ==
    [d EXCEPT !.toasts = <<id>> \o @,
              !.timer = [x \in DOMAIN @ \cup {id} |-> IF x = id THEN timer ELSE @[x]]]

ShowToast(d, id, critical, timer) ==
    LET place == Admit([i \in DOMAIN d.toasts |-> d.records[d.toasts[i]].critical],
                       critical)
    IN CASE Contains(d.toasts, id) -> [d EXCEPT !.timer[id] = timer]
         [] ~Contains(d.toasts, id) /\ place.kind = "room" -> Raise(d, id, timer)
         [] ~Contains(d.toasts, id) /\ place.kind = "replace" ->
                Raise(DismissToast(d, d.toasts[place.index], "undefined"), id, timer)
         [] ~Contains(d.toasts, id) /\ place.kind = "full" -> d

Replacing(d, req) == req.replaces # 0 /\ req.replaces \in DOMAIN d.records

(* The id a notification is known by: the one it replaces or a new one. *)
IdFor(d, req) == IF Replacing(d, req) THEN req.replaces ELSE d.next

Insert(d, id, record) ==
    [d EXCEPT !.records = [x \in DOMAIN @ \cup {id} |-> IF x = id THEN record ELSE @[x]]]

File_Duplicates(d, id, lasting) ==
    IF lasting THEN [d EXCEPT !.history = <<id>> \o @, !.unseen = @ + 1]
    ELSE [d EXCEPT !.history = RemoveFirst(@, id)]

File_LeavesOldEntry(d, id, lasting) ==
    IF lasting /\ ~Contains(d.history, id)
    THEN [d EXCEPT !.history = <<id>> \o @, !.unseen = @ + 1]
    ELSE d

File(d, id, lasting) ==
    CASE lasting /\ ~Contains(d.history, id) ->
            [d EXCEPT !.history = <<id>> \o @, !.unseen = @ + 1]
      [] ~lasting /\ Contains(d.history, id) ->
            [d EXCEPT !.history = RemoveFirst(@, id)]
      [] OTHER -> d

(* notify() as far as the eviction of the history's overflow. *)
Deliver(d, req) ==
    LET id == IdFor(d, req)
        routing == Route(req, d.dnd)
        taken == IF Replacing(d, req) THEN d ELSE TakeId(d)
        known == Insert(taken, id, [app |-> req.app, critical |-> req.critical,
                                    transient |-> req.transient,
                                    internal |-> req.internal])
        filed == File(known, id, routing.history)
        shown == IF routing.toast
                 THEN ShowToast(filed, id, req.critical,
                                ToastTimer(req.expire, req.critical))
                 ELSE RemoveToast(filed, id)
    IN IF IsDiscarded(routing) THEN Close(shown, id, "undefined") ELSE shown

-----------------------------------------------------------------------------
(* The task. *)

Idle == loop.ids = {}

NoLoop == [op |-> "close", ids |-> {}, reason |-> "dismissed"]

(* A handler starts with nothing emitted and nobody answered yet. *)
Quiet == [daemon EXCEPT !.signals = << >>, !.reply = 0]

FirstId_StartsOver(next, highest) == 1

FirstId(next, highest) == Larger(Larger(next, Smaller(highest + 1, MaxId)), 1)

Restore(doc) ==
    LET kept == SubSeq(doc.history, 1, Smaller(Len(doc.history), MaxHistory))
        ids == IdsOf(kept)
        highest == IF ids = {} THEN 0 ELSE CHOOSE m \in ids : \A n \in ids : n <= m
    IN [connected |-> FALSE,
        dnd       |-> doc.dnd,
        next      |-> FirstId(doc.next, highest),
        history   |-> [i \in DOMAIN kept |-> kept[i].id],
        toasts    |-> << >>,
        timer     |-> [x \in {} |-> 0],
        records   |-> [x \in ids |->
                         LET e == CHOOSE e \in Range(kept) : e.id = x
                         IN [app |-> e.app, critical |-> e.critical,
                             transient |-> FALSE, internal |-> FALSE]],
        unseen    |-> 0,
        saved     |-> doc,
        signals   |-> << >>,
        reply     |-> 0]

Init ==
    /\ \E doc \in Persisted : daemon = Restore(doc)
    /\ loop = NoLoop

Requests ==
    [replaces : 0..IdBound, app : Apps, critical : BOOLEAN, transient : BOOLEAN,
     internal : {FALSE}, expire : Expires]

(* NotificationsHandle::report: the panel's own failure reports. *)
Report == [replaces |-> 0, app |-> Panel, critical |-> FALSE, transient |-> TRUE,
           internal |-> TRUE, expire |-> -1]

(* Once the overflow is closed notify() persists what the last close has   *)
(* already persisted, so only a delivery that evicts nothing does it here. *)
Notify(req) ==
    /\ Idle
    /\ IdFor(daemon, req) <= IdBound
    /\ daemon.unseen < UnseenBound
    /\ LET delivered == [Deliver(Quiet, req) EXCEPT !.reply = IdFor(daemon, req)]
           routing == Route(req, daemon.dnd)
           evicted == Overflow(delivered.history)
       IN IF evicted # {} /\ ~IsDiscarded(routing)
          THEN /\ daemon' = delivered
               /\ loop' = [op |-> "close", ids |-> evicted, reason |-> "undefined"]
          ELSE /\ daemon' = IF routing.history THEN Persist(delivered) ELSE delivered
               /\ UNCHANGED loop

(* CloseNotification from the bus, or the close button of a history row. *)
CloseOne(id, reason) ==
    /\ Idle
    /\ daemon' = Close(Quiet, id, reason)
    /\ UNCHANGED loop

DismissOne(id) ==
    /\ Idle
    /\ daemon' = DismissToast(Quiet, id, "dismissed")
    /\ UNCHANGED loop

ClearGroup(app) ==
    /\ Idle
    /\ daemon' = Quiet
    /\ loop' = [op |-> "close", reason |-> "dismissed",
                ids |-> {id \in Range(daemon.history) : daemon.records[id].app = app}]

ClearAll ==
    /\ Idle
    /\ daemon' = Quiet
    /\ loop' = [op |-> "close", reason |-> "dismissed", ids |-> Range(daemon.history)]

SetDnd_NotSaved(dnd) ==
    /\ Idle
    /\ daemon' = [Quiet EXCEPT !.dnd = dnd]
    /\ UNCHANGED loop

SetDnd(dnd) ==
    /\ Idle
    /\ daemon' = IF daemon.dnd = dnd THEN Quiet ELSE Persist([Quiet EXCEPT !.dnd = dnd])
    /\ UNCHANGED loop

MarkSeen ==
    /\ Idle
    /\ daemon' = [Quiet EXCEPT !.unseen = 0]
    /\ UNCHANGED loop

PauseToast(id) ==
    /\ Idle
    /\ daemon' = SetPaused(Quiet, id, TRUE)
    /\ UNCHANGED loop

ResumeToast(id) ==
    /\ Idle
    /\ daemon' = SetPaused(Quiet, id, FALSE)
    /\ UNCHANGED loop

(* An id the daemon no longer knows is answered with an error. *)
InvokeAction(id) ==
    /\ Idle
    /\ daemon' = Close(Quiet, id, "dismissed")
    /\ UNCHANGED loop

(* The bus name is ours.  Losing it again only clears a flag of the snapshot *)
(* that nothing here reads; the connection stays.                           *)
Enabled ==
    /\ Idle
    /\ daemon' = [Quiet EXCEPT !.connected = TRUE]
    /\ UNCHANGED loop

Due_Held ==
    {id \in Range(daemon.toasts) : daemon.timer[id].expires /\ daemon.timer[id].left = 0}

Due_OnlyNewest ==
    {id \in Range(daemon.toasts) : /\ id = daemon.toasts[1]
                                   /\ daemon.timer[id].running
                                   /\ daemon.timer[id].left = 0}

Due == {id \in Range(daemon.toasts) : daemon.timer[id].running /\ daemon.timer[id].left = 0}

(* The earliest deadline has passed: every banner that is due goes. *)
ExpireDue ==
    /\ Idle
    /\ Due # {}
    /\ daemon' = Quiet
    /\ loop' = [op |-> "dismiss", ids |-> Due, reason |-> "expired"]

(* One turn of a loop; the order among its ids is left open. *)
LoopStep(id) ==
    /\ id \in loop.ids
    /\ daemon' = IF loop.op = "close"
                 THEN Close(Quiet, id, loop.reason)
                 ELSE DismissToast(Quiet, id, loop.reason)
    /\ loop' = IF loop.ids = {id} THEN NoLoop ELSE [loop EXCEPT !.ids = @ \ {id}]

RunDown(timer) ==
    IF timer.running /\ timer.left > 0 THEN [timer EXCEPT !.left = @ - 1] ELSE timer

(* Time passes for every banner whose deadline is set. *)
Tick ==
    /\ \E id \in Range(daemon.toasts) : daemon.timer[id].running /\ daemon.timer[id].left > 0
    /\ daemon' = [Quiet EXCEPT !.timer = [id \in DOMAIN @ |-> RunDown(@[id])]]
    /\ UNCHANGED loop

Step ==
    \/ \E req \in Requests : Notify(req)
    \/ Notify(Report)
    \/ \E id \in 1..IdBound, reason \in {"dismissed", "requested"} : CloseOne(id, reason)
    \/ \E id \in 1..IdBound : DismissOne(id)
    \/ \E app \in Senders : ClearGroup(app)
    \/ ClearAll
    \/ \E dnd \in BOOLEAN : SetDnd(dnd)
    \/ MarkSeen
    \/ \E id \in 1..IdBound : PauseToast(id)
    \/ \E id \in 1..IdBound : ResumeToast(id)
    \/ \E id \in 1..IdBound : InvokeAction(id)
    \/ Enabled
    \/ ExpireDue
    \/ \E id \in Ids : LoopStep(id)

Next == Step \/ Tick

Spec == Init /\ [][Next]_vars

(* The task is a tokio select over the queue and the earliest deadline, so  *)
(* it neither stops in the middle of a loop nor starves the timer; nobody   *)
(* is obliged to send it anything.                                          *)
Fairness ==
    /\ WF_vars(Tick)
    /\ WF_vars(ExpireDue)
    /\ WF_vars(\E id \in Ids : LoopStep(id))

FairSpec == Spec /\ Fairness

-----------------------------------------------------------------------------
(* What must hold. *)

Record == [app : Senders, critical : BOOLEAN, transient : BOOLEAN, internal : BOOLEAN]
Timer == [expires : BOOLEAN, left : Nat, running : BOOLEAN]
Signal == [id : Ids, reason : Reasons]

Typed(d) ==
    /\ DOMAIN d = {"connected", "dnd", "next", "history", "toasts", "timer",
                   "records", "unseen", "saved", "signals", "reply"}
    /\ d.connected \in BOOLEAN
    /\ d.dnd \in BOOLEAN
    /\ d.next \in Ids
    /\ d.history \in Seq(Ids)
    /\ d.toasts \in Seq(Ids)
    /\ DOMAIN d.timer \subseteq Ids
    /\ \A id \in DOMAIN d.timer : d.timer[id] \in Timer
    /\ DOMAIN d.records \subseteq Ids
    /\ \A id \in DOMAIN d.records : d.records[id] \in Record
    /\ d.unseen \in Nat
    /\ d.saved \in Document
    /\ d.signals \in Seq(Signal)
    /\ d.reply \in Ids \cup {0}

\* Every part of the daemon has its type; the count of unseen entries is never
\* below zero though closing clamps it and replacing does not touch it.
TypeOK ==
    /\ Typed(daemon)
    /\ loop \in [op : {"close", "dismiss"}, ids : SUBSET Ids, reason : Reasons]

\* The history and the stack only name notifications the daemon still knows,
\* each of them once, and exactly the banners on screen have a timer: what the
\* two lists, the record map and the timers say of an id never falls apart,
\* whatever mixture of replacing, closing, expiring and evicting it went through.
Coherent(d) ==
    /\ Range(d.history) \subseteq DOMAIN d.records
    /\ Range(d.toasts) \subseteq DOMAIN d.records
    /\ IsInjective(d.history)
    /\ IsInjective(d.toasts)
    /\ DOMAIN d.timer = Range(d.toasts)

Consistent == Coherent(daemon)

\* A notification is in the history exactly if its latest delivery was neither
\* transient nor the panel's own report, until it is closed: losing its banner
\* (expiry, Do Not Disturb, a critical newcomer) never loses it.
Filed(d) ==
    \A id \in DOMAIN d.records :
        id \in Range(d.history) <=> ~d.records[id].transient /\ ~d.records[id].internal

OnlyLastingInHistory == Filed(daemon)

\* Between commands neither list is over its cap; the stack never is.
WithinCaps ==
    /\ Len(daemon.toasts) <= MaxToasts
    /\ Idle => Len(daemon.history) <= MaxHistory

\* "Critical notifications never expire": also after one replaced an ordinary
\* notification whose timer was running or held, and after pausing and resuming.
Timed(d) == \A id \in DOMAIN d.timer : d.records[id].critical <=> ~d.timer[id].expires

CriticalNeverTimed == Timed(daemon)

\* Between commands the document last handed to the state store holds the Do Not
\* Disturb flag and every history entry as it was last delivered, in their order
\* and among the first MaxHistory, which are those a restart keeps: it forgets
\* nothing the user could still see.  The document may hold more than the history.
SavedAt(k, id) ==
    /\ k <= MaxHistory
    /\ daemon.saved.history[k] =
          [id |-> id, app |-> daemon.records[id].app, critical |-> daemon.records[id].critical]

HistoryIsSaved ==
    LET history == daemon.history
        places == DOMAIN daemon.saved.history
    IN Idle =>
        /\ daemon.saved.dnd = daemon.dnd
        /\ \A i \in DOMAIN history : \E k \in places : SavedAt(k, history[i])
        /\ \A i, j \in DOMAIN history : i < j =>
              \E k, l \in places : k < l /\ SavedAt(k, history[i]) /\ SavedAt(l, history[j])

\* With a bus, a sender hears of the end of its notification exactly once, in the
\* very step that forgets it, and never of a notification that lives on.
Forgotten == DOMAIN daemon.records \ DOMAIN daemon'.records

SendersAreTold ==
    [][ /\ \A i \in DOMAIN daemon'.signals :
              daemon'.signals[i].id \notin DOMAIN daemon'.records
        /\ \A i, j \in DOMAIN daemon'.signals :
              daemon'.signals[i].id = daemon'.signals[j].id => i = j
        /\ daemon.connected =>
              \A id \in Forgotten :
                 \E i \in DOMAIN daemon'.signals : daemon'.signals[i].id = id ]_vars

\* "Critical always toasts": whatever is on screen and whatever Do Not Disturb
\* says, an arriving critical notification has a banner unless the whole stack
\* is critical, and to make room it takes away no critical one.
CriticalIsShown ==
    [][ LET id == daemon'.reply
            critical == {x \in Range(daemon.toasts) : daemon.records[x].critical}
        IN id # 0 /\ id \in DOMAIN daemon'.records /\ daemon'.records[id].critical =>
              /\ critical \subseteq Range(daemon'.toasts)
              /\ \/ id \in Range(daemon'.toasts)
                 \/ Cardinality(critical) = MaxToasts ]_vars

\* A banner that is held is not taken away by time, whatever else expires or closes
\* in the same pass.
HeldBannersStay ==
    [][ loop.op = "dismiss" =>
            \A id \in DOMAIN daemon.timer :
                IsPaused(daemon.timer[id]) => id \in DOMAIN daemon'.timer ]_vars

\* A banner whose timer runs on goes away, unless its sender keeps delivering:
\* pausing other banners, pushing out others or a stream of commands never
\* leaves it on screen for good.
Running(id) == id \in Range(daemon.toasts) /\ daemon.timer[id].running

EveryBannerEnds ==
    \A id \in 1..IdBound :
        <>[]Running(id) => []<><<daemon'.reply = id>>_vars

-----------------------------------------------------------------------------
(* What the source says and the code does not keep. *)

\* task.rs on `records`: "Every notification in the history or on screen."
KnownIsShown ==
    DOMAIN daemon.records \subseteq Range(daemon.history) \cup Range(daemon.toasts)

\* task.rs on `unseen`: "History entries that have arrived since the panel was
\* last opened"; there cannot be more of them than history entries.
UnseenWithinHistory == daemon.unseen <= Len(daemon.history)

\* policy.rs, its test of `admit`: "nothing critical is taken off screen behind
\* the user's back".
CriticalStaysOnScreen ==
    [][ \A id \in DOMAIN daemon.timer \ DOMAIN daemon'.timer :
            daemon.records[id].critical =>
                /\ daemon'.reply \in {0, id}
                /\ Idle \/ loop.reason = "dismissed" ]_vars

-----------------------------------------------------------------------------
(* Bounds.                                                                 *)

EmptyDocument == [dnd |-> FALSE, next |-> 1, history |-> << >>]

\* A first run; and that or one whose predecessor left Do Not Disturb on and an entry behind.
FirstRun == {EmptyDocument}
LaterRun ==
    {EmptyDocument,
     [dnd |-> TRUE, next |-> 1,
      history |-> <<[id |-> 1, app |-> CHOOSE a \in Apps : TRUE, critical |-> FALSE]>>]}

=============================================================================

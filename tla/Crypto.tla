-------------------------------- MODULE Crypto --------------------------------
(***************************************************************************)
(* The owner of the price cache (topbar-services/src/crypto/task.rs) and   *)
(* the settings view that edits its entry list                             *)
(* (topbar/src/widgets/crypto/settings.rs).                                *)
(*                                                                         *)
(* The view sends whole lists, computed from the last snapshot it drew,    *)
(* each on a task of its own.  A list is the set of entries drawn; their   *)
(* order on the bar is left out.                                           *)
(***************************************************************************)
EXTENDS Common

CONSTANTS
    Assets,      \* what may be priced
    Intervals,   \* refresh intervals, in seconds
    None,
    ChangeBound  \* bounds clicks, reloads, network changes and restarts

ConstantsOK == Intervals \subseteq Nat \ {0} /\ None \notin Assets

VARIABLES
    interval, entries, chosen,   \* the task's settings
    seed,                        \* the entries [widgets.crypto] names, resolved
    saved,                       \* the list in the state file, None if never saved
    quotes,                      \* prices have arrived
    phase,
    due, request, deferred,      \* scheduled, in flight, owed
    net, online,                 \* connectivity, and what the task heard of it
    backoff,
    view,                        \* the list the settings view last drew
    sent,                        \* how many messages with each list are on their way
    wanted,                      \* what all the clicks since the start add up to
    changes

schedule == <<due, request, deferred>>
cache == <<quotes, phase, backoff>>
settings == <<interval, entries, chosen, seed, saved>>
panel == <<view, sent, wanted>>
vars == <<settings, cache, schedule, net, online, panel, changes>>

\* What a new process starts from: the saved list, or else the file's.
Resolve(list, file) == IF list # None THEN list ELSE file

Fresh(on) ==
    /\ quotes' = FALSE /\ phase' = "Loading" /\ backoff' = 0
    /\ due' = TRUE /\ request' = FALSE /\ deferred' = FALSE
    /\ online' = on

NoMessage == [list \in SUBSET Assets |-> 0]

Init ==
    /\ interval \in Intervals
    /\ seed \in SUBSET Assets \ {{}}
    /\ saved \in {None} \cup SUBSET Assets
    /\ entries = Resolve(saved, seed)
    /\ chosen = (saved # None)
    /\ quotes = FALSE /\ phase = "Loading" /\ backoff = 0
    /\ due = TRUE /\ request = FALSE /\ deferred = FALSE
    /\ net \in BOOLEAN /\ online = net
    /\ view = entries /\ sent = NoMessage /\ wanted = entries
    /\ changes = 0

Bounded == changes < ChangeBound /\ changes' = changes + 1

-----------------------------------------------------------------------------
(* The fetch cycle.                                                        *)

Fetch(on) ==
    /\ due' = FALSE
    /\ IF ~on THEN deferred' = TRUE /\ UNCHANGED request
       ELSE IF request THEN UNCHANGED <<request, deferred>>
       ELSE deferred' = FALSE /\ request' = TRUE

Due == due /\ Fetch(online) /\ UNCHANGED <<settings, cache, net, online, panel, changes>>

RefreshNow == Bounded /\ Fetch(online) /\ UNCHANGED <<settings, cache, net, online, panel>>

SettleGood ==
    /\ request
    /\ request' = FALSE
    /\ quotes' = TRUE
    /\ phase' = "Ready"
    /\ backoff' = Succeeded
    /\ due' = TRUE
    /\ UNCHANGED <<settings, deferred, net, online, panel, changes>>

SettleBad ==
    /\ request
    /\ request' = FALSE
    /\ phase' = IF quotes THEN "Stale" ELSE "Unavailable"
    /\ backoff' = Failed(interval, backoff)
    /\ due' = TRUE
    /\ UNCHANGED <<settings, quotes, deferred, net, online, panel, changes>>

NetChanges == Bounded /\ net' = ~net /\ UNCHANGED <<settings, cache, schedule, online, panel>>

SetOnline ==
    /\ online # net
    /\ online' = net
    /\ IF net /\ deferred THEN Fetch(net) ELSE UNCHANGED schedule
    /\ UNCHANGED <<settings, cache, net, panel, changes>>

-----------------------------------------------------------------------------
(* The entry list.                                                         *)

\* Mutant: drawn but not written down.
SetEntries_NotSaved(list) ==
    /\ sent[list] > 0
    /\ sent' = [sent EXCEPT ![list] = @ - 1]
    /\ chosen' = TRUE
    /\ entries' = list
    /\ UNCHANGED <<interval, seed, saved, cache, schedule, net, online, view, wanted, changes>>

SetEntries(list) ==
    /\ sent[list] > 0
    /\ sent' = [sent EXCEPT ![list] = @ - 1]
    /\ chosen' = TRUE
    /\ entries' = list
    /\ saved' = IF list = entries THEN saved ELSE list
    /\ UNCHANGED <<interval, seed, cache, schedule, net, online, view, wanted, changes>>

Configure(i, list) ==
    /\ Bounded
    /\ <<i, list>> # <<interval, seed>>
    /\ seed' = list /\ interval' = i
    /\ entries' = IF chosen THEN entries ELSE list
    /\ backoff' = IF i = interval THEN backoff ELSE 0
    /\ IF i = interval THEN UNCHANGED schedule
       ELSE IF quotes THEN due' = TRUE /\ UNCHANGED <<request, deferred>>
       ELSE Fetch(online)
    /\ UNCHANGED <<chosen, saved, quotes, phase, net, online, panel>>

\* A switch: the new list is the drawn one with one entry turned over.
Flip(list, asset) == IF asset \in list THEN list \ {asset} ELSE list \cup {asset}

Click(asset) ==
    /\ Bounded
    /\ sent' = [sent EXCEPT ![Flip(view, asset)] = @ + 1]
    /\ wanted' = Flip(wanted, asset)
    /\ UNCHANGED <<settings, cache, schedule, net, online, view>>

Render ==
    /\ view # entries
    /\ view' = entries
    /\ UNCHANGED <<settings, cache, schedule, net, online, sent, wanted, changes>>

\* The process ends and another starts: only the state file is kept.
Restart ==
    /\ Bounded
    /\ entries' = Resolve(saved, seed)
    /\ chosen' = (saved # None)
    /\ Fresh(net)
    /\ view' = entries' /\ wanted' = entries' /\ sent' = NoMessage
    /\ UNCHANGED <<interval, seed, saved, net>>

Next ==
    \/ Due \/ RefreshNow \/ SettleGood \/ SettleBad
    \/ NetChanges \/ SetOnline
    \/ \E list \in SUBSET Assets : SetEntries(list)
    \/ \E i \in Intervals, list \in SUBSET Assets \ {{}} : Configure(i, list)
    \/ \E asset \in Assets : Click(asset)
    \/ Render \/ Restart

Spec == Init /\ [][Next]_vars

-----------------------------------------------------------------------------
(* Properties.                                                             *)

\* Every variable has its type.
TypeOK ==
    /\ interval \in Intervals
    /\ {entries, seed, view, wanted} \subseteq SUBSET Assets /\ sent \in [SUBSET Assets -> Nat]
    /\ saved \in {None} \cup SUBSET Assets
    /\ {chosen, quotes, due, request, deferred, net, online} \subseteq BOOLEAN
    /\ phase \in {"Loading", "Ready", "Stale", "Unavailable"}
    /\ backoff \in Nat /\ changes \in Nat

\* The widget never goes quiet for good: a fetch is scheduled, under way, or
\* owed until the network is back.
AlwaysAnotherFetch == due \/ request \/ (deferred /\ ~online)

\* "A failure keeps the last prices on screen with their age rather than
\* blanking the widget" (crypto/mod.rs:17): the phase says Ready or Stale
\* exactly while there are prices, through failures, reloads and restarts.
PhaseFitsPrices == quotes = (phase \in {"Ready", "Stale"})

\* The seed "loses to a list the user picked" (crypto/task.rs:264): what is drawn
\* is the saved list if there is one, and the file's list while nobody chose;
\* neither a reload nor a restart, nor any order of the two, changes that.
ChoiceOutranksSeed ==
    /\ saved # None => entries = saved /\ chosen
    /\ ~chosen => entries = seed

\* "Every control applies immediately" (settings.rs:16): once nothing is on its
\* way and the view has drawn the result, every click since has counted.
EveryClickCounts == sent = NoMessage /\ view = entries => entries = wanted
=============================================================================

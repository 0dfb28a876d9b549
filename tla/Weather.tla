------------------------------- MODULE Weather -------------------------------
(***************************************************************************)
(* The owner of the weather cache (topbar-services/src/weather/task.rs).   *)
(* Requests are spawned, one at a time; everything else the loop selects   *)
(* on - commands, connectivity, the timer, the outcome - may come between  *)
(* a request and its answer.  A reading is what it was asked for: a place  *)
(* and the settings (unit, days, interval) in force at the time.           *)
(*                                                                         *)
(* And the dialog that chooses the place (widgets/weather/dialog.rs): a    *)
(* search box whose searches answer in any order, the places they find,    *)
(* and the coordinates that Save reads.                                    *)
(***************************************************************************)
EXTENDS Common

CONSTANTS
    Places,      \* locations the user may choose
    Settings,    \* values of [widgets.weather]
    Interval,    \* the refresh interval of each, in seconds
    Found,       \* what each search that is long enough finds, a set of places
    Short,       \* a text too short to search for
    Unnamed,     \* each place without its name: coordinates alone
    None,        \* no location, no reading, no request
    ChangeBound  \* bounds how often the user and the config change anything

Texts == DOMAIN Found \cup {Short}

Readings == [place : Places, settings : Settings]

ConstantsOK ==
    /\ Unnamed \in [Places -> Places] /\ Interval \in [Settings -> Nat \ {0}]
    /\ Found \in [DOMAIN Found -> SUBSET Places] /\ Short \notin DOMAIN Found
    /\ None \notin Places \cup Readings \cup Texts

VARIABLES
    settings,  \* the section in force
    location,  \* where the weather is read for
    lastGood,  \* the last reading that arrived
    phase,     \* the published phase: [kind, data]
    due,       \* a fetch is scheduled
    net,       \* what connectivity publishes
    online,    \* what the task last heard of it
    request,   \* what the request under way asked for (in_flight)
    deferred,  \* a fetch came due offline and is owed
    backoff,   \* the refresh ladder
    changes,   \* changes made so far
    dialog     \* the location dialog, and what it has sent

loop == <<due, request, deferred>>
vars == <<settings, location, lastGood, phase, net, online, loop, backoff, changes, dialog>>

Reading(place, s) == [place |-> place, settings |-> s]
Show(kind, data) == [kind |-> kind, data |-> data]
Loading == Show("Loading", None)

\* Dialog::new; its entries start with the coordinates of the configuration, here none.
Fresh == [open |-> FALSE, text |-> Short, timer |-> FALSE, generation |-> 0, asked |-> None,
          searches |-> {}, rows |-> {}, status |-> "hint", entry |-> None, selected |-> None]
Closed(sent) == [box |-> Fresh, sent |-> sent]

Init ==
    /\ settings \in Settings
    /\ location \in Places \cup {None}
    /\ lastGood = None
    /\ phase = IF location = None THEN Show("NeedsLocation", None) ELSE Loading
    /\ due = TRUE
    /\ net \in BOOLEAN
    /\ online = net
    /\ request = None
    /\ deferred = FALSE
    /\ backoff = 0
    /\ changes = 0
    /\ dialog = Closed(<<>>)

-----------------------------------------------------------------------------
(* fetch(): what it does to the loop, from the values in force by then.    *)

\* Mutant: an offline fetch that is not remembered.
Fetch_ForgetsDeferred(place, s, on) ==
    /\ due' = FALSE
    /\ IF place = None \/ ~on \/ request # None
       THEN UNCHANGED <<request, deferred>>
       ELSE deferred' = FALSE /\ request' = Reading(place, s)

Fetch(place, s, on) ==
    /\ due' = FALSE
    /\ IF place = None THEN deferred' = FALSE /\ UNCHANGED request
       ELSE IF ~on THEN deferred' = TRUE /\ UNCHANGED request
       ELSE IF request # None THEN UNCHANGED <<request, deferred>>
       ELSE deferred' = FALSE /\ request' = Reading(place, s)

\* A request that goes out before anything has arrived shows Loading.
ShowFetch(place, on, good, shown) ==
    phase' = IF place # None /\ on /\ request = None /\ good = None THEN Loading ELSE shown

\* The timer, and the panel's Refresh.
Due ==
    /\ due
    /\ Fetch(location, settings, online)
    /\ ShowFetch(location, online, lastGood, phase)
    /\ UNCHANGED <<settings, location, lastGood, net, online, backoff, changes, dialog>>

RefreshNow ==
    /\ changes < ChangeBound
    /\ changes' = changes + 1
    /\ Fetch(location, settings, online)
    /\ ShowFetch(location, online, lastGood, phase)
    /\ UNCHANGED <<settings, location, lastGood, net, online, backoff, dialog>>

-----------------------------------------------------------------------------
(* settle(): a request came back.                                          *)

SettleGood ==
    /\ request # None
    /\ request' = None
    /\ lastGood' = request
    /\ phase' = Show("Ready", request)
    /\ backoff' = Succeeded
    /\ due' = TRUE
    /\ UNCHANGED <<settings, location, net, online, deferred, changes, dialog>>

\* Mutant: the card is blanked.
SettleBad_Blanks ==
    /\ request # None
    /\ request' = None
    /\ phase' = Show("Unavailable", None)
    /\ backoff' = Failed(Interval[settings], backoff)
    /\ due' = TRUE
    /\ UNCHANGED <<settings, location, lastGood, net, online, deferred, changes, dialog>>

SettleBad ==
    /\ request # None
    /\ request' = None
    /\ phase' = IF lastGood = None THEN Show("Unavailable", None) ELSE Show("Stale", lastGood)
    /\ backoff' = Failed(Interval[settings], backoff)
    /\ due' = TRUE
    /\ UNCHANGED <<settings, location, lastGood, net, online, deferred, changes, dialog>>

-----------------------------------------------------------------------------
(* Connectivity, and the two commands that invalidate the cache.           *)

NetChanges ==
    /\ changes < ChangeBound
    /\ changes' = changes + 1
    /\ net' = ~net
    /\ UNCHANGED <<settings, location, lastGood, phase, online, loop, backoff, dialog>>

SetOnline ==
    /\ online # net
    /\ online' = net
    /\ IF net /\ deferred
       THEN Fetch(location, settings, net) /\ ShowFetch(location, net, lastGood, phase)
       ELSE UNCHANGED <<loop, phase>>
    /\ UNCHANGED <<settings, location, lastGood, net, backoff, changes, dialog>>

Relocate(place) ==
    /\ location' = place
    /\ Fetch(place, settings, online)
    /\ IF place = location
       THEN ShowFetch(place, online, lastGood, phase) /\ UNCHANGED <<lastGood, backoff>>
       ELSE phase' = Loading /\ lastGood' = None /\ backoff' = 0
    /\ UNCHANGED <<settings, net, online>>

SetLocation(place) ==
    /\ changes < ChangeBound
    /\ changes' = changes + 1
    /\ Relocate(place)
    /\ UNCHANGED dialog

Configure(s) ==
    /\ changes < ChangeBound
    /\ s # settings
    /\ changes' = changes + 1
    /\ settings' = s
    /\ lastGood' = None
    /\ phase' = Loading
    /\ backoff' = 0
    /\ Fetch(location, s, online)
    /\ UNCHANGED <<location, net, online, dialog>>

-----------------------------------------------------------------------------
(* The dialog.                                                             *)

box == dialog.box
Draws(b) == dialog' = [dialog EXCEPT !.box = b]
ByUser == box.open /\ changes < ChangeBound /\ changes' = changes + 1
Quiet == UNCHANGED <<settings, location, lastGood, phase, net, online, loop, backoff>>

\* present: one at a time.
Present ==
    /\ ~box.open /\ Found # <<>> /\ changes < ChangeBound
    /\ Draws([Fresh EXCEPT !.open = TRUE])
    /\ Quiet /\ UNCHANGED changes

\* schedule_search: every keystroke starts the wait again.
Type(text) ==
    /\ ByUser /\ text # box.text
    /\ Draws([box EXCEPT !.text = text, !.timer = TRUE])
    /\ Quiet

\* search_now, after the pause or on Enter (again for the same text is left out); a text that
\* is too short asks nothing.
Search ==
    /\ box.open /\ (box.timer \/ (box.asked # box.text /\ box.text # Short))
    /\ LET b == [box EXCEPT !.timer = FALSE]
           g == b.generation + 1
       IN  Draws(IF b.text = Short THEN [b EXCEPT !.rows = {}, !.status = "hint"]
                 ELSE [b EXCEPT !.generation = g, !.asked = b.text, !.status = "searching",
                                !.searches = @ \cup {[generation |-> g, text |-> b.text, at |-> "sent"]}])
    /\ Quiet /\ UNCHANGED changes

\* The task sends a search out, or refuses it when it is offline as it takes it.
TakeSearch ==
    /\ \E q \in box.searches :
          /\ q.at = "sent"
          /\ Draws([box EXCEPT !.searches =
                      (@ \ {q}) \cup {[q EXCEPT !.at = IF online THEN "out" ELSE "refused"]}])
    /\ Quiet /\ UNCHANGED changes

\* What a search comes back with: places, or none, or an error.
Outcomes(q) == IF q.at = "out" THEN {{}, Found[q.text]} ELSE {{}}

\* show_results, or the message that there are none.
ShowRows(b, found) == [b EXCEPT !.rows = found, !.status = IF found = {} THEN "none" ELSE "hint"]

\* The answers, in any order.
Answer ==
    /\ \E q \in {q \in box.searches : q.at # "sent"} : \E found \in Outcomes(q) :
          LET b == [box EXCEPT !.searches = @ \ {q}]
          IN  Draws(IF q.generation # b.generation THEN b ELSE ShowRows(b, found))
    /\ Quiet /\ UNCHANGED changes

\* select, and coordinates typed in by hand.
Select ==
    /\ \E place \in box.rows : box.selected # place
          /\ Draws([box EXCEPT !.selected = place, !.entry = Unnamed[place], !.status = "hint"])
    /\ Quiet /\ UNCHANGED changes
TypeCoordinates ==
    /\ ByUser
    /\ \E entry \in {Unnamed[place] : place \in Places} \cup {"nonsense"} :
          entry # box.entry /\ Draws([box EXCEPT !.entry = entry])
    /\ Quiet

\* save: the place's name goes with it while the coordinates are still its own.
Save ==
    /\ ByUser
    /\ LET named == box.selected # None /\ Unnamed[box.selected] = box.entry
       IN  dialog' = IF box.entry \in {None, "nonsense"} THEN [dialog EXCEPT !.box.status = "message"]
                     ELSE Closed(Append(dialog.sent, IF named THEN box.selected ELSE box.entry))
    /\ Quiet
Dismiss == box.open /\ dialog' = Closed(dialog.sent) /\ Quiet /\ UNCHANGED changes

\* What it saved reaches the task.
Saved ==
    /\ dialog.sent # <<>>
    /\ dialog' = [dialog EXCEPT !.sent = Tail(@)]
    /\ Relocate(Head(dialog.sent))
    /\ UNCHANGED changes

Next ==
    \/ Due \/ RefreshNow
    \/ SettleGood \/ SettleBad
    \/ NetChanges \/ SetOnline
    \/ \E place \in Places : SetLocation(place)
    \/ \E s \in Settings : Configure(s)
    \/ Present \/ Search \/ TakeSearch \/ Answer \/ Select \/ TypeCoordinates \/ Save \/ Dismiss \/ Saved
    \/ \E text \in Texts : Type(text)

\* The task is scheduled, and a service asked again and again answers in the end.
Fairness ==
    /\ WF_vars(Due) /\ WF_vars(SetOnline)
    /\ WF_vars(SettleGood \/ SettleBad) /\ SF_vars(SettleGood)

Spec == Init /\ [][Next]_vars /\ Fairness

-----------------------------------------------------------------------------
(* Properties.                                                             *)

Kinds == {"NeedsLocation", "Loading", "Ready", "Stale", "Unavailable"}

Queries == [generation : Nat, text : DOMAIN Found, at : {"sent", "out", "refused"}]
Boxes ==
    [open : BOOLEAN, text : Texts, timer : BOOLEAN, generation : Nat, asked : DOMAIN Found \cup {None},
     searches : SUBSET Queries, rows : SUBSET Places, status : {"hint", "searching", "none", "message"},
     entry : Places \cup {None, "nonsense"}, selected : Places \cup {None}]

\* Every variable has its type: those of the loop, and the dialog.
LoopTypeOK ==
    /\ settings \in Settings
    /\ location \in Places \cup {None}
    /\ lastGood \in Readings \cup {None}
    /\ phase \in [kind : Kinds, data : Readings \cup {None}]
    /\ request \in Readings \cup {None}
    /\ due \in BOOLEAN /\ net \in BOOLEAN /\ online \in BOOLEAN /\ deferred \in BOOLEAN
    /\ backoff \in Nat /\ changes \in Nat
TypeOK == LoopTypeOK /\ dialog \in [box : Boxes, sent : Seq(Places)]

\* Whatever order things came in, a panel that knows where it is will fetch
\* again: a fetch is scheduled, under way, or owed until the network is back.
\* Every early return of fetch() drops the schedule, so this is what could break.
AlwaysAnotherFetch ==
    location # None => due \/ request # None \/ (deferred /\ ~online)

\* "A failed fetch keeps the last good reading on screen ... and never blanks
\* the card" (weather/mod.rs:19): a reading goes away only for a new place or
\* new settings.
KeepsReading ==
    phase.data # None /\ phase'.data = None => location' # location \/ settings' # settings
NeverBlanks == [][KeepsReading]_phase

\* "A machine that is offline does not retry at all" (weather/mod.rs:21): no
\* request goes out while the task believes itself offline.
AsksOnline == request = None /\ request' # None => online'
NoRequestOffline == [][AsksOnline]_request

\* A failing service is never asked more slowly than a working one, once the
\* interval is at least the first step of the ladder (refresh.rs:56).
LadderIsCapped == backoff <= AtLeast(Interval[settings], BackoffStart)

\* Once the network stays and the service answers, the card shows, again and
\* again, a fresh reading for the place and the settings in force, whatever was
\* under way when they changed.
Right == phase.kind = "Ready" /\ phase.data = Reading(location, settings)
ComesRight == <>[]net => []<>(location # None => Right)

\* "A slow answer cannot overwrite a newer one" (dialog.rs:140): the rows are those of the
\* last search, whatever order the answers came in, and once it has answered the dialog no
\* longer says that it is searching.
Awaited == \E q \in box.searches : q.generation = box.generation
RowsAreNewest ==
    /\ (~Awaited /\ box.rows # {}) => (box.asked # None /\ box.rows = Found[box.asked])
    /\ box.status = "searching" => Awaited

\* A text too short to search for "goes quiet" (dialog.rs:333): nothing is found under it.
ShortIsQuiet == box.text = Short /\ ~box.timer => box.rows = {}

\* "It would be wrong and look right" (weather/task.rs:288): a reading on the
\* card is for the place named above it and in the unit in force.
ShownIsForHere == phase.data # None => phase.data = Reading(location, settings)

\* NeedsLocation is "nobody has told the panel where it is" and Loading is "there
\* is a location" (weather/model.rs:145): the card asks for a location exactly
\* while there is none.
AsksWhenNowhere == (phase.kind = "NeedsLocation") = (location = None)
=============================================================================

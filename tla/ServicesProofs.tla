---------------------------- MODULE ServicesProofs ----------------------------
(***************************************************************************)
(* What is proved of the services that run by themselves, one after the    *)
(* other and then side by side: for any places, settings, assets, scripts, *)
(* sections and mail, and any number of changes.  What they come to in the *)
(* end (liveness) stays with the model checker.                            *)
(***************************************************************************)
EXTENDS PanelServices, SequencesExt, SequenceTheorems, FiniteSetTheorems, WellFoundedInduction, TLAPS

-----------------------------------------------------------------------------
(* Weather, as looked at through the card or through the dialog.           *)

\* A search that is out is no newer than the newest, which is for what was asked last.
Searching(part) ==
    \A q \in dialog.box.searches :
        /\ q.generation <= dialog.box.generation
        /\ q.generation = dialog.box.generation => q.text = dialog.box.asked

DialogInv(part) ==
    /\ dialog \in [box : Weather(part)!Boxes, sent : Seq(part.places)]
    /\ Searching(part)
    /\ Weather(part)!RowsAreNewest

\* What is shown is what arrived last.
Backed == phase.data # None => lastGood # None

LoopInv(part) ==
    /\ Weather(part)!LoopTypeOK
    /\ Weather(part)!AlwaysAnotherFetch
    /\ Weather(part)!LadderIsCapped
    /\ Backed

WeatherInv(part) == LoopInv(part) /\ DialogInv(part)

LEMMA FreshBox ==
    ASSUME NEW part, NEW saves \in Seq(part.places)
    PROVE  /\ Weather(part)!Fresh \in Weather(part)!Boxes
           /\ Weather(part)!Closed(saves).sent = saves
           /\ Weather(part)!Closed(saves).box = Weather(part)!Fresh
           /\ Weather(part)!Closed(saves) \in [box : Weather(part)!Boxes, sent : Seq(part.places)]
<1>1. Weather(part)!Fresh \in Weather(part)!Boxes
  <2>1. FALSE \in BOOLEAN
    OBVIOUS
  <2>2. "hint" \in {"hint", "searching", "none", "message"} /\ 0 \in Nat
    OBVIOUS
  <2> QED BY <2>1, <2>2, SMTT(30) DEF Weather!Fresh, Weather!Boxes, Weather!Texts
<1> QED BY <1>1 DEF Weather!Closed

LEMMA ClosedInv ==
    ASSUME NEW part, NEW saves \in Seq(part.places), dialog' = Weather(part)!Closed(saves)
    PROVE  DialogInv(part)'
<1>1. /\ dialog' \in [box : Weather(part)!Boxes, sent : Seq(part.places)]
      /\ dialog'.box = Weather(part)!Fresh
  BY FreshBox
<1>2. /\ dialog'.box.searches = {} /\ dialog'.box.rows = {} /\ dialog'.box.status = "hint"
  BY <1>1 DEF Weather!Fresh
<1> QED BY <1>1, <1>2 DEF DialogInv, Searching, Weather!RowsAreNewest, Weather!box

LEMMA WeatherStarts ==
    ASSUME NEW part, Weather(part)!ConstantsOK, Weather(part)!Init
    PROVE  WeatherInv(part)
<1>1. /\ settings \in part.settings /\ location \in part.places \cup {None}
      /\ lastGood = None /\ request = None /\ backoff = 0 /\ changes = 0
      /\ dialog = Weather(part)!Closed(<<>>)
      /\ phase.data = None
      /\ phase \in [kind : Weather(part)!Kinds, data : Weather(part)!Readings \cup {None}]
  BY DEF Weather!Init, Weather!Show, Weather!Loading, Weather!Kinds
<1>2. due /\ due \in BOOLEAN /\ net \in BOOLEAN /\ online \in BOOLEAN /\ deferred \in BOOLEAN
  <2>1. net \in BOOLEAN /\ online = net /\ due = TRUE /\ deferred = FALSE
    BY Zenon DEF Weather!Init
  <2> QED BY <2>1, Zenon
<1>3. Weather(part)!LoopTypeOK
  BY <1>1, <1>2 DEF Weather!LoopTypeOK
<1>4. Weather(part)!AlwaysAnotherFetch /\ Backed
  BY <1>1, <1>2 DEF Weather!AlwaysAnotherFetch, Backed
<1>5. Weather(part)!LadderIsCapped
  <2>1. part.interval[settings] \in Nat
    BY <1>1 DEF Weather!ConstantsOK
  <2> QED BY <1>1, <2>1 DEF Weather!LadderIsCapped, Weather!AtLeast, Weather!BackoffStart
<1>6. DialogInv(part)
  <2>1. <<>> \in Seq(part.places)
    OBVIOUS
  <2>2. /\ dialog \in [box : Weather(part)!Boxes, sent : Seq(part.places)]
        /\ dialog.box = Weather(part)!Fresh
    BY <1>1, <2>1, FreshBox
  <2>3. dialog.box.searches = {} /\ dialog.box.rows = {} /\ dialog.box.status = "hint"
    BY <2>2 DEF Weather!Fresh
  <2> QED BY <2>2, <2>3 DEF DialogInv, Searching, Weather!RowsAreNewest, Weather!box
<1> QED BY <1>3, <1>4, <1>5, <1>6 DEF WeatherInv, LoopInv


\* What fetch() leaves of the loop, and when it asks.
LEMMA FetchKeeps ==
    ASSUME NEW part, Weather(part)!ConstantsOK, Weather(part)!LoopTypeOK,
           NEW place \in part.places \cup {None}, NEW s \in part.settings, NEW on \in BOOLEAN,
           Weather(part)!Fetch(place, s, on)
    PROVE  /\ request' \in Weather(part)!Readings \cup {None}
           /\ due' \in BOOLEAN /\ deferred' \in BOOLEAN
           /\ place # None => due' \/ request' # None \/ (deferred' /\ ~on)
           /\ request = None /\ request' # None => on
<1>1. place # None => /\ Weather(part)!Reading(place, s) \in Weather(part)!Readings
                      /\ Weather(part)!Reading(place, s) # None
  BY DEF Weather!ConstantsOK, Weather!Reading, Weather!Readings
<1>2. /\ request \in Weather(part)!Readings \cup {None} /\ deferred \in BOOLEAN
  BY DEF Weather!LoopTypeOK
<1>3. due' \in BOOLEAN
  BY Zenon DEF Weather!Fetch
<1>4. CASE place = None \/ ~on
  <2>1. place = None => (deferred' <=> FALSE) /\ request' = request
    BY <1>4, Zenon DEF Weather!Fetch
  <2>2. place # None => (deferred' <=> TRUE) /\ request' = request
    BY <1>4, Zenon DEF Weather!Fetch
  <2>3. deferred' \in BOOLEAN
    BY <1>4, Zenon DEF Weather!Fetch
  <2> QED BY <1>2, <1>3, <1>4, <2>1, <2>2, <2>3
<1>5. CASE place # None /\ on /\ request # None
  <2>1. request' = request /\ deferred' = deferred
    BY <1>5, Zenon DEF Weather!Fetch
  <2> QED BY <1>2, <1>3, <1>5, <2>1
<1>6. CASE place # None /\ on /\ request = None
  <2>1. request' = Weather(part)!Reading(place, s)
    BY <1>6, Zenon DEF Weather!Fetch
  <2>2. deferred' \in BOOLEAN
    BY <1>6, Zenon DEF Weather!Fetch
  <2> QED BY <1>1, <1>3, <1>6, <2>1, <2>2
<1> QED BY <1>4, <1>5, <1>6


\* Drawing a fetch takes nothing off the card.
LEMMA ShowKeeps ==
    ASSUME NEW part, Weather(part)!LoopTypeOK, Backed, NEW place, NEW on,
           Weather(part)!ShowFetch(place, on, lastGood, phase)
    PROVE  /\ phase' \in [kind : Weather(part)!Kinds, data : Weather(part)!Readings \cup {None}]
           /\ phase'.data # None => lastGood # None
           /\ phase.data # None => phase'.data # None
<1>1. /\ phase \in [kind : Weather(part)!Kinds, data : Weather(part)!Readings \cup {None}]
      /\ Weather(part)!Loading \in [kind : Weather(part)!Kinds, data : Weather(part)!Readings \cup {None}]
      /\ Weather(part)!Loading.data = None
  BY DEF Weather!LoopTypeOK, Weather!Loading, Weather!Show, Weather!Kinds
<1>2. (phase' = Weather(part)!Loading /\ lastGood = None) \/ phase' = phase
  BY DEF Weather!ShowFetch
<1> QED BY <1>1, <1>2 DEF Backed

\* What a step of the loop must do: keep the invariant, keep the reading, and
\* ask only while online.
LoopKept(part) == LoopInv(part)' /\ Weather(part)!KeepsReading /\ Weather(part)!AsksOnline

\* A fetch that changes neither the place nor the settings.
LEMMA FetchStep ==
    ASSUME NEW part, Weather(part)!ConstantsOK, LoopInv(part),
           NEW on \in BOOLEAN, Weather(part)!Fetch(location, settings, on),
           Weather(part)!ShowFetch(location, on, lastGood, phase), online' = on,
           UNCHANGED <<settings, location, lastGood, net, backoff>>, changes' \in Nat
    PROVE  LoopKept(part)
<1>1. Weather(part)!LoopTypeOK /\ Backed
  BY DEF LoopInv
<1>2. location \in part.places \cup {None} /\ settings \in part.settings
  BY <1>1 DEF Weather!LoopTypeOK
<1>3. /\ request' \in Weather(part)!Readings \cup {None}
      /\ due' \in BOOLEAN /\ deferred' \in BOOLEAN
      /\ location # None => due' \/ request' # None \/ (deferred' /\ ~on)
      /\ request = None /\ request' # None => on
  BY <1>1, <1>2, FetchKeeps
<1>4. /\ phase' \in [kind : Weather(part)!Kinds, data : Weather(part)!Readings \cup {None}]
      /\ phase'.data # None => lastGood # None
      /\ phase.data # None => phase'.data # None
  BY <1>1, ShowKeeps
<1>5. Weather(part)!LoopTypeOK'
  BY <1>1, <1>3, <1>4 DEF Weather!LoopTypeOK
<1>6. Weather(part)!AlwaysAnotherFetch' /\ Backed' /\ Weather(part)!KeepsReading /\ Weather(part)!AsksOnline
  BY <1>3, <1>4 DEF Weather!AlwaysAnotherFetch, Backed, Weather!KeepsReading, Weather!AsksOnline
<1>7. Weather(part)!LadderIsCapped'
  BY DEF LoopInv, Weather!LadderIsCapped
<1> QED BY <1>5, <1>6, <1>7 DEF LoopInv, LoopKept

LEMMA LoopSteps ==
    ASSUME NEW part, Weather(part)!ConstantsOK, LoopInv(part)
    PROVE  /\ Weather(part)!Due => LoopKept(part)
           /\ Weather(part)!RefreshNow => LoopKept(part)
           /\ Weather(part)!SettleGood => LoopKept(part)
           /\ Weather(part)!SettleBad => LoopKept(part)
           /\ Weather(part)!NetChanges => LoopKept(part)
           /\ Weather(part)!SetOnline => LoopKept(part)
<1> USE DEF LoopKept
<1>0. Weather(part)!LoopTypeOK /\ Backed /\ Weather(part)!AlwaysAnotherFetch /\ Weather(part)!LadderIsCapped
  BY DEF LoopInv
<1>1. Weather(part)!Due => LoopKept(part)
  BY <1>0, FetchStep DEF Weather!Due, Weather!LoopTypeOK
<1>2. Weather(part)!RefreshNow => LoopKept(part)
  <2> HAVE Weather(part)!RefreshNow
  <2>1. online \in BOOLEAN /\ changes' \in Nat
    BY <1>0 DEF Weather!RefreshNow, Weather!LoopTypeOK
  <2> QED BY <2>1, FetchStep DEF Weather!RefreshNow
<1>3. Weather(part)!SettleGood => LoopKept(part)
  <2> HAVE Weather(part)!SettleGood
  <2>1. /\ request # None /\ request' = None /\ lastGood' = request /\ backoff' = 0
        /\ phase' = Weather(part)!Show("Ready", request)
        /\ UNCHANGED <<settings, location, net, online, deferred, changes>>
    BY DEF Weather!SettleGood, Weather!Succeeded
  <2>2. due' /\ due' \in BOOLEAN
    BY Zenon DEF Weather!SettleGood
  <2>3. request \in Weather(part)!Readings
    BY <1>0, <2>1 DEF Weather!LoopTypeOK
  <2>4. Weather(part)!LoopTypeOK'
    BY <1>0, <2>1, <2>2, <2>3 DEF Weather!LoopTypeOK, Weather!Show, Weather!Kinds
  <2>5. Weather(part)!LadderIsCapped'
    BY <2>1, <2>4 DEF Weather!LadderIsCapped, Weather!AtLeast, Weather!BackoffStart, Weather!ConstantsOK,
       Weather!LoopTypeOK
  <2>6. Weather(part)!KeepsReading
    BY <2>1 DEF Weather!KeepsReading, Weather!Show
  <2> QED BY <2>1, <2>2, <2>4, <2>5, <2>6 DEF LoopInv, Backed, Weather!AlwaysAnotherFetch, Weather!AsksOnline
<1>4. Weather(part)!SettleBad => LoopKept(part)
  <2> HAVE Weather(part)!SettleBad
  <2>1. /\ request # None /\ request' = None
        /\ phase' = IF lastGood = None THEN Weather(part)!Show("Unavailable", None)
                    ELSE Weather(part)!Show("Stale", lastGood)
        /\ backoff' = Weather(part)!Failed(part.interval[settings], backoff)
        /\ UNCHANGED <<settings, location, lastGood, net, online, deferred, changes>>
    BY DEF Weather!SettleBad
  <2>2. due' /\ due' \in BOOLEAN
    BY Zenon DEF Weather!SettleBad
  <2>3. settings \in part.settings /\ part.interval[settings] \in Nat \ {0} /\ backoff \in Nat
    BY <1>0 DEF Weather!LoopTypeOK, Weather!ConstantsOK
  <2>4. backoff' \in Nat /\ backoff' <= Weather(part)!AtLeast(part.interval[settings], Weather(part)!BackoffStart)
    BY <2>1, <2>3 DEF Weather!Failed, Weather!AtLeast, Weather!AtMost, Weather!BackoffStart
  <2>5. phase' \in [kind : Weather(part)!Kinds, data : Weather(part)!Readings \cup {None}]
        /\ phase'.data = lastGood
    BY <1>0, <2>1 DEF Weather!LoopTypeOK, Weather!Show, Weather!Kinds
  <2>6. Weather(part)!LoopTypeOK'
    BY <1>0, <2>1, <2>2, <2>4, <2>5 DEF Weather!LoopTypeOK
  <2>7. Weather(part)!LadderIsCapped'
    BY <2>1, <2>4 DEF Weather!LadderIsCapped
  <2>8. Weather(part)!KeepsReading /\ Backed'
    BY <1>0, <2>1, <2>5 DEF Weather!KeepsReading, Backed
  <2> QED BY <2>1, <2>2, <2>6, <2>7, <2>8 DEF LoopInv, Weather!AlwaysAnotherFetch, Weather!AsksOnline
<1>5. Weather(part)!NetChanges => LoopKept(part)
  <2> HAVE Weather(part)!NetChanges
  <2>1. UNCHANGED <<settings, location, lastGood, phase, online, due, request, deferred, backoff>>
    BY DEF Weather!NetChanges, Weather!loop
  <2>2. net' \in BOOLEAN
    BY Zenon DEF Weather!NetChanges
  <2>3. changes' \in Nat
    BY <1>0 DEF Weather!NetChanges, Weather!LoopTypeOK
  <2>4. Weather(part)!LoopTypeOK'
    BY <1>0, <2>1, <2>2, <2>3 DEF Weather!LoopTypeOK
  <2>5. /\ Weather(part)!AlwaysAnotherFetch' /\ Weather(part)!LadderIsCapped' /\ Backed'
        /\ Weather(part)!KeepsReading /\ Weather(part)!AsksOnline
    BY <1>0, <2>1 DEF Weather!AlwaysAnotherFetch, Weather!LadderIsCapped, Backed, Weather!KeepsReading,
       Weather!AsksOnline
  <2> QED BY <2>4, <2>5 DEF LoopInv
<1>6. Weather(part)!SetOnline => LoopKept(part)
  <2> HAVE Weather(part)!SetOnline
  <2>1. /\ net \in BOOLEAN /\ online' = net /\ UNCHANGED <<settings, location, lastGood, net, backoff, changes>>
        /\ changes' \in Nat
    BY <1>0 DEF Weather!SetOnline, Weather!LoopTypeOK
  <2>2. CASE net /\ deferred
    <3>1. /\ Weather(part)!Fetch(location, settings, net)
          /\ Weather(part)!ShowFetch(location, net, lastGood, phase)
      BY <2>2, Zenon DEF Weather!SetOnline
    <3> QED BY <2>1, <3>1, FetchStep
  <2>3. CASE ~(net /\ deferred)
    <3>1. UNCHANGED <<due, request, deferred, phase>>
      BY <2>3 DEF Weather!SetOnline, Weather!loop
    <3>2. Weather(part)!LoopTypeOK'
      BY <1>0, <2>1, <3>1 DEF Weather!LoopTypeOK
    <3>3. Weather(part)!AlwaysAnotherFetch'
      BY <1>0, <2>1, <2>3, <3>1 DEF Weather!AlwaysAnotherFetch
    <3>4. Weather(part)!LadderIsCapped' /\ Backed' /\ Weather(part)!KeepsReading /\ Weather(part)!AsksOnline
      BY <1>0, <2>1, <3>1 DEF Weather!LadderIsCapped, Backed, Weather!KeepsReading, Weather!AsksOnline
    <3> QED BY <3>2, <3>3, <3>4 DEF LoopInv
  <2> QED BY <2>2, <2>3
<1> QED BY <1>1, <1>2, <1>3, <1>4, <1>5, <1>6


\* A fetch that throws away what was shown: for another place, or with other settings.
LEMMA FetchAnew ==
    ASSUME NEW part, Weather(part)!ConstantsOK, LoopInv(part),
           NEW place \in part.places \cup {None}, NEW s \in part.settings,
           Weather(part)!Fetch(place, s, online),
           location' = place, settings' = s, place # location \/ s # settings,
           phase' = Weather(part)!Loading, lastGood' = None, backoff' = 0,
           UNCHANGED <<net, online>>, changes' \in Nat
    PROVE  LoopKept(part)
<1>1. Weather(part)!LoopTypeOK /\ online \in BOOLEAN
  BY DEF LoopInv, Weather!LoopTypeOK
<1>2. /\ request' \in Weather(part)!Readings \cup {None}
      /\ due' \in BOOLEAN /\ deferred' \in BOOLEAN
      /\ place # None => due' \/ request' # None \/ (deferred' /\ ~online)
      /\ request = None /\ request' # None => online
  BY <1>1, FetchKeeps
<1>3. /\ phase' \in [kind : Weather(part)!Kinds, data : Weather(part)!Readings \cup {None}]
      /\ phase'.data = None
  BY DEF Weather!Loading, Weather!Show, Weather!Kinds
<1>4. Weather(part)!LoopTypeOK'
  BY <1>1, <1>2, <1>3 DEF Weather!LoopTypeOK
<1>5. Weather(part)!LadderIsCapped'
  BY DEF Weather!LadderIsCapped, Weather!AtLeast, Weather!BackoffStart, Weather!ConstantsOK
<1>6. /\ Weather(part)!AlwaysAnotherFetch' /\ Backed'
      /\ Weather(part)!KeepsReading /\ Weather(part)!AsksOnline
  BY <1>2, <1>3 DEF Weather!AlwaysAnotherFetch, Backed, Weather!KeepsReading, Weather!AsksOnline
<1> QED BY <1>4, <1>5, <1>6 DEF LoopKept, LoopInv

LEMMA RelocateStep ==
    ASSUME NEW part, Weather(part)!ConstantsOK, LoopInv(part), NEW place \in part.places,
           Weather(part)!Relocate(place), changes' \in Nat
    PROVE  LoopKept(part)
<1>1. /\ location' = place /\ Weather(part)!Fetch(place, settings, online)
      /\ UNCHANGED <<settings, net, online>>
  BY DEF Weather!Relocate
<1>2. settings \in part.settings /\ online \in BOOLEAN
  BY DEF LoopInv, Weather!LoopTypeOK
<1>3. CASE place = location
  <2>1. /\ Weather(part)!ShowFetch(place, online, lastGood, phase)
        /\ UNCHANGED <<lastGood, backoff>>
    BY <1>3, Zenon DEF Weather!Relocate
  <2> QED BY <1>1, <1>2, <1>3, <2>1, FetchStep
<1>4. CASE place # location
  <2>1. phase' = Weather(part)!Loading /\ lastGood' = None /\ backoff' = 0
    BY <1>4, Zenon DEF Weather!Relocate
  <2> QED BY <1>1, <1>2, <1>4, <2>1, FetchAnew
<1> QED BY <1>3, <1>4

LEMMA ChoiceSteps ==
    ASSUME NEW part, Weather(part)!ConstantsOK, LoopInv(part)
    PROVE  /\ \A place \in part.places : Weather(part)!SetLocation(place) => LoopKept(part)
           /\ \A s \in part.settings : Weather(part)!Configure(s) => LoopKept(part)
<1>0. Weather(part)!LoopTypeOK
  BY DEF LoopInv
<1>1. ASSUME NEW place \in part.places, Weather(part)!SetLocation(place) PROVE LoopKept(part)
  <2>1. changes' \in Nat /\ Weather(part)!Relocate(place)
    BY <1>0, <1>1 DEF Weather!SetLocation, Weather!LoopTypeOK
  <2> QED BY <2>1, RelocateStep
<1>2. ASSUME NEW s \in part.settings, Weather(part)!Configure(s) PROVE LoopKept(part)
  <2>1. location \in part.places \cup {None} /\ changes' \in Nat
    BY <1>0, <1>2 DEF Weather!Configure, Weather!LoopTypeOK
  <2>2. /\ Weather(part)!Fetch(location, s, online) /\ s # settings /\ settings' = s
        /\ location' = location /\ phase' = Weather(part)!Loading /\ lastGood' = None /\ backoff' = 0
        /\ UNCHANGED <<net, online>>
    BY <1>2 DEF Weather!Configure
  <2> QED BY <2>1, <2>2, FetchAnew
<1> QED BY <1>1, <1>2

-----------------------------------------------------------------------------
(* The dialog.                                                             *)

\* What changes the dialog alone.
LEMMA QuietStep ==
    ASSUME NEW part, LoopInv(part), Weather(part)!Quiet, changes' \in Nat
    PROVE  LoopKept(part)
<1>1. UNCHANGED <<settings, location, lastGood, phase, net, online, due, request, deferred, backoff>>
  BY DEF Weather!Quiet, Weather!loop
<1>2. Weather(part)!LoopTypeOK'
  BY <1>1 DEF LoopInv, Weather!LoopTypeOK
<1>3. /\ Weather(part)!AlwaysAnotherFetch' /\ Weather(part)!LadderIsCapped' /\ Backed'
      /\ Weather(part)!KeepsReading /\ Weather(part)!AsksOnline
  BY <1>1 DEF LoopInv, Weather!AlwaysAnotherFetch, Weather!LadderIsCapped, Backed, Weather!KeepsReading,
     Weather!AsksOnline
<1> QED BY <1>2, <1>3 DEF LoopKept, LoopInv

\* The condition on the box, so that an action can be checked by the box it draws.
BoxInv(part, b) ==
    /\ b \in Weather(part)!Boxes
    /\ \A q \in b.searches : /\ q.generation <= b.generation
                             /\ q.generation = b.generation => q.text = b.asked
    /\ (~(\E q \in b.searches : q.generation = b.generation) /\ b.rows # {})
          => (b.asked # None /\ b.rows = part.found[b.asked])
    /\ b.status = "searching" => \E q \in b.searches : q.generation = b.generation

LEMMA DialogIsBox ==
    ASSUME NEW part
    PROVE  /\ DialogInv(part) <=> /\ dialog \in [box : Weather(part)!Boxes, sent : Seq(part.places)]
                                  /\ BoxInv(part, dialog.box)
           /\ DialogInv(part)' <=> /\ dialog' \in [box : Weather(part)!Boxes, sent : Seq(part.places)]
                                   /\ BoxInv(part, dialog'.box)
BY DEF DialogInv, BoxInv, Searching, Weather!RowsAreNewest, Weather!Awaited, Weather!box

LEMMA Drawn ==
    ASSUME NEW part, DialogInv(part), NEW b, BoxInv(part, b), Weather(part)!Draws(b)
    PROVE  DialogInv(part)'
<1>1. /\ dialog \in [box : Weather(part)!Boxes, sent : Seq(part.places)] /\ b \in Weather(part)!Boxes
      /\ dialog' = [dialog EXCEPT !.box = b]
  BY DialogIsBox DEF BoxInv, Weather!Draws
<1>2. dialog' \in [box : Weather(part)!Boxes, sent : Seq(part.places)] /\ dialog'.box = b
  BY <1>1
<1> QED BY <1>2, DialogIsBox

\* The search box typed into, the wait over (or begun), and the fields a search leaves.
LEMMA BoxTimer ==
    ASSUME NEW part, NEW b \in Weather(part)!Boxes, NEW t \in BOOLEAN,
           NEW text \in DOMAIN part.found \cup {part.short}
    PROVE  LET e == [b EXCEPT !.text = text, !.timer = t] IN
           e \in Weather(part)!Boxes /\ (BoxInv(part, b) => BoxInv(part, e))
<1> DEFINE e == [b EXCEPT !.text = text, !.timer = t]
<1>1. /\ e \in Weather(part)!Boxes /\ e.searches = b.searches /\ e.generation = b.generation
      /\ e.asked = b.asked /\ e.rows = b.rows /\ e.status = b.status
  BY DEF Weather!Boxes, Weather!Texts
<1> HIDE DEF e
<1>2. BoxInv(part, b) => BoxInv(part, e)
  BY <1>1 DEF BoxInv
<1> QED BY <1>1, <1>2 DEF e

LEMMA TypeStep ==
    ASSUME NEW part, DialogInv(part), NEW text \in Weather(part)!Texts, Weather(part)!Type(text)
    PROVE  DialogInv(part)'
<1>1. /\ dialog.box \in Weather(part)!Boxes /\ BoxInv(part, dialog.box)
      /\ Weather(part)!Draws([dialog.box EXCEPT !.text = text, !.timer = TRUE])
  BY DialogIsBox DEF Weather!Type, Weather!box
<1>2. text \in DOMAIN part.found \cup {part.short}
  BY DEF Weather!Texts
<1>3. BoxInv(part, [dialog.box EXCEPT !.text = text, !.timer = TRUE])
  <2>1. TRUE \in BOOLEAN
    OBVIOUS
  <2> QED BY <1>1, <1>2, <2>1, BoxTimer, Zenon
<1> QED BY <1>1, <1>3, Drawn, Zenon

LEMMA PresentStep ==
    ASSUME NEW part, DialogInv(part), Weather(part)!Present
    PROVE  DialogInv(part)'
<1>1. PICK t \in BOOLEAN : Weather(part)!Draws([Weather(part)!Fresh EXCEPT !.open = t])
  BY Zenon DEF Weather!Present
<1> DEFINE e == [Weather(part)!Fresh EXCEPT !.open = t]
<1>2. Weather(part)!Fresh \in Weather(part)!Boxes
  <2>1. <<>> \in Seq(part.places)
    OBVIOUS
  <2> QED BY <2>1, FreshBox, Zenon
<1>3. /\ e \in Weather(part)!Boxes /\ e.searches = Weather(part)!Fresh.searches /\ e.rows = Weather(part)!Fresh.rows
      /\ e.status = Weather(part)!Fresh.status
  BY <1>2 DEF Weather!Boxes
<1>4. /\ Weather(part)!Fresh.searches = {} /\ Weather(part)!Fresh.rows = {}
      /\ Weather(part)!Fresh.status = "hint"
  BY DEF Weather!Fresh
<1> HIDE DEF e
<1>5. BoxInv(part, e)
  BY <1>3, <1>4 DEF BoxInv
<1> QED BY <1>1, <1>5, Drawn DEF e

LEMMA SearchStep ==
    ASSUME NEW part, DialogInv(part), Weather(part)!Search
    PROVE  DialogInv(part)'
<1>1. PICK t \in BOOLEAN :
         LET b == [dialog.box EXCEPT !.timer = t]
             g == b.generation + 1
         IN  Weather(part)!Draws(
                IF b.text = part.short THEN [b EXCEPT !.rows = {}, !.status = "hint"]
                ELSE [b EXCEPT !.generation = g, !.asked = b.text, !.status = "searching",
                               !.searches = @ \cup {[generation |-> g, text |-> b.text, at |-> "sent"]}])
  BY Zenon DEF Weather!Search, Weather!box
<1> DEFINE b == [dialog.box EXCEPT !.timer = t]
           g == b.generation + 1
           q == [generation |-> g, text |-> b.text, at |-> "sent"]
           quiet == [b EXCEPT !.rows = {}, !.status = "hint"]
           asks == [b EXCEPT !.generation = g, !.asked = b.text, !.status = "searching",
                             !.searches = @ \cup {q}]
<1>2. dialog.box \in Weather(part)!Boxes /\ BoxInv(part, dialog.box)
  BY DialogIsBox
<1>3. b \in Weather(part)!Boxes /\ BoxInv(part, b)
  <2>1. /\ b \in Weather(part)!Boxes /\ b.searches = dialog.box.searches /\ b.generation = dialog.box.generation
        /\ b.asked = dialog.box.asked /\ b.rows = dialog.box.rows /\ b.status = dialog.box.status
    BY <1>2 DEF Weather!Boxes
  <2> HIDE DEF b
  <2> QED BY <1>2, <2>1 DEF BoxInv
<1>4. Weather(part)!Draws(IF b.text = part.short THEN quiet ELSE asks)
  BY <1>1
<1> HIDE DEF b
<1>5. CASE b.text = part.short
  <2>1. /\ quiet \in Weather(part)!Boxes /\ quiet.searches = b.searches /\ quiet.generation = b.generation
        /\ quiet.asked = b.asked /\ quiet.rows = {} /\ quiet.status = "hint"
    BY <1>3 DEF Weather!Boxes
  <2> HIDE DEF quiet
  <2>2. BoxInv(part, quiet)
    BY <1>3, <2>1 DEF BoxInv
  <2> QED BY <1>4, <1>5, <2>2, Drawn
<1>6. CASE b.text # part.short
  <2>1. /\ b.text \in DOMAIN part.found /\ b.generation \in Nat /\ b.searches \subseteq Weather(part)!Queries
        /\ g \in Nat /\ q \in Weather(part)!Queries /\ q.generation = g /\ q.text = b.text
    BY <1>3, <1>6 DEF Weather!Boxes, Weather!Queries, Weather!Texts
  <2>2. \A x \in b.searches : x.generation \in Nat /\ x.generation < g
    BY <1>3, <2>1 DEF BoxInv, Weather!Queries
  <2> HIDE DEF q, g
  <2>3. /\ asks \in Weather(part)!Boxes /\ asks.searches = b.searches \cup {q} /\ asks.generation = g
        /\ asks.asked = b.text /\ asks.status = "searching"
    BY <1>3, <2>1 DEF Weather!Boxes
  <2> HIDE DEF asks
  <2>4. BoxInv(part, asks)
    BY <2>1, <2>2, <2>3 DEF BoxInv
  <2> QED BY <1>4, <1>6, <2>4, Drawn
<1> QED BY <1>5, <1>6

LEMMA TakeSearchStep ==
    ASSUME NEW part, DialogInv(part), Weather(part)!TakeSearch
    PROVE  DialogInv(part)'
<1> DEFINE to == IF online THEN "out" ELSE "refused"
           taken(q) == [q EXCEPT !.at = to]
           e(q) == [dialog.box EXCEPT !.searches = (@ \ {q}) \cup {taken(q)}]
<1>1. PICK q \in dialog.box.searches : Weather(part)!Draws(e(q))
  BY DEF Weather!TakeSearch, Weather!box
<1>2. /\ dialog.box \in Weather(part)!Boxes /\ BoxInv(part, dialog.box) /\ q \in Weather(part)!Queries
  BY DialogIsBox DEF Weather!Boxes
<1>3. to \in {"sent", "out", "refused"}
  OBVIOUS
<1> HIDE DEF to
<1>4. taken(q) \in Weather(part)!Queries /\ taken(q).generation = q.generation /\ taken(q).text = q.text
  BY <1>2, <1>3 DEF Weather!Queries
<1> HIDE DEF taken
<1>5. /\ e(q) \in Weather(part)!Boxes /\ e(q).searches = (dialog.box.searches \ {q}) \cup {taken(q)}
      /\ e(q).generation = dialog.box.generation /\ e(q).asked = dialog.box.asked
      /\ e(q).rows = dialog.box.rows /\ e(q).status = dialog.box.status
  BY <1>2, <1>4 DEF Weather!Boxes
<1> HIDE DEF e
<1>6. BoxInv(part, e(q))
  BY <1>2, <1>4, <1>5 DEF BoxInv
<1> QED BY <1>1, <1>6, Drawn

LEMMA AnswerStep ==
    ASSUME NEW part, Weather(part)!ConstantsOK, DialogInv(part), Weather(part)!Answer
    PROVE  DialogInv(part)'
<1>1. PICK q \in dialog.box.searches : \E found \in Weather(part)!Outcomes(q) :
         LET b == [dialog.box EXCEPT !.searches = @ \ {q}]
         IN  Weather(part)!Draws(IF q.generation # b.generation THEN b ELSE Weather(part)!ShowRows(b, found))
  BY DEF Weather!Answer, Weather!box
<1> DEFINE b == [dialog.box EXCEPT !.searches = @ \ {q}]
<1>2. PICK found \in Weather(part)!Outcomes(q) :
         Weather(part)!Draws(IF q.generation # b.generation THEN b ELSE Weather(part)!ShowRows(b, found))
  BY <1>1
<1>3. /\ dialog.box \in Weather(part)!Boxes /\ BoxInv(part, dialog.box) /\ q \in Weather(part)!Queries
  BY DialogIsBox DEF Weather!Boxes
<1>4. /\ b \in Weather(part)!Boxes /\ b.searches = dialog.box.searches \ {q} /\ b.generation = dialog.box.generation
      /\ b.asked = dialog.box.asked /\ b.rows = dialog.box.rows /\ b.status = dialog.box.status
  BY <1>3 DEF Weather!Boxes
<1>5. found = {} \/ found = part.found[q.text]
  BY DEF Weather!Outcomes
<1> HIDE DEF b
<1>6. CASE q.generation # b.generation
  <2>1. BoxInv(part, b)
    BY <1>3, <1>4, <1>6 DEF BoxInv
  <2> QED BY <1>2, <1>6, <2>1, Drawn
<1>7. CASE q.generation = b.generation
  <2> DEFINE e == Weather(part)!ShowRows(b, found)
  <2>1. q.text \in DOMAIN part.found /\ q.text = b.asked
    BY <1>3, <1>4, <1>7 DEF BoxInv, Weather!Queries
  <2>2. found \subseteq part.places /\ b.asked # None
    BY <1>5, <2>1 DEF Weather!ConstantsOK, Weather!Texts
  <2>3. /\ e \in Weather(part)!Boxes /\ e.searches = b.searches /\ e.generation = b.generation /\ e.asked = b.asked
        /\ e.rows = found /\ e.status \in {"none", "hint"}
    BY <1>4, <2>2 DEF Weather!Boxes, Weather!ShowRows
  <2> HIDE DEF e
  <2>4. BoxInv(part, e)
    BY <1>3, <1>4, <1>5, <2>1, <2>2, <2>3 DEF BoxInv
  <2> QED BY <1>2, <1>7, <2>4, Drawn DEF e
<1> QED BY <1>6, <1>7

LEMMA EntryStep ==
    ASSUME NEW part, Weather(part)!ConstantsOK, DialogInv(part),
           Weather(part)!Select \/ Weather(part)!TypeCoordinates
    PROVE  DialogInv(part)'
<1>1. dialog.box \in Weather(part)!Boxes /\ BoxInv(part, dialog.box)
  BY DialogIsBox
<1>2. CASE Weather(part)!Select
  <2>1. PICK place \in dialog.box.rows :
           Weather(part)!Draws([dialog.box EXCEPT !.selected = place, !.entry = part.unnamed[place],
                                                  !.status = "hint"])
    BY <1>2 DEF Weather!Select, Weather!box
  <2> DEFINE e == [dialog.box EXCEPT !.selected = place, !.entry = part.unnamed[place], !.status = "hint"]
  <2>2. place \in part.places /\ part.unnamed[place] \in part.places
    BY <1>1 DEF Weather!Boxes, Weather!ConstantsOK
  <2>3. /\ e \in Weather(part)!Boxes /\ e.searches = dialog.box.searches /\ e.generation = dialog.box.generation
        /\ e.asked = dialog.box.asked /\ e.rows = dialog.box.rows /\ e.status = "hint"
    BY <1>1, <2>2 DEF Weather!Boxes
  <2> HIDE DEF e
  <2>4. BoxInv(part, e)
    BY <1>1, <2>3 DEF BoxInv
  <2> QED BY <2>1, <2>4, Drawn DEF e
<1>3. CASE Weather(part)!TypeCoordinates
  <2>1. PICK entry \in {part.unnamed[place] : place \in part.places} \cup {"nonsense"} :
           Weather(part)!Draws([dialog.box EXCEPT !.entry = entry])
    BY <1>3 DEF Weather!TypeCoordinates, Weather!box
  <2> DEFINE e == [dialog.box EXCEPT !.entry = entry]
  <2>2. entry \in part.places \cup {None, "nonsense"}
    BY <2>1 DEF Weather!ConstantsOK
  <2>3. /\ e \in Weather(part)!Boxes /\ e.searches = dialog.box.searches /\ e.generation = dialog.box.generation
        /\ e.asked = dialog.box.asked /\ e.rows = dialog.box.rows /\ e.status = dialog.box.status
    BY <1>1, <2>2 DEF Weather!Boxes
  <2> HIDE DEF e
  <2>4. BoxInv(part, e)
    BY <1>1, <2>3 DEF BoxInv
  <2> QED BY <2>1, <2>4, Drawn DEF e
<1> QED BY <1>2, <1>3

LEMMA SaveStep ==
    ASSUME NEW part, DialogInv(part), Weather(part)!Save \/ Weather(part)!Dismiss
    PROVE  DialogInv(part)'
<1>1. /\ dialog \in [box : Weather(part)!Boxes, sent : Seq(part.places)] /\ BoxInv(part, dialog.box)
      /\ dialog.box \in Weather(part)!Boxes /\ dialog.sent \in Seq(part.places)
  BY DialogIsBox
<1>2. CASE Weather(part)!Dismiss
  BY <1>1, <1>2, ClosedInv DEF Weather!Dismiss
<1>3. CASE Weather(part)!Save
  <2> DEFINE named == dialog.box.selected # None /\ part.unnamed[dialog.box.selected] = dialog.box.entry
             place == IF named THEN dialog.box.selected ELSE dialog.box.entry
  <2>1. dialog' = IF dialog.box.entry \in {None, "nonsense"} THEN [dialog EXCEPT !.box.status = "message"]
                  ELSE Weather(part)!Closed(Append(dialog.sent, place))
    BY <1>3 DEF Weather!Save, Weather!box
  <2>2. CASE dialog.box.entry \in {None, "nonsense"}
    <3> DEFINE e == [dialog.box EXCEPT !.status = "message"]
    <3>1. /\ e \in Weather(part)!Boxes /\ e.searches = dialog.box.searches /\ e.generation = dialog.box.generation
          /\ e.asked = dialog.box.asked /\ e.rows = dialog.box.rows /\ e.status = "message"
      BY <1>1 DEF Weather!Boxes
    <3>2. Weather(part)!Draws(e)
      BY <1>1, <2>1, <2>2 DEF Weather!Draws
    <3> HIDE DEF e
    <3>3. BoxInv(part, e)
      BY <1>1, <3>1 DEF BoxInv
    <3> QED BY <3>2, <3>3, Drawn
  <2>3. CASE dialog.box.entry \notin {None, "nonsense"}
    <3>1. place \in part.places
      BY <1>1, <2>3 DEF Weather!Boxes
    <3> HIDE DEF place
    <3>2. Append(dialog.sent, place) \in Seq(part.places)
      BY <1>1, <3>1
    <3> QED BY <2>1, <2>3, <3>2, ClosedInv
  <2> QED BY <2>2, <2>3
<1> QED BY <1>2, <1>3

LEMMA SavedStep ==
    ASSUME NEW part, Weather(part)!ConstantsOK, WeatherInv(part), Weather(part)!Saved
    PROVE  LoopKept(part) /\ DialogInv(part)'
<1>1. /\ dialog \in [box : Weather(part)!Boxes, sent : Seq(part.places)] /\ BoxInv(part, dialog.box)
      /\ dialog.sent \in Seq(part.places) /\ dialog.sent # <<>>
      /\ dialog' = [dialog EXCEPT !.sent = Tail(@)]
      /\ Weather(part)!Relocate(Head(dialog.sent))
  BY DialogIsBox DEF WeatherInv, Weather!Saved
<1>2. Head(dialog.sent) \in part.places /\ Tail(dialog.sent) \in Seq(part.places)
  BY <1>1
<1>3. dialog' \in [box : Weather(part)!Boxes, sent : Seq(part.places)] /\ dialog'.box = dialog.box
  BY <1>1, <1>2
<1>4. changes' \in Nat /\ LoopInv(part)
  BY DEF WeatherInv, LoopInv, Weather!LoopTypeOK, Weather!Saved
<1>5. LoopKept(part)
  BY <1>1, <1>2, <1>4, RelocateStep
<1>6. DialogInv(part)'
  BY <1>1, <1>3, DialogIsBox
<1> QED BY <1>5, <1>6

\* Every step of the weather, and one it does not take.
LEMMA WeatherKept ==
    ASSUME NEW part, Weather(part)!ConstantsOK, WeatherInv(part), Weather(part)!Next
    PROVE  WeatherInv(part)' /\ LoopKept(part)
<1>0. LoopInv(part) /\ DialogInv(part) /\ changes \in Nat
  BY DEF WeatherInv, LoopInv, Weather!LoopTypeOK
<1>1. UNCHANGED dialog => DialogInv(part)'
  BY <1>0, DialogIsBox
<1>2. CASE \/ Weather(part)!Due \/ Weather(part)!RefreshNow \/ Weather(part)!SettleGood
           \/ Weather(part)!SettleBad \/ Weather(part)!NetChanges \/ Weather(part)!SetOnline
  <2>1. UNCHANGED dialog
    BY <1>2 DEF Weather!Due, Weather!RefreshNow, Weather!SettleGood, Weather!SettleBad,
       Weather!NetChanges, Weather!SetOnline
  <2>2. LoopKept(part)
    BY <1>0, <1>2, LoopSteps
  <2> QED BY <1>1, <2>1, <2>2 DEF WeatherInv, LoopKept
<1>3. ASSUME NEW place \in part.places, Weather(part)!SetLocation(place)
      PROVE  WeatherInv(part)' /\ LoopKept(part)
  BY <1>0, <1>1, <1>3, ChoiceSteps DEF WeatherInv, LoopKept, Weather!SetLocation
<1>4. ASSUME NEW s \in part.settings, Weather(part)!Configure(s)
      PROVE  WeatherInv(part)' /\ LoopKept(part)
  BY <1>0, <1>1, <1>4, ChoiceSteps DEF WeatherInv, LoopKept, Weather!Configure
<1>5. CASE \/ Weather(part)!Present \/ Weather(part)!Search \/ Weather(part)!TakeSearch
           \/ Weather(part)!Answer \/ Weather(part)!Select
           \/ Weather(part)!TypeCoordinates \/ Weather(part)!Save \/ Weather(part)!Dismiss
           \/ \E text \in Weather(part)!Texts : Weather(part)!Type(text)
  <2>0. Weather(part)!Quiet
    BY <1>5, Zenon DEF Weather!Present, Weather!Search, Weather!TakeSearch, Weather!Answer, Weather!Select,
       Weather!TypeCoordinates, Weather!Save, Weather!Dismiss, Weather!Type
  <2>1. changes' = changes \/ changes' = changes + 1
    BY <1>5, Zenon DEF Weather!Present, Weather!Search, Weather!TakeSearch, Weather!Answer, Weather!Select,
       Weather!TypeCoordinates, Weather!Save, Weather!Dismiss, Weather!Type, Weather!ByUser
  <2>2. LoopKept(part)
    BY <1>0, <2>0, <2>1, QuietStep
  <2>3. DialogInv(part)'
    BY <1>0, <1>5, PresentStep, SearchStep, TakeSearchStep, AnswerStep, EntryStep, SaveStep, TypeStep
  <2> QED BY <2>2, <2>3 DEF WeatherInv, LoopKept
<1>6. CASE Weather(part)!Saved
  BY <1>6, SavedStep DEF WeatherInv, LoopKept
<1> QED BY <1>2, <1>3, <1>4, <1>5, <1>6 DEF Weather!Next

LEMMA WeatherStutters ==
    ASSUME NEW part, WeatherInv(part), UNCHANGED weatherVars
    PROVE  WeatherInv(part)' /\ LoopKept(part)
<1>1. UNCHANGED dialog /\ DialogInv(part)
  BY DEF weatherVars, WeatherInv
<1>2. DialogInv(part)'
  BY <1>1, DialogIsBox
<1>3. Weather(part)!Quiet /\ changes' \in Nat /\ LoopInv(part)
  BY DEF weatherVars, WeatherInv, LoopInv, Weather!Quiet, Weather!loop, Weather!LoopTypeOK
<1>4. LoopKept(part)
  BY <1>3, QuietStep
<1> QED BY <1>2, <1>4 DEF WeatherInv, LoopKept

-----------------------------------------------------------------------------
(* Crypto.                                                                 *)

CryptoInv ==
    /\ Crypto!TypeOK
    /\ Crypto!AlwaysAnotherFetch
    /\ Crypto!PhaseFitsPrices
    /\ Crypto!ChoiceOutranksSeed

\* The type invariant, a variable at a time.
CryptoTyped ==
    /\ interval \in Market.intervals
    /\ entries \in SUBSET Market.assets /\ seed \in SUBSET Market.assets
    /\ view \in SUBSET Market.assets /\ wanted \in SUBSET Market.assets
    /\ sent \in [SUBSET Market.assets -> Nat]
    /\ saved \in {None} \cup SUBSET Market.assets
    /\ chosen \in BOOLEAN /\ quotes \in BOOLEAN
    /\ cDue \in BOOLEAN /\ cRequest \in BOOLEAN /\ cDeferred \in BOOLEAN
    /\ cNet \in BOOLEAN /\ cOnline \in BOOLEAN
    /\ cPhase \in {"Loading", "Ready", "Stale", "Unavailable"}
    /\ cBackoff \in Nat /\ cChanges \in Nat

LEMMA CryptoTypes == (Crypto!TypeOK <=> CryptoTyped) /\ (Crypto!TypeOK' <=> CryptoTyped')
<1>1. Crypto!TypeOK <=> CryptoTyped
  BY Zenon DEF Crypto!TypeOK, CryptoTyped
<1>2. Crypto!TypeOK' <=> CryptoTyped'
  BY Zenon DEF Crypto!TypeOK, CryptoTyped
<1> QED BY <1>1, <1>2

LEMMA CryptoStarts ==
    ASSUME Crypto!ConstantsOK, Crypto!Init
    PROVE  CryptoInv
<1>1. /\ interval \in Market.intervals /\ seed \in SUBSET Market.assets
      /\ saved \in {None} \cup SUBSET Market.assets /\ entries = Crypto!Resolve(saved, seed)
      /\ view = entries /\ wanted = entries /\ sent = Crypto!NoMessage
      /\ cPhase = "Loading" /\ cBackoff = 0 /\ cChanges = 0
  BY DEF Crypto!Init
<1>2. /\ cDue \in BOOLEAN /\ cRequest \in BOOLEAN /\ cDeferred \in BOOLEAN /\ cNet \in BOOLEAN
      /\ cOnline \in BOOLEAN /\ quotes \in BOOLEAN /\ chosen \in BOOLEAN
      /\ cDue /\ ~quotes /\ (chosen <=> saved # None)
  BY Zenon DEF Crypto!Init
<1>3. entries \in SUBSET Market.assets /\ sent \in [SUBSET Market.assets -> Nat]
  BY <1>1 DEF Crypto!Resolve, Crypto!NoMessage
<1>4. CryptoTyped
  BY <1>1, <1>2, <1>3 DEF CryptoTyped
<1>5. Crypto!AlwaysAnotherFetch
  BY <1>2 DEF Crypto!AlwaysAnotherFetch
<1>6. Crypto!PhaseFitsPrices
  <2>1. cPhase \notin {"Ready", "Stale"}
    BY <1>1
  <2> QED BY <1>2, <2>1 DEF Crypto!PhaseFitsPrices
<1>7. Crypto!ChoiceOutranksSeed
  BY <1>1, <1>2 DEF Crypto!ChoiceOutranksSeed, Crypto!Resolve
<1> QED BY <1>4, <1>5, <1>6, <1>7, CryptoTypes DEF CryptoInv

LEMMA CryptoFetches ==
    ASSUME CryptoTyped, NEW on \in BOOLEAN, Crypto!Fetch(on)
    PROVE  /\ cDue' \in BOOLEAN /\ cRequest' \in BOOLEAN /\ cDeferred' \in BOOLEAN
           /\ cDue' \/ cRequest' \/ (cDeferred' /\ ~on)
<1>1. cRequest \in BOOLEAN /\ cDeferred \in BOOLEAN
  BY DEF CryptoTyped
<1>2. cDue' \in BOOLEAN /\ cRequest' \in BOOLEAN /\ cDeferred' \in BOOLEAN
  BY <1>1, Zenon DEF Crypto!Fetch
<1>3. ~on => cDeferred'
  BY Zenon DEF Crypto!Fetch
<1>4. on => cRequest'
  BY Zenon DEF Crypto!Fetch
<1> QED BY <1>2, <1>3, <1>4

\* What a step does to the schedule, and what is shown and chosen beside it.
LEMMA CryptoSchedules ==
    ASSUME CryptoInv, CryptoTyped', UNCHANGED <<interval, entries, chosen, seed, saved, quotes, cPhase>>,
           cDue' \/ cRequest' \/ (cDeferred' /\ ~cOnline')
    PROVE  CryptoInv'
<1>1. Crypto!PhaseFitsPrices' /\ Crypto!ChoiceOutranksSeed'
  BY DEF CryptoInv, Crypto!PhaseFitsPrices, Crypto!ChoiceOutranksSeed
<1>2. Crypto!AlwaysAnotherFetch'
  BY DEF Crypto!AlwaysAnotherFetch
<1> QED BY <1>1, <1>2, CryptoTypes DEF CryptoInv

LEMMA CryptoCycle ==
    ASSUME Crypto!ConstantsOK, CryptoInv,
           \/ Crypto!Due \/ Crypto!RefreshNow \/ Crypto!SettleGood \/ Crypto!SettleBad
           \/ Crypto!NetChanges \/ Crypto!SetOnline
    PROVE  CryptoInv'
<1>0. CryptoTyped /\ Crypto!AlwaysAnotherFetch /\ Crypto!PhaseFitsPrices /\ Crypto!ChoiceOutranksSeed
  BY CryptoTypes DEF CryptoInv
<1>0a. cOnline \in BOOLEAN /\ cNet \in BOOLEAN /\ cChanges \in Nat
  BY <1>0 DEF CryptoTyped
<1>1. CASE Crypto!Due \/ Crypto!RefreshNow
  <2>1. /\ Crypto!Fetch(cOnline)
        /\ UNCHANGED <<interval, entries, chosen, seed, saved, quotes, cPhase, cBackoff, cNet, cOnline,
                       view, sent, wanted>>
        /\ cChanges' \in Nat
    BY <1>0a, <1>1 DEF Crypto!Due, Crypto!RefreshNow, Crypto!Bounded, Crypto!settings, Crypto!cache, Crypto!panel
  <2>2. /\ cDue' \in BOOLEAN /\ cRequest' \in BOOLEAN /\ cDeferred' \in BOOLEAN
        /\ cDue' \/ cRequest' \/ (cDeferred' /\ ~cOnline)
    BY <1>0, <1>0a, <2>1, CryptoFetches
  <2>3. CryptoTyped'
    BY <1>0, <2>1, <2>2 DEF CryptoTyped
  <2> QED BY <2>1, <2>2, <2>3, CryptoSchedules
<1>2. CASE Crypto!SettleGood \/ Crypto!SettleBad
  <2>1. /\ UNCHANGED <<interval, entries, chosen, seed, saved, cDeferred, cNet, cOnline, view, sent, wanted,
                       cChanges>>
        /\ cPhase' \in {"Loading", "Ready", "Stale", "Unavailable"}
    BY <1>2 DEF Crypto!SettleGood, Crypto!SettleBad, Crypto!settings, Crypto!panel
  <2>2. /\ cDue' /\ cDue' \in BOOLEAN /\ cRequest' \in BOOLEAN /\ quotes' \in BOOLEAN
    <3>1. cDue' /\ cDue' \in BOOLEAN /\ cRequest' \in BOOLEAN
      BY <1>2, Zenon DEF Crypto!SettleGood, Crypto!SettleBad
    <3>2. quotes \in BOOLEAN
      BY <1>0 DEF CryptoTyped
    <3>3. quotes' \in BOOLEAN
      BY <1>2, <3>2, Zenon DEF Crypto!SettleGood, Crypto!SettleBad
    <3> QED BY <3>1, <3>3
  <2>3. cBackoff' \in Nat
    <3>1. interval \in Nat /\ cBackoff \in Nat
      BY <1>0 DEF CryptoTyped, Crypto!ConstantsOK
    <3>2. cBackoff' = 0 \/ cBackoff' = Crypto!Failed(interval, cBackoff)
      BY <1>2 DEF Crypto!SettleGood, Crypto!SettleBad, Crypto!Succeeded
    <3> QED BY <3>1, <3>2 DEF Crypto!Failed, Crypto!AtMost, Crypto!AtLeast, Crypto!BackoffStart
  <2>4. CryptoTyped'
    BY <1>0, <2>1, <2>2, <2>3 DEF CryptoTyped
  <2>5. Crypto!PhaseFitsPrices'
    <3>1. CASE Crypto!SettleGood
      <4>1. quotes' <=> TRUE
        BY <3>1, Zenon DEF Crypto!SettleGood
      <4>2. cPhase' \in {"Ready", "Stale"}
        BY <3>1 DEF Crypto!SettleGood
      <4> QED BY <2>2, <4>1, <4>2, Zenon DEF Crypto!PhaseFitsPrices
    <3>2. CASE Crypto!SettleBad
      <4>1. quotes' = quotes /\ cPhase' = IF quotes THEN "Stale" ELSE "Unavailable"
        BY <3>2 DEF Crypto!SettleBad
      <4>2. quotes => cPhase' \in {"Ready", "Stale"}
        BY <4>1
      <4>3. ~quotes => cPhase' \notin {"Ready", "Stale"}
        BY <4>1
      <4> QED BY <2>2, <4>1, <4>2, <4>3 DEF Crypto!PhaseFitsPrices
    <3> QED BY <1>2, <3>1, <3>2
  <2>6. Crypto!ChoiceOutranksSeed' /\ Crypto!AlwaysAnotherFetch'
    BY <1>0, <2>1, <2>2 DEF Crypto!ChoiceOutranksSeed, Crypto!AlwaysAnotherFetch
  <2> QED BY <2>4, <2>5, <2>6, CryptoTypes DEF CryptoInv
<1>3. CASE Crypto!NetChanges
  <2>1. /\ UNCHANGED <<interval, entries, chosen, seed, saved, quotes, cPhase, cBackoff, cDue, cRequest,
                       cDeferred, cOnline, view, sent, wanted>>
        /\ cChanges' \in Nat
    BY <1>0a, <1>3 DEF Crypto!NetChanges, Crypto!Bounded, Crypto!settings, Crypto!cache, Crypto!schedule,
       Crypto!panel
  <2>2. cNet' \in BOOLEAN
    BY <1>3, Zenon DEF Crypto!NetChanges
  <2>3. CryptoTyped'
    BY <1>0, <2>1, <2>2 DEF CryptoTyped
  <2>4. cDue' \/ cRequest' \/ (cDeferred' /\ ~cOnline')
    BY <1>0, <2>1 DEF Crypto!AlwaysAnotherFetch
  <2> QED BY <2>1, <2>3, <2>4, CryptoSchedules
<1>4. CASE Crypto!SetOnline
  <2>1. /\ cOnline' = cNet
        /\ UNCHANGED <<interval, entries, chosen, seed, saved, quotes, cPhase, cBackoff, cNet, view, sent,
                       wanted, cChanges>>
    BY <1>4 DEF Crypto!SetOnline, Crypto!settings, Crypto!cache, Crypto!panel
  <2>2. CASE cNet /\ cDeferred
    <3>1. Crypto!Fetch(cNet)
      BY <1>4, <2>2, Zenon DEF Crypto!SetOnline
    <3>2. /\ cDue' \in BOOLEAN /\ cRequest' \in BOOLEAN /\ cDeferred' \in BOOLEAN
          /\ cDue' \/ cRequest' \/ (cDeferred' /\ ~cNet)
      BY <1>0, <1>0a, <3>1, CryptoFetches
    <3>3. CryptoTyped'
      BY <1>0, <2>1, <3>2 DEF CryptoTyped
    <3> QED BY <2>1, <3>2, <3>3, CryptoSchedules
  <2>3. CASE ~(cNet /\ cDeferred)
    <3>1. UNCHANGED <<cDue, cRequest, cDeferred>>
      BY <1>4, <2>3 DEF Crypto!SetOnline, Crypto!schedule
    <3>2. CryptoTyped'
      BY <1>0, <2>1, <3>1 DEF CryptoTyped
    <3>3. cDue' \/ cRequest' \/ (cDeferred' /\ ~cOnline')
      BY <1>0, <1>0a, <2>1, <2>3, <3>1 DEF Crypto!AlwaysAnotherFetch
    <3> QED BY <2>1, <3>2, <3>3, CryptoSchedules
  <2> QED BY <2>2, <2>3
<1> QED BY <1>1, <1>2, <1>3, <1>4

LEMMA CryptoEdits ==
    ASSUME Crypto!ConstantsOK, CryptoInv,
           \/ \E picked \in SUBSET Market.assets : Crypto!SetEntries(picked)
           \/ \E i \in Market.intervals, picked \in SUBSET Market.assets \ {{}} : Crypto!Configure(i, picked)
           \/ \E asset \in Market.assets : Crypto!Click(asset)
           \/ Crypto!Render \/ Crypto!Restart
    PROVE  CryptoInv'
<1>0. CryptoTyped /\ Crypto!AlwaysAnotherFetch /\ Crypto!PhaseFitsPrices /\ Crypto!ChoiceOutranksSeed
  BY CryptoTypes DEF CryptoInv
<1>0a. cOnline \in BOOLEAN /\ cNet \in BOOLEAN /\ cChanges \in Nat /\ chosen \in BOOLEAN
  BY <1>0 DEF CryptoTyped
<1>1. ASSUME NEW picked \in SUBSET Market.assets, Crypto!SetEntries(picked)
      PROVE  CryptoInv'
  <2>1. /\ sent' = [sent EXCEPT ![picked] = @ - 1] /\ sent[picked] > 0 /\ entries' = picked
        /\ saved' = IF picked = entries THEN saved ELSE picked
        /\ UNCHANGED <<interval, seed, quotes, cPhase, cBackoff, cDue, cRequest, cDeferred, cNet, cOnline,
                       view, wanted, cChanges>>
    BY <1>1 DEF Crypto!SetEntries, Crypto!cache, Crypto!schedule
  <2>2. chosen' /\ chosen' \in BOOLEAN
    BY <1>1, Zenon DEF Crypto!SetEntries
  <2>3. sent' \in [SUBSET Market.assets -> Nat] /\ saved' \in {None} \cup SUBSET Market.assets
    BY <1>0, <2>1 DEF CryptoTyped
  <2>4. CryptoTyped'
    BY <1>0, <2>1, <2>2, <2>3 DEF CryptoTyped
  <2>5. /\ Crypto!ChoiceOutranksSeed' /\ Crypto!AlwaysAnotherFetch' /\ Crypto!PhaseFitsPrices'
    BY <1>0, <2>1, <2>2 DEF Crypto!ChoiceOutranksSeed, Crypto!AlwaysAnotherFetch, Crypto!PhaseFitsPrices
  <2> QED BY <2>4, <2>5, CryptoTypes DEF CryptoInv
<1>2. ASSUME NEW i \in Market.intervals, NEW picked \in SUBSET Market.assets, Crypto!Configure(i, picked)
      PROVE  CryptoInv'
  <2>1. /\ seed' = picked /\ interval' = i /\ entries' = IF chosen THEN entries ELSE picked
        /\ cBackoff' = IF i = interval THEN cBackoff ELSE 0
        /\ UNCHANGED <<chosen, saved, quotes, cPhase, cNet, cOnline, view, sent, wanted>>
        /\ cChanges' = cChanges + 1
    BY <1>2 DEF Crypto!Configure, Crypto!Bounded, Crypto!panel
  <2>2. /\ cDue' \in BOOLEAN /\ cRequest' \in BOOLEAN /\ cDeferred' \in BOOLEAN
        /\ cDue' \/ cRequest' \/ (cDeferred' /\ ~cOnline)
    <3>1. CASE i = interval
      <4>1. UNCHANGED <<cDue, cRequest, cDeferred>>
        BY <1>2, <3>1 DEF Crypto!Configure, Crypto!schedule
      <4> QED BY <1>0, <4>1 DEF CryptoTyped, Crypto!AlwaysAnotherFetch
    <3>2. CASE i # interval /\ quotes
      <4>1. cDue' /\ cDue' \in BOOLEAN /\ UNCHANGED <<cRequest, cDeferred>>
        BY <1>2, <3>2, Zenon DEF Crypto!Configure
      <4> QED BY <1>0, <4>1 DEF CryptoTyped
    <3>3. CASE i # interval /\ ~quotes
      <4>1. Crypto!Fetch(cOnline)
        BY <1>2, <3>3, Zenon DEF Crypto!Configure
      <4> QED BY <1>0, <1>0a, <4>1, CryptoFetches
    <3> QED BY <3>1, <3>2, <3>3
  <2>3. CryptoTyped'
    BY <1>0, <1>0a, <2>1, <2>2 DEF CryptoTyped
  <2>4. Crypto!ChoiceOutranksSeed'
    BY <1>0, <1>0a, <2>1 DEF Crypto!ChoiceOutranksSeed
  <2>5. Crypto!AlwaysAnotherFetch' /\ Crypto!PhaseFitsPrices'
    BY <1>0, <2>1, <2>2 DEF Crypto!AlwaysAnotherFetch, Crypto!PhaseFitsPrices
  <2> QED BY <2>3, <2>4, <2>5, CryptoTypes DEF CryptoInv
<1>3. ASSUME NEW asset \in Market.assets, Crypto!Click(asset)
      PROVE  CryptoInv'
  <2>1. /\ sent' = [sent EXCEPT ![Crypto!Flip(view, asset)] = @ + 1] /\ wanted' = Crypto!Flip(wanted, asset)
        /\ UNCHANGED <<interval, entries, chosen, seed, saved, quotes, cPhase, cBackoff, cDue, cRequest,
                       cDeferred, cNet, cOnline, view>>
        /\ cChanges' = cChanges + 1
    BY <1>3 DEF Crypto!Click, Crypto!Bounded, Crypto!settings, Crypto!cache, Crypto!schedule
  <2>2. wanted' \in SUBSET Market.assets /\ Crypto!Flip(view, asset) \in SUBSET Market.assets
    BY <1>0, <2>1 DEF CryptoTyped, Crypto!Flip
  <2>3. sent' \in [SUBSET Market.assets -> Nat]
    BY <1>0, <2>1, <2>2 DEF CryptoTyped
  <2>4. CryptoTyped'
    BY <1>0, <2>1, <2>2, <2>3 DEF CryptoTyped
  <2> QED BY <1>0, <2>1, <2>4, CryptoSchedules DEF Crypto!AlwaysAnotherFetch
<1>4. CASE Crypto!Render
  <2>1. /\ view' = entries
        /\ UNCHANGED <<interval, entries, chosen, seed, saved, quotes, cPhase, cBackoff, cDue, cRequest,
                       cDeferred, cNet, cOnline, sent, wanted, cChanges>>
    BY <1>4 DEF Crypto!Render, Crypto!settings, Crypto!cache, Crypto!schedule
  <2>2. CryptoTyped'
    BY <1>0, <2>1 DEF CryptoTyped
  <2> QED BY <1>0, <2>1, <2>2, CryptoSchedules DEF Crypto!AlwaysAnotherFetch
<1>5. CASE Crypto!Restart
  <2>1. /\ entries' = Crypto!Resolve(saved, seed) /\ view' = entries' /\ wanted' = entries'
        /\ sent' = Crypto!NoMessage /\ UNCHANGED <<interval, seed, saved, cNet>>
        /\ cPhase' = "Loading" /\ cBackoff' = 0 /\ cOnline' = cNet /\ cChanges' = cChanges + 1
    BY <1>5 DEF Crypto!Restart, Crypto!Fresh, Crypto!Bounded
  <2>2. /\ chosen' \in BOOLEAN /\ (chosen' <=> saved # None) /\ quotes' \in BOOLEAN /\ ~quotes'
        /\ cDue' /\ cDue' \in BOOLEAN /\ cRequest' \in BOOLEAN /\ cDeferred' \in BOOLEAN
    BY <1>5, Zenon DEF Crypto!Restart, Crypto!Fresh
  <2>3. entries' \in SUBSET Market.assets /\ sent' \in [SUBSET Market.assets -> Nat]
    BY <1>0, <2>1 DEF CryptoTyped, Crypto!Resolve, Crypto!NoMessage
  <2>4. CryptoTyped'
    BY <1>0, <1>0a, <2>1, <2>2, <2>3 DEF CryptoTyped
  <2>5. Crypto!ChoiceOutranksSeed' /\ Crypto!AlwaysAnotherFetch'
    BY <2>1, <2>2 DEF Crypto!ChoiceOutranksSeed, Crypto!Resolve, Crypto!AlwaysAnotherFetch
  <2>6. Crypto!PhaseFitsPrices'
    <3>1. cPhase' \notin {"Ready", "Stale"}
      BY <2>1
    <3> QED BY <2>2, <3>1 DEF Crypto!PhaseFitsPrices
  <2> QED BY <2>4, <2>5, <2>6, CryptoTypes DEF CryptoInv
<1> QED BY <1>1, <1>2, <1>3, <1>4, <1>5

LEMMA CryptoKept ==
    ASSUME Crypto!ConstantsOK, CryptoInv, Crypto!Next \/ UNCHANGED cryptoVars
    PROVE  CryptoInv'
<1>1. CASE Crypto!Next
  BY <1>1, CryptoCycle, CryptoEdits DEF Crypto!Next
<1>2. CASE UNCHANGED cryptoVars
  <2>1. CryptoTyped /\ Crypto!AlwaysAnotherFetch
    BY CryptoTypes DEF CryptoInv
  <2>2. CryptoTyped'
    BY <1>2, <2>1 DEF CryptoTyped, cryptoVars
  <2> QED BY <1>2, <2>1, <2>2, CryptoSchedules DEF Crypto!AlwaysAnotherFetch, cryptoVars
<1> QED BY <1>1, <1>2

-----------------------------------------------------------------------------
(* The custom widgets.                                                     *)

\* What holds of a task that somebody holds, with its script running or not.
TaskOK(task, running) ==
    /\ task.config \in Scripts.repeats => task.due \/ task.busy \/ (task.deferred /\ ~task.online)
    /\ task.loading => task.busy
    /\ task.busy => running

\* The numbers are given out in order, the registry and the bar hold tasks that were
\* spawned, and a placeholder is up only while the task's own script is out.
CustomInv ==
    /\ Custom!TypeOK
    /\ \E k \in Nat : Custom!Spawned = 1..k
    /\ {registry, held} \subseteq Custom!Spawned \cup {0}
    /\ Custom!RegistryFollows
    /\ \A n \in Custom!Alive : TaskOK(tasks[n], n \in scripts)

LEMMA CustomCounts ==
    ASSUME NEW k \in Nat
    PROVE  Custom!Cardinality(1..k) = k
<1>1. Custom!Cardinality(1..k) = Cardinality(1..k)
  BY DEF Custom!Cardinality, Cardinality
<1>2. Cardinality(1..k) = k
  BY FS_Interval
<1> QED BY <1>1, <1>2

\* A start, and the end of a script.
LEMMA StartedTask ==
    ASSUME NEW task \in Custom!Task
    PROVE  /\ Custom!Started(task) \in Custom!Task
           /\ Custom!Started(task).config = task.config
           /\ \/ Custom!Started(task).busy
              \/ Custom!Started(task).deferred /\ ~Custom!Started(task).online
           /\ (task.loading => task.busy) => (Custom!Started(task).loading => Custom!Started(task).busy)
<1>1. /\ task.due \in BOOLEAN /\ task.busy \in BOOLEAN /\ task.deferred \in BOOLEAN /\ task.online \in BOOLEAN
      /\ task.loading \in BOOLEAN /\ task.good \in BOOLEAN
  BY DEF Custom!Task
<1> QED BY <1>1 DEF Custom!Started, Custom!Task

LEMMA SettledTask ==
    ASSUME NEW task \in Custom!Task, NEW outcome
    PROVE  /\ Custom!Settled(task, outcome) \in Custom!Task
           /\ Custom!Settled(task, outcome).config = task.config
           /\ ~Custom!Settled(task, outcome).busy /\ ~Custom!Settled(task, outcome).loading
           /\ task.config \in Scripts.repeats => Custom!Settled(task, outcome).due
<1>1. task.good \in BOOLEAN /\ task.text \in BOOLEAN
  BY DEF Custom!Task
<1> DEFINE g == task.good \/ outcome # "failed"
           t == IF outcome = "failed" /\ task.good THEN task.text
                ELSE outcome = "value" \/ task.config \in Scripts.labelled
           d == task.config \in Scripts.repeats
<1>2. PICK b \in BOOLEAN : ~b /\ Custom!Settled(task, outcome) =
         [task EXCEPT !.busy = b, !.loading = b, !.good = g, !.text = t, !.due = d]
  BY Zenon DEF Custom!Settled
<1>3. g \in BOOLEAN
  BY Zenon
<1>4. t \in BOOLEAN
  <2>1. CASE outcome = "failed" /\ task.good
    BY <1>1, <2>1
  <2>2. CASE ~(outcome = "failed" /\ task.good)
    <3>1. t = (outcome = "value" \/ task.config \in Scripts.labelled)
      BY <2>2
    <3> QED BY <3>1, Zenon
  <2> QED BY <2>1, <2>2
<1>5. d \in BOOLEAN
  OBVIOUS
<1>6. task.config \in Scripts.repeats => d
  OBVIOUS
<1> HIDE DEF g, t, d
<1> DEFINE e == [task EXCEPT !.busy = b, !.loading = b, !.good = g, !.text = t, !.due = d]
<1>7. e \in Custom!Task /\ e.config = task.config /\ e.busy = b /\ e.loading = b /\ e.due = d
  BY <1>2, <1>3, <1>4, <1>5 DEF Custom!Task
<1> HIDE DEF e
<1> QED BY <1>2, <1>6, <1>7 DEF e

LEMMA FreshTask ==
    ASSUME NEW script \in Scripts.configs, NEW on \in BOOLEAN
    PROVE  /\ Custom!Fresh(script, on) \in Custom!Task /\ Custom!Fresh(script, on).config = script
           /\ \A running : TaskOK(Custom!Fresh(script, on), running)
<1>1. PICK f \in BOOLEAN : \E t \in BOOLEAN : ~f /\ t /\ Custom!Fresh(script, on) =
         [config |-> script, text |-> script \in Scripts.labelled, good |-> f, loading |-> f,
          due |-> t, busy |-> f, deferred |-> f, online |-> on]
  BY Zenon DEF Custom!Fresh
<1>2. PICK t \in BOOLEAN : t /\ Custom!Fresh(script, on) =
         [config |-> script, text |-> script \in Scripts.labelled, good |-> f, loading |-> f,
          due |-> t, busy |-> f, deferred |-> f, online |-> on]
  BY <1>1
<1> DEFINE l == script \in Scripts.labelled
<1>3. l \in BOOLEAN
  OBVIOUS
<1>4. Custom!Fresh(script, on) =
         [config |-> script, text |-> l, good |-> f, loading |-> f,
          due |-> t, busy |-> f, deferred |-> f, online |-> on]
  BY <1>2
<1> HIDE DEF l
<1>5. /\ Custom!Fresh(script, on) \in Custom!Task /\ Custom!Fresh(script, on).config = script
      /\ Custom!Fresh(script, on).due = t /\ Custom!Fresh(script, on).loading = f
      /\ Custom!Fresh(script, on).busy = f
  BY <1>3, <1>4 DEF Custom!Task
<1> QED BY <1>1, <1>2, <1>5 DEF TaskOK

LEMMA CustomStarts ==
    ASSUME Custom!ConstantsOK, Custom!Init
    PROVE  CustomInv
<1>1. /\ section \in Scripts.configs /\ sNet \in BOOLEAN /\ registry = 1 /\ held = 1 /\ scripts = {}
      /\ sChanges = 0 /\ Scripts.tasks \in Nat \ {0}
      /\ tasks = [n \in Custom!Numbers |-> IF n = 1 THEN Custom!Fresh(section, sNet) ELSE None]
      /\ None \notin Scripts.configs \cup Custom!Task
  BY DEF Custom!Init, Custom!ConstantsOK
<1>2. /\ Custom!Fresh(section, sNet) \in Custom!Task /\ Custom!Fresh(section, sNet).config = section
      /\ TaskOK(Custom!Fresh(section, sNet), 1 \in scripts)
  BY <1>1, FreshTask
<1>3. 1 \in Custom!Numbers /\ tasks \in [Custom!Numbers -> Custom!Task \cup {None}]
  BY <1>1, <1>2 DEF Custom!Numbers
<1>4. tasks[1] = Custom!Fresh(section, sNet) /\ \A n \in Custom!Numbers : n # 1 => tasks[n] = None
  BY <1>1, <1>3
<1>5. Custom!Spawned = 1..1
  BY <1>1, <1>2, <1>3, <1>4 DEF Custom!Spawned, Custom!Numbers
<1>6. Custom!TypeOK
  BY <1>1, <1>3, <1>5 DEF Custom!TypeOK
<1>7. Custom!RegistryFollows
  BY <1>1, <1>2, <1>4 DEF Custom!RegistryFollows
<1>8. \A n \in Custom!Alive : TaskOK(tasks[n], n \in scripts)
  BY <1>1, <1>2, <1>4 DEF Custom!Alive
<1> QED BY <1>1, <1>5, <1>6, <1>7, <1>8 DEF CustomInv

\* A step that changes one task, and its script.
LEMMA CustomOne ==
    ASSUME Custom!ConstantsOK, CustomInv, NEW n \in Custom!Alive, NEW e \in Custom!Task,
           tasks' = [tasks EXCEPT ![n] = e], e.config = tasks[n].config, TaskOK(e, n \in scripts'),
           \A x \in Custom!Spawned : x # n => (x \in scripts' <=> x \in scripts),
           scripts' \subseteq Custom!Spawned,
           UNCHANGED <<section, registry, held, sNet>>, sChanges' \in Nat
    PROVE  CustomInv'
<1>1. /\ tasks \in [Custom!Numbers -> Custom!Task \cup {None}] /\ n \in Custom!Spawned
      /\ n \in Custom!Numbers /\ n \in {registry, held} /\ None \notin Custom!Task
  BY DEF CustomInv, Custom!TypeOK, Custom!Alive, Custom!Spawned, Custom!ConstantsOK
<1>2. /\ tasks' \in [Custom!Numbers -> Custom!Task \cup {None}]
      /\ tasks'[n] = e /\ \A x \in Custom!Numbers : x # n => tasks'[x] = tasks[x]
  BY <1>1
<1>3. Custom!Spawned' = Custom!Spawned
  BY <1>1, <1>2 DEF Custom!Spawned
<1>4. Custom!Alive' = Custom!Alive
  BY <1>3 DEF Custom!Alive
<1>5. Custom!TypeOK'
  BY <1>2, <1>3 DEF CustomInv, Custom!TypeOK
<1>6. Custom!RegistryFollows'
  <2>1. registry # 0 => registry \in Custom!Numbers
    BY DEF CustomInv, Custom!Spawned
  <2> QED BY <1>2, <2>1 DEF CustomInv, Custom!RegistryFollows
<1>7. ASSUME NEW x \in Custom!Alive PROVE TaskOK(tasks'[x], x \in scripts')
  <2>1. x \in Custom!Spawned /\ x \in Custom!Numbers
    BY DEF Custom!Alive, Custom!Spawned
  <2>2. CASE x = n
    BY <1>2, <2>2
  <2>3. CASE x # n
    <3>1. tasks'[x] = tasks[x] /\ TaskOK(tasks[x], x \in scripts) /\ (x \in scripts' <=> x \in scripts)
      BY <1>2, <2>1, <2>3 DEF CustomInv
    <3> QED BY <3>1 DEF TaskOK
  <2> QED BY <2>2, <2>3
<1> QED BY <1>3, <1>4, <1>5, <1>6, <1>7 DEF CustomInv

\* A step that changes no task; those that are held may become fewer.
LEMMA CustomNone ==
    ASSUME CustomInv, UNCHANGED <<section, registry, tasks>>,
           held' \in {held, registry}, scripts' \subseteq scripts,
           \A x \in Custom!Alive : x \in scripts => x \in scripts',
           sNet' \in BOOLEAN, sChanges' \in Nat
    PROVE  CustomInv'
<1>1. Custom!Spawned' = Custom!Spawned
  BY DEF Custom!Spawned, Custom!Numbers
<1>2. Custom!Alive' \subseteq Custom!Alive
  BY <1>1 DEF Custom!Alive
<1>3. Custom!TypeOK'
  BY <1>1 DEF CustomInv, Custom!TypeOK, Custom!Numbers, Custom!Task
<1>4. Custom!RegistryFollows'
  BY DEF CustomInv, Custom!RegistryFollows
<1>5. ASSUME NEW x \in Custom!Alive' PROVE TaskOK(tasks'[x], x \in scripts')
  <2>1. x \in Custom!Alive /\ TaskOK(tasks[x], x \in scripts)
    BY <1>2 DEF CustomInv
  <2> QED BY <2>1 DEF TaskOK
<1> QED BY <1>1, <1>3, <1>4, <1>5 DEF CustomInv

\* A start keeps the placeholder's promise.
LEMMA CustomRuns ==
    ASSUME Custom!ConstantsOK, CustomInv, NEW n \in Custom!Alive, NEW task \in Custom!Task,
           task.config = tasks[n].config, task.loading => task.busy, task.busy = tasks[n].busy,
           Custom!Start(n, task), UNCHANGED <<section, registry, held, sNet>>, sChanges' \in Nat
    PROVE  CustomInv'
<1> DEFINE e == Custom!Started(task)
<1>1. /\ e \in Custom!Task /\ e.config = task.config
      /\ e.busy \/ (e.deferred /\ ~e.online)
      /\ e.loading => e.busy
  BY StartedTask
<1>2. /\ tasks' = [tasks EXCEPT ![n] = e]
      /\ scripts' = IF e.busy THEN scripts \cup {n} ELSE scripts
  BY DEF Custom!Start
<1>3. n \in Custom!Spawned /\ scripts \subseteq Custom!Spawned
  BY DEF CustomInv, Custom!TypeOK, Custom!Alive
<1> HIDE DEF e
<1>4. TaskOK(e, n \in scripts')
  BY <1>1, <1>2 DEF TaskOK
<1>5. scripts' \subseteq Custom!Spawned /\ \A x \in Custom!Spawned : x # n => (x \in scripts' <=> x \in scripts)
  BY <1>2, <1>3
<1> QED BY <1>1, <1>2, <1>4, <1>5, CustomOne

LEMMA CustomSteps ==
    ASSUME Custom!ConstantsOK, CustomInv, NEW n \in Custom!Numbers, NEW outcome,
           Custom!Tick(n) \/ Custom!Refresh(n) \/ Custom!SetOnline(n) \/ Custom!End(n, outcome)
    PROVE  CustomInv'
<1>1. n \in Custom!Alive => /\ tasks[n] \in Custom!Task /\ TaskOK(tasks[n], n \in scripts)
                            /\ n \in Custom!Spawned
  BY DEF CustomInv, Custom!TypeOK, Custom!Alive, Custom!Spawned
<1>2. sNet \in BOOLEAN /\ sChanges \in Nat /\ scripts \subseteq Custom!Spawned
  BY DEF CustomInv, Custom!TypeOK
<1>3. CASE Custom!Tick(n) \/ Custom!Refresh(n)
  <2>1. /\ n \in Custom!Alive /\ Custom!Start(n, tasks[n]) /\ UNCHANGED <<section, registry, held, sNet>>
        /\ sChanges' \in Nat
    BY <1>2, <1>3 DEF Custom!Tick, Custom!Refresh
  <2> QED BY <1>1, <2>1, CustomRuns DEF TaskOK
<1>4. CASE Custom!SetOnline(n)
  <2> DEFINE task == [tasks[n] EXCEPT !.online = sNet]
  <2>1. /\ n \in Custom!Alive /\ UNCHANGED <<section, registry, held, sNet, sChanges>>
        /\ IF sNet /\ task.deferred THEN Custom!Start(n, task)
           ELSE tasks' = [tasks EXCEPT ![n] = task] /\ UNCHANGED scripts
    BY <1>4 DEF Custom!SetOnline
  <2>2. /\ task \in Custom!Task /\ task.config = tasks[n].config /\ task.busy = tasks[n].busy
        /\ task.loading = tasks[n].loading /\ task.due = tasks[n].due
        /\ task.deferred = tasks[n].deferred /\ task.online = sNet
    BY <1>1, <1>2, <2>1 DEF Custom!Task
  <2> HIDE DEF task
  <2>3. CASE sNet /\ task.deferred
    BY <1>1, <1>2, <2>1, <2>2, <2>3, CustomRuns DEF TaskOK
  <2>4. CASE ~(sNet /\ task.deferred)
    <3>1. tasks' = [tasks EXCEPT ![n] = task] /\ scripts' = scripts
      BY <2>1, <2>4
    <3>2. TaskOK(task, n \in scripts')
      BY <1>1, <2>1, <2>2, <2>4, <3>1 DEF TaskOK
    <3> QED BY <1>2, <2>1, <2>2, <3>1, <3>2, CustomOne
  <2> QED BY <2>3, <2>4
<1>5. CASE Custom!End(n, outcome)
  <2>1. /\ n \in scripts /\ scripts' = scripts \ {n}
        /\ UNCHANGED <<section, registry, held, sNet, sChanges>>
    BY <1>5 DEF Custom!End
  <2>2. CASE n \in Custom!Alive
    <3> DEFINE e == Custom!Settled(tasks[n], outcome)
    <3>1. tasks' = [tasks EXCEPT ![n] = e]
      BY <1>5, <2>2 DEF Custom!End
    <3>2. /\ e \in Custom!Task /\ e.config = tasks[n].config /\ ~e.busy /\ ~e.loading
          /\ tasks[n].config \in Scripts.repeats => e.due
      BY <1>1, <2>2, SettledTask
    <3> HIDE DEF e
    <3>3. TaskOK(e, n \in scripts')
      BY <3>2 DEF TaskOK
    <3> QED BY <1>2, <2>1, <2>2, <3>1, <3>2, <3>3, CustomOne
  <2>3. CASE n \notin Custom!Alive
    <3>1. tasks' = tasks
      BY <1>5, <2>3 DEF Custom!End
    <3> QED BY <1>2, <2>1, <2>3, <3>1, CustomNone
  <2> QED BY <2>2, <2>3
<1> QED BY <1>3, <1>4, <1>5

\* A reload gives out the next number, and nobody holds the old task but the bar.
LEMMA CustomReloads ==
    ASSUME Custom!ConstantsOK, CustomInv, NEW script \in Scripts.configs \cup {None}, Custom!Sync(script)
    PROVE  CustomInv'
<1>1. /\ Custom!TypeOK /\ None \notin Custom!Task /\ None \notin Scripts.configs
      /\ section' = script /\ UNCHANGED <<held, scripts, sNet, sChanges>>
  BY DEF CustomInv, Custom!Sync, Custom!ConstantsOK
<1>2. CASE script = None
  <2>1. registry' = 0 /\ tasks' = tasks
    BY <1>2 DEF Custom!Sync
  <2>2. Custom!Spawned' = Custom!Spawned
    BY <2>1 DEF Custom!Spawned, Custom!Numbers
  <2>3. Custom!Alive' \subseteq Custom!Alive
    <3>1. 0 \notin Custom!Spawned
      BY DEF Custom!Spawned, Custom!Numbers
    <3> QED BY <1>1, <2>1, <2>2, <3>1 DEF Custom!Alive
  <2>4. Custom!TypeOK'
    BY <1>1, <1>2, <2>1, <2>2 DEF Custom!TypeOK, Custom!Numbers, Custom!Task, Custom!ConstantsOK
  <2>5. Custom!RegistryFollows'
    BY <1>1, <1>2, <2>1 DEF Custom!RegistryFollows
  <2> QED BY <1>1, <2>1, <2>2, <2>3, <2>4, <2>5 DEF CustomInv
<1>3. CASE script # None
  <2>1. PICK k \in Nat : Custom!Spawned = 1..k
    BY DEF CustomInv
  <2> DEFINE e == Custom!Fresh(script, sNet)
  <2>2. Custom!NextNumber = k + 1
    BY <2>1, CustomCounts DEF Custom!NextNumber
  <2>3. k + 1 \in Custom!Numbers /\ registry' = k + 1 /\ tasks' = [tasks EXCEPT ![k + 1] = e]
    BY <1>3, <2>2 DEF Custom!Sync
  <2>4. /\ e \in Custom!Task /\ e.config = script /\ TaskOK(e, k + 1 \in scripts)
    BY <1>1, <1>3, FreshTask DEF Custom!TypeOK
  <2> HIDE DEF e
  <2>5. /\ tasks \in [Custom!Numbers -> Custom!Task \cup {None}]
        /\ tasks' \in [Custom!Numbers -> Custom!Task \cup {None}]
        /\ tasks'[k + 1] = e /\ \A x \in Custom!Numbers : x # k + 1 => tasks'[x] = tasks[x]
    BY <1>1, <2>3, <2>4 DEF Custom!TypeOK
  <2>6. Custom!Spawned' = Custom!Spawned \cup {k + 1}
    BY <1>1, <2>3, <2>4, <2>5 DEF Custom!Spawned, Custom!Numbers
  <2>7. Custom!Spawned' = 1..(k + 1)
    BY <2>1, <2>6
  <2>8. Custom!TypeOK'
    <3>1. {registry', held'} \subseteq 0..Scripts.tasks
      BY <1>1, <2>3 DEF Custom!TypeOK, Custom!Numbers, Custom!ConstantsOK
    <3> QED BY <1>1, <2>5, <2>6, <3>1 DEF Custom!TypeOK, Custom!Numbers, Custom!Task
  <2>9. Custom!RegistryFollows'
    BY <1>1, <1>3, <2>3, <2>4, <2>5 DEF Custom!RegistryFollows
  <2>10. ASSUME NEW x \in Custom!Alive' PROVE TaskOK(tasks'[x], x \in scripts')
    <3>1. CASE x = k + 1
      BY <1>1, <2>4, <2>5, <3>1
    <3>2. CASE x # k + 1
      <4>1. x \in Custom!Alive /\ x \in Custom!Numbers
        BY <1>1, <2>3, <2>6, <3>2 DEF Custom!Alive, Custom!Spawned, Custom!Numbers
      <4>2. TaskOK(tasks[x], x \in scripts)
        BY <4>1 DEF CustomInv
      <4> QED BY <1>1, <2>5, <3>2, <4>1, <4>2
    <3> QED BY <3>1, <3>2
  <2>11. {registry', held'} \subseteq Custom!Spawned' \cup {0}
    BY <1>1, <2>3, <2>6 DEF CustomInv
  <2> QED BY <2>7, <2>8, <2>9, <2>10, <2>11 DEF CustomInv
<1> QED BY <1>2, <1>3

LEMMA CustomKept ==
    ASSUME Custom!ConstantsOK, CustomInv, Custom!Next \/ UNCHANGED customVars
    PROVE  CustomInv'
<1>1. sNet \in BOOLEAN /\ sChanges \in Nat
  BY DEF CustomInv, Custom!TypeOK
<1>2. CASE Custom!Rebuild
  BY <1>1, <1>2, CustomNone DEF Custom!Rebuild
<1>3. CASE Custom!NetChanges
  <2>1. sNet' \in BOOLEAN
    BY <1>3, Zenon DEF Custom!NetChanges
  <2> QED BY <1>1, <1>3, <2>1, CustomNone DEF Custom!NetChanges
<1>4. CASE UNCHANGED customVars
  BY <1>1, <1>4, CustomNone DEF customVars
<1>5. CASE Custom!Next
  BY <1>2, <1>3, <1>5, CustomReloads, CustomSteps DEF Custom!Next
<1> QED BY <1>4, <1>5

LEMMA CustomPromises ==
    ASSUME CustomInv
    PROVE  Custom!TypeOK /\ Custom!RegistryFollows /\ Custom!AlwaysAnotherRun /\ Custom!LoadingIsKept
BY DEF CustomInv, TaskOK, Custom!AlwaysAnotherRun, Custom!LoadingIsKept

-----------------------------------------------------------------------------
(* The update check.                                                       *)

UpdatesInv == Updates!TypeOK /\ Updates!AlwaysAnotherCheck /\ Updates!CheckingIsTrue

Counts == [source : Packages.configs \cup {None}, checking : BOOLEAN]

\* The type invariant, a variable at a time.
UpdatesTyped ==
    /\ config \in Packages.configs
    /\ uDue \in {"now", "later", "never"}
    /\ busy \in BOOLEAN /\ uDeferred \in BOOLEAN /\ uNet \in BOOLEAN /\ uOnline \in BOOLEAN
    /\ unanswered \in BOOLEAN
    /\ shown \in Counts
    /\ queue \in Seq(Packages.configs \cup {None}) /\ Len(queue) <= Packages.queue
    /\ uChanges \in Nat

LEMMA UpdatesTypes == (Updates!TypeOK <=> UpdatesTyped) /\ (Updates!TypeOK' <=> UpdatesTyped')
<1>1. Updates!TypeOK <=> UpdatesTyped
  BY Zenon DEF Updates!TypeOK, UpdatesTyped, Counts
<1>2. Updates!TypeOK' <=> UpdatesTyped'
  BY Zenon DEF Updates!TypeOK, UpdatesTyped, Counts
<1> QED BY <1>1, <1>2

LEMMA UpdatesStarts ==
    ASSUME Updates!ConstantsOK, Updates!Init
    PROVE  UpdatesInv
<1>1. /\ config \in Packages.configs /\ uDue = IF config \in Packages.runnable THEN "now" ELSE "never"
      /\ queue = <<>> /\ uChanges = 0 /\ Packages.queue \in Nat \ {0}
  BY DEF Updates!Init, Updates!ConstantsOK
<1>2. /\ busy \in BOOLEAN /\ uDeferred \in BOOLEAN /\ uNet \in BOOLEAN /\ uOnline \in BOOLEAN
      /\ unanswered \in BOOLEAN
  BY Zenon DEF Updates!Init
<1>3. PICK c \in BOOLEAN : ~c /\ shown = [source |-> None, checking |-> c]
  BY Zenon DEF Updates!Init
<1>4. shown \in Counts /\ ~shown.checking
  BY <1>3 DEF Counts
<1>5. UpdatesTyped
  BY <1>1, <1>2, <1>4 DEF UpdatesTyped
<1> QED BY <1>1, <1>4, <1>5, UpdatesTypes DEF UpdatesInv, Updates!AlwaysAnotherCheck, Updates!CheckingIsTrue

LEMMA UpdatesKept ==
    ASSUME Updates!ConstantsOK, UpdatesInv, Updates!Next \/ UNCHANGED updatesVars
    PROVE  UpdatesInv'
<1>0. /\ UpdatesTyped /\ Updates!AlwaysAnotherCheck /\ Updates!CheckingIsTrue
      /\ Packages.queue \in Nat \ {0}
  BY UpdatesTypes DEF UpdatesInv, Updates!ConstantsOK
<1> USE UpdatesTypes DEF UpdatesInv
<1>1. CASE Updates!Check
  <2>1. /\ ~busy /\ uDue' = "never" /\ UNCHANGED <<config, uNet, uOnline, queue, uChanges>>
    BY <1>1 DEF Updates!Check
  <2>2. CASE uOnline
    <3>1. busy' /\ busy' \in BOOLEAN /\ unanswered' \in BOOLEAN /\ uDeferred' = uDeferred
      BY <1>1, <2>2, Zenon DEF Updates!Check
    <3>2. PICK c \in BOOLEAN : shown' = [shown EXCEPT !.checking = c]
      BY <1>1, <2>2, Zenon DEF Updates!Check
    <3>3. shown' \in Counts
      BY <1>0, <3>2 DEF UpdatesTyped, Counts
    <3>4. UpdatesTyped'
      BY <1>0, <2>1, <3>1, <3>3 DEF UpdatesTyped, Counts
    <3> QED BY <3>1, <3>4 DEF Updates!AlwaysAnotherCheck, Updates!CheckingIsTrue
  <2>3. CASE ~uOnline
    <3>1. uDeferred' /\ uDeferred' \in BOOLEAN
      BY <1>1, <2>3, Zenon DEF Updates!Check
    <3>2. UNCHANGED <<busy, unanswered, shown>>
      BY <1>1, <2>3 DEF Updates!Check
    <3>3. UpdatesTyped'
      BY <1>0, <2>1, <3>1, <3>2 DEF UpdatesTyped, Counts
    <3> QED BY <1>0, <2>1, <2>3, <3>1, <3>2, <3>3 DEF Updates!AlwaysAnotherCheck, Updates!CheckingIsTrue
  <2> QED BY <2>2, <2>3
<1>2. ASSUME NEW ok \in BOOLEAN, Updates!Checked(ok)
      PROVE  UpdatesInv'
  <2>1. /\ uDue' = "later" /\ UNCHANGED <<config, uDeferred, uNet, uOnline, queue, unanswered, uChanges>>
    BY <1>2 DEF Updates!Checked
  <2>2. busy' \in BOOLEAN
    BY <1>2, Zenon DEF Updates!Checked
  <2>3. PICK c \in BOOLEAN : ~c /\ shown' = [source |-> IF ok THEN config ELSE None, checking |-> c]
    BY <1>2, Zenon DEF Updates!Checked
  <2>4. shown' \in Counts /\ ~shown'.checking
    BY <1>0, <2>3 DEF Counts, UpdatesTyped
  <2>5. UpdatesTyped'
    BY <1>0, <2>1, <2>2, <2>4 DEF UpdatesTyped, Counts
  <2> QED BY <2>1, <2>4, <2>5 DEF Updates!AlwaysAnotherCheck, Updates!CheckingIsTrue
<1>3. CASE Updates!NetChanges
  <2>1. UNCHANGED <<config, busy, uDue, uDeferred, uOnline, shown, queue, unanswered>> /\ uChanges' \in Nat
    BY <1>0, <1>3 DEF Updates!NetChanges, UpdatesTyped
  <2>2. uNet' \in BOOLEAN
    BY <1>3, Zenon DEF Updates!NetChanges
  <2>3. UpdatesTyped'
    BY <1>0, <2>1, <2>2 DEF UpdatesTyped, Counts
  <2> QED BY <1>0, <2>1, <2>3 DEF Updates!AlwaysAnotherCheck, Updates!CheckingIsTrue
<1>4. CASE Updates!SetOnline
  <2>1. uOnline' = uNet /\ UNCHANGED <<config, busy, uNet, shown, queue, unanswered, uChanges>>
    BY <1>4 DEF Updates!SetOnline
  <2>2. CASE uNet /\ uDeferred
    <3>1. uDeferred' \in BOOLEAN /\ uDue' = "now"
      BY <1>4, <2>2, Zenon DEF Updates!SetOnline
    <3>2. UpdatesTyped'
      BY <1>0, <2>1, <3>1 DEF UpdatesTyped, Counts
    <3> QED BY <1>0, <2>1, <3>1, <3>2 DEF Updates!AlwaysAnotherCheck, Updates!CheckingIsTrue
  <2>3. CASE ~(uNet /\ uDeferred)
    <3>1. uDeferred' = uDeferred /\ uDue' = uDue
      BY <1>4, <2>3, Zenon DEF Updates!SetOnline
    <3>2. UpdatesTyped'
      BY <1>0, <2>1, <3>1 DEF UpdatesTyped, Counts
    <3> QED BY <1>0, <2>1, <2>3, <3>1, <3>2 DEF Updates!AlwaysAnotherCheck, Updates!CheckingIsTrue
  <2> QED BY <2>2, <2>3
<1>5. ASSUME NEW command \in Packages.configs \cup {None}, Updates!Send(command)
      PROVE  UpdatesInv'
  <2>1. /\ UNCHANGED <<config, busy, uDue, uDeferred, uNet, uOnline, shown, unanswered>>
        /\ queue' = Append(queue, command) /\ Len(queue) < Packages.queue /\ uChanges' \in Nat
    BY <1>0, <1>5 DEF Updates!Send, UpdatesTyped
  <2>2. queue' \in Seq(Packages.configs \cup {None}) /\ Len(queue') <= Packages.queue
    BY <1>0, <2>1 DEF UpdatesTyped
  <2>3. UpdatesTyped'
    BY <1>0, <2>1, <2>2 DEF UpdatesTyped, Counts
  <2> QED BY <1>0, <2>1, <2>3 DEF Updates!AlwaysAnotherCheck, Updates!CheckingIsTrue
<1>6. CASE Updates!Receive
  <2>1. ~busy /\ queue # <<>> /\ queue' = Tail(queue) /\ UNCHANGED <<uNet, shown, uChanges>>
    BY <1>6 DEF Updates!Receive
  <2>2. /\ queue' \in Seq(Packages.configs \cup {None}) /\ Len(queue') <= Packages.queue
        /\ Head(queue) \in Packages.configs \cup {None}
    BY <1>0, <2>1 DEF UpdatesTyped
  <2>3. CASE Head(queue) # None
    <3>1. /\ config' = Head(queue) /\ uOnline' = uNet
          /\ uDue' = IF Head(queue) \in Packages.runnable THEN "now" ELSE "never"
      BY <1>6, <2>3 DEF Updates!Receive, Updates!Serve
    <3>2. busy' \in BOOLEAN /\ uDeferred' \in BOOLEAN /\ unanswered' \in BOOLEAN
      BY <1>6, <2>3, Zenon DEF Updates!Receive, Updates!Serve
    <3>3. UpdatesTyped'
      BY <1>0, <2>1, <2>2, <2>3, <3>1, <3>2 DEF UpdatesTyped, Counts
    <3> QED BY <1>0, <2>1, <3>1, <3>3 DEF Updates!AlwaysAnotherCheck, Updates!CheckingIsTrue
  <2>4. CASE Head(queue) = None
    <3>1. /\ uDue' = IF config \in Packages.runnable THEN "now" ELSE "never"
          /\ UNCHANGED <<config, busy, uDeferred, uOnline>>
      BY <1>6, <2>4 DEF Updates!Receive
    <3>2. unanswered' \in BOOLEAN
      <4>1. unanswered' = (config \in Packages.runnable)
        BY <1>6, <2>4 DEF Updates!Receive
      <4> QED BY <4>1
    <3>3. UpdatesTyped'
      BY <1>0, <2>1, <2>2, <3>1, <3>2 DEF UpdatesTyped, Counts
    <3> QED BY <1>0, <2>1, <3>1, <3>3 DEF Updates!AlwaysAnotherCheck, Updates!CheckingIsTrue
  <2> QED BY <2>3, <2>4
<1>7. CASE UNCHANGED updatesVars
  <2>1. UpdatesTyped'
    BY <1>0, <1>7 DEF UpdatesTyped, updatesVars, Counts
  <2> QED BY <1>0, <1>7, <2>1 DEF Updates!AlwaysAnotherCheck, Updates!CheckingIsTrue, updatesVars
<1> QED BY <1>1, <1>2, <1>3, <1>4, <1>5, <1>6, <1>7 DEF Updates!Next

-----------------------------------------------------------------------------
(* The inhibitor.                                                          *)

\* No descriptor is of a life that has not begun, and a command waits for the call
\* it made, with nothing held.
InhibitorInv ==
    /\ Inhibitor!TypeOK
    /\ owners < life
    /\ Inhibitor!ShownIsHeld
    /\ calling = "command" => ~active /\ lock = 0 /\ iQueue # <<>>

LEMMA InhibitorStarts ==
    ASSUME Inhibitor!ConstantsOK, Inhibitor!Init
    PROVE  InhibitorInv
<1>1. /\ life = 1 /\ owners = 0 /\ lock = 0 /\ iQueue = <<>> /\ calling = "no" /\ iAsked = 0
  BY DEF Inhibitor!Init
<1>2. up \in BOOLEAN /\ active \in BOOLEAN /\ answered \in BOOLEAN /\ ~active
  BY Zenon DEF Inhibitor!Init
<1>3. Inhibitor!TypeOK
  BY <1>1, <1>2 DEF Inhibitor!TypeOK, Inhibitor!ConstantsOK
<1>4. Inhibitor!ShownIsHeld
  BY <1>1, <1>2 DEF Inhibitor!ShownIsHeld
<1> QED BY <1>1, <1>3, <1>4 DEF InhibitorInv

LEMMA InhibitorKept ==
    ASSUME Inhibitor!ConstantsOK, InhibitorInv, Inhibitor!Next \/ UNCHANGED inhibitorVars
    PROVE  InhibitorInv'
<1>0. /\ life \in 1..Login.lives /\ up \in BOOLEAN /\ owners \in Nat /\ owners < life
      /\ lock \in 0..Login.lives /\ active \in BOOLEAN /\ answered \in BOOLEAN
      /\ iQueue \in Seq({"on", "off", "toggle"}) /\ Len(iQueue) <= Login.queue
      /\ calling \in {"no", "command", "owner"} /\ iAsked \in 0..Login.asks
      /\ calling = "no" => (active <=> lock # 0)
      /\ calling = "command" => ~active /\ lock = 0 /\ iQueue # <<>>
      /\ Login.lives \in Nat \ {0} /\ Login.asks \in Nat /\ Login.queue \in Nat \ {0}
  BY DEF InhibitorInv, Inhibitor!TypeOK, Inhibitor!ShownIsHeld, Inhibitor!ConstantsOK
<1>1. ASSUME /\ life' \in 1..Login.lives /\ up' \in BOOLEAN /\ owners' \in Nat /\ owners' < life'
             /\ lock' \in 0..Login.lives /\ active' \in BOOLEAN /\ answered' \in BOOLEAN
             /\ iQueue' \in Seq({"on", "off", "toggle"}) /\ Len(iQueue') <= Login.queue
             /\ calling' \in {"no", "command", "owner"} /\ iAsked' \in 0..Login.asks
             /\ calling' = "no" => (active' <=> lock' # 0)
             /\ calling' = "command" => ~active' /\ lock' = 0 /\ iQueue' # <<>>
      PROVE  InhibitorInv'
  <2>0. owners' \in 0..Login.lives
    <3>1. Login.lives \in Nat /\ life' \in 1..Login.lives /\ owners' \in Nat /\ owners' < life'
      BY <1>0, <1>1, Zenon
    <3> QED BY <3>1
  <2>1. Inhibitor!TypeOK'
    BY <1>1, <2>0, Zenon DEF Inhibitor!TypeOK
  <2>2. Inhibitor!ShownIsHeld'
    BY <1>1 DEF Inhibitor!ShownIsHeld
  <2> QED BY <1>1, <2>1, <2>2 DEF InhibitorInv
<1>2. CASE Inhibitor!Dies
  <2>1. UNCHANGED <<life, owners, lock, active, iQueue, answered, calling, iAsked>>
    BY <1>2 DEF Inhibitor!Dies
  <2>2. up' \in BOOLEAN
    BY <1>2, Zenon DEF Inhibitor!Dies
  <2> QED BY <1>0, <1>1, <2>1, <2>2
<1>3. CASE Inhibitor!Starts
  <2>1. /\ life < Login.lives /\ life' = life + 1 /\ owners' = owners + 1
        /\ UNCHANGED <<lock, active, iQueue, answered, calling, iAsked>>
    BY <1>3 DEF Inhibitor!Starts
  <2>2. up' \in BOOLEAN
    BY <1>3, Zenon DEF Inhibitor!Starts
  <2> QED BY <1>0, <1>1, <2>1, <2>2
<1>4. ASSUME NEW command \in {"on", "off", "toggle"}, Inhibitor!Send(command)
      PROVE  InhibitorInv'
  <2>1. /\ iAsked < Login.asks /\ iAsked' = iAsked + 1 /\ Len(iQueue) < Login.queue
        /\ iQueue' = Append(iQueue, command)
        /\ UNCHANGED <<life, up, owners, lock, active, answered, calling>>
    BY <1>4 DEF Inhibitor!Send
  <2>2. iQueue' \in Seq({"on", "off", "toggle"}) /\ Len(iQueue') <= Login.queue /\ iQueue' # <<>>
    BY <1>0, <2>1
  <2> QED BY <1>0, <1>1, <2>1, <2>2
<1>5. CASE Inhibitor!Receive
  <2>1. calling = "no" /\ iQueue # <<>> /\ UNCHANGED <<life, up, owners, iAsked>>
    BY <1>5 DEF Inhibitor!Receive
  <2> DEFINE on == Inhibitor!Wanted(Head(iQueue))
  <2>2. CASE on /\ lock = 0
    <3>1. calling' = "command" /\ UNCHANGED <<iQueue, lock, active, answered>>
      BY <1>5, <2>2 DEF Inhibitor!Receive
    <3> QED BY <1>0, <1>1, <2>1, <2>2, <3>1
  <2>3. CASE ~(on /\ lock = 0)
    <3>1. /\ iQueue' = Tail(iQueue) /\ lock' = IF on THEN lock ELSE 0
          /\ active' = on /\ answered' = on /\ calling' = calling
      BY <1>5, <2>3 DEF Inhibitor!Receive
    <3>2. on \in BOOLEAN
      BY Zenon DEF Inhibitor!Wanted
    <3>3. iQueue' \in Seq({"on", "off", "toggle"}) /\ Len(iQueue') <= Login.queue
      BY <1>0, <2>1, <3>1
    <3> HIDE DEF on
    <3> QED BY <1>0, <1>1, <2>1, <2>3, <3>1, <3>2, <3>3
  <2> QED BY <2>2, <2>3
<1>6. CASE Inhibitor!HearOwner
  <2>1. /\ calling = "no" /\ owners > 0 /\ owners' = owners - 1
        /\ UNCHANGED <<life, up, active, iQueue, answered, iAsked>>
        /\ \/ lock # 0 /\ lock' = 0 /\ calling' = "owner"
           \/ lock = 0 /\ lock' = lock /\ calling' = calling
    BY <1>6 DEF Inhibitor!HearOwner
  <2> QED BY <1>0, <1>1, <2>1
<1>7. ASSUME NEW ok \in BOOLEAN, Inhibitor!Return(ok)
      PROVE  InhibitorInv'
  <2>1. /\ calling # "no" /\ calling' = "no" /\ lock' = IF ok THEN life ELSE 0
        /\ iQueue' = IF calling = "command" THEN Tail(iQueue) ELSE iQueue
        /\ UNCHANGED <<life, up, owners, iAsked>>
    BY <1>7 DEF Inhibitor!Return
  <2>2. active' = IF calling = "owner" \/ ok THEN ok ELSE active
    BY <1>7 DEF Inhibitor!Return
  <2>3. answered' \in BOOLEAN
    <3>1. answered \in BOOLEAN
      BY <1>0
    <3> QED BY <1>7, <3>1, Zenon DEF Inhibitor!Return
  <2>4. active' \in BOOLEAN /\ (active' <=> lock' # 0)
    BY <1>0, <2>1, <2>2
  <2>5. iQueue' \in Seq({"on", "off", "toggle"}) /\ Len(iQueue') <= Login.queue
    BY <1>0, <2>1
  <2> QED BY <1>0, <1>1, <2>1, <2>3, <2>4, <2>5
<1>8. CASE UNCHANGED inhibitorVars
  BY <1>0, <1>1, <1>8 DEF inhibitorVars
<1> QED BY <1>2, <1>3, <1>4, <1>5, <1>6, <1>7, <1>8 DEF Inhibitor!Next, Inhibitor!Task

-----------------------------------------------------------------------------
(* The mail count.                                                         *)

Database == [uuid : 1..Inbox.changes, revision : 1..Inbox.changes, unread : BOOLEAN, age : 1..Inbox.changes]
MailCounts ==
    [available : {TRUE}, unread : BOOLEAN, age : 1..Inbox.changes]
    \cup {[available |-> FALSE, unread |-> FALSE, age |-> 0]}

\* Stamps are ordered: by the identity of the database first.
NotAfter(stamp, later) == stamp[1] < later[1] \/ (stamp[1] = later[1] /\ stamp[2] <= later[2])

\* The type invariant, a variable at a time.
NotmuchTyped ==
    /\ db \in Database /\ counted \in Database
    /\ step \in {"idle", "count", "search"}
    /\ listed \in (0..Inbox.changes) \X (0..Inbox.changes) /\ list \in 0..Inbox.changes
    /\ mShown \in MailCounts
    /\ mAsked \in 0..Inbox.asks

\* No stamp is ahead of the database, and a stamp that is the database's own was taken
\* of it as it is now.
StampsFit ==
    /\ db.uuid <= db.age /\ db.revision <= db.age
    /\ NotAfter(Notmuch!Stamp(counted), Notmuch!Stamp(db))
    /\ NotAfter(listed, Notmuch!Stamp(db))
    /\ Notmuch!Stamp(counted) = Notmuch!Stamp(db) => counted = db
    /\ counted.age <= db.age /\ mShown.age <= db.age
    /\ listed = Notmuch!Stamp(db) /\ list # 0 => list = db.age
    /\ listed = Notmuch!Stamp(db) /\ list = 0 => ~db.unread /\ ~mShown.unread
    /\ mShown.available /\ listed # Notmuch!Never /\ list # 0 => list >= mShown.age

NotmuchInv == Inbox.changes \in Nat \ {0} /\ NotmuchTyped /\ StampsFit

LEMMA NotmuchTypes ==
    /\ NotmuchTyped => Notmuch!TypeOK
    /\ NotmuchInv => Notmuch!TypeOK /\ Notmuch!ListIsNotOlder /\ Notmuch!EmptyIsReread
<1>1. NotmuchTyped => Notmuch!TypeOK
  BY Zenon DEF NotmuchTyped, Notmuch!TypeOK, Database, MailCounts
<1>2. StampsFit => Notmuch!ListIsNotOlder /\ Notmuch!EmptyIsReread
  BY DEF StampsFit, Notmuch!ListIsNotOlder, Notmuch!EmptyIsReread
<1> QED BY <1>1, <1>2 DEF NotmuchInv

\* What a count publishes, and what hides the widget.
LEMMA MailPublished ==
    ASSUME NEW d \in Database, Notmuch!Publish(d)
    PROVE  mShown' \in MailCounts /\ mShown'.age = d.age /\ (mShown'.unread <=> d.unread)
<1>1. d.unread \in BOOLEAN /\ d.age \in 1..Inbox.changes
  BY DEF Database
<1>2. mShown' = [available |-> TRUE, unread |-> d.unread, age |-> d.age]
  BY DEF Notmuch!Publish
<1>3. [available |-> TRUE, unread |-> d.unread, age |-> d.age] \in MailCounts
  BY <1>1, Zenon DEF MailCounts
<1> QED BY <1>2, <1>3

LEMMA MailHidden ==
    LET c == [available |-> FALSE, unread |-> FALSE, age |-> 0] IN
    c \in MailCounts /\ c.age = 0 /\ ~c.available /\ ~c.unread
<1>1. [available |-> FALSE, unread |-> FALSE, age |-> 0] \in MailCounts
  BY Zenon DEF MailCounts
<1> QED BY <1>1, Zenon

LEMMA NotmuchStarts ==
    ASSUME Notmuch!ConstantsOK, Notmuch!Init
    PROVE  NotmuchInv
<1>1. /\ Inbox.changes \in Nat \ {0} /\ Inbox.asks \in Nat
      /\ db \in [uuid : {1}, revision : {1}, unread : BOOLEAN, age : {1}]
      /\ step = "idle" /\ counted = db /\ listed = <<0, 0>> /\ list = 0 /\ mAsked = 0
  BY DEF Notmuch!Init, Notmuch!ConstantsOK, Notmuch!Never
<1>2. mShown \in MailCounts /\ mShown.age = 0 /\ ~mShown.available /\ ~mShown.unread
  BY MailHidden, Zenon DEF Notmuch!Init
<1>3. db \in Database /\ db.uuid = 1 /\ db.revision = 1 /\ db.age = 1
  BY <1>1 DEF Database
<1>4. NotmuchTyped
  BY <1>1, <1>2, <1>3 DEF NotmuchTyped
<1>5. StampsFit
  BY <1>1, <1>2, <1>3 DEF StampsFit, NotAfter, Notmuch!Stamp, Notmuch!Never
<1> QED BY <1>1, <1>4, <1>5 DEF NotmuchInv

\* Mail arrives, or the database is rebuilt: no stamp is of the new contents.
LEMMA MailMoves ==
    ASSUME NotmuchInv, NEW e \in Database, db' = e,
           e.uuid <= e.age, e.revision <= e.age, e.age = db.age + 1,
           \/ e.uuid = db.uuid /\ e.revision = db.revision + 1
           \/ e.uuid = db.uuid + 1,
           UNCHANGED <<step, counted, listed, list, mShown, mAsked>>
    PROVE  NotmuchInv'
<1>1. NotmuchTyped'
  BY DEF NotmuchInv, NotmuchTyped, Database, MailCounts
<1>2. /\ db.uuid \in Nat /\ db.revision \in Nat /\ db.age \in Nat
      /\ counted.uuid \in Nat /\ counted.revision \in Nat /\ counted.age \in Nat
      /\ listed = <<listed[1], listed[2]>> /\ listed[1] \in Nat /\ listed[2] \in Nat
      /\ e.uuid \in Nat /\ e.revision \in Nat
  BY DEF NotmuchInv, NotmuchTyped, Database
<1>3. mShown.age \in Nat
  <2>1. CASE mShown \in [available : {TRUE}, unread : BOOLEAN, age : 1..Inbox.changes]
    <3>1. mShown.age \in 1..Inbox.changes
      BY <2>1, Zenon
    <3> QED BY <3>1 DEF NotmuchInv
  <2>2. CASE mShown = [available |-> FALSE, unread |-> FALSE, age |-> 0]
    BY <2>2, MailHidden
  <2> QED BY <2>1, <2>2 DEF NotmuchInv, NotmuchTyped, MailCounts
<1>4. /\ NotAfter(Notmuch!Stamp(counted), Notmuch!Stamp(db)) /\ NotAfter(listed, Notmuch!Stamp(db))
      /\ counted.age <= db.age /\ mShown.age <= db.age
      /\ mShown.available /\ listed # Notmuch!Never /\ list # 0 => list >= mShown.age
  BY DEF NotmuchInv, StampsFit
<1>5. /\ NotAfter(Notmuch!Stamp(counted), Notmuch!Stamp(e)) /\ Notmuch!Stamp(counted) # Notmuch!Stamp(e)
  BY <1>2, <1>4 DEF NotAfter, Notmuch!Stamp
<1>6. /\ NotAfter(listed, Notmuch!Stamp(e)) /\ listed # Notmuch!Stamp(e)
  BY <1>2, <1>4 DEF NotAfter, Notmuch!Stamp
<1>7. StampsFit'
  BY <1>2, <1>3, <1>4, <1>5, <1>6 DEF StampsFit, NotAfter, Notmuch!Stamp, Notmuch!Never
<1> QED BY <1>1, <1>7 DEF NotmuchInv

LEMMA NotmuchKept ==
    ASSUME Notmuch!ConstantsOK, NotmuchInv, Notmuch!Next \/ UNCHANGED notmuchVars
    PROVE  NotmuchInv'
<1>0. /\ NotmuchTyped /\ StampsFit /\ Inbox.changes \in Nat \ {0} /\ Inbox.asks \in Nat
      /\ db \in Database /\ counted \in Database /\ db.unread \in BOOLEAN /\ counted.unread \in BOOLEAN
      /\ db.age \in 1..Inbox.changes /\ counted.age \in 1..Inbox.changes
      /\ db.uuid \in 1..Inbox.changes /\ db.revision \in 1..Inbox.changes
      /\ counted.uuid \in 1..Inbox.changes /\ counted.revision \in 1..Inbox.changes
  BY DEF NotmuchInv, NotmuchTyped, Notmuch!ConstantsOK, Database
<1>0a. /\ Notmuch!Stamp(db) \in (0..Inbox.changes) \X (0..Inbox.changes)
       /\ Notmuch!Stamp(counted) \in (0..Inbox.changes) \X (0..Inbox.changes)
       /\ Notmuch!Never \in (0..Inbox.changes) \X (0..Inbox.changes)
       /\ Notmuch!Stamp(db) # Notmuch!Never
       /\ NotAfter(Notmuch!Never, Notmuch!Stamp(db)) /\ NotAfter(Notmuch!Stamp(db), Notmuch!Stamp(db))
  BY <1>0 DEF Notmuch!Stamp, Notmuch!Never, NotAfter
<1>0c. /\ step \in {"idle", "count", "search"} /\ list \in 0..Inbox.changes /\ 0 \in 0..Inbox.changes
       /\ listed \in (0..Inbox.changes) \X (0..Inbox.changes) /\ mShown \in MailCounts
       /\ mAsked \in 0..Inbox.asks /\ db.age \in 0..Inbox.changes
  BY <1>0 DEF NotmuchTyped
<1>0b. db.uuid <= db.age /\ db.revision <= db.age
  BY <1>0 DEF StampsFit
<1>1. CASE Notmuch!Mail
  <2>1. PICK unread \in BOOLEAN :
           db' = [db EXCEPT !.revision = @ + 1, !.unread = unread, !.age = @ + 1]
    BY <1>1 DEF Notmuch!Mail
  <2> DEFINE e == [db EXCEPT !.revision = @ + 1, !.unread = unread, !.age = @ + 1]
  <2>2. db.age < Inbox.changes /\ UNCHANGED <<step, counted, listed, list, mShown, mAsked>>
    BY <1>1 DEF Notmuch!Mail
  <2>3. /\ db.revision + 1 \in 1..Inbox.changes /\ db.age + 1 \in 1..Inbox.changes
        /\ db.uuid <= db.age + 1 /\ db.revision + 1 <= db.age + 1
    BY <1>0, <1>0b, <2>2
  <2>4. e \in Database /\ e.age = db.age + 1 /\ e.uuid = db.uuid /\ e.revision = db.revision + 1
    BY <1>0, <2>3 DEF Database
  <2>5. db' = e
    BY <2>1
  <2> HIDE DEF e
  <2> QED BY <2>2, <2>3, <2>4, <2>5, MailMoves
<1>2. CASE Notmuch!Reindex
  <2>1. PICK unread \in BOOLEAN :
           db' = [uuid |-> db.uuid + 1, revision |-> 1, unread |-> unread, age |-> db.age + 1]
    BY <1>2 DEF Notmuch!Reindex
  <2> DEFINE e == [uuid |-> db.uuid + 1, revision |-> 1, unread |-> unread, age |-> db.age + 1]
  <2>2. db.age < Inbox.changes /\ UNCHANGED <<step, counted, listed, list, mShown, mAsked>>
    BY <1>2 DEF Notmuch!Reindex
  <2>3. /\ db.uuid + 1 \in 1..Inbox.changes /\ db.age + 1 \in 1..Inbox.changes /\ 1 \in 1..Inbox.changes
        /\ db.uuid + 1 <= db.age + 1 /\ 1 <= db.age + 1
    BY <1>0, <1>0b, <2>2
  <2>4. e \in Database /\ e.age = db.age + 1 /\ e.uuid = db.uuid + 1 /\ e.revision = 1
    BY <1>0, <2>3 DEF Database
  <2>5. db' = e
    BY <2>1
  <2> HIDE DEF e
  <2> QED BY <2>2, <2>3, <2>4, <2>5, MailMoves
<1>3. CASE Notmuch!Check \/ UNCHANGED notmuchVars
  <2>1. UNCHANGED <<db, counted, listed, list, mShown, mAsked>> /\ step' \in {"idle", "count", "search"}
    BY <1>0, <1>3 DEF Notmuch!Check, notmuchVars, NotmuchTyped
  <2>2. NotmuchTyped'
    BY <1>0, <2>1 DEF NotmuchTyped, Database, MailCounts
  <2>3. StampsFit'
    BY <1>0, <2>1 DEF StampsFit, Notmuch!Stamp, Notmuch!Never, NotAfter
  <2> QED BY <1>0, <2>2, <2>3 DEF NotmuchInv
<1>4. CASE Notmuch!CountFails
  <2>1. step' = "idle" /\ listed' = Notmuch!Never /\ list' = 0 /\ UNCHANGED <<db, counted, mAsked>>
    BY <1>4 DEF Notmuch!CountFails
  <2>2. mShown' \in MailCounts /\ mShown'.age = 0 /\ ~mShown'.available /\ ~mShown'.unread
    BY <1>4, MailHidden, Zenon DEF Notmuch!CountFails
  <2>3. NotmuchTyped'
    BY <1>0, <1>0a, <1>0c, <2>1, <2>2, Zenon DEF NotmuchTyped, Database, MailCounts
  <2>4. StampsFit'
    BY <1>0, <1>0a, <2>1, <2>2 DEF StampsFit, Notmuch!Stamp, Notmuch!Never, NotAfter
  <2> QED BY <1>0, <2>3, <2>4 DEF NotmuchInv
<1>5. CASE Notmuch!Counted
  <2>1. counted' = db /\ UNCHANGED <<db, mAsked>>
    BY <1>5 DEF Notmuch!Counted
  <2>2. Notmuch!Publish(db) => mShown' \in MailCounts /\ mShown'.age = db.age /\ (mShown'.unread <=> db.unread)
    BY <1>0, MailPublished
  <2>3. CASE listed = Notmuch!Stamp(db)
    <3>1. step' = "idle" /\ Notmuch!Publish(db) /\ listed' = listed /\ list' = list
      BY <1>5, <2>3, Zenon DEF Notmuch!Counted
    <3>2. NotmuchTyped'
      BY <1>0, <2>1, <2>2, <3>1 DEF NotmuchTyped, Database, MailCounts
    <3>3. StampsFit'
      BY <1>0, <1>0a, <2>1, <2>2, <2>3, <3>1 DEF StampsFit, Notmuch!Stamp, Notmuch!Never, NotAfter
    <3> QED BY <1>0, <3>2, <3>3 DEF NotmuchInv
  <2>4. CASE listed # Notmuch!Stamp(db) /\ ~db.unread
    <3>1. step' = "idle" /\ Notmuch!Publish(db) /\ listed' = Notmuch!Stamp(db) /\ list' = 0
      BY <1>5, <2>4, Zenon DEF Notmuch!Counted
    <3>2. NotmuchTyped'
      BY <1>0, <1>0a, <1>0c, <2>1, <2>2, <3>1, Zenon DEF NotmuchTyped, Database, MailCounts
    <3>3. StampsFit'
      BY <1>0, <1>0a, <2>1, <2>2, <2>4, <3>1 DEF StampsFit, Notmuch!Stamp, Notmuch!Never, NotAfter
    <3> QED BY <1>0, <3>2, <3>3 DEF NotmuchInv
  <2>5. CASE listed # Notmuch!Stamp(db) /\ db.unread
    <3>1. step' = "search" /\ UNCHANGED <<listed, list, mShown>>
      BY <1>5, <2>5, Zenon DEF Notmuch!Counted
    <3>2. NotmuchTyped'
      BY <1>0, <2>1, <3>1 DEF NotmuchTyped, Database, MailCounts
    <3>3. StampsFit'
      BY <1>0, <1>0a, <2>1, <2>5, <3>1 DEF StampsFit, Notmuch!Stamp, Notmuch!Never, NotAfter
    <3> QED BY <1>0, <3>2, <3>3 DEF NotmuchInv
  <2> QED BY <2>3, <2>4, <2>5
<1>6. ASSUME NEW ok \in BOOLEAN, Notmuch!Searched(ok)
      PROVE  NotmuchInv'
  <2>1. /\ step' = "idle" /\ UNCHANGED <<db, counted, mAsked>> /\ Notmuch!Publish(counted)
        /\ listed' = IF ok THEN Notmuch!Stamp(counted) ELSE Notmuch!Never
        /\ list' = IF ok /\ db.unread THEN db.age ELSE 0
    BY <1>6 DEF Notmuch!Searched
  <2>2. mShown' \in MailCounts /\ mShown'.age = counted.age /\ (mShown'.unread <=> counted.unread)
    BY <1>0, <2>1, MailPublished
  <2>3. NotmuchTyped'
    BY <1>0, <1>0a, <1>0c, <2>1, <2>2, Zenon DEF NotmuchTyped, Database, MailCounts
  <2>4. CASE ~ok
    <3>1. listed' = Notmuch!Never
      BY <2>1, <2>4
    <3> HIDE DEF MailCounts
    <3>2. StampsFit'
      BY <1>0, <1>0a, <2>1, <2>2, <2>4, <3>1 DEF StampsFit, Notmuch!Stamp, Notmuch!Never, NotAfter
    <3> QED BY <1>0, <2>3, <3>2 DEF NotmuchInv
  <2>5. CASE ok
    <3>1. listed' = Notmuch!Stamp(counted) /\ list' = IF db.unread THEN db.age ELSE 0
      BY <2>1, <2>5
    <3>2. StampsFit'
      BY <1>0, <1>0a, <2>1, <2>2, <2>5, <3>1 DEF StampsFit, Notmuch!Stamp, Notmuch!Never, NotAfter
    <3> QED BY <1>0, <2>3, <3>2 DEF NotmuchInv
  <2> QED BY <2>4, <2>5
<1>7. CASE Notmuch!Configure
  <2>1. /\ mAsked < Inbox.asks /\ mAsked' = mAsked + 1 /\ listed' = Notmuch!Never
        /\ UNCHANGED <<db, step, counted, list, mShown>>
    BY <1>7 DEF Notmuch!Configure
  <2>2. mAsked' \in 0..Inbox.asks
    <3>1. mAsked \in 0..Inbox.asks /\ Inbox.asks \in Nat
      BY <1>0 DEF NotmuchTyped
    <3> QED BY <2>1, <3>1
  <2>3. NotmuchTyped'
    BY <1>0, <1>0a, <1>0c, <2>1, <2>2, Zenon DEF NotmuchTyped, Database, MailCounts
  <2>4. StampsFit'
    BY <1>0, <1>0a, <2>1 DEF StampsFit, Notmuch!Stamp, Notmuch!Never, NotAfter
  <2> QED BY <1>0, <2>3, <2>4 DEF NotmuchInv
<1> QED BY <1>1, <1>2, <1>3, <1>4, <1>5, <1>6, <1>7 DEF Notmuch!Next

-----------------------------------------------------------------------------
(* Side by side.                                                           *)

\* The invariant of each; the weather's is about the part of it that is looked at.
AllInv ==
    /\ IF subject = "location" THEN WeatherInv(Dialog) ELSE WeatherInv(Card)
    /\ CryptoInv /\ CustomInv /\ UpdatesInv /\ NotmuchInv /\ InhibitorInv

LEMMA AllStart == Init => AllInv
<1> SUFFICES ASSUME Init PROVE AllInv
  OBVIOUS
<1>1. IF subject = "location" THEN WeatherInv(Dialog) ELSE WeatherInv(Card)
  BY ConstantsAssumption, WeatherStarts DEF Init
<1>2. CryptoInv /\ CustomInv /\ UpdatesInv /\ NotmuchInv /\ InhibitorInv
  BY ConstantsAssumption, CryptoStarts, CustomStarts, UpdatesStarts, NotmuchStarts, InhibitorStarts, Zenon
     DEF Init
<1> QED BY <1>1, <1>2 DEF AllInv

\* Whoever takes the step, each service takes one of its own or none.
LEMMA AllKept ==
    ASSUME AllInv, [Next]_vars
    PROVE  AllInv' /\ Weather(Card)!KeepsReading /\ Weather(Card)!AsksOnline
<1>1. /\ subject' = subject
      /\ IF subject = "location" THEN Weather(Dialog)!Next \/ UNCHANGED weatherVars
         ELSE Weather(Card)!Next \/ UNCHANGED weatherVars
      /\ Crypto!Next \/ UNCHANGED cryptoVars
      /\ Custom!Next \/ UNCHANGED customVars
      /\ Updates!Next \/ UNCHANGED updatesVars
      /\ Notmuch!Next \/ UNCHANGED notmuchVars
      /\ Inhibitor!Next \/ UNCHANGED inhibitorVars
  BY DEF Next, WeatherStep, LocationStep, CryptoStep, CustomStep, UpdatesStep, NotmuchStep, InhibitorStep,
     vars
<1>2. CryptoInv' /\ CustomInv' /\ UpdatesInv' /\ NotmuchInv' /\ InhibitorInv'
  BY <1>1, ConstantsAssumption, CryptoKept, CustomKept, UpdatesKept, NotmuchKept, InhibitorKept, Zenon
     DEF AllInv
<1>3. CASE subject = "location"
  <2>1. WeatherInv(Dialog)' /\ LoopKept(Dialog)
    BY <1>1, <1>3, ConstantsAssumption, WeatherKept, WeatherStutters DEF AllInv
  <2>2. Weather(Card)!KeepsReading /\ Weather(Card)!AsksOnline
    BY <2>1 DEF LoopKept, Weather!KeepsReading, Weather!AsksOnline
  <2> QED BY <1>1, <1>2, <1>3, <2>1, <2>2 DEF AllInv
<1>4. CASE subject # "location"
  <2>1. WeatherInv(Card)' /\ LoopKept(Card)
    BY <1>1, <1>4, ConstantsAssumption, WeatherKept, WeatherStutters DEF AllInv
  <2> QED BY <1>1, <1>2, <1>4, <2>1 DEF AllInv, LoopKept
<1> QED BY <1>3, <1>4

\* The invariant holds whatever the services are asked and told, in any order.
THEOREM Invariance == Spec => []AllInv
<1>1. AllInv /\ [Next]_vars => AllInv'
  BY AllKept
<1> QED BY AllStart, <1>1, PTL DEF Spec

\* Every variable has its type.
THEOREM TypeCorrect == Spec => []TypeOK
<1>1. AllInv => TypeOK
  BY CryptoTypes, UpdatesTypes, NotmuchTypes, CustomPromises
     DEF AllInv, TypeOK, WeatherInv, LoopInv, DialogInv, Weather!TypeOK, CryptoInv, UpdatesInv, InhibitorInv
<1> QED BY Invariance, <1>1, PTL

\* Nothing that is read again and again is read for the last time.
THEOREM KeepTrying == Spec => []KeepsTrying
<1>1. AllInv => KeepsTrying
  BY CustomPromises
     DEF AllInv, KeepsTrying, WeatherInv, LoopInv, CryptoInv, UpdatesInv, Weather!AlwaysAnotherFetch
<1> QED BY Invariance, <1>1, PTL

\* What is published is what the task has.
THEOREM SnapshotsTrue == Spec => []SnapshotsFit
<1>1. AllInv => SnapshotsFit
  BY CustomPromises, NotmuchTypes
     DEF AllInv, SnapshotsFit, WeatherInv, DialogInv, CryptoInv, UpdatesInv, InhibitorInv
<1> QED BY Invariance, <1>1, PTL

\* The running file decides what runs, but loses to a list the user picked.
THEOREM ChoiceHolds == Spec => []FileAndChoice
<1>1. AllInv => FileAndChoice
  BY CustomPromises DEF AllInv, FileAndChoice, CryptoInv
<1> QED BY Invariance, <1>1, PTL

\* A failure takes no reading off the card, and an offline task asks nothing.
THEOREM QuietOnFailure == Spec => QuietWhenItFails
<1>1. AllInv /\ [Next]_vars => [Weather(Card)!KeepsReading]_phase
  BY AllKept
<1>2. AllInv /\ [Next]_vars => [Weather(Card)!AsksOnline]_request
  BY AllKept
<1> QED BY Invariance, <1>1, <1>2, PTL DEF Spec, QuietWhenItFails
=============================================================================

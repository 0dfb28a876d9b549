---------------------------- MODULE SurfacesProofs ----------------------------
(***************************************************************************)
(* What is proved of reloads and of the bars, for any files, any monitors  *)
(* and any number of saves, commands and hotplugs.  That a file which      *)
(* stops changing is installed, and that syncs stop (liveness), stays with *)
(* the model checker.                                                      *)
(***************************************************************************)
EXTENDS PanelSurfaces, SequencesExt, SequenceTheorems, FiniteSetTheorems, TLAPS

-----------------------------------------------------------------------------
(* Lists.                                                                  *)

(* A list without repetition is as long as what it names is many. *)
LEMMA InjectiveCounts ==
    ASSUME NEW S, NEW s \in Seq(S), IsInjective(s)
    PROVE  Cardinality(Range(s)) = Len(s)
<1>1. Len(s) \in Nat /\ DOMAIN s = 1..Len(s)
  OBVIOUS
<1>2. s \in Bijection(1..Len(s), Range(s))
  BY <1>1 DEF Bijection, Injection, Surjection, IsInjective, Range
<1>3. ExistsBijection(1..Len(s), Range(s))
  BY <1>2 DEF ExistsBijection
<1> QED BY <1>1, <1>3, FS_CountingElements

(* A list without the entry at an index. *)
LEMMA RemoveAtProperties ==
    ASSUME NEW S, NEW s \in Seq(S), NEW i \in DOMAIN s
    PROVE  /\ RemoveAt(s, i) \in Seq(S)
           /\ Len(RemoveAt(s, i)) = Len(s) - 1
           /\ \A j \in DOMAIN RemoveAt(s, i) :
                 /\ j < i => j \in DOMAIN s /\ RemoveAt(s, i)[j] = s[j]
                 /\ j >= i => j + 1 \in DOMAIN s /\ RemoveAt(s, i)[j] = s[j + 1]
<1> DEFINE a == SubSeq(s, 1, i - 1)
           b == SubSeq(s, i + 1, Len(s))
<1>1. /\ Len(s) \in Nat /\ DOMAIN s = 1..Len(s) /\ i \in 1..Len(s)
      /\ \A j \in 1..Len(s) : s[j] \in S
  OBVIOUS
<1>2. a \in Seq(S) /\ Len(a) = i - 1 /\ \A j \in 1..i - 1 : a[j] = s[j]
  BY <1>1, SubSeqProperties
<1>3. /\ b \in Seq(S) /\ Len(b) = Len(s) - i
      /\ \A j \in 1..Len(s) - i : b[j] = s[i + j]
  BY <1>1, SubSeqProperties
<1>4. RemoveAt(s, i) = a \o b
  BY DEF RemoveAt
<1> HIDE DEF a, b
<1>5. /\ a \o b \in Seq(S) /\ Len(a \o b) = Len(a) + Len(b)
      /\ \A j \in 1..Len(a) : (a \o b)[j] = a[j]
      /\ \A j \in Len(a) + 1..Len(a) + Len(b) : (a \o b)[j] = b[j - Len(a)]
  <2>1. /\ a \o b \in Seq(S) /\ Len(a \o b) = Len(a) + Len(b)
        /\ \A j \in 1..Len(a) + Len(b) :
              (a \o b)[j] = IF j <= Len(a) THEN a[j] ELSE b[j - Len(a)]
    BY <1>2, <1>3, ConcatProperties
  <2>2. Len(a) \in Nat /\ Len(b) \in Nat
    BY <1>2, <1>3
  <2> QED BY <2>1, <2>2
<1>6. ASSUME NEW j \in 1..Len(s) - 1, j >= i
      PROVE  (a \o b)[j] = s[j + 1]
  <2>1. j \in Len(a) + 1..Len(a) + Len(b) /\ j - Len(a) \in 1..Len(s) - i
        /\ i + (j - Len(a)) = j + 1
    BY <1>1, <1>2, <1>3, <1>6
  <2> QED BY <1>3, <1>5, <2>1
<1>7. DOMAIN (a \o b) = 1..Len(s) - 1 /\ Len(a \o b) = Len(s) - 1
  <2>1. Len(a \o b) = Len(s) - 1
    BY <1>1, <1>2, <1>3, <1>5
  <2>2. DOMAIN (a \o b) = 1..Len(a \o b)
    BY <1>5
  <2> QED BY <2>1, <2>2
<1>8. ASSUME NEW j \in 1..Len(s) - 1, j < i
      PROVE  j \in DOMAIN s /\ (a \o b)[j] = s[j]
  BY <1>1, <1>2, <1>5, <1>8
<1>9. ASSUME NEW j \in 1..Len(s) - 1, j >= i
      PROVE  j + 1 \in DOMAIN s
  BY <1>1
<1> QED BY <1>4, <1>5, <1>6, <1>7, <1>8, <1>9

-----------------------------------------------------------------------------
(* A reload.                                                               *)

LEMMA ReloadStarts ==
    Reload!Init => Reload!TypeOK /\ Reload!RoutedIsDrawn
<1> SUFFICES ASSUME Reload!Init PROVE Reload!TypeOK /\ Reload!RoutedIsDrawn
  OBVIOUS
<1> USE ConstantsAssumption DEF Reload!ConstantsOK
<1>1. \A p \in Reload!Parts : drawn[p] = [s \in Reload!Reads[p] |-> Start[s]]
  BY DEF Reload!Init, Reload!Build
<1>2. \A p \in Reload!Parts : DOMAIN drawn[p] = Reload!Reads[p]
  BY <1>1
<1>3. Reload!TypeOK
  BY <1>2 DEF Reload!Init, Reload!TypeOK
<1>4. Reload!RoutedIsDrawn
  BY <1>1 DEF Reload!Init, Reload!RoutedIsDrawn
<1> QED BY <1>3, <1>4

(* A section that a part is rebuilt for and that an install finds changed   *)
(* has that part rebuilt.                                                   *)
LEMMA ChangedIsRebuilt ==
    ASSUME NEW old, NEW new, NEW p \in Reload!Parts,
           NEW s \in Reload!Reads[p] \ Reload!Unrouted[p], old[s] # new[s]
    PROVE  p \in Reload!Rebuilt(Reload!Delta(old, new), new)
<1> DEFINE delta == Reload!Delta(old, new)
<1>1. s \in delta
  BY ConstantsAssumption DEF Reload!ConstantsOK, Reload!Delta
<1> HIDE DEF delta
<1>2. p \in {"sheet", "motion", "bars", "labels", "workspaces", "clock", "weather", "osd"}
  BY DEF Reload!Parts, Reload!Reads
<1>3. /\ p = "sheet" => s \in {"bar", "styling", "colours", "states", "typography"}
      /\ p = "motion" => s = "animations"
      /\ p = "bars" => s \in {"bar", "layout"} \/ (BlurOffered /\ s = "blur")
      /\ p = "labels" => s \in {"advanced", "bar"}
      /\ p = "workspaces" => s \in {"workspaces", "bar"}
      /\ p = "clock" => s = "clock"
      /\ p = "weather" => s = "weather"
      /\ p = "osd" => s = "osd"
  <2>1. s \in Reload!Reads[p] /\ s \notin Reload!Unrouted[p]
    OBVIOUS
  <2>2. /\ Reload!Reads["sheet"] = {"bar", "styling", "colours", "states", "typography"}
        /\ Reload!Reads["motion"] = {"animations"}
        /\ Reload!Reads["bars"] = {"bar", "layout"} \cup IF BlurOffered THEN {"blur"} ELSE {}
        /\ Reload!Reads["labels"] = {"advanced", "typography", "bar"}
        /\ Reload!Reads["workspaces"] = {"workspaces", "states", "bar", "animations"}
        /\ Reload!Reads["clock"] = {"clock", "weather"}
        /\ Reload!Reads["weather"] = {"weather"}
        /\ Reload!Reads["osd"] = {"osd", "colours", "states"}
    BY DEF Reload!Reads
  <2>3. /\ p = "workspaces" => Reload!Unrouted[p] = {"states", "animations"}
        /\ p = "osd" => Reload!Unrouted[p] = {"colours", "states"}
        /\ p = "clock" => Reload!Unrouted[p] = {"weather"}
        /\ p = "labels" => Reload!Unrouted[p] = {"typography"}
    BY DEF Reload!Unrouted
  <2>4. p = "bars" => s \in {"bar", "layout"} \/ (BlurOffered /\ s = "blur")
    BY <2>1, <2>2
  <2> QED BY <2>1, <2>2, <2>3, <2>4
<1>4. p \in Reload!Parts /\ p \in Reload!Rebuilt(delta, new) <=>
        /\ p \in Reload!Parts
        /\ \/ p = "sheet" /\ Reload!Restyles(delta)
           \/ p = "motion" /\ "animations" \in delta
           \/ /\ p \notin {"sheet", "motion"}
              /\ Reload!RebuildsBars(delta) \/ Reload!BlurRebuilds(delta, new)
           \/ p \in Reload!Widgets \cup {"osd"} /\ p \in delta
  BY Zenon DEF Reload!Rebuilt
<1>5. p \in {"bars", "labels", "workspaces", "clock", "weather", "osd"}
        /\ s \in {"bar", "layout", "advanced"} => p \in Reload!Rebuilt(delta, new)
  BY <1>1, <1>4 DEF Reload!RebuildsBars
<1>6. p = "bars" /\ BlurOffered /\ s = "blur" => p \in Reload!Rebuilt(delta, new)
  BY <1>1, <1>4 DEF Reload!BlurRebuilds
<1>7. p = "sheet" => p \in Reload!Rebuilt(delta, new)
  BY <1>1, <1>3, <1>4 DEF Reload!Restyles
<1>8. p = "motion" => p \in Reload!Rebuilt(delta, new)
  BY <1>1, <1>3, <1>4
<1>9. p \in {"workspaces", "clock", "weather", "osd"} /\ s = p
        => p \in Reload!Rebuilt(delta, new)
  BY <1>1, <1>4 DEF Reload!Widgets
<1>10. p \in Reload!Rebuilt(delta, new)
  BY <1>2, <1>3, <1>5, <1>6, <1>7, <1>8, <1>9
<1> QED BY <1>10 DEF delta

LEMMA InstallKeepsDrawn ==
    ASSUME Reload!TypeOK, Reload!RoutedIsDrawn, NEW new \in Files, Reload!Install(new)
    PROVE  /\ config' \in Files
           /\ DOMAIN drawn' = Reload!Parts
           /\ \A p \in Reload!Parts : DOMAIN drawn'[p] = Reload!Reads[p]
           /\ plain' \subseteq Reload!Widgets
           /\ DOMAIN sent' = Reload!Services
           /\ Reload!RoutedIsDrawn'
<1> DEFINE rebuilt == Reload!Rebuilt(Reload!Delta(config, new), new)
<1>1. /\ config' = new
      /\ drawn' = [p \in Reload!Parts |->
                      IF p \in rebuilt THEN Reload!Build(p, new) ELSE drawn[p]]
      /\ plain' = IF "bars" \in rebuilt THEN {} ELSE plain \cup (rebuilt \cap Reload!Widgets)
      /\ DOMAIN sent' = Reload!Services
  BY DEF Reload!Install
<1> HIDE DEF rebuilt
<1>2. \A p \in Reload!Parts : DOMAIN Reload!Build(p, new) = Reload!Reads[p]
  BY DEF Reload!Build
<1>3. \A p \in Reload!Parts : DOMAIN drawn'[p] = Reload!Reads[p]
  BY <1>1, <1>2 DEF Reload!TypeOK
<1>4. plain' \subseteq Reload!Widgets
  BY <1>1 DEF Reload!TypeOK
<1>5. ASSUME NEW p \in Reload!Parts, NEW s \in Reload!Reads[p] \ Reload!Unrouted[p]
      PROVE  drawn'[p][s] = new[s]
  <2>1. CASE p \in rebuilt
    BY <1>1, <2>1 DEF Reload!Build
  <2>2. CASE p \notin rebuilt
    <3>1. drawn'[p][s] = config[s]
      BY <1>1, <2>2 DEF Reload!RoutedIsDrawn
    <3>2. config[s] = new[s]
      BY <2>2, ChangedIsRebuilt DEF rebuilt
    <3> QED BY <3>1, <3>2
  <2> QED BY <2>1, <2>2
<1> QED BY <1>1, <1>3, <1>4, <1>5 DEF Reload!RoutedIsDrawn

LEMMA ReloadSteps ==
    ASSUME Reload!TypeOK, Reload!RoutedIsDrawn, [Reload!Next]_(Reload!vars)
    PROVE  Reload!TypeOK' /\ Reload!RoutedIsDrawn'
<1> DEFINE Kept == UNCHANGED <<config, drawn, plain, sent>>
<1>1. ASSUME Kept, file' \in Files \cup {Nothing}, loaded' \in Files \cup {Nothing},
             DOMAIN told' = Reload!Services, events' \in 0..QueueLimit,
             watcher' \in {"idle", "settling", "reading", "read"},
             commands' \in Nat, saves' \in Nat
      PROVE  Reload!TypeOK' /\ Reload!RoutedIsDrawn'
  BY <1>1 DEF Reload!TypeOK, Reload!RoutedIsDrawn
<1> HIDE DEF Kept
<1>2. CASE UNCHANGED Reload!vars
  BY <1>1, <1>2 DEF Reload!vars, Reload!screen, Reload!watching, Reload!TypeOK, Kept
<1>3. ASSUME NEW s \in Reload!Services, Reload!Tell(s)
      PROVE  Reload!TypeOK' /\ Reload!RoutedIsDrawn'
  <2>1. /\ UNCHANGED <<file, config, drawn, plain, events, watcher, loaded, commands, saves>>
        /\ DOMAIN told' = DOMAIN told /\ DOMAIN sent' = DOMAIN sent
    BY <1>3 DEF Reload!Tell, Reload!screen, Reload!watching
  <2> QED BY <2>1 DEF Reload!TypeOK, Reload!RoutedIsDrawn
<1>4. CASE Reload!Command
  <2>1. /\ UNCHANGED <<file, told, events, watcher, loaded, saves>>
        /\ commands' = commands + 1
    BY <1>4 DEF Reload!Command, Reload!watching
  <2>2. CASE file = Nothing
    <3>1. Kept
      BY <1>4, <2>2 DEF Reload!Command, Reload!screen, Kept
    <3> QED BY <1>1, <2>1, <3>1 DEF Reload!TypeOK
  <2>3. CASE file # Nothing
    <3>1. file \in Files /\ Reload!Install(file)
      BY <1>4, <2>3 DEF Reload!Command, Reload!TypeOK
    <3> QED BY <2>1, <3>1, InstallKeepsDrawn DEF Reload!TypeOK
  <2> QED BY <2>2, <2>3
<1>5. ASSUME NEW new \in Files \cup {Nothing}, Reload!Save(new)
      PROVE  Reload!TypeOK' /\ Reload!RoutedIsDrawn'
  <2>1. /\ Kept /\ UNCHANGED <<told, watcher, loaded, commands>>
        /\ file' = new /\ saves' = saves + 1
        /\ events' = IF events < QueueLimit THEN events + 1 ELSE events
    BY <1>5 DEF Reload!Save, Reload!screen, Kept
  <2>2. events' \in 0..QueueLimit
    BY <2>1, ConstantsAssumption DEF Reload!ConstantsOK, Reload!TypeOK
  <2> QED BY <1>1, <2>1, <2>2 DEF Reload!TypeOK
<1>6. CASE Reload!Notice \/ Reload!Settle \/ Reload!Read
  <2>1. /\ Kept /\ UNCHANGED <<file, told, commands, saves>>
        /\ watcher' \in {"idle", "settling", "reading", "read"}
        /\ loaded' \in {loaded, file}
        /\ \/ events' \in {0, events}
           \/ events > 0 /\ events' = events - 1
    BY <1>6 DEF Reload!Notice, Reload!Settle, Reload!Read, Reload!screen, Reload!watching, Kept
  <2>2. events' \in 0..QueueLimit
    BY <2>1, ConstantsAssumption DEF Reload!ConstantsOK, Reload!TypeOK
  <2> QED BY <1>1, <2>1, <2>2 DEF Reload!TypeOK
<1>7. CASE Reload!InstallRead
  <2>1. /\ UNCHANGED <<file, told, events, commands, saves>>
        /\ watcher' = "idle" /\ loaded' = Nothing
    BY <1>7 DEF Reload!InstallRead
  <2>2. CASE loaded = Nothing
    <3>1. Kept
      BY <1>7, <2>2 DEF Reload!InstallRead, Reload!screen, Kept
    <3> QED BY <1>1, <2>1, <3>1 DEF Reload!TypeOK
  <2>3. CASE loaded # Nothing
    <3>1. loaded \in Files /\ Reload!Install(loaded)
      BY <1>7, <2>3 DEF Reload!InstallRead, Reload!TypeOK
    <3> QED BY <2>1, <3>1, InstallKeepsDrawn DEF Reload!TypeOK
  <2> QED BY <2>2, <2>3
<1> QED BY <1>2, <1>3, <1>4, <1>5, <1>6, <1>7 DEF Reload!Next, Reload!Watch

-----------------------------------------------------------------------------
(* The bars.                                                               *)

(* The operators Bars takes from the libraries are those of the libraries. *)
LEMMA SameCardinality == ASSUME NEW S PROVE Bars!Cardinality(S) = Cardinality(S)
  BY DEF Bars!Cardinality, Cardinality

LEMMA SameRemoveAt == ASSUME NEW s, NEW i PROVE Bars!RemoveAt(s, i) = RemoveAt(s, i)
  BY DEF Bars!RemoveAt, RemoveAt

Monitor == [object : 1..PlugBound, output : Connectors,
            name : Connectors \cup {Nothing}, sized : BOOLEAN]
Bar == [object : 1..PlugBound, shown : BOOLEAN]

\* No output is listed twice, and a monitor's name, once it has one, is its output.
Listed ==
    /\ \A i, j \in DOMAIN monitors : monitors[i].output = monitors[j].output => i = j
    /\ \A i \in DOMAIN monitors : monitors[i].name \in {monitors[i].output, Nothing}

LEMMA KeysDiffer ==
    ASSUME Bars!TypeOK, Listed
    PROVE  /\ \A i \in DOMAIN monitors : Bars!Key(i) \in Connectors \cup Nat
           /\ \A i, j \in DOMAIN monitors : Bars!Key(i) = Bars!Key(j) => i = j
<1>1. /\ monitors \in Seq(Monitor) /\ DOMAIN monitors = 1..Len(monitors)
      /\ Len(monitors) \in Nat
  BY DEF Bars!TypeOK, Monitor
<1>2. ASSUME NEW i \in DOMAIN monitors
      PROVE  /\ monitors[i].output \in Connectors
             /\ \/ monitors[i].name # Nothing /\ Bars!Key(i) = monitors[i].output
                \/ monitors[i].name = Nothing /\ Bars!Key(i) = i
             /\ i \in Nat
  <2>1. monitors[i] \in Monitor /\ i \in Nat
    BY <1>1
  <2> QED BY <2>1 DEF Listed, Bars!Key, Monitor
<1>3. \A c \in Connectors : c \notin Nat
  BY ConstantsAssumption DEF Bars!ConstantsOK
<1>4. \A i \in DOMAIN monitors : Bars!Key(i) \in Connectors \cup Nat
  BY <1>2
<1>5. ASSUME NEW i \in DOMAIN monitors, NEW j \in DOMAIN monitors, Bars!Key(i) = Bars!Key(j)
      PROVE  i = j
  BY <1>2, <1>3, <1>5 DEF Listed
<1> QED BY <1>4, <1>5

(* What a sync leaves is a bar for each key of a monitor not passed over,   *)
(* as it was if it was there.                                               *)
LEMMA SyncLeaves ==
    ASSUME Bars!TypeOK, Listed, NEW before,
           \A key \in DOMAIN before : before[key] \in Bar
    PROVE  /\ DOMAIN Bars!Synced(before) =
                 {Bars!Key(i) : i \in DOMAIN monitors \ Bars!Skipped}
           /\ DOMAIN Bars!Synced(before) \subseteq Connectors \cup Nat
           /\ \A key \in DOMAIN Bars!Synced(before) :
                 /\ Bars!Synced(before)[key] \in Bar
                 /\ key \in DOMAIN before => Bars!Synced(before)[key] = before[key]
<1> DEFINE present == {Bars!Key(i) : i \in DOMAIN monitors \ Bars!Skipped}
           first(key) == CHOOSE j \in DOMAIN monitors \ Bars!Skipped : Bars!Key(j) = key
           fresh(key) == [object |-> monitors[first(key)].object, shown |-> TRUE]
<1>1. Bars!Synced(before) =
         [key \in present |-> IF key \in DOMAIN before THEN before[key] ELSE fresh(key)]
  BY DEF Bars!Synced
<1>2. ASSUME NEW key \in present PROVE fresh(key) \in Bar
  <2>1. first(key) \in DOMAIN monitors
    <3>1. \E j \in DOMAIN monitors \ Bars!Skipped : Bars!Key(j) = key
      BY <1>2
    <3> HIDE DEF present
    <3> QED BY <3>1
  <2>2. monitors[first(key)].object \in 1..PlugBound
    <3>1. monitors \in Seq(Monitor)
      BY DEF Bars!TypeOK, Monitor
    <3> HIDE DEF first
    <3>2. monitors[first(key)] \in Monitor
      BY <2>1, <3>1
    <3> QED BY <3>2 DEF Monitor
  <2> HIDE DEF first
  <2> QED BY <2>2 DEF Bar
<1>3. present \subseteq Connectors \cup Nat
  BY KeysDiffer
<1> HIDE DEF present, fresh
<1>4. \A key \in present :
         Bars!Synced(before)[key] =
            IF key \in DOMAIN before THEN before[key] ELSE fresh(key)
  BY <1>1
<1>5. DOMAIN Bars!Synced(before) = present
  BY <1>1
<1> QED BY <1>2, <1>3, <1>4, <1>5 DEF present

(* A sync that passes nobody over leaves as many bars as monitors.          *)
LEMMA SyncCounts ==
    ASSUME Bars!TypeOK, Listed, Bars!Skipped = {}, NEW set,
           DOMAIN set = {Bars!Key(i) : i \in DOMAIN monitors \ Bars!Skipped}
    PROVE  Cardinality(DOMAIN set) = Len(monitors)
<1> DEFINE keys == [i \in 1..Len(monitors) |-> Bars!Key(i)]
<1>1. DOMAIN monitors = 1..Len(monitors) /\ Len(monitors) \in Nat
  BY DEF Bars!TypeOK
<1>2. keys \in Seq(Connectors \cup Nat) /\ Len(keys) = Len(monitors)
  BY <1>1, KeysDiffer
<1>3. IsInjective(keys)
  BY <1>1, KeysDiffer DEF IsInjective
<1>4. Range(keys) = DOMAIN set
  BY <1>1 DEF Range
<1> HIDE DEF keys
<1> QED BY <1>2, <1>3, <1>4, InjectiveCounts

BarsInv == Bars!TypeOK /\ Listed /\ Bars!OneBarEach

LEMMA BarsStart == Bars!Init => BarsInv
<1> SUFFICES ASSUME Bars!Init PROVE BarsInv
  OBVIOUS
<1>1. bars = [key \in {} |-> TRUE] /\ monitors = << >>
  BY DEF Bars!Init, Bars!NoBars
<1>2. DOMAIN bars = {} /\ Len(monitors) = 0 /\ DOMAIN monitors = {}
  BY <1>1
<1>3. Bars!TypeOK
  <2>1. pending \in BOOLEAN /\ wanted \in BOOLEAN
    BY Zenon DEF Bars!Init
  <2>2. plugged \in 0..PlugBound
    BY ConstantsAssumption DEF Bars!Init, Bars!ConstantsOK
  <2>3. waiting = "no" /\ asked = 0
    BY DEF Bars!Init
  <2> QED BY <1>1, <1>2, <2>1, <2>2, <2>3 DEF Bars!TypeOK
<1>4. Listed
  BY <1>2 DEF Listed
<1>5. Bars!OneBarEach
  <2>1. Cardinality({}) = 0
    BY FS_EmptySet
  <2> QED BY <1>2, <2>1, SameCardinality DEF Bars!OneBarEach
<1> QED BY <1>3, <1>4, <1>5 DEF BarsInv

(* Whatever touches neither the list nor the keys. *)
LEMMA SameListSameKeys ==
    ASSUME BarsInv, UNCHANGED <<monitors, plugged>>, DOMAIN bars' = DOMAIN bars,
           \A key \in DOMAIN bars' : bars'[key] \in Bar,
           pending' = pending, waiting' \in {"no", "short", "long"},
           wanted' \in BOOLEAN, asked' \in Nat
    PROVE  BarsInv'
<1>1. Bars!TypeOK'
  BY DEF BarsInv, Bars!TypeOK, Bar
<1>2. Listed' /\ Bars!OneBarEach'
  BY DEF BarsInv, Listed, Bars!OneBarEach
<1> QED BY <1>1, <1>2 DEF BarsInv

(* A sync, or a rebuild, which is a sync from nothing. *)
LEMMA SyncKeeps ==
    ASSUME BarsInv, UNCHANGED <<monitors, plugged, wanted>>, asked' \in Nat,
           NEW before, \A key \in DOMAIN before : before[key] \in Bar,
           DOMAIN bars' = DOMAIN Bars!Synced(before),
           \A key \in DOMAIN bars' : bars'[key] \in Bar,
           waiting' \in {"no", "short", "long"}, pending' \in BOOLEAN,
           ~pending' => Bars!Skipped = {}
    PROVE  BarsInv'
<1>1. Bars!TypeOK /\ Listed
  BY DEF BarsInv
<1>2. /\ DOMAIN bars' = {Bars!Key(i) : i \in DOMAIN monitors \ Bars!Skipped}
      /\ DOMAIN bars' \subseteq Connectors \cup Nat
  BY <1>1, SyncLeaves
<1>3. ~pending' => Cardinality(DOMAIN bars') = Len(monitors)
  BY <1>1, <1>2, SyncCounts
<1>4. Bars!TypeOK'
  BY <1>1, <1>2 DEF Bars!TypeOK, Bar
<1>5. Listed' /\ Bars!OneBarEach'
  BY <1>1, <1>3, SameCardinality DEF Listed, Bars!OneBarEach
<1> QED BY <1>4, <1>5 DEF BarsInv

LEMMA ShowAllKeeps ==
    ASSUME NEW set, \A key \in DOMAIN set : set[key] \in Bar, NEW shown \in BOOLEAN
    PROVE  /\ DOMAIN Bars!ShowAll(set, shown) = DOMAIN set
           /\ \A key \in DOMAIN set :
                 /\ Bars!ShowAll(set, shown)[key] \in Bar
                 /\ Bars!ShowAll(set, shown)[key].shown = shown
<1>1. Bars!ShowAll(set, shown) = [key \in DOMAIN set |-> [set[key] EXCEPT !.shown = shown]]
  BY DEF Bars!ShowAll
<1>2. ASSUME NEW key \in DOMAIN set
      PROVE  /\ [set[key] EXCEPT !.shown = shown] \in Bar
             /\ [set[key] EXCEPT !.shown = shown].shown = shown
  BY DEF Bar
<1> QED BY <1>1, <1>2

LEMMA SyncFiresKeeps == BarsInv /\ Bars!SyncFires => BarsInv'
<1> SUFFICES ASSUME BarsInv, Bars!SyncFires PROVE BarsInv'
  OBVIOUS
<1>1. /\ UNCHANGED <<monitors, plugged, wanted>> /\ asked' = asked
      /\ bars' = Bars!Synced(bars)
      /\ waiting' = IF Bars!Skipped = {} THEN "no"
                    ELSE IF waiting = "no" THEN "short" ELSE waiting
      /\ pending' <=> Bars!Skipped # {}
  BY DEF Bars!SyncFires, Bars!Waits
<1>2. pending' \in BOOLEAN
  BY Zenon DEF Bars!SyncFires, Bars!Waits
<1>3. Bars!TypeOK /\ Listed /\ \A key \in DOMAIN bars : bars[key] \in Bar
  BY DEF BarsInv, Bars!TypeOK, Bar
<1>4. \A key \in DOMAIN bars' : bars'[key] \in Bar
  BY <1>1, <1>3, SyncLeaves
<1>5. asked' \in Nat /\ waiting' \in {"no", "short", "long"}
  BY <1>1, <1>3 DEF Bars!TypeOK
<1> QED BY <1>1, <1>2, <1>3, <1>4, <1>5, SyncKeeps

LEMMA RebuildKeeps == BarsInv /\ Bars!Rebuild => BarsInv'
<1> SUFFICES ASSUME BarsInv, Bars!Rebuild PROVE BarsInv'
  OBVIOUS
<1> DEFINE made == Bars!Synced(Bars!NoBars)
<1>1. /\ UNCHANGED <<monitors, plugged, wanted>> /\ asked' = asked + 1
      /\ waiting' = IF Bars!Skipped = {} THEN "no"
                    ELSE IF waiting = "no" THEN "short" ELSE waiting
      /\ pending' <=> (pending \/ Bars!Skipped # {})
  BY DEF Bars!Rebuild
<1>2. bars' = IF Bars!AnyShown(bars) THEN made ELSE Bars!ShowAll(made, FALSE)
  BY DEF Bars!Rebuild
<1>3. pending' \in BOOLEAN
  BY Zenon DEF Bars!Rebuild
<1>4. Bars!TypeOK /\ Listed
  BY DEF BarsInv
<1>5. \A key \in DOMAIN Bars!NoBars : Bars!NoBars[key] \in Bar
  BY DEF Bars!NoBars
<1>6. \A key \in DOMAIN made : made[key] \in Bar
  BY <1>4, <1>5, SyncLeaves
<1> HIDE DEF made
<1>7. /\ DOMAIN bars' = DOMAIN made
      /\ \A key \in DOMAIN bars' : bars'[key] \in Bar
  <2>1. FALSE \in BOOLEAN
    OBVIOUS
  <2>2. CASE Bars!AnyShown(bars)
    BY <1>2, <1>6, <2>2
  <2>3. CASE ~Bars!AnyShown(bars)
    BY <1>2, <1>6, <2>1, <2>3, ShowAllKeeps
  <2> QED BY <2>2, <2>3
<1>8. asked' \in Nat /\ waiting' \in {"no", "short", "long"}
  BY <1>1, <1>4 DEF Bars!TypeOK
<1> QED BY <1>1, <1>3, <1>5, <1>7, <1>8, SyncKeeps DEF made

LEMMA SetVisibleKeeps ==
    ASSUME BarsInv, NEW visible \in BOOLEAN, Bars!SetBarsVisible(visible)
    PROVE  BarsInv'
<1>1. /\ UNCHANGED <<monitors, plugged, pending, waiting>> /\ asked' = asked + 1
      /\ bars' = Bars!ShowAll(bars, visible) /\ wanted' = visible
  BY DEF Bars!SetBarsVisible
<1>2. /\ \A key \in DOMAIN bars : bars[key] \in Bar
      /\ asked \in Nat /\ waiting \in {"no", "short", "long"}
  BY DEF BarsInv, Bars!TypeOK, Bar
<1>3. DOMAIN bars' = DOMAIN bars /\ \A key \in DOMAIN bars' : bars'[key] \in Bar
  BY <1>1, <1>2, ShowAllKeeps
<1> QED BY <1>1, <1>2, <1>3, SameListSameKeys

LEMMA PlugKeeps ==
    ASSUME BarsInv, NEW output \in Connectors, Bars!Plug(output)
    PROVE  BarsInv'
<1>1. PICK named \in BOOLEAN, size \in BOOLEAN :
         monitors' = Append(monitors,
            [object |-> plugged + 1, output |-> output,
             name |-> IF named THEN output ELSE Nothing, sized |-> size])
  BY DEF Bars!Plug
<1> DEFINE new == [object |-> plugged + 1, output |-> output,
                   name |-> IF named THEN output ELSE Nothing, sized |-> size]
           n == Len(monitors) + 1
<1>2. /\ plugged < PlugBound /\ plugged' = plugged + 1
      /\ UNCHANGED <<bars, waiting, wanted, asked>>
      /\ \A i \in DOMAIN monitors : monitors[i].output # output
  BY DEF Bars!Plug
<1>3. pending' \in BOOLEAN /\ pending'
  BY Zenon DEF Bars!Plug
<1>4. Bars!TypeOK /\ Listed /\ monitors \in Seq(Monitor)
  BY DEF BarsInv, Bars!TypeOK, Monitor
<1>5. plugged' \in 1..PlugBound
  BY <1>2, <1>4, ConstantsAssumption DEF Bars!TypeOK, Bars!ConstantsOK
<1>6. /\ new \in Monitor /\ new.output = output /\ new.name \in {output, Nothing}
  BY <1>2, <1>5 DEF Monitor
<1>7. monitors' = Append(monitors, new)
  BY <1>1
<1> HIDE DEF new
<1>8. /\ monitors' \in Seq(Monitor) /\ DOMAIN monitors' = 1..n /\ DOMAIN monitors = 1..n - 1
      /\ n \in Nat /\ monitors'[n] = new
      /\ \A i \in DOMAIN monitors : monitors'[i] = monitors[i]
  BY <1>4, <1>6, <1>7
<1> HIDE DEF n
<1>9. \A i \in DOMAIN monitors' : i = n \/ i \in DOMAIN monitors
  BY <1>8
<1>10. Listed'
  BY <1>2, <1>4, <1>6, <1>8, <1>9 DEF Listed
<1>11. Bars!TypeOK'
  BY <1>2, <1>3, <1>4, <1>5, <1>8 DEF Bars!TypeOK, Monitor
<1> QED BY <1>3, <1>10, <1>11 DEF BarsInv, Bars!OneBarEach

LEMMA UnplugKeeps ==
    ASSUME BarsInv, NEW i \in DOMAIN monitors, Bars!Unplug(i)
    PROVE  BarsInv'
<1>1. /\ monitors' = RemoveAt(monitors, i)
      /\ UNCHANGED <<plugged, bars, waiting, wanted, asked>>
  BY SameRemoveAt DEF Bars!Unplug
<1>2. pending' \in BOOLEAN /\ pending'
  BY Zenon DEF Bars!Unplug
<1>3. Bars!TypeOK /\ Listed /\ monitors \in Seq(Monitor)
  BY DEF BarsInv, Bars!TypeOK, Monitor
<1>4. /\ monitors' \in Seq(Monitor)
      /\ \A j \in DOMAIN monitors' :
            /\ j < i => j \in DOMAIN monitors /\ monitors'[j] = monitors[j]
            /\ j >= i => j + 1 \in DOMAIN monitors /\ monitors'[j] = monitors[j + 1]
  BY <1>1, <1>3, RemoveAtProperties
<1>5. DOMAIN monitors \subseteq Nat /\ DOMAIN monitors' \subseteq Nat
  BY <1>3, <1>4
<1>6. \A j \in DOMAIN monitors' : monitors'[j].name \in {monitors'[j].output, Nothing}
  BY <1>3, <1>4, <1>5 DEF Listed
<1>7. ASSUME NEW j \in DOMAIN monitors', NEW k \in DOMAIN monitors',
             monitors'[j].output = monitors'[k].output
      PROVE  j = k
  <2> DEFINE at(l) == IF l < i THEN l ELSE l + 1
  <2>1. /\ at(j) \in DOMAIN monitors /\ monitors'[j] = monitors[at(j)]
        /\ at(k) \in DOMAIN monitors /\ monitors'[k] = monitors[at(k)]
    BY <1>4, <1>5
  <2>2. at(j) = at(k)
    <3> HIDE DEF at
    <3> QED BY <1>3, <1>7, <2>1 DEF Listed
  <2> QED BY <1>5, <2>2
<1>8. Listed'
  BY <1>6, <1>7 DEF Listed
<1>9. Bars!TypeOK'
  BY <1>1, <1>2, <1>3, <1>4 DEF Bars!TypeOK, Monitor
<1> QED BY <1>2, <1>8, <1>9 DEF BarsInv, Bars!OneBarEach

LEMMA LatecomerKeeps ==
    ASSUME BarsInv, NEW i \in DOMAIN monitors, Bars!Arrive(i) \/ Bars!Name(i)
    PROVE  BarsInv'
<1>1. UNCHANGED <<plugged, bars, pending, waiting, wanted, asked>>
  BY DEF Bars!Arrive, Bars!Name
<1>2. Bars!TypeOK /\ Listed /\ monitors \in Seq(Monitor) /\ monitors[i] \in Monitor
  <2>1. Bars!TypeOK /\ Listed /\ monitors \in Seq(Monitor)
    BY DEF BarsInv, Bars!TypeOK, Monitor
  <2> QED BY <2>1
<1>3. PICK m \in Monitor :
         /\ monitors' = [monitors EXCEPT ![i] = m]
         /\ m.output = monitors[i].output /\ m.name = monitors[i].output
  <2>1. CASE Bars!Name(i)
    <3> DEFINE m == [monitors[i] EXCEPT !.name = monitors[i].output]
    <3>1. m \in Monitor /\ m.output = monitors[i].output /\ m.name = monitors[i].output
      BY <1>2 DEF Monitor
    <3>2. monitors' = [monitors EXCEPT ![i] = m]
      BY <2>1 DEF Bars!Name
    <3> QED BY <3>1, <3>2
  <2>2. CASE Bars!Arrive(i)
    <3> DEFINE m == [monitors[i] EXCEPT !.name = monitors[i].output, !.sized = TRUE]
    <3>1. m \in Monitor
      BY <1>2 DEF Monitor
    <3>2. m.output = monitors[i].output /\ m.name = monitors[i].output
      BY <1>2 DEF Monitor
    <3>3. monitors' = [monitors EXCEPT ![i] = m]
      BY <1>2, <2>2 DEF Bars!Arrive
    <3> QED BY <3>1, <3>2, <3>3
  <2> QED BY <2>1, <2>2
<1>4. /\ monitors' \in Seq(Monitor) /\ Len(monitors') = Len(monitors)
      /\ DOMAIN monitors' = DOMAIN monitors /\ monitors'[i] = m
      /\ \A j \in DOMAIN monitors : j # i => monitors'[j] = monitors[j]
  BY <1>2, <1>3
<1>5. Listed'
  BY <1>2, <1>3, <1>4 DEF Listed
<1>6. Bars!TypeOK'
  BY <1>1, <1>2, <1>4 DEF Bars!TypeOK, Monitor
<1>7. Bars!OneBarEach'
  BY <1>1, <1>4 DEF BarsInv, Bars!OneBarEach
<1> QED BY <1>5, <1>6, <1>7 DEF BarsInv

LEMMA BarsSteps == BarsInv /\ [Bars!Next]_(Bars!vars) => BarsInv'
<1> SUFFICES ASSUME BarsInv, [Bars!Next]_(Bars!vars) PROVE BarsInv'
  OBVIOUS
<1>1. /\ \A key \in DOMAIN bars : bars[key] \in Bar
      /\ wanted \in BOOLEAN /\ asked \in Nat /\ waiting \in {"no", "short", "long"}
  BY DEF BarsInv, Bars!TypeOK, Bar
<1>2. CASE UNCHANGED Bars!vars
  BY <1>1, <1>2, SameListSameKeys DEF Bars!vars
<1>3. CASE Bars!WaitIsLong
  BY <1>1, <1>3, SameListSameKeys DEF Bars!WaitIsLong
<1>4. CASE Bars!Toggle
  <2>1. (~Bars!AnyShown(bars)) \in BOOLEAN
    BY Zenon DEF Bars!AnyShown
  <2> QED BY <1>4, <2>1, SetVisibleKeeps DEF Bars!Toggle
<1> QED
  BY <1>2, <1>3, <1>4, SyncFiresKeeps, RebuildKeeps, SetVisibleKeeps, PlugKeeps, UnplugKeeps,
     LatecomerKeeps DEF Bars!Next

-----------------------------------------------------------------------------
(* Both, side by side.                                                     *)

IInv == Reload!TypeOK /\ Reload!RoutedIsDrawn /\ BarsInv

\* The inductive invariant of the reload and of the bar manager.
THEOREM Invariance == Spec => []IInv
<1>1. Init => IInv
  BY ReloadStarts, BarsStart DEF Init, IInv
<1>2. IInv /\ [Next]_vars => IInv'
  <2> SUFFICES ASSUME IInv, [Next]_vars PROVE IInv'
    OBVIOUS
  <2>1. [Reload!Next]_(Reload!vars) /\ [Bars!Next]_(Bars!vars)
    BY DEF Next, ReloadStep, BarsStep, vars, reloadVars, barsVars, Reload!vars, Reload!screen,
           Reload!watching, Bars!vars
  <2> QED BY <2>1, ReloadSteps, BarsSteps DEF IInv
<1> QED BY <1>1, <1>2, PTL DEF Spec

(* Every variable of the reload and of the bars keeps its type. *)
THEOREM TypeCorrect == Spec => []TypeOK
<1>1. IInv => TypeOK
  BY DEF IInv, BarsInv, TypeOK
<1> QED BY <1>1, Invariance, PTL

(* Every part shows the running configuration in every section it is        *)
(* rebuilt for, whatever files there are and in whatever order saves,       *)
(* commands and late reads come.                                            *)
THEOREM RoutedDrawn == Spec => []RoutedIsDrawn
<1>1. IInv => RoutedIsDrawn
  BY DEF IInv, RoutedIsDrawn
<1> QED BY <1>1, Invariance, PTL

(* With no sync queued there are as many bars as monitors, however many     *)
(* monitors come, go and arrive by halves.                                  *)
THEOREM OneBar == Spec => []OneBarEach
<1>1. IInv => OneBarEach
  BY DEF IInv, BarsInv, OneBarEach
<1> QED BY <1>1, Invariance, PTL

StaysHidden ==
    \A key \in DOMAIN bars \cap DOMAIN bars' :
        ~bars[key].shown /\ bars'[key].shown => wanted' \/ Bars!AnyShown(bars)

(* No reload, sync or hotplug brings back a bar that was hidden, unless     *)
(* others show or a command asked for bars.                                 *)
THEOREM HiddenStay == Spec => ReloadKeepsHidden
<1>1. ASSUME BarsInv, Bars!Next PROVE StaysHidden
  <2>1. CASE UNCHANGED bars
    BY <2>1 DEF StaysHidden
  <2>2. Bars!TypeOK /\ Listed /\ \A key \in DOMAIN bars : bars[key] \in Bar
    BY <1>1 DEF BarsInv, Bars!TypeOK, Bar
  <2>3. CASE Bars!SyncFires
    <3>1. bars' = Bars!Synced(bars)
      BY <2>3 DEF Bars!SyncFires
    <3>2. \A key \in DOMAIN bars' : key \in DOMAIN bars => bars'[key] = bars[key]
      BY <2>2, <3>1, SyncLeaves
    <3> QED BY <3>2 DEF StaysHidden
  <2>4. CASE Bars!Rebuild
    <3>1. CASE Bars!AnyShown(bars)
      BY <3>1 DEF StaysHidden
    <3>2. CASE ~Bars!AnyShown(bars)
      <4> DEFINE made == Bars!Synced(Bars!NoBars)
      <4>1. bars' = Bars!ShowAll(made, FALSE)
        BY <2>4, <3>2 DEF Bars!Rebuild
      <4>2. \A key \in DOMAIN Bars!NoBars : Bars!NoBars[key] \in Bar
        BY DEF Bars!NoBars
      <4>3. \A key \in DOMAIN made : made[key] \in Bar
        BY <2>2, <4>2, SyncLeaves
      <4> HIDE DEF made
      <4>4. \A key \in DOMAIN bars' : bars'[key].shown = FALSE
        <5>1. FALSE \in BOOLEAN
          OBVIOUS
        <5> QED BY <4>1, <4>3, <5>1, ShowAllKeeps
      <4> QED BY <4>4 DEF StaysHidden
    <3> QED BY <3>1, <3>2
  <2>5. ASSUME NEW visible \in BOOLEAN, Bars!SetBarsVisible(visible)
        PROVE  StaysHidden
    <3>1. bars' = Bars!ShowAll(bars, visible) /\ wanted' = visible
      BY <2>5 DEF Bars!SetBarsVisible
    <3>2. \A key \in DOMAIN bars' : bars'[key].shown = visible
      BY <2>2, <3>1, ShowAllKeeps
    <3> QED BY <3>1, <3>2 DEF StaysHidden
  <2>6. CASE Bars!Toggle
    <3>1. (~Bars!AnyShown(bars)) \in BOOLEAN
      BY Zenon DEF Bars!AnyShown
    <3> QED BY <2>5, <2>6, <3>1 DEF Bars!Toggle
  <2> QED
    BY <1>1, <2>1, <2>3, <2>4, <2>5, <2>6
       DEF Bars!Next, Bars!WaitIsLong, Bars!Plug, Bars!Unplug, Bars!Arrive, Bars!Name
<1>2. IInv /\ [Next]_vars => [StaysHidden]_(Bars!vars)
  <2>1. [Next]_vars => [Bars!Next]_(Bars!vars)
    BY DEF Next, ReloadStep, BarsStep, vars, barsVars, Bars!vars
  <2> QED BY <1>1, <2>1 DEF IInv
<1> QED BY <1>2, Invariance, PTL DEF Spec, ReloadKeepsHidden, Bars!ReloadKeepsHidden, StaysHidden

=============================================================================

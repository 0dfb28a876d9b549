----------------------------- MODULE StateStore -----------------------------
(***************************************************************************)
(* The panel's runtime state file.  One task owns it: services queue edits *)
(* of their own section, the writer absorbs them while a debounce window   *)
(* is open, then writes the whole document to a sibling temp file and      *)
(* renames it over the state file.  The process may end at any point, also *)
(* between the temp file and the rename: nothing flushes at exit, and the  *)
(* runtime that holds the writer is never dropped, so the writer never     *)
(* sees its last handle go away.                                           *)
(*                                                                         *)
(* A missing, unreadable or corrupt file is one that is not `whole`: all   *)
(* three load as the default document.  The temp file carries the pid, so  *)
(* one left behind by a run that ended is never read again.                *)
(***************************************************************************)
EXTENDS Integers, Sequences, SequenceTheorems, FiniteSetTheorems, WellFoundedInduction, TLAPS

CONSTANTS
    Sections,   \* notifications, weather, crypto, network
    Values,     \* what a section may hold
    Blank,      \* a section's Default
    Debounce,   \* DEBOUNCE, in ticks
    EditBound   \* model bound: edits handed in that are not on disk yet

ASSUME BlankAssumption == Blank \in Values

ASSUME StoreAssumption == Debounce \in Nat \ {0} /\ EditBound \in Nat

-----------------------------------------------------------------------------
(* The state document: one section per service that remembers something,   *)
(* changed by edits that each replace the section of one service.          *)
Document == [Sections -> Values]
Edit == [section : Sections, value : Values]

(* PersistedState::default() *)
Fresh == [s \in Sections |-> Blank]

EditsOf(edits, s) == {i \in DOMAIN edits : edits[i].section = s}

(* The edits in order, on top of a document: each section as last edited. *)
Apply(doc, edits) ==
    [s \in Sections |->
        IF EditsOf(edits, s) = {} THEN doc[s]
        ELSE edits[CHOOSE i \in EditsOf(edits, s) :
                      \A j \in EditsOf(edits, s) : j <= i].value]

-----------------------------------------------------------------------------
File == [whole : BOOLEAN, doc : Document]
Broken == [whole |-> FALSE, doc |-> Fresh]
Whole(doc) == [whole |-> TRUE, doc |-> doc]

(* read() *)
Load(contents) == IF contents.whole THEN contents.doc ELSE Fresh

VARIABLES
    file,       \* state.json
    made,       \* whether its directory exists
    legacy,     \* the state file in the directory of the former name, if any
    temp,       \* this process's temp file
    phase,      \* where write_loop is
    state,      \* the document in hand
    written,    \* the document the writer takes the disk to hold
    left,       \* ticks until the window elapses
    age,        \* ticks since the window opened
    queue,      \* edits handed in and not received yet
    unsaved,    \* edits received that are not on disk yet
    failed      \* whether the last write failed

onDisk == <<file, made, legacy, temp>>
window == <<left, age>>
vars == <<file, made, legacy, temp, phase, state, written, left, age, queue, unsaved, failed>>

Running == phase # "down"

Init ==
    /\ made \in BOOLEAN
    /\ file \in {Broken} \cup {Whole(doc) : doc \in Document}
    /\ made \/ file = Broken
    /\ legacy \in {{}} \cup {{Whole(doc)} : doc \in Document}
    /\ temp = Broken
    /\ phase = "down"
    /\ state = Fresh /\ written = Fresh
    /\ left = 0 /\ age = 0
    /\ queue = << >> /\ unsaved = << >>
    /\ failed = FALSE

-----------------------------------------------------------------------------
(* Start-up: the directory of the former name is moved unless there is one  *)
(* of the new name; the move may fail.                                      *)
MigrateLegacyDir_Clobbers ==
    /\ \E contents \in legacy : file' = contents
    /\ legacy' = {}
    /\ made' = TRUE

MigrateLegacyDir ==
    /\ ~made
    /\ \E contents \in legacy : file' = contents
    /\ legacy' = {}
    /\ made' = TRUE

Opened_Unread(contents) == Fresh

(* What write_loop takes to be on disk when it starts. *)
Opened(contents) == Load(contents)

Open ==
    /\ phase = "down"
    /\ MigrateLegacyDir \/ UNCHANGED <<file, legacy, made>>
    /\ state' = Load(file')
    /\ written' = Opened(file')
    /\ phase' = "waiting"
    /\ UNCHANGED <<temp, left, age, queue, unsaved, failed>>

(* StateStore::update, from any service. *)
Update(edit) ==
    /\ Running
    /\ Len(unsaved) + Len(queue) < EditBound
    /\ queue' = Append(queue, edit)
    /\ UNCHANGED <<onDisk, phase, state, written, window, unsaved, failed>>

-----------------------------------------------------------------------------
(* write_loop *)

Edited_OnlyFirst(edit) ==
    IF phase = "window" THEN state ELSE [state EXCEPT ![edit.section] = edit.value]

Edited_WholeDocument(edit) == [s \in {edit.section} |-> edit.value]

Edited(edit) == [state EXCEPT ![edit.section] = edit.value]

Take ==
    /\ queue # << >>
    /\ state' = Edited(Head(queue))
    /\ unsaved' = Append(unsaved, Head(queue))
    /\ queue' = Tail(queue)
    /\ left' = Debounce
    /\ phase' = "window"
    /\ UNCHANGED <<onDisk, written, failed>>

Receive ==
    /\ phase = "waiting"
    /\ Take
    /\ age' = 0

(* Every edit that arrives in the window starts a new timeout. *)
Absorb ==
    /\ phase = "window"
    /\ Take
    /\ UNCHANGED age

Tick ==
    /\ phase = "window"
    /\ left > 0
    /\ left' = left - 1
    /\ age' = IF age > Debounce THEN age ELSE age + 1
    /\ UNCHANGED <<onDisk, phase, state, written, queue, unsaved, failed>>

(* The timeout polls the queue before its timer. *)
Due == left = 0 /\ queue = << >>

(* Nothing to write: the edits came back to what is taken to be on disk.    *)
Skip ==
    /\ phase = "window"
    /\ Due
    /\ written = state
    /\ phase' = "waiting"
    /\ unsaved' = IF state = Load(file) THEN << >> ELSE unsaved
    /\ UNCHANGED <<onDisk, state, written, window, queue, failed>>

Elapse ==
    /\ phase = "window"
    /\ Due
    /\ written # state
    /\ phase' = "saving"
    /\ UNCHANGED <<onDisk, state, written, window, queue, unsaved, failed>>

CreateDir ==
    /\ phase = "saving"
    /\ made' = TRUE
    /\ phase' = "created"
    /\ UNCHANGED <<file, legacy, temp, state, written, window, queue, unsaved, failed>>

Serialised_Old == Whole(written)

Serialised == Whole(state)

WriteTemp ==
    /\ phase = "created"
    /\ temp' = Serialised
    /\ phase' = "renaming"
    /\ UNCHANGED <<file, made, legacy, state, written, window, queue, unsaved, failed>>

Rename ==
    /\ phase = "renaming"
    /\ file' = temp
    /\ temp' = Broken
    /\ written' = state
    /\ unsaved' = << >>
    /\ failed' = FALSE
    /\ phase' = "waiting"
    /\ UNCHANGED <<made, legacy, state, window, queue>>

(* Any of the three steps fails: a log line, and the temp file is removed.  *)
(* The writer takes the document for written all the same.                  *)
GiveUp ==
    /\ phase \in {"saving", "created", "renaming"}
    /\ temp' = Broken
    /\ written' = state
    /\ failed' = TRUE
    /\ phase' = "waiting"
    /\ UNCHANGED <<file, made, legacy, state, window, queue, unsaved>>

(* The process ends, whatever it was doing. *)
Exit ==
    /\ Running
    /\ phase' = "down"
    /\ temp' = Broken
    /\ state' = Fresh /\ written' = Fresh
    /\ left' = 0 /\ age' = 0
    /\ queue' = << >> /\ unsaved' = << >>
    /\ failed' = FALSE
    /\ UNCHANGED <<file, made, legacy>>

WriteLoop ==
    \/ Receive \/ Absorb \/ Tick \/ Skip \/ Elapse
    \/ CreateDir \/ WriteTemp \/ Rename \/ GiveUp

Next ==
    \/ Open
    \/ \E edit \in Edit : Update(edit)
    \/ WriteLoop
    \/ Exit

Spec == Init /\ [][Next]_vars

(* The runtime polls the writer whenever an edit or its timer is ready;     *)
(* nobody is obliged to start the panel, to edit or to end it.              *)
FairSpec == Spec /\ WF_vars(WriteLoop)

-----------------------------------------------------------------------------
(* What must hold. *)

\* Every variable has its type, and no file is half a document under its own name.
TypeOK ==
    /\ file \in File
    /\ made \in BOOLEAN
    /\ legacy \subseteq File
    /\ temp \in File
    /\ phase \in {"down", "waiting", "window", "saving", "created", "renaming"}
    /\ state \in Document
    /\ written \in Document
    /\ left \in 0..Debounce
    /\ age \in 0..Debounce + 1
    /\ queue \in Seq(Edit)
    /\ unsaved \in Seq(Edit)
    /\ failed \in BOOLEAN

\* The document in hand is always the one on disk with the edits received since
\* on top, so a whole-document write never clobbers a section it did not edit,
\* even after writes that failed, were skipped or were cut off by an exit.
InHandIsDiskEdited == Running => state = Apply(Load(file), unsaved)

\* While the last write did not fail, the writer is right about what is on disk,
\* so skipping a write never leaves out an edit: at rest the disk holds what is
\* in hand.
AtRestDiskIsInHand == phase = "waiting" /\ ~failed => Load(file) = state

\* The writer keeps the promise of the abstract specification: edits reach the
\* disk in order, none skipped, none undone, across failures and restarts.
Remembered ==
    INSTANCE Memory WITH disk <- Load(file), pending <- unsaved \o queue

KeepsEditOrder == Remembered!Spec

\* An edit handed in reaches the disk unless the write fails, the process ends or
\* edits keep coming.
Behind == Apply(Load(file), unsaved \o queue) # Load(file)

HandedIn == queue' # << >> /\ Len(queue') > Len(queue)

EditsLand == (Behind ~> ~Behind \/ failed) \/ []<><<HandedIn>>_vars

-----------------------------------------------------------------------------
(* What the source says and the code does not keep. *)

\* state_store.rs on DEBOUNCE: "How long the writer collects further edits before
\* it touches the disk".
CollectsForDebounce == phase = "window" => age <= Debounce

-----------------------------------------------------------------------------
(* A set of indices that is not empty has a greatest one: the indices from *)
(* one on form a chain of finite sets, and the least of them starts there. *)
LEMMA GreatestIndex ==
    ASSUME NEW n \in Nat, NEW I \in SUBSET (1..n), I # {}
    PROVE  \E i \in I : \A j \in I : j <= i
<1> DEFINE from(i) == {j \in I : i <= j}
           chain == {from(i) : i \in I}
<1>1. IsFiniteSet(1..n)
  BY FS_Interval
<1>2. chain \subseteq FiniteSubsetsOf(1..n)
  <2> SUFFICES ASSUME NEW i \in I PROVE from(i) \in FiniteSubsetsOf(1..n)
    OBVIOUS
  <2> QED BY <1>1, FS_Subset DEF FiniteSubsetsOf
<1>3. chain # {}
  OBVIOUS
<1>4. PICK C \in chain : \A D \in chain : <<D, C>> \notin StrictSubsetOrdering(1..n)
  BY <1>2, <1>3, WFMin, FS_StrictSubsetOrderingWellFounded
<1>5. PICK i \in I : C = from(i)
  OBVIOUS
<1>6. ASSUME NEW j \in I, ~(j <= i) PROVE FALSE
  <2>1. i \in from(i) /\ i \notin from(j) /\ from(j) \subseteq from(i)
    <3>1. \A k \in I : k \in Int
      OBVIOUS
    <3>2. i < j
      BY <1>6, <3>1
    <3>3. i \in from(i)
      BY <3>1
    <3>4. i \notin from(j)
      BY <3>1, <3>2
    <3>5. from(j) \subseteq from(i)
      <4> SUFFICES ASSUME NEW k \in from(j) PROVE k \in from(i)
        OBVIOUS
      <4>1. k \in I /\ j <= k
        OBVIOUS
      <4>2. i <= k
        BY <3>1, <3>2, <4>1
      <4> QED BY <4>1, <4>2
    <3> QED BY <3>3, <3>4, <3>5
  <2>2. from(j) \in FiniteSubsetsOf(1..n) /\ from(i) \in FiniteSubsetsOf(1..n)
    BY <1>2
  <2>3. <<from(j), from(i)>> \in StrictSubsetOrdering(1..n)
    BY <2>1, <2>2 DEF StrictSubsetOrdering, FiniteSubsetsOf
  <2> QED BY <1>4, <1>5, <2>3
<1> QED BY <1>6

(* Proofs: what holds of the state file for any sections, values, window   *)
(* and number of edits, and that the writer implements module Memory.      *)

(* Applying no edits changes nothing; applying one more changes its section. *)
LEMMA ApplyNothing ==
    ASSUME NEW doc \in Document
    PROVE  Apply(doc, << >>) = doc
<1>1. \A s \in Sections : EditsOf(<< >>, s) = {}
  BY DEF EditsOf
<1>2. Apply(doc, << >>) = [s \in Sections |-> doc[s]]
  BY <1>1 DEF Apply
<1> QED BY <1>2 DEF Document

LEMMA ApplyOneMore ==
    ASSUME NEW doc \in Document, NEW edits \in Seq(Edit), NEW e \in Edit
    PROVE  Apply(doc, Append(edits, e)) =
              [Apply(doc, edits) EXCEPT ![e.section] = e.value]
<1> DEFINE longer == Append(edits, e)
           n == Len(edits) + 1
<1>1. /\ DOMAIN longer = 1..n /\ longer[n] = e /\ n \in Nat \ {0}
      /\ \A i \in DOMAIN edits : i \in DOMAIN longer /\ longer[i] = edits[i] /\ i < n
      /\ \A i \in DOMAIN longer : i = n \/ i \in DOMAIN edits
  BY AppendProperties
<1> HIDE DEF longer, n
<1>2. ASSUME NEW s \in Sections, s # e.section
      PROVE  Apply(doc, longer)[s] = Apply(doc, edits)[s]
  <2>1. EditsOf(longer, s) = EditsOf(edits, s)
    BY <1>1, <1>2 DEF EditsOf
  <2>2. CASE EditsOf(edits, s) = {}
    BY <2>1, <2>2 DEF Apply
  <2>3. CASE EditsOf(edits, s) # {}
    <3> DEFINE last == CHOOSE i \in EditsOf(edits, s) : \A j \in EditsOf(edits, s) : j <= i
    <3>1. last \in DOMAIN edits
      <4>1. \E i \in EditsOf(edits, s) : \A j \in EditsOf(edits, s) : j <= i
        <5>1. EditsOf(edits, s) \in SUBSET (1..Len(edits)) /\ Len(edits) \in Nat
          BY DEF EditsOf
        <5> QED BY <2>3, <5>1, GreatestIndex
      <4> QED BY <4>1 DEF EditsOf
    <3>2. Apply(doc, longer)[s] = longer[last].value /\ Apply(doc, edits)[s] = edits[last].value
      BY <2>1, <2>3 DEF Apply
    <3> QED BY <1>1, <3>1, <3>2
  <2> QED BY <2>2, <2>3
<1>3. Apply(doc, longer)[e.section] = e.value
  <2> DEFINE s == e.section
             last == CHOOSE i \in EditsOf(longer, s) : \A j \in EditsOf(longer, s) : j <= i
  <2>1. s \in Sections
    BY DEF Edit
  <2>2. n \in EditsOf(longer, s)
    BY <1>1 DEF EditsOf
  <2>3. \A j \in EditsOf(longer, s) : j <= n /\ j \in 1..n
    BY <1>1 DEF EditsOf
  <2>4. last \in EditsOf(longer, s) /\ n <= last
    BY <2>2, <2>3
  <2>5. last = n
    BY <1>1, <2>3, <2>4
  <2> HIDE DEF last
  <2>6. Apply(doc, longer)[s] = longer[last].value
    BY <2>1, <2>2 DEF Apply, last
  <2> QED BY <1>1, <2>5, <2>6
<1>4. Apply(doc, longer) = [s \in Sections |-> Apply(doc, longer)[s]]
  BY DEF Apply
<1>5. Apply(doc, edits) = [s \in Sections |-> Apply(doc, edits)[s]]
  BY DEF Apply
<1>6. [Apply(doc, edits) EXCEPT ![e.section] = e.value] =
         [s \in Sections |-> IF s = e.section THEN e.value ELSE Apply(doc, edits)[s]]
  BY <1>5
<1>7. \A s \in Sections :
         Apply(doc, longer)[s] = IF s = e.section THEN e.value ELSE Apply(doc, edits)[s]
  BY <1>2, <1>3
<1> QED BY <1>4, <1>6, <1>7 DEF longer

LEMMA ApplyIsDocument ==
    ASSUME NEW doc \in Document, NEW edits \in Seq(Edit)
    PROVE  Apply(doc, edits) \in Document
<1> SUFFICES ASSUME NEW s \in Sections PROVE Apply(doc, edits)[s] \in Values
  BY DEF Apply, Document
<1>1. CASE EditsOf(edits, s) = {}
  BY <1>1 DEF Apply, Document
<1>2. CASE EditsOf(edits, s) # {}
  <2>1. EditsOf(edits, s) \in SUBSET (1..Len(edits)) /\ Len(edits) \in Nat
    BY DEF EditsOf
  <2>2. PICK i \in EditsOf(edits, s) : \A j \in EditsOf(edits, s) : j <= i
    BY <1>2, <2>1, GreatestIndex
  <2> DEFINE last == CHOOSE k \in EditsOf(edits, s) : \A j \in EditsOf(edits, s) : j <= k
  <2>3. last \in EditsOf(edits, s)
    BY <2>2
  <2>4. Apply(doc, edits)[s] = edits[last].value
    BY <1>2 DEF Apply
  <2>5. edits[last] \in Edit
    BY <2>3 DEF EditsOf
  <2> QED BY <2>4, <2>5 DEF Edit
<1> QED BY <1>1, <1>2

LEMMA FreshIsDocument == Fresh \in Document
BY BlankAssumption DEF Fresh, Document

LEMMA LoadIsDocument ==
    ASSUME NEW contents \in File
    PROVE  Load(contents) \in Document
BY FreshIsDocument DEF Load, File

-----------------------------------------------------------------------------
(* The inductive invariant: besides what the runs check, what a phase says  *)
(* of the temp file and of the document taken to be on disk.                *)

IInv ==
    /\ TypeOK
    /\ InHandIsDiskEdited
    /\ phase = "renaming" => temp = Whole(state)
    /\ phase \in {"created", "renaming"} => made
    /\ Running /\ ~failed => written = Load(file)
    /\ phase = "waiting" => written = state
    /\ ~Running => unsaved = << >> /\ queue = << >> /\ failed = FALSE
    /\ ~made => file = Broken

LEMMA InitIInv == Init => IInv
<1> SUFFICES ASSUME Init PROVE IInv
  OBVIOUS
<1>1. Broken \in File /\ \A doc \in Document : Whole(doc) \in File
  BY FreshIsDocument DEF Broken, Whole, File
<1>2. << >> \in Seq(Edit)
  OBVIOUS
<1>3. 0 \in 0..Debounce /\ 0 \in 0..Debounce + 1
  BY StoreAssumption
<1>4. TypeOK
  BY <1>1, <1>2, <1>3, FreshIsDocument DEF Init, TypeOK
<1> QED BY <1>4 DEF Init, IInv, InHandIsDiskEdited, Running

LEMMA OpenIInv == IInv /\ Open => IInv'
<1> SUFFICES ASSUME IInv, Open PROVE IInv'
  OBVIOUS
<1>1. file' \in File /\ made' \in BOOLEAN /\ legacy' \subseteq File
  BY DEF Open, MigrateLegacyDir, IInv, TypeOK
<1>2. Load(file') \in Document
  BY <1>1, LoadIsDocument
<1>3. unsaved = << >> /\ queue = << >> /\ failed = FALSE
  BY DEF Open, IInv, Running
<1>4. Apply(Load(file'), << >>) = Load(file')
  BY <1>2, ApplyNothing
<1>5. TypeOK'
  BY <1>1, <1>2 DEF Open, Opened, IInv, TypeOK
<1>6. state' = Load(file') /\ written' = Load(file') /\ phase' = "waiting"
  BY DEF Open, Opened
<1>7. ~made' => file' = Broken
  BY DEF Open, MigrateLegacyDir, IInv
<1> QED BY <1>3, <1>4, <1>5, <1>6, <1>7 DEF Open, IInv, InHandIsDiskEdited, Running

LEMMA UpdateIInv ==
    ASSUME IInv, NEW edit \in Edit, Update(edit)
    PROVE  IInv'
<1>1. queue' \in Seq(Edit)
  BY DEF Update, IInv, TypeOK
<1> QED BY <1>1 DEF Update, onDisk, window, IInv, TypeOK, InHandIsDiskEdited, Running

LEMMA TakeEffect ==
    ASSUME IInv, Running, Take
    PROVE  /\ state' = Apply(Load(file'), unsaved')
           /\ state' \in Document /\ unsaved' \in Seq(Edit) /\ queue' \in Seq(Edit)
<1> DEFINE e == Head(queue)
<1>1. /\ e \in Edit /\ queue' \in Seq(Edit)
      /\ unsaved \in Seq(Edit) /\ unsaved' = Append(unsaved, e) /\ unsaved' \in Seq(Edit)
  BY DEF Take, IInv, TypeOK
<1>2. Load(file) \in Document /\ file' = file
  BY LoadIsDocument DEF Take, onDisk, IInv, TypeOK
<1>3. state = Apply(Load(file), unsaved)
  BY DEF IInv, InHandIsDiskEdited
<1>4. state' = [state EXCEPT ![e.section] = e.value]
  BY DEF Take, Edited
<1> HIDE DEF e
<1>5. state' = Apply(Load(file), Append(unsaved, e))
  BY <1>1, <1>2, <1>3, <1>4, ApplyOneMore
<1>6. state' \in Document
  BY <1>1, <1>2, <1>5, ApplyIsDocument
<1> QED BY <1>1, <1>2, <1>5, <1>6

LEMMA TakeIInv == IInv /\ (Receive \/ Absorb) => IInv'
<1> SUFFICES ASSUME IInv, Receive \/ Absorb PROVE IInv'
  OBVIOUS
<1>1. Running /\ Take
  BY DEF Receive, Absorb, Running
<1>2. /\ state' = Apply(Load(file'), unsaved')
      /\ state' \in Document /\ unsaved' \in Seq(Edit) /\ queue' \in Seq(Edit)
  BY <1>1, TakeEffect
<1>3. /\ UNCHANGED <<file, made, legacy, temp, written, failed>>
      /\ phase' = "window" /\ left' = Debounce /\ age' \in {0, age}
  BY <1>1 DEF Take, onDisk, Receive, Absorb
<1>4. age' \in 0..Debounce + 1 /\ left' \in 0..Debounce
  BY <1>3, StoreAssumption DEF IInv, TypeOK
<1>5. TypeOK'
  BY <1>2, <1>3, <1>4 DEF IInv, TypeOK
<1> QED BY <1>1, <1>2, <1>3, <1>5 DEF IInv, InHandIsDiskEdited, Running

LEMMA TickIInv == IInv /\ Tick => IInv'
<1> SUFFICES ASSUME IInv, Tick PROVE IInv'
  OBVIOUS
<1>1. left' \in 0..Debounce /\ age' \in 0..Debounce + 1
  BY StoreAssumption DEF Tick, IInv, TypeOK
<1>2. UNCHANGED <<onDisk, phase, state, written, queue, unsaved, failed>>
  BY DEF Tick
<1>3. TypeOK'
  BY <1>1, <1>2 DEF IInv, TypeOK, onDisk
<1> QED BY <1>2, <1>3 DEF IInv, InHandIsDiskEdited, Running, onDisk

LEMMA SkipIInv == IInv /\ Skip => IInv'
<1> SUFFICES ASSUME IInv, Skip PROVE IInv'
  OBVIOUS
<1>1. /\ UNCHANGED <<file, made, legacy, temp, state, written, left, age, queue, failed>>
      /\ phase = "window" /\ phase' = "waiting" /\ written = state
  BY DEF Skip, onDisk, window
<1>2. Load(file) \in Document /\ state = Apply(Load(file), unsaved)
  BY <1>1, LoadIsDocument DEF IInv, TypeOK, InHandIsDiskEdited, Running
<1>3. unsaved' \in Seq(Edit) /\ state = Apply(Load(file), unsaved')
  <2>1. CASE state = Load(file)
    <3>1. unsaved' = << >>
      BY <2>1 DEF Skip
    <3> QED BY <1>2, <2>1, <3>1, ApplyNothing
  <2>2. CASE state # Load(file)
    <3>1. unsaved' = unsaved
      BY <2>2 DEF Skip
    <3> QED BY <1>2, <3>1 DEF IInv, TypeOK
  <2> QED BY <2>1, <2>2
<1>4. TypeOK'
  BY <1>1, <1>3 DEF IInv, TypeOK
<1> QED BY <1>1, <1>3, <1>4 DEF IInv, InHandIsDiskEdited, Running

LEMMA WriteIInv == IInv /\ (Elapse \/ CreateDir \/ WriteTemp) => IInv'
<1> SUFFICES ASSUME IInv, Elapse \/ CreateDir \/ WriteTemp PROVE IInv'
  OBVIOUS
<1>1. /\ UNCHANGED <<file, legacy, state, written, left, age, queue, unsaved, failed>>
      /\ phase \in {"window", "saving", "created"}
      /\ phase' \in {"saving", "created", "renaming"}
      /\ made' = made \/ made' = TRUE
      /\ phase' = "renaming" => temp' = Whole(state)
      /\ phase' \in {"created", "renaming"} => made' = TRUE \/ phase = "created"
      /\ temp' = temp \/ temp' = Whole(state)
  BY DEF Elapse, CreateDir, WriteTemp, Serialised, onDisk, window
<1>2. Whole(state) \in File
  BY DEF IInv, TypeOK, Whole, File
<1>3. /\ made' \in BOOLEAN /\ (~made' => file = Broken)
      /\ phase' \in {"created", "renaming"} => made'
  <2>1. CASE made' = TRUE
    BY <2>1
  <2>2. CASE made' = made
    <3>1. made \in BOOLEAN /\ (~made => file = Broken)
      BY DEF IInv, TypeOK
    <3>2. phase' \in {"created", "renaming"} => made
      <4>1. CASE phase = "created"
        BY <4>1 DEF IInv
      <4>2. CASE phase # "created"
        <5>1. phase' \in {"created", "renaming"} => made' = TRUE
          BY <1>1, <4>2
        <5> QED BY <2>2, <3>1, <5>1
      <4> QED BY <4>1, <4>2
    <3> QED BY <2>2, <3>1, <3>2
  <2> QED BY <1>1, <2>1, <2>2
<1>4. temp' \in File
  BY <1>1, <1>2 DEF IInv, TypeOK
<1>5. TypeOK'
  BY <1>1, <1>3, <1>4 DEF IInv, TypeOK
<1> QED BY <1>1, <1>3, <1>5 DEF IInv, InHandIsDiskEdited, Running

LEMMA RenameIInv == IInv /\ Rename => IInv'
<1> SUFFICES ASSUME IInv, Rename PROVE IInv'
  OBVIOUS
<1>1. /\ UNCHANGED <<made, legacy, state, left, age, queue>>
      /\ file' = Whole(state) /\ temp' = Broken /\ written' = state
      /\ unsaved' = << >> /\ failed' = FALSE /\ phase' = "waiting"
  BY DEF Rename, IInv, window
<1>2. /\ state \in Document /\ Whole(state) \in File /\ Broken \in File
      /\ Load(Whole(state)) = state
  BY FreshIsDocument DEF IInv, TypeOK, Whole, Broken, File, Load
<1>3. Apply(state, << >>) = state
  BY <1>2, ApplyNothing
<1>4. << >> \in Seq(Edit)
  OBVIOUS
<1>5. TypeOK'
  BY <1>1, <1>2, <1>4 DEF IInv, TypeOK
<1>6. made' = TRUE
  BY DEF Rename, IInv, TypeOK
<1> QED BY <1>1, <1>2, <1>3, <1>5, <1>6 DEF IInv, InHandIsDiskEdited, Running

LEMMA GiveUpIInv == IInv /\ GiveUp => IInv'
<1> SUFFICES ASSUME IInv, GiveUp PROVE IInv'
  OBVIOUS
<1>1. /\ UNCHANGED <<file, made, legacy, state, left, age, queue, unsaved>>
      /\ temp' = Broken /\ written' = state /\ failed' = TRUE /\ phase' = "waiting"
      /\ phase # "down"
  BY DEF GiveUp, window
<1>2. Broken \in File
  BY FreshIsDocument DEF Broken, File
<1>3. TypeOK'
  BY <1>1, <1>2 DEF IInv, TypeOK
<1> QED BY <1>1, <1>3 DEF IInv, InHandIsDiskEdited, Running

LEMMA ExitIInv == IInv /\ Exit => IInv'
<1> SUFFICES ASSUME IInv, Exit PROVE IInv'
  OBVIOUS
<1>1. Broken \in File
  BY FreshIsDocument DEF Broken, File
<1>2. << >> \in Seq(Edit) /\ 0 \in 0..Debounce /\ 0 \in 0..Debounce + 1
  BY StoreAssumption
<1>3. TypeOK'
  BY <1>1, <1>2, FreshIsDocument DEF Exit, IInv, TypeOK
<1> QED BY <1>3 DEF Exit, IInv, InHandIsDiskEdited, Running

LEMMA StepIInv == IInv /\ [Next]_vars => IInv'
<1> SUFFICES ASSUME IInv, [Next]_vars PROVE IInv'
  OBVIOUS
<1>1. CASE UNCHANGED vars
  BY <1>1 DEF vars, IInv, TypeOK, InHandIsDiskEdited, Running
<1>2. CASE Open
  BY <1>2, OpenIInv
<1>3. ASSUME NEW edit \in Edit, Update(edit) PROVE IInv'
  BY <1>3, UpdateIInv
<1>4. CASE WriteLoop
  BY <1>4, TakeIInv, TickIInv, SkipIInv, WriteIInv, RenameIInv, GiveUpIInv DEF WriteLoop
<1>5. CASE Exit
  BY <1>5, ExitIInv
<1> QED BY <1>1, <1>2, <1>3, <1>4, <1>5 DEF Next

\* The inductive invariant of the writer, through failures and exits at any point.
THEOREM Invariance == Spec => []IInv
<1>1. Init => IInv
  BY InitIInv
<1> QED BY <1>1, StepIInv, PTL DEF Spec

-----------------------------------------------------------------------------
(* Every variable keeps its type, whatever the disk held at the start.      *)
THEOREM TypeCorrect == Spec => []TypeOK
<1>1. IInv => TypeOK
  BY DEF IInv
<1> QED BY <1>1, Invariance, PTL

(* No write clobbers a section: what is in hand is what is on disk with the *)
(* edits since.                                                             *)
THEOREM NothingClobbered == Spec => []InHandIsDiskEdited
<1>1. IInv => InHandIsDiskEdited
  BY DEF IInv
<1> QED BY <1>1, Invariance, PTL

(* A writer at rest has everything on disk, unless its last write failed.   *)
THEOREM RestsWhenSaved == Spec => []AtRestDiskIsInHand
<1>1. IInv => AtRestDiskIsInHand
  BY DEF IInv, AtRestDiskIsInHand, Running
<1> QED BY <1>1, Invariance, PTL

-----------------------------------------------------------------------------
(* The refinement, one action at a time. *)

LEMMA SavesPrefix ==
    ASSUME NEW a \in Seq(Edit), NEW b \in Seq(Edit)
    PROVE  /\ SubSeq(a \o b, 1, Len(a)) = a
           /\ SubSeq(a \o b, Len(a) + 1, Len(a \o b)) = b
<1>1. /\ a \o b \in Seq(Edit) /\ Len(a \o b) = Len(a) + Len(b)
      /\ Len(a) \in Nat /\ Len(b) \in Nat
      /\ \A i \in 1..Len(a) : (a \o b)[i] = a[i]
      /\ \A i \in 1..Len(b) : (a \o b)[Len(a) + i] = b[i]
  BY ConcatProperties
<1> QED BY <1>1

LEMMA TakeStutters ==
    ASSUME NEW a \in Seq(Edit), NEW b \in Seq(Edit), b # << >>
    PROVE  Append(a, Head(b)) \o Tail(b) = a \o b
OBVIOUS

LEMMA InitRefines == IInv /\ Init => Remembered!Init
<1> SUFFICES ASSUME IInv, Init PROVE Load(file) \in Document /\ unsaved \o queue = << >>
  BY DEF Remembered!Init
<1>1. Load(file) \in Document
  BY LoadIsDocument DEF IInv, TypeOK
<1> QED BY <1>1 DEF Init

LEMMA StepRefines ==
    ASSUME IInv, IInv', [Next]_vars
    PROVE  [Remembered!Next]_<<Load(file), unsaved \o queue>>
<1> DEFINE disk == Load(file)
           pending == unsaved \o queue
<1>1. unsaved \in Seq(Edit) /\ queue \in Seq(Edit) /\ Load(file) \in Document
  BY LoadIsDocument DEF IInv, TypeOK
<1>2. CASE UNCHANGED vars
  BY <1>2 DEF vars
<1>3. CASE Open
  <2>1. pending = << >> /\ pending' = << >>
    BY <1>3 DEF Open, IInv, Running
  <2>2. CASE UNCHANGED <<file, legacy, made>>
    BY <2>1, <2>2
  <2>3. CASE MigrateLegacyDir
    <3>1. disk = Fresh
      BY <2>3 DEF MigrateLegacyDir, IInv, Load, Broken
    <3>2. disk' \in Document
      BY LoadIsDocument DEF IInv, TypeOK
    <3>3. Remembered!Adopt(disk')
      BY <2>1, <3>1 DEF Remembered!Adopt
    <3> QED BY <3>2, <3>3 DEF Remembered!Next
  <2> QED BY <1>3, <2>2, <2>3 DEF Open
<1>4. ASSUME NEW edit \in Edit, Update(edit)
      PROVE  [Remembered!Next]_<<disk, pending>>
  <2>1. pending' = Append(pending, edit) /\ disk' = disk
    BY <1>1, <1>4 DEF Update, onDisk
  <2>2. Remembered!Remember(edit)
    BY <2>1 DEF Remembered!Remember
  <2> QED BY <2>2 DEF Remembered!Next
<1>5. CASE Receive \/ Absorb
  <2>1. pending' = pending
    BY <1>1, <1>5, TakeStutters DEF Receive, Absorb, Take
  <2>2. disk' = disk
    BY <1>5 DEF Receive, Absorb, Take, onDisk
  <2> QED BY <2>1, <2>2
<1>6. CASE Tick \/ Elapse \/ CreateDir \/ WriteTemp \/ GiveUp
  BY <1>6 DEF Tick, Elapse, CreateDir, WriteTemp, GiveUp, onDisk, window
<1>7. CASE Skip \/ Rename
  <2>1. queue' = queue
    BY <1>7 DEF Skip, Rename, window
  <2>2. CASE unsaved' = unsaved /\ disk' = disk
    BY <2>1, <2>2
  <2>3. CASE unsaved' = << >> /\ disk' = Apply(disk, unsaved)
    <3>1. SubSeq(pending, 1, Len(unsaved)) = unsaved
      BY <1>1, SavesPrefix
    <3>2. SubSeq(pending, Len(unsaved) + 1, Len(pending)) = queue
      BY <1>1, SavesPrefix
    <3>3. pending' = queue
      BY <1>1, <2>1, <2>3
    <3>4. Remembered!Save(Len(unsaved))
      BY <2>3, <3>1, <3>2, <3>3 DEF Remembered!Save
    <3>5. CASE Len(unsaved) = 0
      <4>1. unsaved = << >>
        BY <1>1, <3>5
      <4>2. disk' = disk
        BY <1>1, <2>3, <4>1, ApplyNothing
      <4> QED BY <2>1, <2>3, <4>1, <4>2
    <3>6. CASE Len(unsaved) # 0
      <4>1. Len(unsaved) \in 1..Len(pending)
        BY <1>1, <3>6
      <4> QED BY <3>4, <4>1 DEF Remembered!Next
    <3> QED BY <3>5, <3>6
  <2>4. \/ unsaved' = unsaved /\ disk' = disk
        \/ unsaved' = << >> /\ disk' = Apply(disk, unsaved)
    <3>1. state = Apply(disk, unsaved)
      BY <1>7 DEF Skip, Rename, IInv, InHandIsDiskEdited, Running
    <3>2. CASE Skip
      <4>1. disk' = disk
        BY <3>2 DEF Skip, onDisk
      <4> QED BY <3>1, <3>2, <4>1 DEF Skip
    <3>3. CASE Rename
      <4>1. disk' = state
        BY <3>3 DEF Rename, IInv, Load, Whole
      <4> QED BY <3>1, <3>3, <4>1 DEF Rename
    <3> QED BY <1>7, <3>2, <3>3
  <2> QED BY <2>2, <2>3, <2>4
<1>8. CASE Exit
  <2>1. pending' = << >> /\ disk' = disk
    BY <1>8 DEF Exit
  <2>2. Remembered!Lose
    BY <2>1 DEF Remembered!Lose
  <2> QED BY <2>2 DEF Remembered!Next
<1> QED
  BY <1>2, <1>3, <1>4, <1>5, <1>6, <1>7, <1>8 DEF Next, WriteLoop

(* The writer implements the promise of module Memory: edits reach the disk *)
(* in the order they were handed in, none skipped and none undone, across   *)
(* failed writes and exits at any point.                                    *)
THEOREM Implements == Spec => KeepsEditOrder
<1>1. Init => Remembered!Init
  BY InitIInv, InitRefines
<1>2. IInv /\ IInv' /\ [Next]_vars => [Remembered!Next]_(Remembered!memory)
  BY StepRefines DEF Remembered!memory
<1> QED BY <1>1, <1>2, Invariance, PTL DEF Spec, KeepsEditOrder, Remembered!Spec

=============================================================================

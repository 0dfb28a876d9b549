---------------------------- MODULE LevelsProofs ----------------------------
(***************************************************************************)
(* What is proved of the levels: the workspaces, who watches the screen,   *)
(* and, with what MachineProofs has of the others, all of them.            *)
(***************************************************************************)
EXTENDS MachineProofs

-----------------------------------------------------------------------------
(* The workspaces.                                                         *)

\* What is said of something (A) was last said rightly (R), or nothing is said of it.
Says(L, A, R) == \E i \in 1..Len(L) : L[i] \in R /\ \A j \in i + 1 .. Len(L) : L[j] \notin A
Mute(L, A) == \A j \in 1..Len(L) : L[j] \notin A

\* A line is the last of them; the first is gone.
Longer(M, L, x) ==
    /\ Len(L) \in Nat /\ Len(M) = Len(L) + 1 /\ M[Len(M)] = x
    /\ \A i \in 1..Len(L) : M[i] = L[i]
Shorter(M, L, x) ==
    /\ Len(L) \in Nat \ {0} /\ Len(M) = Len(L) - 1 /\ L[1] = x
    /\ \A i \in 1..Len(M) : M[i] = L[i + 1]

LEMMA SaysAppended ==
    ASSUME NEW L, NEW M, NEW x, Longer(M, L, x), NEW A, NEW R
    PROVE  /\ x \in R => Says(M, A, R)
           /\ x \notin A /\ Says(L, A, R) => Says(M, A, R)
           /\ x \notin A /\ Mute(L, A) => Mute(M, A)
<1>1. Len(M) = Len(L) + 1 /\ M[Len(M)] = x /\ \A i \in 1..Len(L) : M[i] = L[i]
  BY DEF Longer
<1>2. Len(L) \in Nat /\ Len(M) \in 1..Len(M)
  BY DEF Longer
<1>3. ASSUME x \in R PROVE Says(M, A, R)
  BY <1>1, <1>2, <1>3 DEF Says
<1>4. ASSUME x \notin A, Says(L, A, R) PROVE Says(M, A, R)
  <2>1. PICK i \in 1..Len(L) : L[i] \in R /\ \A j \in i + 1 .. Len(L) : L[j] \notin A
    BY <1>4 DEF Says
  <2>2. i \in 1..Len(M) /\ M[i] \in R
    BY <1>1, <1>2, <2>1
  <2>3. ASSUME NEW j \in i + 1 .. Len(M) PROVE M[j] \notin A
    <3>1. CASE j = Len(M)
      BY <1>1, <1>4, <3>1
    <3>2. CASE j # Len(M)
      BY <1>1, <1>2, <2>1, <2>3, <3>2
    <3> QED BY <3>1, <3>2
  <2> QED BY <2>2, <2>3 DEF Says
<1>5. ASSUME x \notin A, Mute(L, A) PROVE Mute(M, A)
  <2>1. ASSUME NEW j \in 1..Len(M) PROVE M[j] \notin A
    <3>1. CASE j = Len(M)
      BY <1>1, <1>5, <3>1
    <3>2. CASE j # Len(M)
      BY <1>1, <1>2, <1>5, <2>1, <3>2 DEF Mute
    <3> QED BY <3>1, <3>2
  <2> QED BY <2>1 DEF Mute
<1> QED BY <1>3, <1>4, <1>5

LEMMA SaysTaken ==
    ASSUME NEW L, NEW M, NEW x, Shorter(M, L, x), NEW A, NEW R
    PROVE  /\ Says(L, A, R) => Says(M, A, R) \/ (x \in R /\ Mute(M, A))
           /\ Mute(L, A) => Mute(M, A) /\ x \notin A
<1>1. Len(L) \in Nat \ {0} /\ Len(M) = Len(L) - 1 /\ x = L[1] /\ \A i \in 1..Len(M) : M[i] = L[i + 1]
  BY DEF Shorter
<1>2. ASSUME Says(L, A, R) PROVE Says(M, A, R) \/ (x \in R /\ Mute(M, A))
  <2>1. PICK i \in 1..Len(L) : L[i] \in R /\ \A j \in i + 1 .. Len(L) : L[j] \notin A
    BY <1>2 DEF Says
  <2>2. CASE i = 1
    <3>1. ASSUME NEW j \in 1..Len(M) PROVE M[j] \notin A
      BY <1>1, <2>1, <2>2
    <3> QED BY <1>1, <2>1, <2>2, <3>1 DEF Mute
  <2>3. CASE i # 1
    <3> DEFINE k == i - 1
    <3>1. k \in 1..Len(M) /\ M[k] = L[i]
      BY <1>1, <2>3
    <3>2. ASSUME NEW j \in k + 1 .. Len(M) PROVE M[j] \notin A
      BY <1>1, <2>1, <2>3
    <3> HIDE DEF k
    <3> QED BY <2>1, <3>1, <3>2 DEF Says
  <2> QED BY <2>2, <2>3
<1>3. ASSUME Mute(L, A) PROVE Mute(M, A) /\ x \notin A
  BY <1>1, <1>3 DEF Mute
<1> QED BY <1>2, <1>3

LEMMA SameCounts == ASSUME NEW part, NEW S PROVE Niri(part)!Cardinality(S) = Cardinality(S)
BY DEF Niri!Cardinality, Cardinality


\* What niri says on a connection, to a panel that knows all its words.
NiriLines(part) ==
    [what : {"handled", "end"}]
    \cup [what : {"workspaces"}, ids : SUBSET part.ids, active : part.ids, urgent : SUBSET part.ids]
    \cup [what : {"activated", "opened", "closed"}, id : part.ids]
    \cup [what : {"urgency"}, id : part.ids, on : BOOLEAN]
    \cup [what : {"windows"}, ids : SUBSET part.ids]
    \cup [what : {"layouts", "switched"}, layout : Int]

\* What a line is about: one of these topics, of a workspace if it is about one.
Topics == {"ids", "active", "urgent", "windows", "layout"}
About(part, of, id) ==
    {l \in NiriLines(part) :
        \/ of \in {"ids", "active", "urgent"} /\ l.what = "workspaces"
        \/ of = "active" /\ l.what = "activated"
        \/ of = "urgent" /\ l.what = "urgency" /\ l.id = id
        \/ of = "windows" /\ l.what = "windows"
        \/ of = "windows" /\ l.what \in {"opened", "closed"} /\ l.id = id
        \/ of = "layout" /\ l.what \in {"layouts", "switched"}}

\* What it says of it is so.
Truths(part, w, of, id) ==
    {l \in About(part, of, id) :
        /\ of = "ids" => l.ids = w.ids
        /\ of = "active" => /\ l.what = "workspaces" => l.active = w.active
                            /\ l.what = "activated" => l.id = w.active
        /\ of = "urgent" => /\ l.what = "workspaces" => (id \in l.urgent <=> id \in w.urgent)
                            /\ l.what = "urgency" => (l.on <=> id \in w.urgent)
        /\ of = "windows" => /\ l.what = "windows" => (id \in l.ids <=> id \in w.windows)
                             /\ l.what = "opened" => id \in w.windows
                             /\ l.what = "closed" => id \notin w.windows
        /\ of = "layout" => l.layout = w.layout}

Agree(a, b, of, id) ==
    /\ of = "ids" => a.ids = b.ids
    /\ of = "active" => a.active = b.active
    /\ of = "urgent" => (id \in a.urgent <=> id \in b.urgent)
    /\ of = "windows" => (id \in a.windows <=> id \in b.windows)
    /\ of = "layout" => a.layout = b.layout

Pictured(part, s) ==
    /\ DOMAIN s = {"ids", "active", "windows", "urgent", "layout"}
    /\ s.ids \subseteq part.ids /\ s.windows \subseteq part.ids /\ s.urgent \subseteq part.ids

\* What the lines have of their own.
LEMMA NiriSpeaks ==
    ASSUME NEW part, NEW l \in NiriLines(part)
    PROVE  /\ l.what \in {"handled", "end", "workspaces", "activated", "opened", "closed", "urgency", "windows",
                          "layouts", "switched"}
           /\ l.what = "workspaces" => l.ids \subseteq part.ids /\ l.active \in part.ids /\ l.urgent \subseteq part.ids
           /\ l.what \in {"activated", "opened", "closed", "urgency"} => l.id \in part.ids
           /\ l.what = "windows" => l.ids \subseteq part.ids
           /\ l.what \in {"layouts", "switched"} => l.layout \in Int
<1>1. CASE l \in [what : {"handled", "end"}]
  BY <1>1
<1>2. CASE l \in [what : {"workspaces"}, ids : SUBSET part.ids, active : part.ids, urgent : SUBSET part.ids]
  BY <1>2
<1>3. CASE l \in [what : {"activated", "opened", "closed"}, id : part.ids]
  BY <1>3
<1>4. CASE l \in [what : {"urgency"}, id : part.ids, on : BOOLEAN]
  BY <1>4
<1>5. CASE l \in [what : {"windows"}, ids : SUBSET part.ids]
  BY <1>5
<1>6. CASE l \in [what : {"layouts", "switched"}, layout : Int]
  BY <1>6
<1> QED BY <1>1, <1>2, <1>3, <1>4, <1>5, <1>6 DEF NiriLines

\* EventStreamState::apply takes what a line says and leaves the rest.
LEMMA NiriApplies ==
    ASSUME NEW part, NEW state, Pictured(part, state), NEW w,
           NEW l \in NiriLines(part), l.what \notin {"handled", "end"}
    PROVE  LET t == Niri(part)!Applied(state, l) IN
           /\ Pictured(part, t)
           /\ \A of \in Topics, id \in part.ids :
                 /\ l \in Truths(part, w, of, id) => Agree(t, w, of, id)
                 /\ l \notin About(part, of, id) /\ Agree(state, w, of, id) => Agree(t, w, of, id)
<1> DEFINE t == Niri(part)!Applied(state, l)
<1>0. /\ DOMAIN state = {"ids", "active", "windows", "urgent", "layout"}
      /\ state.ids \subseteq part.ids /\ state.windows \subseteq part.ids /\ state.urgent \subseteq part.ids
  BY DEF Pictured
<1>1. CASE l.what = "workspaces"
  <2>1. t = [state EXCEPT !.ids = l.ids, !.active = l.active, !.urgent = l.urgent]
    BY <1>1 DEF Niri!Applied
  <2> HIDE DEF t
  <2>2. /\ DOMAIN t = DOMAIN state /\ t.ids = l.ids /\ t.active = l.active /\ t.urgent = l.urgent
        /\ t.windows = state.windows /\ t.layout = state.layout
    BY <1>0, <2>1
  <2>3. Pictured(part, t)
    BY <1>0, <1>1, <2>2, NiriSpeaks DEF Pictured
  <2>4. ASSUME NEW of \in Topics, NEW id \in part.ids
        PROVE  /\ l \in Truths(part, w, of, id) => Agree(t, w, of, id)
               /\ l \notin About(part, of, id) /\ Agree(state, w, of, id) => Agree(t, w, of, id)
    BY <1>1, <2>2, <2>4 DEF Truths, About, Agree, Topics
  <2> QED BY <2>3, <2>4 DEF t
<1>2. CASE l.what = "activated"
  <2>1. t = [state EXCEPT !.active = l.id]
    BY <1>2 DEF Niri!Applied
  <2> HIDE DEF t
  <2>2. /\ DOMAIN t = DOMAIN state /\ t.ids = state.ids /\ t.active = l.id /\ t.urgent = state.urgent
        /\ t.windows = state.windows /\ t.layout = state.layout
    BY <1>0, <2>1
  <2>3. Pictured(part, t)
    BY <1>0, <2>2 DEF Pictured
  <2>4. ASSUME NEW of \in Topics, NEW id \in part.ids
        PROVE  /\ l \in Truths(part, w, of, id) => Agree(t, w, of, id)
               /\ l \notin About(part, of, id) /\ Agree(state, w, of, id) => Agree(t, w, of, id)
    BY <1>2, <2>2, <2>4 DEF Truths, About, Agree, Topics
  <2> QED BY <2>3, <2>4 DEF t
<1>3. CASE l.what = "windows"
  <2>1. t = [state EXCEPT !.windows = l.ids]
    BY <1>3 DEF Niri!Applied
  <2> HIDE DEF t
  <2>2. /\ DOMAIN t = DOMAIN state /\ t.ids = state.ids /\ t.active = state.active /\ t.urgent = state.urgent
        /\ t.windows = l.ids /\ t.layout = state.layout
    BY <1>0, <2>1
  <2>3. Pictured(part, t)
    BY <1>0, <1>3, <2>2, NiriSpeaks DEF Pictured
  <2>4. ASSUME NEW of \in Topics, NEW id \in part.ids
        PROVE  /\ l \in Truths(part, w, of, id) => Agree(t, w, of, id)
               /\ l \notin About(part, of, id) /\ Agree(state, w, of, id) => Agree(t, w, of, id)
    BY <1>3, <2>2, <2>4 DEF Truths, About, Agree, Topics
  <2> QED BY <2>3, <2>4 DEF t
<1>4. CASE l.what \in {"opened", "closed"}
  <2> DEFINE windows == IF l.what = "opened" THEN state.windows \cup {l.id} ELSE state.windows \ {l.id}
  <2>1. t = [state EXCEPT !.windows = windows]
    BY <1>4 DEF Niri!Applied
  <2>2. windows \subseteq part.ids
    BY <1>0, <1>4, NiriSpeaks
  <2>3. ASSUME NEW id \in part.ids
        PROVE  IF id = l.id THEN id \in windows <=> l.what = "opened" ELSE id \in windows <=> id \in state.windows
    BY <1>4
  <2> HIDE DEF t, windows
  <2>4. /\ DOMAIN t = DOMAIN state /\ t.ids = state.ids /\ t.active = state.active /\ t.urgent = state.urgent
        /\ t.windows = windows /\ t.layout = state.layout
    BY <1>0, <2>1
  <2>5. Pictured(part, t)
    BY <1>0, <2>2, <2>4 DEF Pictured
  <2>6. ASSUME NEW of \in Topics, NEW id \in part.ids
        PROVE  /\ l \in Truths(part, w, of, id) => Agree(t, w, of, id)
               /\ l \notin About(part, of, id) /\ Agree(state, w, of, id) => Agree(t, w, of, id)
    BY <1>4, <2>3, <2>4, <2>6 DEF Truths, About, Agree, Topics
  <2> QED BY <2>5, <2>6 DEF t
<1>5. CASE l.what = "urgency"
  <2> DEFINE urgent == IF l.on THEN state.urgent \cup {l.id} ELSE state.urgent \ {l.id}
  <2>1. t = [state EXCEPT !.urgent = urgent]
    BY <1>5 DEF Niri!Applied
  <2>2. urgent \subseteq part.ids
    BY <1>0, <1>5, NiriSpeaks
  <2>3. ASSUME NEW id \in part.ids
        PROVE  IF id = l.id THEN id \in urgent <=> l.on ELSE id \in urgent <=> id \in state.urgent
    OBVIOUS
  <2> HIDE DEF t, urgent
  <2>4. /\ DOMAIN t = DOMAIN state /\ t.ids = state.ids /\ t.active = state.active /\ t.urgent = urgent
        /\ t.windows = state.windows /\ t.layout = state.layout
    BY <1>0, <2>1
  <2>5. Pictured(part, t)
    BY <1>0, <2>2, <2>4 DEF Pictured
  <2>6. ASSUME NEW of \in Topics, NEW id \in part.ids
        PROVE  /\ l \in Truths(part, w, of, id) => Agree(t, w, of, id)
               /\ l \notin About(part, of, id) /\ Agree(state, w, of, id) => Agree(t, w, of, id)
    BY <1>5, <2>3, <2>4, <2>6 DEF Truths, About, Agree, Topics
  <2> QED BY <2>5, <2>6 DEF t
<1>6. CASE l.what \in {"layouts", "switched"}
  <2>1. t = [state EXCEPT !.layout = l.layout]
    BY <1>6 DEF Niri!Applied
  <2> HIDE DEF t
  <2>2. /\ DOMAIN t = DOMAIN state /\ t.ids = state.ids /\ t.active = state.active /\ t.urgent = state.urgent
        /\ t.windows = state.windows /\ t.layout = l.layout
    BY <1>0, <2>1
  <2>3. Pictured(part, t)
    BY <1>0, <2>2 DEF Pictured
  <2>4. ASSUME NEW of \in Topics, NEW id \in part.ids
        PROVE  /\ l \in Truths(part, w, of, id) => Agree(t, w, of, id)
               /\ l \notin About(part, of, id) /\ Agree(state, w, of, id) => Agree(t, w, of, id)
    BY <1>6, <2>2, <2>4 DEF Truths, About, Agree, Topics
  <2> QED BY <2>3, <2>4 DEF t
<1> QED BY <1>1, <1>2, <1>3, <1>4, <1>5, <1>6, NiriSpeaks


NiriShape(part) ==
    /\ DOMAIN panel = {"phase", "state", "workspaces", "layout", "stripDue", "layoutDue", "dim", "text", "slots",
                       "pill", "urgent", "fresh", "from", "progress", "runs", "scroll"}
    /\ DOMAIN world = {"up", "ids", "active", "windows", "urgent", "layout", "asleep", "moves", "clicks"}
    /\ DOMAIN wire = {"open", "told", "silent", "lines", "kicked", "asked"}
    /\ DOMAIN panel.workspaces = {"connected", "ids", "active", "windows", "urgent"}
    /\ DOMAIN panel.layout = {"connected", "layout"}
    /\ panel.phase \in {"waiting", "shaking", "open"}
    /\ Pictured(part, panel.state)
    /\ panel.workspaces.ids \subseteq part.ids
    /\ world.ids \subseteq part.ids /\ world.windows \subseteq part.ids /\ world.urgent \subseteq part.ids
    /\ world.active \in part.ids /\ world.layout \in Int
    /\ wire.lines \in Seq(NiriLines(part))

\* A connection that is not known to be over, and on which nothing says so.
Live == wire.open /\ ~wire.silent /\ \A i \in 1..Len(wire.lines) : wire.lines[i].what # "end"

LinkInv ==
    /\ panel.phase = "waiting" => ~wire.open /\ ~wire.told /\ ~wire.silent /\ wire.lines = <<>>
    /\ panel.phase # "waiting" => wire.open
    /\ wire.silent => panel.phase = "open" /\ (world.asleep \/ wire.kicked)
    /\ \A i \in 1..Len(wire.lines) :
          wire.lines[i].what = "handled" =>
             \/ panel.phase = "shaking" /\ i = 1
             \/ \E j \in 1 .. i - 1 : wire.lines[j].what = "end"
    /\ Live => world.up
    /\ Live /\ panel.phase = "open" => wire.told
    /\ Live /\ panel.phase = "shaking" => (wire.told <=> wire.lines # <<>>)
    /\ panel.phase = "shaking" /\ wire.lines = <<>> => ~wire.told

\* Of everything, either it was last said rightly, or the panel has it right and nothing is said.
FoldInv(part) ==
    Live /\ wire.told =>
        \A of \in Topics, id \in part.ids :
            \/ Says(wire.lines, About(part, of, id), Truths(part, world, of, id))
            \/ /\ panel.phase = "open" /\ Mute(wire.lines, About(part, of, id))
               /\ Agree(panel.state, world, of, id)

\* What is published is what is known, and what is drawn is what was published, or is to be.
PublishedInv(part) ==
    /\ panel.phase = "open" => /\ panel.workspaces = Niri(part)!Workspaces(panel.state, TRUE)
                               /\ panel.layout = Niri(part)!Layout(panel.state, TRUE)
    /\ ~panel.stripDue => /\ panel.slots = Niri(part)!Slots(panel.workspaces)
                          /\ panel.pill = panel.workspaces.active
                          /\ (panel.dim <=> ~panel.workspaces.connected)
    /\ ~panel.layoutDue => panel.text = panel.layout.layout

\* Where a strip slides from, how far it is, and what is left of its runs: nothing of a slide
\* when its run is over.
Rects == [x : Int, width : Int]
Slides(part, strip) ==
    /\ strip.slots \subseteq part.ids /\ strip.from \in [strip.slots -> Rects]
    /\ strip.runs \in [{"transfer", "appear", "pulse"} -> 0..2] /\ strip.progress \in 0..2
    /\ strip.runs.transfer = 2 => strip.progress = 2

NiriParts(part) ==
    NiriShape(part) /\ LinkInv /\ FoldInv(part) /\ PublishedInv(part) /\ Slides(part, panel)
NiriInv(part) == {"early", "garble"} \cap part.does = {} => NiriParts(part)

LEMMA NiriRects ==
    ASSUME NEW part, Niri(part)!ConstantsOK, NEW ids, ids \subseteq part.ids, NEW active
    PROVE  Niri(part)!SlotRects(ids, active) \in [ids -> Rects]
<1>1. IsFiniteSet(part.ids)
  BY DEF Niri!ConstantsOK, Niri!IsFiniteSet, IsFiniteSet
<1> DEFINE before(i) == {j \in ids : j < i}
           rect(i) == [x |-> Niri(part)!Cardinality(before(i)) * 16 + (IF active \in before(i) THEN 16 ELSE 0),
                       width |-> 8 + (IF i = active THEN 16 ELSE 0)]
<1>2. ASSUME NEW i \in ids PROVE rect(i) \in Rects
  <2>1. before(i) \subseteq part.ids
    OBVIOUS
  <2>2. Niri(part)!Cardinality(before(i)) \in Nat
    BY <1>1, <2>1, SameCounts, FS_Subset, FS_CardinalityType
  <2> HIDE DEF before
  <2> QED BY <2>2 DEF Rects
<1>3. Niri(part)!SlotRects(ids, active) = [i \in ids |-> rect(i)]
  BY DEF Niri!SlotRects, Niri!DOT_SIZE, Niri!SLOT_GAP, Niri!ACTIVE_DELTA
<1> HIDE DEF rect
<1> QED BY <1>2, <1>3

LEMMA NiriCurrent ==
    ASSUME NEW part, Niri(part)!ConstantsOK, NEW strip, strip.slots \subseteq part.ids,
           strip.from \in [strip.slots -> Rects], strip.progress \in 0..2
    PROVE  /\ Niri(part)!CurrentRects(strip) \in [strip.slots -> Rects]
           /\ strip.progress = 2 =>
                 Niri(part)!CurrentRects(strip) = Niri(part)!SlotRects(strip.slots, strip.pill)
<1> DEFINE to == Niri(part)!SlotRects(strip.slots, strip.pill)
           lerp(a, b) == a + ((b - a) * strip.progress) \div 2
           rect(i) == [x |-> lerp(strip.from[i].x, to[i].x), width |-> lerp(strip.from[i].width, to[i].width)]
<1>1. to \in [strip.slots -> Rects]
  BY NiriRects
<1>2. Niri(part)!CurrentRects(strip) = [i \in DOMAIN to |-> rect(i)]
  BY DEF Niri!CurrentRects, Niri!Lerp, Niri!Over
<1> HIDE DEF to
<1>3. ASSUME NEW a \in Int, NEW b \in Int
      PROVE  lerp(a, b) \in Int /\ (strip.progress = 2 => lerp(a, b) = b)
  <2>1. CASE strip.progress = 2
    BY <2>1
  <2>2. CASE strip.progress = 1
    BY <2>2
  <2>3. CASE strip.progress = 0
    BY <2>3
  <2> QED BY <2>1, <2>2, <2>3
<1> HIDE DEF lerp
<1>4. ASSUME NEW i \in strip.slots
      PROVE  rect(i) \in Rects /\ (strip.progress = 2 => rect(i) = to[i])
  <2>1. strip.from[i].x \in Int /\ strip.from[i].width \in Int /\ to[i].x \in Int /\ to[i].width \in Int
    BY <1>1 DEF Rects
  <2>2. to[i] = [x |-> to[i].x, width |-> to[i].width]
    BY <1>1 DEF Rects
  <2> QED BY <1>3, <2>1, <2>2 DEF Rects
<1> HIDE DEF rect
<1>5. DOMAIN to = strip.slots /\ to = [i \in strip.slots |-> to[i]]
  BY <1>1
<1> QED BY <1>2, <1>4, <1>5 DEF to

LEMMA NiriPromises ==
    ASSUME NEW part, Niri(part)!ConstantsOK, NiriInv(part), {"early", "garble"} \cap part.does = {}
    PROVE  Niri(part)!QuietIsCurrent
<1>1. NiriShape(part) /\ LinkInv /\ FoldInv(part) /\ PublishedInv(part) /\ Slides(part, panel)
  BY DEF NiriInv, NiriParts
<1> SUFFICES ASSUME ~Niri(part)!TurnDue, ~Niri(part)!ServerDue, ~Niri(part)!LoopDue
             PROVE  /\ panel.slots = Niri(part)!Slots(Niri(part)!Workspaces(Niri(part)!Real, TRUE))
                    /\ panel.pill = world.active /\ ~panel.dim /\ panel.text = world.layout
                    /\ Niri(part)!CurrentRects(panel) = Niri(part)!SlotRects(panel.slots, panel.pill)
                    /\ \A i \in panel.slots : Niri(part)!Size(panel, i) = 2 /\ ~Niri(part)!Swells(panel, i)
  BY DEF Niri!QuietIsCurrent, Niri!Rest, Niri!Over
<1>2. panel.phase = "open" /\ wire.open /\ wire.lines = <<>> /\ ~wire.silent
  BY <1>1 DEF Niri!TurnDue, Niri!ServerDue, NiriShape, LinkInv
<1>3. Live /\ wire.told
  <2>1. 1..Len(wire.lines) = {}
    BY <1>2
  <2> QED BY <1>1, <1>2, <2>1 DEF Live, LinkInv
<1>4. ASSUME NEW of \in Topics, NEW id \in part.ids PROVE Agree(panel.state, world, of, id)
  <2>1. ~Says(wire.lines, About(part, of, id), Truths(part, world, of, id))
    BY <1>2 DEF Says
  <2> QED BY <1>1, <1>3, <2>1 DEF FoldInv
<1>5. /\ panel.state.ids = world.ids /\ panel.state.active = world.active /\ panel.state.layout = world.layout
      /\ panel.state.windows = world.windows /\ panel.state.urgent = world.urgent
  <2>1. /\ world.active \in part.ids /\ panel.state.windows \subseteq part.ids /\ panel.state.urgent \subseteq part.ids
        /\ world.windows \subseteq part.ids /\ world.urgent \subseteq part.ids
    BY <1>1 DEF NiriShape, Pictured
  <2>2. panel.state.ids = world.ids /\ panel.state.active = world.active /\ panel.state.layout = world.layout
    BY <1>4, <2>1 DEF Agree, Topics
  <2>3. \A id \in part.ids : id \in panel.state.windows <=> id \in world.windows
    BY <1>4 DEF Agree, Topics
  <2>4. \A id \in part.ids : id \in panel.state.urgent <=> id \in world.urgent
    BY <1>4 DEF Agree, Topics
  <2> QED BY <2>1, <2>2, <2>3, <2>4
<1>6. ~panel.stripDue /\ ~panel.layoutDue /\ \A r \in DOMAIN panel.runs : panel.runs[r] = 2
  BY DEF Niri!LoopDue, Niri!Moving, Niri!Over
<1>7. /\ panel.workspaces = Niri(part)!Workspaces(Niri(part)!Real, TRUE)
      /\ panel.layout.layout = world.layout
  BY <1>1, <1>2, <1>5 DEF PublishedInv, Niri!Workspaces, Niri!Layout, Niri!Real
<1>8. panel.workspaces.active = world.active /\ panel.workspaces.connected
  BY <1>7 DEF Niri!Workspaces, Niri!Real
<1>9. /\ panel.slots = Niri(part)!Slots(Niri(part)!Workspaces(Niri(part)!Real, TRUE))
      /\ panel.pill = world.active /\ ~panel.dim /\ panel.text = world.layout
  BY <1>1, <1>6, <1>7, <1>8 DEF PublishedInv
<1>10. panel.runs.transfer = 2 /\ panel.runs.appear = 2 /\ panel.runs.pulse = 2
  BY <1>1, <1>6 DEF Slides
<1>11. Niri(part)!CurrentRects(panel) = Niri(part)!SlotRects(panel.slots, panel.pill)
  BY <1>1, <1>10, NiriCurrent DEF Slides
<1>12. \A i \in panel.slots : Niri(part)!Size(panel, i) = 2 /\ ~Niri(part)!Swells(panel, i)
  BY <1>10 DEF Niri!Size, Niri!Swells, Niri!Over
<1> QED BY <1>9, <1>11, <1>12

LEMMA NiriStarts ==
    ASSUME NEW part, Niri(part)!ConstantsOK, Niri(part)!Init
    PROVE  NiriInv(part)
<1>1. NiriShape(part)
  BY DEF Niri!Init, Niri!ConstantsOK, Niri!Nothing, Niri!Workspaces, Niri!Layout, NiriShape, Pictured
<1>2. LinkInv /\ FoldInv(part) /\ PublishedInv(part)
  BY DEF Niri!Init, LinkInv, Live, FoldInv, PublishedInv
<1>3. Slides(part, panel)
  <2>1. /\ panel.slots = {} /\ panel.from = Niri(part)!SlotRects({}, NoOne) /\ panel.progress = 2
        /\ panel.runs = [r \in {"transfer", "appear", "pulse"} |-> 2]
    BY DEF Niri!Init, Niri!Over
  <2>2. panel.from \in [panel.slots -> Rects]
    BY <2>1, NiriRects
  <2> QED BY <2>1, <2>2 DEF Slides
<1> QED BY <1>1, <1>2, <1>3 DEF NiriInv, NiriParts


\* What is so of what two worlds agree on is so in both.
LEMMA TruthsStay ==
    ASSUME NEW part, NEW v, NEW w, NEW of \in Topics, NEW id, Agree(v, w, of, id)
    PROVE  Truths(part, v, of, id) = Truths(part, w, of, id)
<1>1. CASE of = "ids"
  BY <1>1 DEF Truths, Agree
<1>2. CASE of = "active"
  BY <1>2 DEF Truths, Agree
<1>3. CASE of = "urgent"
  BY <1>3 DEF Truths, Agree
<1>4. CASE of = "windows"
  BY <1>4 DEF Truths, Agree
<1>5. CASE of = "layout"
  BY <1>5 DEF Truths, Agree
<1> QED BY <1>1, <1>2, <1>3, <1>4, <1>5 DEF Topics

\* What happens in the compositor is told, and a line that is told says how things are.
LEMMA NiriTells ==
    ASSUME NEW part, NiriParts(part), NEW s, NEW x \in NiriLines(part), x.what \notin {"handled", "end"},
           DOMAIN s = {"panel", "world", "wire"}, s.panel = panel,
           DOMAIN s.wire = DOMAIN wire, \A f \in DOMAIN wire \ {"asked"} : s.wire[f] = wire[f],
           DOMAIN s.world = DOMAIN world, s.world.up = world.up, s.world.asleep = world.asleep,
           s.world.ids \subseteq part.ids, s.world.windows \subseteq part.ids, s.world.urgent \subseteq part.ids,
           s.world.active \in part.ids, s.world.layout \in Int,
           \A of \in Topics, id \in part.ids :
              \/ x \in Truths(part, s.world, of, id)
              \/ x \notin About(part, of, id) /\ Agree(world, s.world, of, id),
           Niri(part)!Become(Niri(part)!Tell(s, x))
    PROVE  NiriParts(part)'
<1> DEFINE heard == wire.open /\ wire.told /\ ~wire.silent
           lines == IF heard THEN Append(wire.lines, x) ELSE wire.lines
<1>1. NiriShape(part) /\ LinkInv /\ FoldInv(part) /\ PublishedInv(part) /\ Slides(part, panel)
  BY DEF NiriParts
<1>2. /\ DOMAIN wire = {"open", "told", "silent", "lines", "kicked", "asked"}
      /\ s.wire.open = wire.open /\ s.wire.told = wire.told /\ s.wire.silent = wire.silent
      /\ s.wire.lines = wire.lines /\ s.wire.kicked = wire.kicked
  BY <1>1 DEF NiriShape
<1>3. /\ panel' = panel /\ world' = s.world
      /\ DOMAIN wire' = DOMAIN wire /\ wire'.lines = lines
      /\ wire'.open = wire.open /\ wire'.told = wire.told /\ wire'.silent = wire.silent
      /\ wire'.kicked = wire.kicked
  <2>1. CASE heard
    <3>1. Niri(part)!Tell(s, x) = [s EXCEPT !.wire.lines = Append(wire.lines, x)]
      BY <1>2, <2>1 DEF Niri!Tell
    <3>2. panel' = panel /\ world' = s.world /\ wire' = [s.wire EXCEPT !.lines = Append(wire.lines, x)]
      BY <3>1 DEF Niri!Become
    <3> QED BY <1>2, <2>1, <3>2
  <2>2. CASE ~heard
    BY <1>2, <2>2 DEF Niri!Tell, Niri!Become
  <2> QED BY <2>1, <2>2
<1>4. wire.lines \in Seq(NiriLines(part)) /\ Len(wire.lines) \in Nat
  BY <1>1 DEF NiriShape
<1>5. CASE heard
  <2>1. lines = Append(wire.lines, x)
    BY <1>5
  <2> HIDE DEF lines
  <2>2. /\ lines \in Seq(NiriLines(part)) /\ Len(lines) = Len(wire.lines) + 1 /\ lines[Len(lines)] = x
        /\ \A i \in 1..Len(wire.lines) : lines[i] = wire.lines[i]
    BY <1>4, <2>1
  <2>0. Longer(lines, wire.lines, x)
    BY <1>4, <2>2 DEF Longer
  <2>3. \A i \in 1..Len(lines) : i # Len(lines) => i \in 1..Len(wire.lines) /\ lines[i] = wire.lines[i]
    BY <1>4, <2>2
  <2>4. \A i \in 1..Len(wire.lines) : i \in 1..Len(lines)
    BY <1>4, <2>2
  <2>5. Live' <=> Live
    <3>1. (\A i \in 1..Len(lines) : lines[i].what # "end") <=> (\A i \in 1..Len(wire.lines) : wire.lines[i].what # "end")
      BY <2>2, <2>3, <2>4
    <3> QED BY <1>3, <3>1 DEF Live
  <2>6. NiriShape(part)'
    BY <1>1, <1>3, <2>2 DEF NiriShape
  <2>7. LinkInv'
    <3>1. \A i \in 1..Len(lines) :
             lines[i].what = "handled" =>
                \/ panel.phase = "shaking" /\ i = 1
                \/ \E j \in 1 .. i - 1 : lines[j].what = "end"
      <4> SUFFICES ASSUME NEW i \in 1..Len(lines), lines[i].what = "handled", ~(panel.phase = "shaking" /\ i = 1)
                   PROVE  \E j \in 1 .. i - 1 : lines[j].what = "end"
        OBVIOUS
      <4>1. i \in 1..Len(wire.lines) /\ wire.lines[i].what = "handled"
        BY <2>2, <2>3
      <4>2. PICK j \in 1 .. i - 1 : wire.lines[j].what = "end"
        BY <1>1, <4>1 DEF LinkInv
      <4>3. j \in 1..Len(wire.lines)
        BY <1>4, <4>1, <4>2
      <4> QED BY <2>2, <4>2, <4>3
    <3>2. lines # <<>>
      BY <1>4, <2>2
    <3>3. panel.phase # "waiting" /\ wire.told /\ wire.open /\ ~wire.silent
      BY <1>1, <1>5 DEF LinkInv
    <3>4. world'.up = world.up /\ (Live => world.up)
      BY <1>1, <1>3 DEF LinkInv
    <3> HIDE DEF heard
    <3> QED BY <1>3, <2>5, <3>1, <3>2, <3>3, <3>4 DEF LinkInv
  <2>8. FoldInv(part)'
    <3> SUFFICES ASSUME Live', NEW of \in Topics, NEW id \in part.ids
                 PROVE  \/ Says(lines, About(part, of, id), Truths(part, s.world, of, id))
                        \/ /\ panel.phase = "open" /\ Mute(lines, About(part, of, id))
                           /\ Agree(panel.state, s.world, of, id)
      BY <1>3 DEF FoldInv
    <3> DEFINE A == About(part, of, id)
               R == Truths(part, world, of, id)
               T == Truths(part, s.world, of, id)
    <3>1. Says(wire.lines, A, R) \/ (panel.phase = "open" /\ Mute(wire.lines, A) /\ Agree(panel.state, world, of, id))
      BY <1>1, <1>5, <2>5 DEF FoldInv
    <3>2. CASE x \in T
      <4> HIDE DEF A, T
      <4>1. Says(lines, A, T)
        BY <2>0, <3>2, SaysAppended
      <4> QED BY <4>1 DEF A, T
    <3>3. CASE x \notin A /\ Agree(world, s.world, of, id)
      <4>1. R = T
        BY <3>3, TruthsStay
      <4>2. Agree(panel.state, world, of, id) => Agree(panel.state, s.world, of, id)
        BY <3>3 DEF Agree
      <4> HIDE DEF A, R, T
      <4>3. /\ Says(wire.lines, A, R) => Says(lines, A, R)
            /\ Mute(wire.lines, A) => Mute(lines, A)
        BY <2>0, <3>3, SaysAppended
      <4> QED BY <3>1, <4>1, <4>2, <4>3 DEF A, T
    <3> QED BY <3>2, <3>3
  <2>9. PublishedInv(part)' /\ Slides(part, panel)'
    BY <1>1, <1>3 DEF PublishedInv, Slides
  <2> QED BY <2>6, <2>7, <2>8, <2>9 DEF NiriParts
<1>6. CASE ~heard
  <2>1. lines = wire.lines
    BY <1>6
  <2> HIDE DEF lines
  <2>2. Live' <=> Live
    BY <1>3, <2>1 DEF Live
  <2>3. NiriShape(part)'
    BY <1>1, <1>3, <2>1 DEF NiriShape
  <2>4. LinkInv'
    BY <1>1, <1>3, <2>1, <2>2 DEF LinkInv
  <2>5. FoldInv(part)'
    BY <1>3, <1>6, <2>2 DEF FoldInv, Live
  <2>6. PublishedInv(part)' /\ Slides(part, panel)'
    BY <1>1, <1>3 DEF PublishedInv, Slides
  <2> QED BY <2>3, <2>4, <2>5, <2>6 DEF NiriParts
<1> QED BY <1>5, <1>6


\* Things as they are, but for the counts and what the strip asked for.
Alike(s) ==
    /\ DOMAIN s = {"panel", "world", "wire"} /\ s.panel = panel
    /\ DOMAIN s.world = DOMAIN world /\ \A f \in DOMAIN world \ {"moves", "clicks"} : s.world[f] = world[f]
    /\ DOMAIN s.wire = DOMAIN wire /\ \A f \in DOMAIN wire \ {"asked"} : s.wire[f] = wire[f]

LEMMA NiriDid ==
    ASSUME NEW part, NiriShape(part)
    PROVE  Alike(Niri(part)!Now) /\ Alike(Niri(part)!Did(Niri(part)!Now))
BY DEF Alike, NiriShape, Niri!Did, Niri!Now

\* What only draws, counts or asks leaves what is known alone.
LEMMA NiriIdles ==
    ASSUME NEW part, NiriParts(part), DOMAIN panel' = DOMAIN panel,
           panel'.phase = panel.phase, panel'.state = panel.state,
           panel'.workspaces = panel.workspaces, panel'.layout = panel.layout,
           DOMAIN world' = DOMAIN world, \A f \in DOMAIN world \ {"moves", "clicks"} : world'[f] = world[f],
           DOMAIN wire' = DOMAIN wire, \A f \in DOMAIN wire \ {"asked"} : wire'[f] = wire[f]
    PROVE  NiriShape(part)' /\ LinkInv' /\ FoldInv(part)'
<1>1. NiriShape(part) /\ LinkInv /\ FoldInv(part)
  BY DEF NiriParts
<1>2. /\ world'.up = world.up /\ world'.ids = world.ids /\ world'.active = world.active
      /\ world'.windows = world.windows /\ world'.urgent = world.urgent /\ world'.layout = world.layout
      /\ world'.asleep = world.asleep
      /\ wire'.open = wire.open /\ wire'.told = wire.told /\ wire'.silent = wire.silent
      /\ wire'.lines = wire.lines /\ wire'.kicked = wire.kicked
  BY <1>1 DEF NiriShape
<1>3. NiriShape(part)'
  BY <1>1, <1>2 DEF NiriShape
<1>4. Live' <=> Live
  BY <1>2 DEF Live
<1>5. LinkInv'
  BY <1>1, <1>2, <1>4 DEF LinkInv
<1>6. ASSUME NEW of \in Topics, NEW id \in part.ids
      PROVE  /\ Truths(part, world', of, id) = Truths(part, world, of, id)
             /\ Agree(panel.state, world', of, id) <=> Agree(panel.state, world, of, id)
  BY <1>2 DEF Truths, Agree
<1>7. FoldInv(part)'
  BY <1>1, <1>2, <1>4, <1>6 DEF FoldInv
<1> QED BY <1>3, <1>5, <1>7

LEMMA NiriQuiet ==
    ASSUME NEW part, NiriParts(part), NEW s, Alike(s), Niri(part)!Become(s)
    PROVE  NiriParts(part)'
<1>1. /\ panel' = panel
      /\ DOMAIN world' = DOMAIN world /\ \A f \in DOMAIN world \ {"moves", "clicks"} : world'[f] = world[f]
      /\ DOMAIN wire' = DOMAIN wire /\ \A f \in DOMAIN wire \ {"asked"} : wire'[f] = wire[f]
  BY DEF Niri!Become, Alike
<1>2. NiriShape(part)' /\ LinkInv' /\ FoldInv(part)'
  BY <1>1, NiriIdles
<1>3. PublishedInv(part)' /\ Slides(part, panel)'
  BY <1>1 DEF NiriParts, PublishedInv, Slides
<1> QED BY <1>2, <1>3 DEF NiriParts

LEMMA NiriFocused ==
    ASSUME NEW part, NiriParts(part), NEW s, Alike(s), NEW id,
           Niri(part)!Become(Niri(part)!Focused(s, id))
    PROVE  NiriParts(part)'
<1>1. NiriShape(part)
  BY DEF NiriParts
<1>2. /\ s.world.up = world.up /\ s.world.ids = world.ids /\ s.world.active = world.active
      /\ s.world.windows = world.windows /\ s.world.urgent = world.urgent /\ s.world.layout = world.layout
      /\ s.world.asleep = world.asleep
  BY <1>1 DEF NiriShape, Alike
<1>3. CASE id \in world.ids /\ id # world.active
  <2> DEFINE x == [what |-> "activated", id |-> id]
             t == [s EXCEPT !.world.active = id]
  <2>1. Niri(part)!Become(Niri(part)!Tell(t, x))
    BY <1>2, <1>3 DEF Niri!Focused
  <2>2. /\ DOMAIN t = {"panel", "world", "wire"} /\ t.panel = panel /\ t.wire = s.wire
        /\ DOMAIN t.world = DOMAIN world /\ t.world.active = id
        /\ \A f \in DOMAIN world \ {"moves", "clicks", "active"} : t.world[f] = world[f]
    BY <1>1 DEF NiriShape, Alike
  <2>3. x \in NiriLines(part) /\ x.what = "activated" /\ x.id = id
    BY <1>1, <1>3 DEF NiriLines, NiriShape
  <2> HIDE DEF t, x
  <2>4. /\ t.world.up = world.up /\ t.world.ids = world.ids
        /\ t.world.windows = world.windows /\ t.world.urgent = world.urgent /\ t.world.layout = world.layout
        /\ t.world.asleep = world.asleep
    BY <1>1, <2>2 DEF NiriShape
  <2>5. ASSUME NEW of \in Topics, NEW i \in part.ids
        PROVE  \/ x \in Truths(part, t.world, of, i)
               \/ x \notin About(part, of, i) /\ Agree(world, t.world, of, i)
    BY <2>2, <2>3, <2>4, <2>5 DEF Truths, About, Agree, Topics
  <2>6. DOMAIN t.wire = DOMAIN wire /\ \A f \in DOMAIN wire \ {"asked"} : t.wire[f] = wire[f]
    BY <2>2 DEF Alike
  <2>7. /\ t.world.ids \subseteq part.ids /\ t.world.windows \subseteq part.ids /\ t.world.urgent \subseteq part.ids
        /\ t.world.active \in part.ids /\ t.world.layout \in Int
    BY <1>1, <1>3, <2>2, <2>4 DEF NiriShape
  <2>8. x.what \notin {"handled", "end"}
    BY <2>3
  <2> QED BY <2>1, <2>2, <2>3, <2>4, <2>5, <2>6, <2>7, <2>8, NiriTells
<1>4. CASE ~(id \in world.ids /\ id # world.active)
  <2>1. Niri(part)!Become(s)
    BY <1>2, <1>4 DEF Niri!Focused
  <2> QED BY <2>1, NiriQuiet
<1> QED BY <1>3, <1>4


LEMMA NiriFields ==
    ASSUME NEW part, NiriShape(part), NEW s, Alike(s)
    PROVE  /\ DOMAIN s = {"panel", "world", "wire"} /\ s.panel = panel
           /\ DOMAIN s.world = DOMAIN world
           /\ DOMAIN world = {"up", "ids", "active", "windows", "urgent", "layout", "asleep", "moves", "clicks"}
           /\ s.world.up = world.up /\ s.world.ids = world.ids /\ s.world.active = world.active
           /\ s.world.windows = world.windows /\ s.world.urgent = world.urgent /\ s.world.layout = world.layout
           /\ s.world.asleep = world.asleep
           /\ DOMAIN s.wire = DOMAIN wire /\ \A f \in DOMAIN wire \ {"asked"} : s.wire[f] = wire[f]
           /\ world.ids \subseteq part.ids /\ world.windows \subseteq part.ids /\ world.urgent \subseteq part.ids
           /\ world.active \in part.ids /\ world.layout \in Int
BY DEF NiriShape, Alike

LEMMA NiriListed ==
    ASSUME NEW part, NiriParts(part), NEW s, Alike(s), NEW ids, ids \subseteq part.ids, NEW active \in part.ids,
           Niri(part)!Become(Niri(part)!Listed(s, ids, active))
    PROVE  NiriParts(part)'
<1> DEFINE urgent == world.urgent \cap ids
           x == [what |-> "workspaces", ids |-> ids, active |-> active, urgent |-> urgent]
           t == [s EXCEPT !.world.ids = ids, !.world.active = active, !.world.urgent = @ \cap ids]
<1>1. NiriShape(part)
  BY DEF NiriParts
<1>2. /\ DOMAIN s = {"panel", "world", "wire"} /\ s.panel = panel
      /\ DOMAIN s.world = DOMAIN world
      /\ DOMAIN world = {"up", "ids", "active", "windows", "urgent", "layout", "asleep", "moves", "clicks"}
      /\ s.world.up = world.up /\ s.world.windows = world.windows /\ s.world.urgent = world.urgent
      /\ s.world.layout = world.layout /\ s.world.asleep = world.asleep
  BY <1>1, NiriFields
<1>3. Niri(part)!Become(Niri(part)!Tell(t, x))
  BY <1>2 DEF Niri!Listed
<1>4. /\ DOMAIN t = {"panel", "world", "wire"} /\ t.panel = panel /\ t.wire = s.wire
      /\ DOMAIN t.world = DOMAIN world /\ t.world.up = world.up /\ t.world.asleep = world.asleep
      /\ t.world.ids = ids /\ t.world.active = active /\ t.world.urgent = urgent
      /\ t.world.windows = world.windows /\ t.world.layout = world.layout
  BY <1>2
<1>5. urgent \subseteq part.ids
  OBVIOUS
<1> HIDE DEF urgent
<1>6. x \in NiriLines(part) /\ x.what = "workspaces" /\ x.ids = ids /\ x.active = active /\ x.urgent = urgent
  BY <1>5 DEF NiriLines
<1> HIDE DEF t, x
<1>7. ASSUME NEW of \in Topics, NEW i \in part.ids
      PROVE  \/ x \in Truths(part, t.world, of, i)
             \/ x \notin About(part, of, i) /\ Agree(world, t.world, of, i)
  BY <1>4, <1>6, <1>7 DEF Truths, About, Agree, Topics
<1>8. DOMAIN t.wire = DOMAIN wire /\ \A f \in DOMAIN wire \ {"asked"} : t.wire[f] = wire[f]
  BY <1>4 DEF Alike
<1>9. /\ t.world.ids \subseteq part.ids /\ t.world.windows \subseteq part.ids /\ t.world.urgent \subseteq part.ids
      /\ t.world.active \in part.ids /\ t.world.layout \in Int
  BY <1>1, <1>4, <1>5 DEF NiriShape
<1>10. x.what \notin {"handled", "end"}
  BY <1>6
<1> QED BY <1>3, <1>4, <1>6, <1>7, <1>8, <1>9, <1>10, NiriTells

LEMMA NiriWindow ==
    ASSUME NEW part, NiriParts(part), NEW s, Alike(s), NEW what \in {"opened", "closed"}, NEW id \in part.ids,
           NEW windows, windows \subseteq part.ids,
           \A i \in part.ids : i \in windows <=> (IF i = id THEN what = "opened" ELSE i \in world.windows),
           NEW t, t = [s EXCEPT !.world.windows = windows],
           Niri(part)!Become(Niri(part)!Tell(t, [what |-> what, id |-> id]))
    PROVE  NiriParts(part)'
<1> DEFINE x == [what |-> what, id |-> id]
<1>1. NiriShape(part)
  BY DEF NiriParts
<1>2. /\ DOMAIN s = {"panel", "world", "wire"} /\ s.panel = panel
      /\ DOMAIN s.world = DOMAIN world
      /\ DOMAIN world = {"up", "ids", "active", "windows", "urgent", "layout", "asleep", "moves", "clicks"}
      /\ s.world.up = world.up /\ s.world.ids = world.ids /\ s.world.active = world.active
      /\ s.world.urgent = world.urgent /\ s.world.layout = world.layout /\ s.world.asleep = world.asleep
  BY <1>1, NiriFields
<1>3. Niri(part)!Become(Niri(part)!Tell(t, x))
  OBVIOUS
<1>4. /\ DOMAIN t = {"panel", "world", "wire"} /\ t.panel = panel /\ t.wire = s.wire
      /\ DOMAIN t.world = DOMAIN world /\ t.world.up = world.up /\ t.world.asleep = world.asleep
      /\ t.world.ids = world.ids /\ t.world.active = world.active /\ t.world.urgent = world.urgent
      /\ t.world.windows = windows /\ t.world.layout = world.layout
  BY <1>2
<1>5. x \in NiriLines(part) /\ x.what = what /\ x.id = id
  BY DEF NiriLines
<1> HIDE DEF x
<1>6. ASSUME NEW of \in Topics, NEW i \in part.ids
      PROVE  \/ x \in Truths(part, t.world, of, i)
             \/ x \notin About(part, of, i) /\ Agree(world, t.world, of, i)
  BY <1>4, <1>5, <1>6 DEF Truths, About, Agree, Topics
<1>7. DOMAIN t.wire = DOMAIN wire /\ \A f \in DOMAIN wire \ {"asked"} : t.wire[f] = wire[f]
  BY <1>4 DEF Alike
<1>8. /\ t.world.ids \subseteq part.ids /\ t.world.windows \subseteq part.ids /\ t.world.urgent \subseteq part.ids
      /\ t.world.active \in part.ids /\ t.world.layout \in Int
  BY <1>1, <1>4 DEF NiriShape
<1>9. x.what \notin {"handled", "end"}
  BY <1>5
<1> QED BY <1>3, <1>4, <1>5, <1>6, <1>7, <1>8, <1>9, NiriTells

LEMMA NiriUrged ==
    ASSUME NEW part, NiriParts(part), NEW s, Alike(s), NEW on \in BOOLEAN, NEW id \in part.ids,
           NEW urgent, urgent \subseteq part.ids,
           \A i \in part.ids : i \in urgent <=> (IF i = id THEN on ELSE i \in world.urgent),
           NEW t, t = [s EXCEPT !.world.urgent = urgent],
           Niri(part)!Become(Niri(part)!Tell(t, [what |-> "urgency", id |-> id, on |-> on]))
    PROVE  NiriParts(part)'
<1> DEFINE x == [what |-> "urgency", id |-> id, on |-> on]
<1>1. NiriShape(part)
  BY DEF NiriParts
<1>2. /\ DOMAIN s = {"panel", "world", "wire"} /\ s.panel = panel
      /\ DOMAIN s.world = DOMAIN world
      /\ DOMAIN world = {"up", "ids", "active", "windows", "urgent", "layout", "asleep", "moves", "clicks"}
      /\ s.world.up = world.up /\ s.world.ids = world.ids /\ s.world.active = world.active
      /\ s.world.windows = world.windows /\ s.world.layout = world.layout /\ s.world.asleep = world.asleep
  BY <1>1, NiriFields
<1>3. Niri(part)!Become(Niri(part)!Tell(t, x))
  OBVIOUS
<1>4. /\ DOMAIN t = {"panel", "world", "wire"} /\ t.panel = panel /\ t.wire = s.wire
      /\ DOMAIN t.world = DOMAIN world /\ t.world.up = world.up /\ t.world.asleep = world.asleep
      /\ t.world.ids = world.ids /\ t.world.active = world.active /\ t.world.urgent = urgent
      /\ t.world.windows = world.windows /\ t.world.layout = world.layout
  BY <1>2
<1>5. x \in NiriLines(part) /\ x.what = "urgency" /\ x.id = id /\ x.on = on
  BY DEF NiriLines
<1> HIDE DEF x
<1>6. ASSUME NEW of \in Topics, NEW i \in part.ids
      PROVE  \/ x \in Truths(part, t.world, of, i)
             \/ x \notin About(part, of, i) /\ Agree(world, t.world, of, i)
  BY <1>4, <1>5, <1>6 DEF Truths, About, Agree, Topics
<1>7. DOMAIN t.wire = DOMAIN wire /\ \A f \in DOMAIN wire \ {"asked"} : t.wire[f] = wire[f]
  BY <1>4 DEF Alike
<1>8. /\ t.world.ids \subseteq part.ids /\ t.world.windows \subseteq part.ids /\ t.world.urgent \subseteq part.ids
      /\ t.world.active \in part.ids /\ t.world.layout \in Int
  BY <1>1, <1>4 DEF NiriShape
<1>9. x.what \notin {"handled", "end"}
  BY <1>5
<1> QED BY <1>3, <1>4, <1>5, <1>6, <1>7, <1>8, <1>9, NiriTells

LEMMA NiriSwitched ==
    ASSUME NEW part, NiriParts(part), NEW s, Alike(s), NEW next \in Int,
           NEW t, t = [s EXCEPT !.world.layout = next],
           Niri(part)!Become(Niri(part)!Tell(t, [what |-> "switched", layout |-> next]))
    PROVE  NiriParts(part)'
<1> DEFINE x == [what |-> "switched", layout |-> next]
<1>1. NiriShape(part)
  BY DEF NiriParts
<1>2. /\ DOMAIN s = {"panel", "world", "wire"} /\ s.panel = panel
      /\ DOMAIN s.world = DOMAIN world
      /\ DOMAIN world = {"up", "ids", "active", "windows", "urgent", "layout", "asleep", "moves", "clicks"}
      /\ s.world.up = world.up /\ s.world.ids = world.ids /\ s.world.active = world.active
      /\ s.world.windows = world.windows /\ s.world.urgent = world.urgent /\ s.world.asleep = world.asleep
  BY <1>1, NiriFields
<1>3. Niri(part)!Become(Niri(part)!Tell(t, x))
  OBVIOUS
<1>4. /\ DOMAIN t = {"panel", "world", "wire"} /\ t.panel = panel /\ t.wire = s.wire
      /\ DOMAIN t.world = DOMAIN world /\ t.world.up = world.up /\ t.world.asleep = world.asleep
      /\ t.world.ids = world.ids /\ t.world.active = world.active /\ t.world.urgent = world.urgent
      /\ t.world.windows = world.windows /\ t.world.layout = next
  BY <1>2
<1>5. x \in NiriLines(part) /\ x.what = "switched" /\ x.layout = next
  BY DEF NiriLines
<1> HIDE DEF x
<1>6. ASSUME NEW of \in Topics, NEW i \in part.ids
      PROVE  \/ x \in Truths(part, t.world, of, i)
             \/ x \notin About(part, of, i) /\ Agree(world, t.world, of, i)
  BY <1>4, <1>5, <1>6 DEF Truths, About, Agree, Topics
<1>7. DOMAIN t.wire = DOMAIN wire /\ \A f \in DOMAIN wire \ {"asked"} : t.wire[f] = wire[f]
  BY <1>4 DEF Alike
<1>8. /\ t.world.ids \subseteq part.ids /\ t.world.windows \subseteq part.ids /\ t.world.urgent \subseteq part.ids
      /\ t.world.active \in part.ids /\ t.world.layout \in Int
  BY <1>1, <1>4 DEF NiriShape
<1>9. x.what \notin {"handled", "end"}
  BY <1>5
<1> QED BY <1>3, <1>4, <1>5, <1>6, <1>7, <1>8, <1>9, NiriTells

\* niri's own moves, and what it does for the strip.
LEMMA NiriMoves ==
    ASSUME NEW part, NiriParts(part),
           \/ Niri(part)!Focuses \/ Niri(part)!Appears \/ Niri(part)!Goes \/ Niri(part)!Opens \/ Niri(part)!Closes
           \/ Niri(part)!Urges \/ Niri(part)!Switches \/ Niri(part)!Serves
    PROVE  NiriParts(part)'
<1> DEFINE d == Niri(part)!Did(Niri(part)!Now)
<1>1. NiriShape(part) /\ Alike(Niri(part)!Now) /\ Alike(d)
  BY NiriDid DEF NiriParts
<1>2. /\ world.ids \subseteq part.ids /\ world.windows \subseteq part.ids /\ world.urgent \subseteq part.ids
      /\ world.active \in part.ids /\ world.layout \in Int
      /\ d.world.windows = world.windows /\ d.world.urgent = world.urgent
      /\ DOMAIN d = {"panel", "world", "wire"} /\ DOMAIN d.world = DOMAIN world
      /\ "windows" \in DOMAIN world /\ "urgent" \in DOMAIN world
  BY <1>1, NiriFields
<1> HIDE DEF d
<1>3. CASE Niri(part)!Focuses
  <2>1. PICK id : Niri(part)!Become(Niri(part)!Focused(d, id))
    BY <1>3 DEF Niri!Focuses, d
  <2> QED BY <1>1, <2>1, NiriFocused
<1>4. CASE Niri(part)!Appears
  <2>1. PICK id \in part.ids : Niri(part)!Become(Niri(part)!Listed(d, world.ids \cup {id}, id))
    BY <1>4 DEF Niri!Appears, d
  <2>2. world.ids \cup {id} \subseteq part.ids
    BY <1>2
  <2> QED BY <1>1, <2>1, <2>2, NiriListed
<1>5. CASE Niri(part)!Goes
  <2>1. PICK id \in world.ids, next \in world.ids : Niri(part)!Become(Niri(part)!Listed(d, world.ids \ {id}, next))
    BY <1>5 DEF Niri!Goes, d
  <2>2. world.ids \ {id} \subseteq part.ids /\ next \in part.ids
    BY <1>2
  <2> QED BY <1>1, <2>1, <2>2, NiriListed
<1>6. CASE Niri(part)!Opens
  <2>1. PICK id \in world.ids :
           Niri(part)!Become(Niri(part)!Tell([d EXCEPT !.world.windows = @ \cup {id}], [what |-> "opened", id |-> id]))
    BY <1>6 DEF Niri!Opens, d
  <2> DEFINE windows == world.windows \cup {id}
             what == "opened"
             t == [d EXCEPT !.world.windows = windows]
  <2>2. t = [d EXCEPT !.world.windows = @ \cup {id}]
    BY <1>2
  <2>3. windows \subseteq part.ids /\ id \in part.ids
    BY <1>2
  <2>4. \A i \in part.ids : i \in windows <=> (IF i = id THEN what = "opened" ELSE i \in world.windows)
    OBVIOUS
  <2>5. Niri(part)!Become(Niri(part)!Tell(t, [what |-> what, id |-> id]))
    BY <2>1, <2>2
  <2>6. what \in {"opened", "closed"}
    OBVIOUS
  <2> HIDE DEF windows, what
  <2>7. t = [d EXCEPT !.world.windows = windows]
    OBVIOUS
  <2> HIDE DEF t
  <2> QED BY <1>1, <2>3, <2>4, <2>5, <2>6, <2>7, NiriWindow
<1>7. CASE Niri(part)!Closes
  <2>1. PICK id \in world.windows :
           Niri(part)!Become(Niri(part)!Tell([d EXCEPT !.world.windows = @ \ {id}], [what |-> "closed", id |-> id]))
    BY <1>7 DEF Niri!Closes, d
  <2> DEFINE windows == world.windows \ {id}
             what == "closed"
             t == [d EXCEPT !.world.windows = windows]
  <2>2. t = [d EXCEPT !.world.windows = @ \ {id}]
    BY <1>2
  <2>3. windows \subseteq part.ids /\ id \in part.ids
    BY <1>2
  <2>4. \A i \in part.ids : i \in windows <=> (IF i = id THEN what = "opened" ELSE i \in world.windows)
    OBVIOUS
  <2>5. Niri(part)!Become(Niri(part)!Tell(t, [what |-> what, id |-> id]))
    BY <2>1, <2>2
  <2>6. what \in {"opened", "closed"}
    OBVIOUS
  <2> HIDE DEF windows, what
  <2>7. t = [d EXCEPT !.world.windows = windows]
    OBVIOUS
  <2> HIDE DEF t
  <2> QED BY <1>1, <2>3, <2>4, <2>5, <2>6, <2>7, NiriWindow
<1>8. CASE Niri(part)!Urges
  <2> DEFINE on(id) == id \notin world.urgent
  <2>1. PICK id \in world.ids :
           Niri(part)!Become(Niri(part)!Tell(
              [d EXCEPT !.world.urgent = IF on(id) THEN @ \cup {id} ELSE @ \ {id}],
              [what |-> "urgency", id |-> id, on |-> on(id)]))
    BY <1>8 DEF Niri!Urges, d
  <2> DEFINE urgent == IF on(id) THEN world.urgent \cup {id} ELSE world.urgent \ {id}
             t == [d EXCEPT !.world.urgent = urgent]
             now == on(id)
  <2>2. t = [d EXCEPT !.world.urgent = IF on(id) THEN @ \cup {id} ELSE @ \ {id}]
    BY <1>2
  <2>3. urgent \subseteq part.ids /\ id \in part.ids
    BY <1>2
  <2>4. \A i \in part.ids : i \in urgent <=> (IF i = id THEN now ELSE i \in world.urgent)
    OBVIOUS
  <2>5. Niri(part)!Become(Niri(part)!Tell(t, [what |-> "urgency", id |-> id, on |-> now]))
    BY <2>1, <2>2
  <2>6. now \in BOOLEAN
    OBVIOUS
  <2> HIDE DEF urgent, now
  <2>7. t = [d EXCEPT !.world.urgent = urgent]
    OBVIOUS
  <2> HIDE DEF t
  <2> QED BY <1>1, <2>3, <2>4, <2>5, <2>6, <2>7, NiriUrged
<1>9. CASE Niri(part)!Switches
  <2> DEFINE next == 1 - world.layout
             t == [d EXCEPT !.world.layout = next]
  <2>1. Niri(part)!Become(Niri(part)!Tell(t, [what |-> "switched", layout |-> next]))
    BY <1>9 DEF Niri!Switches, d
  <2>2. next \in Int
    BY <1>2
  <2> HIDE DEF next
  <2>3. t = [d EXCEPT !.world.layout = next]
    OBVIOUS
  <2> HIDE DEF t
  <2> QED BY <1>1, <2>1, <2>2, <2>3, NiriSwitched
<1>10. CASE Niri(part)!Serves
  <2>1. PICK id : LET s == [Niri(part)!Now EXCEPT !.wire.asked = @ \ {id}]
                  IN  Niri(part)!Become(IF world.up THEN Niri(part)!Focused(s, id) ELSE s)
    BY <1>10 DEF Niri!Serves
  <2> DEFINE s == [Niri(part)!Now EXCEPT !.wire.asked = @ \ {id}]
  <2>2. Alike(s)
    BY <1>1 DEF NiriShape, Alike, Niri!Now
  <2> HIDE DEF s
  <2>3. CASE world.up
    <3>1. Niri(part)!Become(Niri(part)!Focused(s, id))
      BY <2>1, <2>3 DEF s
    <3> QED BY <2>2, <3>1, NiriFocused
  <2>4. CASE ~world.up
    <3>1. Niri(part)!Become(s)
      BY <2>1, <2>4 DEF s
    <3> QED BY <2>2, <3>1, NiriQuiet
  <2> QED BY <2>3, <2>4
<1> QED BY <1>3, <1>4, <1>5, <1>6, <1>7, <1>8, <1>9, <1>10


LEMMA NiriTidies ==
    ASSUME NEW part, Niri(part)!ConstantsOK, NEW strip, Slides(part, strip),
           {"from", "fresh", "slots", "runs", "progress"} \subseteq DOMAIN strip
    PROVE  LET t == Niri(part)!Tidy(strip) IN
           /\ Slides(part, t) /\ DOMAIN t = DOMAIN strip
           /\ \A f \in DOMAIN strip \ {"from", "fresh"} : t[f] = strip[f]
<1> DEFINE t == Niri(part)!Tidy(strip)
           from == IF strip.progress = 2 THEN Niri(part)!SlotRects(strip.slots, strip.pill) ELSE strip.from
           fresh == IF strip.runs.appear = 2 THEN {} ELSE strip.fresh
<1>1. t = [strip EXCEPT !.from = from, !.fresh = fresh]
  BY DEF Niri!Tidy, Niri!Over
<1>2. from \in [strip.slots -> Rects]
  BY NiriRects DEF Slides
<1> HIDE DEF t, from, fresh
<1>3. /\ DOMAIN t = DOMAIN strip /\ t.from = from
      /\ \A f \in DOMAIN strip \ {"from", "fresh"} : t[f] = strip[f]
  BY <1>1
<1>4. t.slots = strip.slots /\ t.runs = strip.runs /\ t.progress = strip.progress
  BY <1>3
<1>5. Slides(part, t)
  BY <1>2, <1>3, <1>4 DEF Slides
<1> QED BY <1>3, <1>5 DEF t

LEMMA NiriSetsSlots ==
    ASSUME NEW part, Niri(part)!ConstantsOK, NEW strip, Slides(part, strip),
           {"from", "fresh", "slots", "pill", "urgent", "runs", "progress"} \subseteq DOMAIN strip,
           NEW ids, ids \subseteq part.ids, NEW active, NEW urgent
    PROVE  LET t == Niri(part)!SetSlots(strip, ids, active, urgent) IN
           /\ Slides(part, t) /\ DOMAIN t = DOMAIN strip /\ t.slots = ids /\ t.pill = active
           /\ \A f \in DOMAIN strip \ {"from", "fresh", "slots", "pill", "urgent", "runs", "progress"} :
                 t[f] = strip[f]
<1> DEFINE structural == ids # strip.slots
           new == IF structural /\ strip.slots # {} THEN ids \ strip.slots ELSE {}
           target == Niri(part)!SlotRects(ids, active)
           settled == target = Niri(part)!SlotRects(strip.slots, strip.pill) /\ strip.progress = 2
           slides == ~structural /\ ~settled
           started == Niri(part)!Started
           from == IF structural THEN target ELSE Niri(part)!CurrentRects(strip)
           progress == IF structural THEN 2 ELSE IF slides THEN started ELSE strip.progress
           transfer == IF slides THEN started ELSE strip.runs.transfer
           appear == IF new # {} THEN started ELSE strip.runs.appear
           pulse == IF urgent # {} /\ strip.urgent = {} THEN started ELSE strip.runs.pulse
           u == [strip EXCEPT !.slots = ids, !.pill = active, !.urgent = urgent, !.fresh = new, !.from = from,
                              !.progress = progress, !.runs.transfer = transfer, !.runs.appear = appear,
                              !.runs.pulse = pulse]
<1>1. Niri(part)!SetSlots(strip, ids, active, urgent) = Niri(part)!Tidy(u)
  BY DEF Niri!SetSlots, Niri!Over
<1>2. started \in {0, 2}
  BY DEF Niri!Started, Niri!Over
<1>3. from \in [ids -> Rects]
  <2>1. target \in [ids -> Rects]
    BY NiriRects
  <2>2. Niri(part)!CurrentRects(strip) \in [strip.slots -> Rects]
    BY NiriCurrent DEF Slides
  <2> QED BY <2>1, <2>2
<1>4. /\ strip.runs.transfer \in 0..2 /\ strip.runs.appear \in 0..2 /\ strip.runs.pulse \in 0..2
      /\ strip.progress \in 0..2 /\ (strip.runs.transfer = 2 => strip.progress = 2)
      /\ DOMAIN strip.runs = {"transfer", "appear", "pulse"}
  BY DEF Slides
<1>5. progress \in 0..2 /\ (transfer = 2 => progress = 2)
  BY <1>2, <1>4
<1>6. transfer \in 0..2 /\ appear \in 0..2 /\ pulse \in 0..2
  BY <1>2, <1>4
<1> HIDE DEF from, progress, transfer, appear, pulse, new
<1>7. /\ DOMAIN u = DOMAIN strip /\ u.slots = ids /\ u.pill = active /\ u.from = from /\ u.progress = progress
      /\ u.runs = [[[strip.runs EXCEPT !.transfer = transfer] EXCEPT !.appear = appear] EXCEPT !.pulse = pulse]
      /\ \A f \in DOMAIN strip \ {"from", "fresh", "slots", "pill", "urgent", "runs", "progress"} :
            u[f] = strip[f]
  OBVIOUS
<1> HIDE DEF u
<1>8. /\ u.runs \in [{"transfer", "appear", "pulse"} -> 0..2] /\ u.runs.transfer = transfer
  BY <1>4, <1>6, <1>7 DEF Slides
<1>9. Slides(part, u)
  BY <1>3, <1>5, <1>7, <1>8 DEF Slides
<1> DEFINE t == Niri(part)!Tidy(u)
<1>10. /\ Slides(part, t) /\ DOMAIN t = DOMAIN u
       /\ \A f \in DOMAIN u \ {"from", "fresh"} : t[f] = u[f]
  BY <1>7, <1>9, NiriTidies
<1> HIDE DEF t
<1>11. t.slots = ids /\ t.pill = active
  BY <1>7, <1>10
<1> QED BY <1>1, <1>7, <1>10, <1>11 DEF t

LEMMA NiriDraws ==
    ASSUME NEW part, Niri(part)!ConstantsOK, NiriParts(part),
           \/ Niri(part)!DrawStrip \/ Niri(part)!DrawLayout \/ Niri(part)!Frame
           \/ Niri(part)!Click \/ Niri(part)!Scroll \/ Niri(part)!WindowEnds
    PROVE  NiriParts(part)'
<1>1. /\ NiriShape(part) /\ PublishedInv(part) /\ Slides(part, panel) /\ Slides(part, panel)
      /\ DOMAIN panel = {"phase", "state", "workspaces", "layout", "stripDue", "layoutDue", "dim", "text", "slots",
                         "pill", "urgent", "fresh", "from", "progress", "runs", "scroll"}
      /\ DOMAIN world = {"up", "ids", "active", "windows", "urgent", "layout", "asleep", "moves", "clicks"}
      /\ DOMAIN wire = {"open", "told", "silent", "lines", "kicked", "asked"}
  BY DEF NiriParts, Slides, NiriShape
<1>2. CASE Niri(part)!DrawStrip
  <2> DEFINE shown == panel.workspaces
             ids == Niri(part)!Slots(shown)
             t == Niri(part)!SetSlots(panel, ids, shown.active, shown.urgent)
  <2>1. /\ panel' = [t EXCEPT !.stripDue = FALSE, !.dim = ~shown.connected]
        /\ world' = world /\ wire' = wire
    BY <1>2 DEF Niri!DrawStrip, Niri!Become, Niri!Now
  <2>2. ids \subseteq part.ids
    BY <1>1 DEF NiriShape, Niri!Slots
  <2>3. /\ Slides(part, t) /\ DOMAIN t = DOMAIN panel /\ t.slots = ids /\ t.pill = shown.active
        /\ \A f \in DOMAIN panel \ {"from", "fresh", "slots", "pill", "urgent", "runs", "progress"} : t[f] = panel[f]
    <3> HIDE DEF ids, shown
    <3> QED BY <1>1, <2>2, NiriSetsSlots
  <2> HIDE DEF ids, t
  <2>4. /\ DOMAIN panel' = DOMAIN panel /\ panel'.stripDue = FALSE /\ (panel'.dim <=> ~shown.connected)
        /\ \A f \in DOMAIN panel \ {"stripDue", "dim"} : panel'[f] = t[f]
    BY <1>1, <2>1, <2>3
  <2>5. /\ panel'.phase = panel.phase /\ panel'.state = panel.state /\ panel'.workspaces = panel.workspaces
        /\ panel'.layout = panel.layout /\ panel'.layoutDue = panel.layoutDue /\ panel'.text = panel.text
    BY <1>1, <2>3, <2>4
  <2>6. /\ panel'.slots = ids /\ panel'.pill = shown.active /\ panel'.from = t.from /\ panel'.runs = t.runs
        /\ panel'.progress = t.progress
    BY <1>1, <2>3, <2>4
  <2>7. NiriShape(part)' /\ LinkInv' /\ FoldInv(part)'
    BY <2>1, <2>4, <2>5, NiriIdles
  <2>8. PublishedInv(part)'
    BY <1>1, <2>4, <2>5, <2>6 DEF PublishedInv, ids
  <2>9. Slides(part, panel)'
    BY <2>3, <2>6 DEF Slides
  <2> QED BY <2>7, <2>8, <2>9 DEF NiriParts
<1>3. CASE Niri(part)!DrawLayout
  <2>1. /\ panel' = [panel EXCEPT !.layoutDue = FALSE, !.text = panel.layout.layout]
        /\ world' = world /\ wire' = wire
    BY <1>3 DEF Niri!DrawLayout, Niri!Become, Niri!Now
  <2>2. /\ DOMAIN panel' = DOMAIN panel /\ panel'.phase = panel.phase /\ panel'.state = panel.state
        /\ panel'.workspaces = panel.workspaces /\ panel'.layout = panel.layout /\ panel'.text = panel.layout.layout
        /\ panel'.stripDue = panel.stripDue /\ panel'.dim = panel.dim
        /\ panel'.slots = panel.slots /\ panel'.pill = panel.pill /\ panel'.from = panel.from
        /\ panel'.runs = panel.runs /\ panel'.progress = panel.progress
    BY <1>1, <2>1
  <2>3. NiriShape(part)' /\ LinkInv' /\ FoldInv(part)'
    BY <2>1, <2>2, NiriIdles
  <2>4. PublishedInv(part)' /\ Slides(part, panel)'
    BY <1>1, <2>2 DEF PublishedInv, Slides
  <2> QED BY <2>3, <2>4 DEF NiriParts
<1>4. CASE Niri(part)!Frame
  <2>1. PICK runs \in [{"transfer", "appear", "pulse"} -> 0..2] :
           Niri(part)!Become([Niri(part)!Now EXCEPT !.panel = Niri(part)!Tidy([panel EXCEPT
              !.runs = runs,
              !.progress = IF panel.runs.transfer = 2 THEN panel.progress ELSE runs.transfer])])
    BY <1>4 DEF Niri!Frame, Niri!Over
  <2> DEFINE progress == IF panel.runs.transfer = 2 THEN panel.progress ELSE runs.transfer
             u == [panel EXCEPT !.runs = runs, !.progress = progress]
             t == Niri(part)!Tidy(u)
  <2>2. panel' = t /\ world' = world /\ wire' = wire
    <3>1. /\ DOMAIN Niri(part)!Now = {"panel", "world", "wire"} /\ Niri(part)!Now.panel = panel
          /\ Niri(part)!Now.world = world /\ Niri(part)!Now.wire = wire
      BY DEF Niri!Now
    <3>2. Niri(part)!Become([Niri(part)!Now EXCEPT !.panel = t])
      BY <2>1
    <3> HIDE DEF t
    <3> QED BY <3>1, <3>2 DEF Niri!Become
  <2>3. progress \in 0..2 /\ (runs.transfer = 2 => progress = 2)
    <3>1. runs.transfer \in 0..2 /\ panel.progress \in 0..2
      BY <1>1 DEF Slides
    <3> QED BY <1>1, <3>1 DEF Slides
  <2> HIDE DEF progress
  <2>4. /\ DOMAIN u = DOMAIN panel /\ u.runs = runs /\ u.progress = progress
        /\ \A f \in DOMAIN panel \ {"runs", "progress"} : u[f] = panel[f]
    BY <1>1
  <2> HIDE DEF u
  <2>5. u.slots = panel.slots /\ u.from = panel.from
    BY <1>1, <2>4
  <2>6. Slides(part, u)
    BY <1>1, <2>3, <2>4, <2>5 DEF Slides
  <2>7. /\ Slides(part, t) /\ DOMAIN t = DOMAIN u
        /\ \A f \in DOMAIN u \ {"from", "fresh"} : t[f] = u[f]
    BY <1>1, <2>4, <2>6, NiriTidies
  <2> HIDE DEF t
  <2>8. /\ DOMAIN panel' = DOMAIN panel
        /\ \A f \in DOMAIN panel \ {"from", "fresh", "runs", "progress"} : panel'[f] = panel[f]
    BY <1>1, <2>2, <2>4, <2>7
  <2>9. /\ panel'.phase = panel.phase /\ panel'.state = panel.state
        /\ panel'.workspaces = panel.workspaces /\ panel'.layout = panel.layout /\ panel'.text = panel.text
        /\ panel'.stripDue = panel.stripDue /\ panel'.layoutDue = panel.layoutDue /\ panel'.dim = panel.dim
        /\ panel'.slots = panel.slots /\ panel'.pill = panel.pill
    BY <1>1, <2>8
  <2>10. NiriShape(part)' /\ LinkInv' /\ FoldInv(part)'
    BY <2>2, <2>8, <2>9, NiriIdles
  <2>11. PublishedInv(part)'
    BY <1>1, <2>9 DEF PublishedInv
  <2>12. Slides(part, panel)'
    BY <2>2, <2>7 DEF Slides
  <2> QED BY <2>10, <2>11, <2>12 DEF NiriParts
<1>5. ASSUME NEW scroll, panel' = [panel EXCEPT !.scroll = scroll],
             DOMAIN world' = DOMAIN world, \A f \in DOMAIN world \ {"moves", "clicks"} : world'[f] = world[f],
             DOMAIN wire' = DOMAIN wire, \A f \in DOMAIN wire \ {"asked"} : wire'[f] = wire[f]
      PROVE  NiriParts(part)'
  <2>1. /\ DOMAIN panel' = DOMAIN panel /\ panel'.phase = panel.phase /\ panel'.state = panel.state
        /\ panel'.workspaces = panel.workspaces /\ panel'.layout = panel.layout /\ panel'.text = panel.text
        /\ panel'.stripDue = panel.stripDue /\ panel'.layoutDue = panel.layoutDue /\ panel'.dim = panel.dim
        /\ panel'.slots = panel.slots /\ panel'.pill = panel.pill /\ panel'.from = panel.from
        /\ panel'.runs = panel.runs /\ panel'.progress = panel.progress
    BY <1>1, <1>5
  <2>2. NiriShape(part)' /\ LinkInv' /\ FoldInv(part)'
    BY <1>5, <2>1, NiriIdles
  <2>3. PublishedInv(part)' /\ Slides(part, panel)'
    BY <1>1, <2>1 DEF PublishedInv, Slides
  <2> QED BY <2>2, <2>3 DEF NiriParts
<1>6. CASE Niri(part)!Click
  <2>1. PICK id : Niri(part)!Become(Niri(part)!Ask(Niri(part)!Now, {id}))
    BY <1>6 DEF Niri!Click
  <2> DEFINE s == Niri(part)!Ask(Niri(part)!Now, {id})
  <2>2. Alike(s)
    BY <1>1 DEF Alike, Niri!Ask, Niri!Now
  <2> HIDE DEF s
  <2> QED BY <2>1, <2>2, NiriQuiet DEF s
<1>7. CASE Niri(part)!Scroll
  <2>1. PICK scroll, ids :
           /\ panel' = [panel EXCEPT !.scroll = scroll]
           /\ world' = [world EXCEPT !.clicks = @ + 1]
           /\ wire' = [wire EXCEPT !.asked = @ \cup ids]
    <3> DEFINE pending(delta) == panel.scroll.pending + delta
               steps(delta) == IF panel.scroll.pooling THEN 0 ELSE Niri(part)!Truncated(pending(delta))
               kept(delta) == [Niri(part)!Now EXCEPT !.panel.scroll =
                                 [pending |-> pending(delta) - steps(delta) * Niri(part)!SCROLL_STEP,
                                  pooling |-> @.pooling \/ steps(delta) # 0]]
               ids(delta) == Niri(part)!StepTarget(steps(delta))
    <3>1. PICK delta : Niri(part)!Become(Niri(part)!Ask(kept(delta), ids(delta)))
      BY <1>7 DEF Niri!Scroll
    <3>2. \E scroll : kept(delta) = [Niri(part)!Now EXCEPT !.panel.scroll = scroll]
      OBVIOUS
    <3> HIDE DEF kept, ids, steps
    <3>3. PICK scroll : kept(delta) = [Niri(part)!Now EXCEPT !.panel.scroll = scroll]
      BY <3>2
    <3>4. /\ panel' = [panel EXCEPT !.scroll = scroll]
          /\ world' = [world EXCEPT !.clicks = @ + 1]
          /\ wire' = [wire EXCEPT !.asked = @ \cup ids(delta)]
      BY <3>1, <3>3 DEF Niri!Ask, Niri!Become, Niri!Now
    <3> QED BY <3>4
  <2>2. /\ DOMAIN world' = DOMAIN world /\ \A f \in DOMAIN world \ {"moves", "clicks"} : world'[f] = world[f]
        /\ DOMAIN wire' = DOMAIN wire /\ \A f \in DOMAIN wire \ {"asked"} : wire'[f] = wire[f]
    BY <1>1, <2>1
  <2> QED BY <1>5, <2>1, <2>2
<1>8. CASE Niri(part)!WindowEnds
  <2>1. PICK scroll : panel' = [panel EXCEPT !.scroll = scroll] /\ world' = world /\ wire' = wire
    BY <1>1, <1>8 DEF Niri!WindowEnds, Niri!Become, Niri!Now
  <2> QED BY <1>5, <2>1
<1> QED BY <1>2, <1>3, <1>4, <1>6, <1>7, <1>8


\* Who draws what has changed is told of it.
LEMMA NiriSends ==
    ASSUME NEW part, NEW s, DOMAIN s = {"panel", "world", "wire"},
           {"workspaces", "layout", "stripDue", "layoutDue"} \subseteq DOMAIN s.panel, NEW workspaces, NEW layout
    PROVE  LET t == Niri(part)!Send(s, workspaces, layout) IN
           /\ DOMAIN t = DOMAIN s /\ t.world = s.world /\ t.wire = s.wire
           /\ DOMAIN t.panel = DOMAIN s.panel /\ t.panel.workspaces = workspaces /\ t.panel.layout = layout
           /\ ~t.panel.stripDue => ~s.panel.stripDue /\ s.panel.workspaces = workspaces
           /\ ~t.panel.layoutDue => ~s.panel.layoutDue /\ s.panel.layout = layout
           /\ \A f \in DOMAIN s.panel \ {"workspaces", "layout", "stripDue", "layoutDue"} :
                 t.panel[f] = s.panel[f]
<1> DEFINE strip == s.panel.stripDue \/ s.panel.workspaces # workspaces
           label == s.panel.layoutDue \/ s.panel.layout # layout
           u == [s.panel EXCEPT !.workspaces = workspaces, !.layout = layout, !.stripDue = strip, !.layoutDue = label]
           t == Niri(part)!Send(s, workspaces, layout)
<1>1. t = [s EXCEPT !.panel.workspaces = workspaces, !.panel.layout = layout,
                    !.panel.stripDue = strip, !.panel.layoutDue = label]
  BY DEF Niri!Send
<1>2. /\ ~strip => ~s.panel.stripDue /\ s.panel.workspaces = workspaces
      /\ ~label => ~s.panel.layoutDue /\ s.panel.layout = layout
  OBVIOUS
<1> HIDE DEF t, strip, label
<1>3. DOMAIN t = DOMAIN s /\ t.panel = u /\ t.world = s.world /\ t.wire = s.wire
  BY <1>1
<1>4. /\ DOMAIN u = DOMAIN s.panel /\ u.workspaces = workspaces /\ u.layout = layout
      /\ u.stripDue = strip /\ u.layoutDue = label
      /\ \A f \in DOMAIN s.panel \ {"workspaces", "layout", "stripDue", "layoutDue"} : u[f] = s.panel[f]
  OBVIOUS
<1> HIDE DEF u
<1> QED BY <1>2, <1>3, <1>4 DEF t

\* What is sent is drawn, or is to be.
LEMMA NiriPublishes ==
    ASSUME NEW part, NiriParts(part), DOMAIN panel' = DOMAIN panel,
           ~panel'.stripDue => ~panel.stripDue /\ panel.workspaces = panel'.workspaces,
           ~panel'.layoutDue => ~panel.layoutDue /\ panel.layout = panel'.layout,
           \A f \in DOMAIN panel \ {"phase", "state", "workspaces", "layout", "stripDue", "layoutDue"} :
              panel'[f] = panel[f],
           panel'.phase = "open" => /\ panel'.workspaces = Niri(part)!Workspaces(panel'.state, TRUE)
                                    /\ panel'.layout = Niri(part)!Layout(panel'.state, TRUE)
    PROVE  PublishedInv(part)' /\ Slides(part, panel)'
<1>1. NiriShape(part) /\ PublishedInv(part) /\ Slides(part, panel)
  BY DEF NiriParts
<1>2. /\ panel'.slots = panel.slots /\ panel'.pill = panel.pill /\ panel'.from = panel.from
      /\ panel'.runs = panel.runs /\ panel'.progress = panel.progress
      /\ panel'.dim = panel.dim /\ panel'.text = panel.text
  BY <1>1 DEF NiriShape
<1>3. Slides(part, panel)'
  BY <1>1, <1>2 DEF Slides
<1>4. PublishedInv(part)'
  BY <1>1, <1>2 DEF PublishedInv
<1> QED BY <1>3, <1>4

LEMMA NiriDims ==
    ASSUME NEW part, NiriParts(part), NEW s, DOMAIN s = {"panel", "world", "wire"}, s.panel = panel
    PROVE  LET t == Niri(part)!Dimmed(s) IN
           /\ DOMAIN t = DOMAIN s /\ t.world = s.world /\ t.wire = s.wire /\ DOMAIN t.panel = DOMAIN panel
           /\ ~t.panel.stripDue => ~panel.stripDue /\ panel.workspaces = t.panel.workspaces
           /\ ~t.panel.layoutDue => ~panel.layoutDue /\ panel.layout = t.panel.layout
           /\ \A f \in DOMAIN panel \ {"workspaces", "layout", "stripDue", "layoutDue"} : t.panel[f] = panel[f]
           /\ DOMAIN t.panel.workspaces = DOMAIN panel.workspaces /\ t.panel.workspaces.ids = panel.workspaces.ids
           /\ DOMAIN t.panel.layout = DOMAIN panel.layout
<1> DEFINE workspaces == [panel.workspaces EXCEPT !.connected = FALSE]
           layout == [panel.layout EXCEPT !.connected = FALSE]
           t == Niri(part)!Send(s, workspaces, layout)
<1>1. Niri(part)!Dimmed(s) = t
  BY DEF Niri!Dimmed
<1>2. NiriShape(part)
  BY DEF NiriParts
<1>3. /\ DOMAIN workspaces = DOMAIN panel.workspaces /\ workspaces.ids = panel.workspaces.ids
      /\ DOMAIN layout = DOMAIN panel.layout
  BY <1>2 DEF NiriShape
<1> HIDE DEF workspaces, layout
<1>4. /\ DOMAIN t = DOMAIN s /\ t.world = s.world /\ t.wire = s.wire
      /\ DOMAIN t.panel = DOMAIN panel /\ t.panel.workspaces = workspaces /\ t.panel.layout = layout
      /\ ~t.panel.stripDue => ~panel.stripDue /\ panel.workspaces = workspaces
      /\ ~t.panel.layoutDue => ~panel.layoutDue /\ panel.layout = layout
      /\ \A f \in DOMAIN panel \ {"workspaces", "layout", "stripDue", "layoutDue"} : t.panel[f] = panel[f]
  <2>1. {"workspaces", "layout", "stripDue", "layoutDue"} \subseteq DOMAIN s.panel
    BY <1>2 DEF NiriShape
  <2> QED BY <2>1, NiriSends
<1> HIDE DEF t
<1> QED BY <1>1, <1>3, <1>4

LEMMA NiriEnds ==
    ASSUME NEW part, NiriParts(part), NEW s, DOMAIN s = {"panel", "world", "wire"}, s.panel = panel, s.world = world,
           DOMAIN s.wire = DOMAIN wire, Niri(part)!Become(Niri(part)!Ended(s))
    PROVE  NiriParts(part)'
<1> DEFINE t == Niri(part)!Dimmed(s)
<1>1. /\ NiriShape(part)
      /\ DOMAIN panel = {"phase", "state", "workspaces", "layout", "stripDue", "layoutDue", "dim", "text", "slots",
                         "pill", "urgent", "fresh", "from", "progress", "runs", "scroll"}
      /\ DOMAIN wire = {"open", "told", "silent", "lines", "kicked", "asked"}
  BY DEF NiriParts, NiriShape
<1>2. /\ DOMAIN t = DOMAIN s /\ t.world = s.world /\ t.wire = s.wire /\ DOMAIN t.panel = DOMAIN panel
      /\ ~t.panel.stripDue => ~panel.stripDue /\ panel.workspaces = t.panel.workspaces
      /\ ~t.panel.layoutDue => ~panel.layoutDue /\ panel.layout = t.panel.layout
      /\ \A f \in DOMAIN panel \ {"workspaces", "layout", "stripDue", "layoutDue"} : t.panel[f] = panel[f]
      /\ DOMAIN t.panel.workspaces = DOMAIN panel.workspaces /\ t.panel.workspaces.ids = panel.workspaces.ids
      /\ DOMAIN t.panel.layout = DOMAIN panel.layout
  BY NiriDims
<1>3. Niri(part)!Become([t EXCEPT !.panel.phase = "waiting", !.wire.open = FALSE, !.wire.told = FALSE,
                                  !.wire.silent = FALSE, !.wire.lines = <<>>])
  BY DEF Niri!Ended
<1> HIDE DEF t
<1>4. /\ panel' = [t.panel EXCEPT !.phase = "waiting"] /\ world' = world
      /\ wire' = [[[[s.wire EXCEPT !.open = FALSE] EXCEPT !.told = FALSE] EXCEPT !.silent = FALSE] EXCEPT !.lines = <<>>]
  <2> DEFINE e == [t EXCEPT !.panel.phase = "waiting", !.wire.open = FALSE, !.wire.told = FALSE,
                            !.wire.silent = FALSE, !.wire.lines = <<>>]
  <2>1. DOMAIN t = {"panel", "world", "wire"} /\ t.world = world /\ t.wire = s.wire
    BY <1>2
  <2>2. /\ e.panel = [t.panel EXCEPT !.phase = "waiting"] /\ e.world = t.world
        /\ e.wire = [[[[t.wire EXCEPT !.open = FALSE] EXCEPT !.told = FALSE] EXCEPT !.silent = FALSE] EXCEPT !.lines = <<>>]
    BY <2>1
  <2>3. panel' = e.panel /\ world' = e.world /\ wire' = e.wire
    BY <1>3 DEF Niri!Become
  <2> HIDE DEF e
  <2> QED BY <2>1, <2>2, <2>3
<1>5. /\ DOMAIN wire' = DOMAIN wire /\ wire'.open = FALSE /\ wire'.told = FALSE /\ wire'.silent = FALSE
      /\ wire'.lines = <<>>
  BY <1>1, <1>4
<1>6. /\ DOMAIN panel' = DOMAIN panel /\ panel'.phase = "waiting"
      /\ \A f \in DOMAIN panel \ {"phase"} : panel'[f] = t.panel[f]
  BY <1>1, <1>2, <1>4
<1>7. /\ panel'.state = panel.state /\ panel'.workspaces = t.panel.workspaces /\ panel'.layout = t.panel.layout
      /\ panel'.stripDue = t.panel.stripDue /\ panel'.layoutDue = t.panel.layoutDue
      /\ \A f \in DOMAIN panel \ {"phase", "state", "workspaces", "layout", "stripDue", "layoutDue"} :
            panel'[f] = panel[f]
  BY <1>1, <1>2, <1>6
<1>8. NiriShape(part)'
  BY <1>1, <1>2, <1>4, <1>5, <1>6, <1>7 DEF NiriShape
<1>9. LinkInv' /\ FoldInv(part)'
  BY <1>5, <1>6 DEF LinkInv, FoldInv, Live
<1>10. PublishedInv(part)' /\ Slides(part, panel)'
  BY <1>2, <1>6, <1>7, NiriPublishes
<1> QED BY <1>8, <1>9, <1>10 DEF NiriParts

LEMMA NiriConnects ==
    ASSUME NEW part, NiriParts(part), Niri(part)!Connect
    PROVE  NiriParts(part)'
<1> DEFINE s == [Niri(part)!Now EXCEPT !.wire.kicked = FALSE]
<1>1. /\ NiriShape(part) /\ LinkInv /\ PublishedInv(part) /\ Slides(part, panel)
      /\ DOMAIN panel = {"phase", "state", "workspaces", "layout", "stripDue", "layoutDue", "dim", "text", "slots",
                         "pill", "urgent", "fresh", "from", "progress", "runs", "scroll"}
      /\ DOMAIN wire = {"open", "told", "silent", "lines", "kicked", "asked"}
  BY DEF NiriParts, NiriShape
<1>2. /\ panel.phase = "waiting" /\ ~wire.open /\ ~wire.told /\ ~wire.silent /\ wire.lines = <<>>
      /\ Niri(part)!Become(IF world.up THEN [s EXCEPT !.panel.phase = "shaking", !.wire.open = TRUE]
                           ELSE Niri(part)!Dimmed(s))
  BY <1>1 DEF Niri!Connect, LinkInv
<1>3. /\ DOMAIN s = {"panel", "world", "wire"} /\ s.panel = panel /\ s.world = world
      /\ s.wire = [wire EXCEPT !.kicked = FALSE]
  BY DEF Niri!Now
<1> HIDE DEF s
<1>4. CASE world.up
  <2>1. /\ panel' = [panel EXCEPT !.phase = "shaking"] /\ world' = world
        /\ wire' = [[wire EXCEPT !.kicked = FALSE] EXCEPT !.open = TRUE]
    BY ZenonT(60), <1>2, <1>3, <1>4 DEF Niri!Become
  <2>2. /\ DOMAIN wire' = DOMAIN wire /\ wire'.open = TRUE /\ wire'.told = wire.told /\ wire'.silent = wire.silent
        /\ wire'.lines = <<>>
    BY <1>1, <1>2, <2>1
  <2>3. /\ DOMAIN panel' = DOMAIN panel /\ panel'.phase = "shaking"
        /\ \A f \in DOMAIN panel \ {"phase"} : panel'[f] = panel[f]
    BY <1>1, <2>1
  <2>4. /\ panel'.state = panel.state /\ panel'.workspaces = panel.workspaces /\ panel'.layout = panel.layout
        /\ panel'.stripDue = panel.stripDue /\ panel'.layoutDue = panel.layoutDue
    BY <1>1, <2>3
  <2>5. NiriShape(part)'
    BY <1>1, <1>2, <2>1, <2>2, <2>3, <2>4 DEF NiriShape
  <2>6. LinkInv' /\ FoldInv(part)'
    BY <1>2, <1>4, <2>1, <2>2, <2>3 DEF LinkInv, FoldInv, Live
  <2>7. PublishedInv(part)' /\ Slides(part, panel)'
    BY <2>3, <2>4, NiriPublishes
  <2> QED BY <2>5, <2>6, <2>7 DEF NiriParts
<1>5. CASE ~world.up
  <2> DEFINE t == Niri(part)!Dimmed(s)
  <2>1. /\ DOMAIN t = DOMAIN s /\ t.world = s.world /\ t.wire = s.wire /\ DOMAIN t.panel = DOMAIN panel
        /\ ~t.panel.stripDue => ~panel.stripDue /\ panel.workspaces = t.panel.workspaces
        /\ ~t.panel.layoutDue => ~panel.layoutDue /\ panel.layout = t.panel.layout
        /\ \A f \in DOMAIN panel \ {"workspaces", "layout", "stripDue", "layoutDue"} : t.panel[f] = panel[f]
        /\ DOMAIN t.panel.workspaces = DOMAIN panel.workspaces /\ t.panel.workspaces.ids = panel.workspaces.ids
        /\ DOMAIN t.panel.layout = DOMAIN panel.layout
    BY ZenonT(60), <1>3, NiriDims
  <2>2. panel' = t.panel /\ world' = world /\ wire' = [wire EXCEPT !.kicked = FALSE]
    BY <1>2, <1>3, <1>5, <2>1 DEF Niri!Become
  <2> HIDE DEF t
  <2>3. /\ DOMAIN wire' = DOMAIN wire /\ wire'.open = wire.open /\ wire'.told = wire.told
        /\ wire'.silent = wire.silent /\ wire'.lines = <<>>
    BY <1>1, <1>2, <2>2
  <2>4. panel'.phase = "waiting" /\ panel'.state = panel.state
    BY <1>1, <1>2, <2>1, <2>2
  <2>5. NiriShape(part)'
    BY <1>1, <2>1, <2>2, <2>3, <2>4 DEF NiriShape
  <2>6. LinkInv' /\ FoldInv(part)'
    BY <1>2, <2>3, <2>4 DEF LinkInv, FoldInv, Live
  <2>7. PublishedInv(part)' /\ Slides(part, panel)'
    BY <2>1, <2>2, <2>4, NiriPublishes
  <2> QED BY <2>5, <2>6, <2>7 DEF NiriParts
<1> QED BY <1>2, <1>4, <1>5


\* A line is taken: what it says is known, and published.
LEMMA NiriTakes ==
    ASSUME NEW part, NiriParts(part), wire.lines # <<>>, NEW l, l = Head(wire.lines), NEW state,
           Pictured(part, state), l.what # "end",
           \/ panel.phase = "shaking" /\ l.what = "handled"
           \/ panel.phase = "open" /\ l.what # "handled",
           \A of \in Topics, id \in part.ids :
              /\ l \in Truths(part, world, of, id) => Agree(state, world, of, id)
              /\ panel.phase = "open" /\ l \notin About(part, of, id) /\ Agree(panel.state, world, of, id)
                    => Agree(state, world, of, id),
           NEW s, DOMAIN s = {"panel", "world", "wire"}, s.world = world,
           DOMAIN s.wire = DOMAIN wire, s.wire.lines = Tail(wire.lines),
           \A f \in DOMAIN wire \ {"lines"} : s.wire[f] = wire[f],
           DOMAIN s.panel = DOMAIN panel, s.panel.phase = "open", s.panel.state = state,
           \A f \in DOMAIN panel \ {"phase", "state"} : s.panel[f] = panel[f],
           Niri(part)!Become(Niri(part)!Publish(s))
    PROVE  NiriParts(part)'
<1> DEFINE workspaces == Niri(part)!Workspaces(state, TRUE)
           layout == Niri(part)!Layout(state, TRUE)
           t == Niri(part)!Send(s, workspaces, layout)
           L == wire.lines
           M == Tail(wire.lines)
<1>1. /\ NiriShape(part) /\ LinkInv /\ FoldInv(part)
      /\ DOMAIN panel = {"phase", "state", "workspaces", "layout", "stripDue", "layoutDue", "dim", "text", "slots",
                         "pill", "urgent", "fresh", "from", "progress", "runs", "scroll"}
      /\ DOMAIN wire = {"open", "told", "silent", "lines", "kicked", "asked"}
      /\ L \in Seq(NiriLines(part))
  BY DEF NiriParts, NiriShape
<1>2. Niri(part)!Become(t)
  BY DEF Niri!Publish
<1>3. /\ DOMAIN t = DOMAIN s /\ t.world = s.world /\ t.wire = s.wire
      /\ DOMAIN t.panel = DOMAIN panel /\ t.panel.workspaces = workspaces /\ t.panel.layout = layout
      /\ ~t.panel.stripDue => ~s.panel.stripDue /\ s.panel.workspaces = workspaces
      /\ ~t.panel.layoutDue => ~s.panel.layoutDue /\ s.panel.layout = layout
      /\ \A f \in DOMAIN panel \ {"workspaces", "layout", "stripDue", "layoutDue"} : t.panel[f] = s.panel[f]
  <2>1. {"workspaces", "layout", "stripDue", "layoutDue"} \subseteq DOMAIN s.panel
    BY <1>1
  <2> HIDE DEF workspaces, layout
  <2> QED BY <2>1, NiriSends
<1>4. panel' = t.panel /\ world' = world /\ wire' = s.wire
  BY <1>2, <1>3 DEF Niri!Become
<1>5. DOMAIN workspaces = {"connected", "ids", "active", "windows", "urgent"} /\ workspaces.ids \subseteq part.ids
      /\ DOMAIN layout = {"connected", "layout"}
  BY DEF Niri!Workspaces, Niri!Layout, Pictured
<1> HIDE DEF t, workspaces, layout
<1>6. /\ DOMAIN panel' = DOMAIN panel /\ panel'.phase = "open" /\ panel'.state = state
      /\ panel'.workspaces = workspaces /\ panel'.layout = layout
      /\ ~panel'.stripDue => ~panel.stripDue /\ panel.workspaces = workspaces
      /\ ~panel'.layoutDue => ~panel.layoutDue /\ panel.layout = layout
      /\ \A f \in DOMAIN panel \ {"phase", "state", "workspaces", "layout", "stripDue", "layoutDue"} :
            panel'[f] = panel[f]
  BY <1>1, <1>3, <1>4
<1>7. /\ DOMAIN wire' = DOMAIN wire /\ wire'.lines = M /\ wire'.open = wire.open /\ wire'.told = wire.told
      /\ wire'.silent = wire.silent /\ wire'.kicked = wire.kicked
  BY <1>1, <1>4
<1>8. /\ Len(L) \in Nat \ {0} /\ M \in Seq(NiriLines(part)) /\ Len(M) = Len(L) - 1 /\ L[1] = l
      /\ \A i \in 1..Len(M) : M[i] = L[i + 1]
  BY <1>1
<1> HIDE DEF L, M
<1>9. Shorter(M, L, l)
  BY <1>8 DEF Shorter
<1>10. NiriShape(part)'
  BY <1>1, <1>4, <1>5, <1>6, <1>7, <1>8 DEF NiriShape
<1>11. Live' => Live
  <2> SUFFICES ASSUME Live' PROVE Live
    OBVIOUS
  <2>1. wire.open /\ ~wire.silent /\ \A i \in 1..Len(M) : M[i].what # "end"
    BY <1>7 DEF Live
  <2>2. ASSUME NEW i \in 1..Len(L) PROVE L[i].what # "end"
    <3>1. CASE i = 1
      BY <1>8, <3>1
    <3>2. CASE i # 1
      <4>1. i - 1 \in 1..Len(M) /\ M[i - 1] = L[i]
        BY <1>8, <3>2
      <4> QED BY <2>1, <4>1
    <3> QED BY <3>1, <3>2
  <2> QED BY <2>1, <2>2 DEF Live, L
<1>12. Live' => wire.told /\ world.up
  BY <1>1, <1>11 DEF LinkInv
<1>13. LinkInv'
  <2>1. ASSUME NEW i \in 1..Len(M), M[i].what = "handled"
        PROVE  \E j \in 1 .. i - 1 : M[j].what = "end"
    <3>1. i + 1 \in 1..Len(L) /\ L[i + 1].what = "handled" /\ i + 1 # 1
      BY <1>8, <2>1
    <3>2. PICK j \in 1 .. (i + 1) - 1 : L[j].what = "end"
      BY <1>1, <3>1 DEF LinkInv, L
    <3>3. j # 1
      BY <1>8, <3>2
    <3>4. j - 1 \in 1 .. i - 1 /\ j - 1 \in 1..Len(M) /\ M[j - 1] = L[j]
      BY <1>8, <3>2, <3>3
    <3> QED BY <3>2, <3>4
  <2>2. wire.open /\ (wire.silent => world.asleep \/ wire.kicked)
    BY <1>1 DEF LinkInv
  <2> QED BY <1>4, <1>6, <1>7, <1>12, <2>1, <2>2 DEF LinkInv
<1>14. FoldInv(part)'
  <2> SUFFICES ASSUME Live', NEW of \in Topics, NEW id \in part.ids
               PROVE  \/ Says(M, About(part, of, id), Truths(part, world, of, id))
                      \/ Mute(M, About(part, of, id)) /\ Agree(state, world, of, id)
    BY <1>4, <1>6, <1>7 DEF FoldInv
  <2> DEFINE A == About(part, of, id)
             R == Truths(part, world, of, id)
  <2>1. Says(L, A, R) \/ (panel.phase = "open" /\ Mute(L, A) /\ Agree(panel.state, world, of, id))
    BY <1>1, <1>11, <1>12 DEF FoldInv, L
  <2> HIDE DEF A, R
  <2>2. /\ Says(L, A, R) => Says(M, A, R) \/ (l \in R /\ Mute(M, A))
        /\ Mute(L, A) => Mute(M, A) /\ l \notin A
    BY <1>9, SaysTaken
  <2> QED BY <2>1, <2>2 DEF A, R
<1>15. PublishedInv(part)' /\ Slides(part, panel)'
  BY <1>6, NiriPublishes DEF workspaces, layout
<1> QED BY <1>10, <1>13, <1>14, <1>15 DEF NiriParts

LEMMA NiriHears ==
    ASSUME NEW part, NiriParts(part),
           Niri(part)!TakeHandshake \/ Niri(part)!TakeLine \/ Niri(part)!TakeKick
    PROVE  NiriParts(part)'
<1> DEFINE l == Head(wire.lines)
           s == [Niri(part)!Now EXCEPT !.wire.lines = Tail(@)]
<1>1. /\ NiriShape(part) /\ LinkInv /\ wire.lines \in Seq(NiriLines(part))
      /\ DOMAIN panel = {"phase", "state", "workspaces", "layout", "stripDue", "layoutDue", "dim", "text", "slots",
                         "pill", "urgent", "fresh", "from", "progress", "runs", "scroll"}
      /\ DOMAIN wire = {"open", "told", "silent", "lines", "kicked", "asked"}
      /\ Pictured(part, panel.state)
  BY DEF NiriParts, NiriShape
<1>2. /\ DOMAIN Niri(part)!Now = {"panel", "world", "wire"} /\ Niri(part)!Now.panel = panel
      /\ Niri(part)!Now.world = world /\ Niri(part)!Now.wire = wire
  BY DEF Niri!Now
<1>3. /\ DOMAIN s = {"panel", "world", "wire"} /\ s.panel = panel /\ s.world = world
      /\ s.wire = [wire EXCEPT !.lines = Tail(wire.lines)]
  BY <1>2
<1>4. /\ DOMAIN s.wire = DOMAIN wire /\ s.wire.lines = Tail(wire.lines)
      /\ \A f \in DOMAIN wire \ {"lines"} : s.wire[f] = wire[f]
  BY <1>1, <1>3
<1> HIDE DEF l, s
<1>5. CASE Niri(part)!TakeHandshake
  <2>1. panel.phase = "shaking" /\ wire.lines # <<>>
    BY <1>5 DEF Niri!TakeHandshake
  <2>2. CASE l.what = "handled"
    <3> DEFINE nothing == Niri(part)!Nothing
               t == [Niri(part)!Now EXCEPT !.panel.phase = "open", !.panel.state = nothing, !.wire.lines = Tail(@)]
    <3>1. Niri(part)!Become(Niri(part)!Publish(t))
      BY <1>5, <2>2 DEF Niri!TakeHandshake, l
    <3>2. Pictured(part, nothing)
      BY DEF Pictured, Niri!Nothing
    <3> HIDE DEF nothing
    <3>3. /\ DOMAIN t = {"panel", "world", "wire"} /\ t.world = world
          /\ t.panel = [[panel EXCEPT !.phase = "open"] EXCEPT !.state = nothing]
          /\ t.wire = [wire EXCEPT !.lines = Tail(wire.lines)]
      BY <1>2
    <3> HIDE DEF t
    <3>4. /\ DOMAIN t.wire = DOMAIN wire /\ t.wire.lines = Tail(wire.lines)
          /\ \A f \in DOMAIN wire \ {"lines"} : t.wire[f] = wire[f]
      BY <1>1, <3>3
    <3>5. /\ DOMAIN t.panel = DOMAIN panel /\ t.panel.phase = "open" /\ t.panel.state = nothing
          /\ \A f \in DOMAIN panel \ {"phase", "state"} : t.panel[f] = panel[f]
      BY <1>1, <3>3
    <3>6. ASSUME NEW of \in Topics, NEW id \in part.ids PROVE l \notin Truths(part, world, of, id)
      BY <2>2 DEF Truths, About
    <3>7. panel.phase # "open" /\ l.what # "end"
      BY <2>1, <2>2
    <3> QED BY <2>1, <2>2, <3>1, <3>2, <3>3, <3>4, <3>5, <3>6, <3>7, NiriTakes DEF l
  <2>3. CASE l.what # "handled"
    <3>1. Niri(part)!Become(Niri(part)!Ended(Niri(part)!Now))
      BY <1>5, <2>3 DEF Niri!TakeHandshake, l
    <3> QED BY <1>2, <3>1, NiriEnds
  <2> QED BY <2>2, <2>3
<1>6. CASE Niri(part)!TakeLine
  <2>1. /\ panel.phase = "open" /\ wire.lines # <<>>
        /\ Niri(part)!Become(CASE l.what = "unreadable" -> s
                               [] l.what = "end" -> Niri(part)!Ended(s)
                               [] OTHER -> IF Niri(part)!Fits(panel.state, l)
                                           THEN Niri(part)!Publish([s EXCEPT !.panel.state = Niri(part)!Applied(@, l)])
                                           ELSE Niri(part)!Ended(s))
    BY <1>6 DEF Niri!TakeLine, l, s
  <2>2. l \in NiriLines(part)
    BY <1>1, <2>1 DEF l
  <2>3. l.what # "unreadable"
    BY <2>2, NiriSpeaks
  <2>4. l.what # "handled"
    <3> SUFFICES ASSUME l.what = "handled" PROVE FALSE
      OBVIOUS
    <3>1. 1 \in 1..Len(wire.lines) /\ wire.lines[1] = l
      BY <1>1, <2>1 DEF l
    <3>2. PICK j \in 1 .. 1 - 1 : wire.lines[j].what = "end"
      BY <1>1, <2>1, <3>1 DEF LinkInv
    <3> QED BY <3>2
  <2>5. CASE Niri(part)!Become(Niri(part)!Ended(s))
    BY <1>1, <1>3, <1>4, <2>5, NiriEnds
  <2>6. CASE l.what # "end" /\ Niri(part)!Become(Niri(part)!Publish([s EXCEPT !.panel.state = Niri(part)!Applied(@, l)]))
    <3> DEFINE state == Niri(part)!Applied(panel.state, l)
               t == [s EXCEPT !.panel.state = state]
    <3>1. Niri(part)!Become(Niri(part)!Publish(t))
      BY <1>3, <2>6
    <3>2. /\ Pictured(part, state)
          /\ \A of \in Topics, id \in part.ids :
                /\ l \in Truths(part, world, of, id) => Agree(state, world, of, id)
                /\ l \notin About(part, of, id) /\ Agree(panel.state, world, of, id) => Agree(state, world, of, id)
      <4>1. l.what \notin {"handled", "end"}
        BY <2>4, <2>6
      <4> QED BY <1>1, <2>2, <4>1, NiriApplies
    <3> HIDE DEF state
    <3>3. /\ DOMAIN t = {"panel", "world", "wire"} /\ t.world = world /\ t.wire = s.wire
          /\ t.panel = [panel EXCEPT !.state = state]
      BY <1>3
    <3> HIDE DEF t
    <3>4. /\ DOMAIN t.panel = DOMAIN panel /\ t.panel.phase = "open" /\ t.panel.state = state
          /\ \A f \in DOMAIN panel \ {"phase", "state"} : t.panel[f] = panel[f]
      BY <1>1, <2>1, <3>3
    <3>5. /\ DOMAIN t.wire = DOMAIN wire /\ t.wire.lines = Tail(wire.lines)
          /\ \A f \in DOMAIN wire \ {"lines"} : t.wire[f] = wire[f]
      BY <1>4, <3>3
    <3> QED BY <2>1, <2>4, <2>6, <3>1, <3>2, <3>3, <3>4, <3>5, NiriTakes DEF l
  <2> QED BY <2>1, <2>3, <2>5, <2>6
<1>7. CASE Niri(part)!TakeKick
  <2> DEFINE t == [Niri(part)!Now EXCEPT !.wire.kicked = FALSE]
  <2>1. Niri(part)!Become(Niri(part)!Ended(t))
    BY <1>7 DEF Niri!TakeKick
  <2>2. /\ DOMAIN t = {"panel", "world", "wire"} /\ t.panel = panel /\ t.world = world
        /\ DOMAIN t.wire = DOMAIN wire
    BY <1>1, <1>2
  <2> HIDE DEF t
  <2> QED BY <2>1, <2>2, NiriEnds
<1> QED BY <1>5, <1>6, <1>7


\* EventStream answered: everything is told, and of everything there is how it is.
LEMMA NiriAnswers ==
    ASSUME NEW part, NiriParts(part), Niri(part)!Answer
    PROVE  NiriParts(part)'
<1> DEFINE L == wire.lines
           h == [what |-> "handled"]
           w == [what |-> "workspaces", ids |-> world.ids, active |-> world.active, urgent |-> world.urgent]
           x == [what |-> "windows", ids |-> world.windows]
           y == [what |-> "layouts", layout |-> world.layout]
           M == L \o <<h, w, x, y>>
<1>1. /\ NiriShape(part) /\ LinkInv /\ FoldInv(part) /\ PublishedInv(part) /\ Slides(part, panel)
      /\ DOMAIN wire = {"open", "told", "silent", "lines", "kicked", "asked"}
      /\ L \in Seq(NiriLines(part)) /\ Len(L) \in Nat
  BY DEF NiriParts, NiriShape
<1>2. /\ panel.phase = "shaking" /\ wire.open /\ ~wire.told /\ ~wire.silent
      /\ panel' = panel /\ world' = world
      /\ wire' = [wire EXCEPT !.told = TRUE, !.lines = M]
  BY <1>1 DEF Niri!Answer, Niri!Become, Niri!Now
<1>3. h \in NiriLines(part) /\ w \in NiriLines(part) /\ x \in NiriLines(part) /\ y \in NiriLines(part)
  BY <1>1 DEF NiriLines, NiriShape
<1>4. /\ h.what = "handled" /\ w.what = "workspaces" /\ x.what = "windows" /\ y.what = "layouts"
      /\ w.ids = world.ids /\ w.active = world.active /\ w.urgent = world.urgent
      /\ x.ids = world.windows /\ y.layout = world.layout
  OBVIOUS
<1> HIDE DEF L, h, w, x, y
<1>5. /\ M \in Seq(NiriLines(part)) /\ Len(M) = Len(L) + 4 /\ \A i \in 1..Len(L) : M[i] = L[i]
      /\ M[Len(L) + 1] = h /\ M[Len(L) + 2] = w /\ M[Len(L) + 3] = x /\ M[Len(L) + 4] = y
  BY <1>1, <1>3
<1> HIDE DEF M
<1>6. /\ DOMAIN wire' = DOMAIN wire /\ wire'.told /\ wire'.lines = M /\ wire'.open = wire.open
      /\ wire'.silent = wire.silent /\ wire'.kicked = wire.kicked
  BY <1>1, <1>2
<1>7. NiriShape(part)'
  BY <1>1, <1>2, <1>5, <1>6 DEF NiriShape
<1>8. Live' => Live
  <2>1. ASSUME \A i \in 1..Len(M) : M[i].what # "end", NEW i \in 1..Len(L) PROVE L[i].what # "end"
    <3>1. i \in 1..Len(M) /\ M[i] = L[i]
      BY <1>1, <1>5
    <3> QED BY <2>1, <3>1
  <2> QED BY <1>6, <2>1 DEF Live, L
<1>9. L # <<>> => \E j \in 1..Len(L) : L[j].what = "end"
  BY <1>1, <1>2 DEF LinkInv, Live, L
<1>10. LinkInv'
  <2>1. ASSUME NEW i \in 1..Len(M), M[i].what = "handled", i # 1
        PROVE  \E j \in 1 .. i - 1 : M[j].what = "end"
    <3>1. CASE i \in 1..Len(L)
      <4>1. L[i].what = "handled"
        BY <1>5, <2>1, <3>1
      <4>2. PICK j \in 1 .. i - 1 : L[j].what = "end"
        BY <1>1, <2>1, <3>1, <4>1 DEF LinkInv, L
      <4>3. j \in 1..Len(L)
        BY <1>1, <3>1, <4>2
      <4> QED BY <1>5, <4>2, <4>3
    <3>2. CASE i \notin 1..Len(L)
      <4>1. Len(L) # 0 /\ \A j \in 1..Len(L) : j \in 1 .. i - 1
        <5>1. Len(L) # 0
          <6> SUFFICES ASSUME Len(L) = 0 PROVE FALSE
            OBVIOUS
          <6>1. i \in 2..4
            BY <1>5, <2>1
          <6>2. M[2] = w /\ M[3] = x /\ M[4] = y
            BY <1>5
          <6> QED BY <1>4, <2>1, <6>1, <6>2
        <5> QED BY <1>1, <1>5, <3>2, <5>1
      <4>2. PICK j \in 1..Len(L) : L[j].what = "end"
        BY <1>1, <1>9, <4>1
      <4> QED BY <1>5, <4>1, <4>2
    <3> QED BY <3>1, <3>2
  <2>2. M # <<>>
    BY <1>1, <1>5
  <2>3. Live' => world.up
    BY <1>1, <1>8 DEF LinkInv
  <2> QED BY <1>2, <1>6, <2>1, <2>2, <2>3 DEF LinkInv
<1>11. FoldInv(part)'
  <2> SUFFICES ASSUME Live', NEW of \in Topics, NEW id \in part.ids
               PROVE  Says(M, About(part, of, id), Truths(part, world, of, id))
    BY <1>2, <1>6 DEF FoldInv
  <2>1. L = <<>> /\ Len(L) = 0
    BY <1>1, <1>2, <1>8 DEF LinkInv, L
  <2>2. Len(M) = 4 /\ M[2] = w /\ M[3] = x /\ M[4] = y
    BY <1>5, <2>1
  <2> DEFINE A == About(part, of, id)
             R == Truths(part, world, of, id)
  <2>3. /\ of \in {"ids", "active", "urgent"} => w \in R /\ x \notin A /\ y \notin A
        /\ of = "windows" => x \in R /\ y \notin A
        /\ of = "layout" => y \in R
    BY <1>3, <1>4 DEF Truths, About
  <2> HIDE DEF A, R
  <2>4. CASE of \in {"ids", "active", "urgent"}
    <3>1. 2 \in 1..Len(M) /\ M[2] \in R /\ \A j \in 2 + 1 .. Len(M) : M[j] \notin A
      BY <2>2, <2>3, <2>4
    <3> QED BY <3>1 DEF Says, A, R
  <2>5. CASE of = "windows"
    <3>1. 3 \in 1..Len(M) /\ M[3] \in R /\ \A j \in 3 + 1 .. Len(M) : M[j] \notin A
      BY <2>2, <2>3, <2>5
    <3> QED BY <3>1 DEF Says, A, R
  <2>6. CASE of = "layout"
    <3>1. 4 \in 1..Len(M) /\ M[4] \in R /\ \A j \in 4 + 1 .. Len(M) : M[j] \notin A
      BY <2>2, <2>3, <2>6
    <3> QED BY <3>1 DEF Says, A, R
  <2> QED BY <2>4, <2>5, <2>6 DEF Topics
<1>12. PublishedInv(part)' /\ Slides(part, panel)'
  BY <1>1, <1>2 DEF PublishedInv, Slides
<1> QED BY <1>7, <1>10, <1>11, <1>12 DEF NiriParts

\* niri that dies or starts, and a machine that sleeps or wakes.
LEMMA NiriBreaks ==
    ASSUME NEW part, Niri(part)!ConstantsOK, {"early", "garble"} \cap part.does = {}, NiriParts(part),
           Niri(part)!Dies \/ Niri(part)!Starts \/ Niri(part)!Sleeps \/ Niri(part)!Resumes
    PROVE  NiriParts(part)'
<1>1. /\ NiriShape(part) /\ LinkInv /\ FoldInv(part) /\ PublishedInv(part) /\ Slides(part, panel)
      /\ DOMAIN world = {"up", "ids", "active", "windows", "urgent", "layout", "asleep", "moves", "clicks"}
      /\ DOMAIN wire = {"open", "told", "silent", "lines", "kicked", "asked"}
      /\ wire.lines \in Seq(NiriLines(part)) /\ Len(wire.lines) \in Nat
  BY DEF NiriParts, NiriShape
<1>2. CASE Niri(part)!Dies
  <2> DEFINE end == [what |-> "end"]
             L == wire.lines
             M == IF wire.open /\ ~wire.silent THEN Append(L, end) ELSE L
  <2>1. /\ panel' = panel
        /\ world' = [[world EXCEPT !.moves = @ + 1] EXCEPT !.up = FALSE]
        /\ wire' = [wire EXCEPT !.told = FALSE, !.lines = M]
    BY ZenonT(60), <1>1, <1>2 DEF Niri!Dies, Niri!Did, Niri!Become, Niri!Now
  <2>2. end \in NiriLines(part) /\ end.what = "end"
    BY DEF NiriLines
  <2> HIDE DEF end, L
  <2>3. /\ M \in Seq(NiriLines(part))
        /\ \A i \in 1..Len(M) : (i \in 1..Len(L) /\ M[i] = L[i]) \/ M[i] = end
        /\ \A i \in 1..Len(L) : M[i] = L[i]
        /\ wire.open /\ ~wire.silent => \E i \in 1..Len(M) : M[i].what = "end"
    <3>1. L \in Seq(NiriLines(part)) /\ Len(L) \in Nat
      BY <1>1 DEF L
    <3>2. CASE wire.open /\ ~wire.silent
      <4>1. M = Append(L, end)
        BY <3>2
      <4> HIDE DEF M
      <4>2. /\ M \in Seq(NiriLines(part)) /\ Len(M) = Len(L) + 1 /\ M[Len(M)] = end
            /\ \A i \in 1..Len(L) : M[i] = L[i]
        BY <2>2, <3>1, <4>1
      <4>3. Len(M) \in 1..Len(M) /\ \A i \in 1..Len(M) : i \in 1..Len(L) \/ i = Len(M)
        BY <3>1, <4>2
      <4> QED BY <2>2, <4>2, <4>3
    <3>3. CASE ~(wire.open /\ ~wire.silent)
      BY <3>1, <3>3
    <3> QED BY <3>2, <3>3
  <2>4. panel.phase = "waiting" => M = <<>>
    BY <1>1 DEF LinkInv, L
  <2> HIDE DEF M
  <2>5. /\ DOMAIN world' = DOMAIN world /\ world'.up = FALSE
        /\ \A f \in DOMAIN world \ {"moves", "up"} : world'[f] = world[f]
    BY <1>1, <2>1
  <2>6. /\ DOMAIN wire' = DOMAIN wire /\ wire'.told = FALSE /\ wire'.lines = M /\ wire'.open = wire.open
        /\ wire'.silent = wire.silent /\ wire'.kicked = wire.kicked
    BY <1>1, <2>1
  <2>7. world'.ids = world.ids /\ world'.windows = world.windows /\ world'.urgent = world.urgent
        /\ world'.active = world.active /\ world'.layout = world.layout /\ world'.asleep = world.asleep
    BY <1>1, <2>5
  <2>8. ~Live'
    BY <2>3, <2>6 DEF Live
  <2>9. NiriShape(part)'
    BY <1>1, <2>1, <2>3, <2>5, <2>6, <2>7 DEF NiriShape
  <2>10. LinkInv'
    <3>1. ASSUME NEW i \in 1..Len(M), M[i].what = "handled", ~(panel.phase = "shaking" /\ i = 1)
          PROVE  \E j \in 1 .. i - 1 : M[j].what = "end"
      <4>1. i \in 1..Len(L) /\ L[i].what = "handled"
        BY <2>2, <2>3, <3>1
      <4>2. PICK j \in 1 .. i - 1 : L[j].what = "end"
        BY <1>1, <3>1, <4>1 DEF LinkInv, L
      <4>3. j \in 1..Len(L)
        BY <1>1, <4>1, <4>2 DEF L
      <4> QED BY <2>3, <4>2, <4>3
    <3>2. /\ panel.phase = "waiting" => ~wire.open /\ ~wire.silent
          /\ panel.phase # "waiting" => wire.open
          /\ wire.silent => panel.phase = "open" /\ (world.asleep \/ wire.kicked)
      BY <1>1 DEF LinkInv
    <3> QED BY <2>1, <2>4, <2>6, <2>7, <2>8, <3>1, <3>2 DEF LinkInv
  <2>11. FoldInv(part)'
    BY <2>8 DEF FoldInv
  <2>12. PublishedInv(part)' /\ Slides(part, panel)'
    BY <1>1, <2>1 DEF PublishedInv, Slides
  <2> QED BY <2>9, <2>10, <2>11, <2>12 DEF NiriParts
<1>3. CASE Niri(part)!Starts
  <2>1. PICK first \in part.named :
           /\ panel' = panel /\ wire' = wire
           /\ world' = [world EXCEPT !.up = TRUE, !.ids = part.named, !.active = first,
                                     !.windows = {}, !.urgent = {}, !.layout = 0]
    <3>1. PICK first \in part.named :
             Niri(part)!Become([Niri(part)!Now EXCEPT
                !.world.up = TRUE, !.world.ids = part.named, !.world.active = first,
                !.world.windows = {}, !.world.urgent = {}, !.world.layout = 0])
      BY <1>3 DEF Niri!Starts
    <3> DEFINE e == [Niri(part)!Now EXCEPT
                       !.world.up = TRUE, !.world.ids = part.named, !.world.active = first,
                       !.world.windows = {}, !.world.urgent = {}, !.world.layout = 0]
    <3>2. /\ e.panel = panel /\ e.wire = wire
          /\ e.world = [world EXCEPT !.up = TRUE, !.ids = part.named, !.active = first,
                                     !.windows = {}, !.urgent = {}, !.layout = 0]
      BY DEF Niri!Now
    <3> HIDE DEF e
    <3> QED BY <3>1, <3>2 DEF Niri!Become, e
  <2>2. /\ DOMAIN world' = DOMAIN world /\ world'.up /\ world'.ids = part.named /\ world'.active = first
        /\ world'.windows = {} /\ world'.urgent = {} /\ world'.layout = 0 /\ world'.asleep = world.asleep
    BY <1>1, <2>1
  <2>3. ~Live' /\ ~Live
    BY <1>1, <1>3, <2>1 DEF Niri!Starts, LinkInv, Live
  <2>4. NiriShape(part)'
    BY <1>1, <2>1, <2>2 DEF NiriShape, Niri!ConstantsOK
  <2>5. LinkInv'
    BY <1>1, <2>1, <2>2, <2>3 DEF LinkInv
  <2>6. FoldInv(part)'
    BY <2>3 DEF FoldInv
  <2>7. PublishedInv(part)' /\ Slides(part, panel)'
    BY <1>1, <2>1 DEF PublishedInv, Slides
  <2> QED BY <2>4, <2>5, <2>6, <2>7 DEF NiriParts
<1>4. CASE Niri(part)!Sleeps
  <2>1. /\ panel' = panel /\ panel.phase = "open"
        /\ world' = [[world EXCEPT !.moves = @ + 1] EXCEPT !.asleep = TRUE]
        /\ wire' = [wire EXCEPT !.silent = TRUE, !.told = FALSE]
    BY ZenonT(60), <1>1, <1>4 DEF Niri!Sleeps, Niri!Did, Niri!Become, Niri!Now
  <2>2. /\ DOMAIN world' = DOMAIN world /\ world'.asleep = TRUE /\ world'.up = world.up
        /\ world'.ids = world.ids /\ world'.windows = world.windows /\ world'.urgent = world.urgent
        /\ world'.active = world.active /\ world'.layout = world.layout
    BY <1>1, <2>1
  <2>3. /\ DOMAIN wire' = DOMAIN wire /\ wire'.told = FALSE /\ wire'.silent = TRUE /\ wire'.open = wire.open
        /\ wire'.lines = wire.lines /\ wire'.kicked = wire.kicked
    BY <1>1, <2>1
  <2>4. ~Live'
    BY <2>3 DEF Live
  <2>5. NiriShape(part)'
    BY <1>1, <2>1, <2>2, <2>3 DEF NiriShape
  <2>6. LinkInv'
    BY <1>1, <2>1, <2>2, <2>3, <2>4 DEF LinkInv
  <2>7. FoldInv(part)'
    BY <2>4 DEF FoldInv
  <2>8. PublishedInv(part)' /\ Slides(part, panel)'
    BY <1>1, <2>1 DEF PublishedInv, Slides
  <2> QED BY <2>5, <2>6, <2>7, <2>8 DEF NiriParts
<1>5. CASE Niri(part)!Resumes
  <2>1. /\ panel' = panel /\ world' = [world EXCEPT !.asleep = FALSE] /\ wire' = [wire EXCEPT !.kicked = TRUE]
    BY <1>1, <1>5 DEF Niri!Resumes, Niri!Become, Niri!Now
  <2>2. /\ DOMAIN world' = DOMAIN world /\ world'.up = world.up
        /\ world'.ids = world.ids /\ world'.windows = world.windows /\ world'.urgent = world.urgent
        /\ world'.active = world.active /\ world'.layout = world.layout
    BY <1>1, <2>1
  <2>3. /\ DOMAIN wire' = DOMAIN wire /\ wire'.kicked = TRUE /\ wire'.open = wire.open
        /\ wire'.silent = wire.silent /\ wire'.lines = wire.lines /\ wire'.told = wire.told
    BY <1>1, <2>1
  <2>4. Live' <=> Live
    BY <2>3 DEF Live
  <2>5. NiriShape(part)'
    BY <1>1, <2>1, <2>2, <2>3 DEF NiriShape
  <2>6. LinkInv'
    BY <1>1, <2>1, <2>2, <2>3, <2>4 DEF LinkInv
  <2>7. ASSUME NEW of \in Topics, NEW id \in part.ids
        PROVE  /\ Truths(part, world', of, id) = Truths(part, world, of, id)
               /\ Agree(panel.state, world', of, id) <=> Agree(panel.state, world, of, id)
    BY <2>2 DEF Truths, Agree
  <2>8. FoldInv(part)'
    BY <1>1, <2>1, <2>3, <2>4, <2>7 DEF FoldInv
  <2>9. PublishedInv(part)' /\ Slides(part, panel)'
    BY <1>1, <2>1 DEF PublishedInv, Slides
  <2> QED BY <2>5, <2>6, <2>8, <2>9 DEF NiriParts
<1> QED BY <1>2, <1>3, <1>4, <1>5

LEMMA NiriSteps ==
    ASSUME NEW part, Niri(part)!ConstantsOK, NiriInv(part), Niri(part)!Next
    PROVE  NiriInv(part)'
<1> SUFFICES ASSUME {"early", "garble"} \cap part.does = {} PROVE NiriParts(part)'
  BY DEF NiriInv, NiriParts
<1>1. NiriParts(part)
  BY DEF NiriInv, NiriParts
<1>2. ~Niri(part)!Garbles
  BY DEF Niri!Garbles, Niri!Spare
<1> QED BY <1>1, <1>2, NiriConnects, NiriHears, NiriAnswers, NiriBreaks, NiriMoves, NiriDraws
        DEF Niri!Next, Niri!Turn, Niri!Server, Niri!Loop

LEMMA NiriStays ==
    ASSUME NEW part, NiriInv(part), UNCHANGED <<panel, world, wire>>
    PROVE  NiriInv(part)'
<1> SUFFICES ASSUME {"early", "garble"} \cap part.does = {} PROVE NiriParts(part)'
  BY DEF NiriInv, NiriParts
<1>1. NiriParts(part)
  BY DEF NiriInv, NiriParts
<1>2. NiriShape(part)' /\ LinkInv' /\ FoldInv(part)'
  BY <1>1, NiriIdles
<1>3. PublishedInv(part)' /\ Slides(part, panel)'
  BY <1>1 DEF NiriParts, PublishedInv, Slides
<1> QED BY <1>2, <1>3 DEF NiriParts

-----------------------------------------------------------------------------
(* Who watches the screen.                                                 *)

\* What PipeWire gives out, and what it says of it.
Numbers(part) == {part.ids[i] : i \in 1..Len(part.ids)}
Nodes == [link : {FALSE}, cast : BOOLEAN]
Links(part) == [link : {TRUE}, from : Numbers(part), active : BOOLEAN]
PrivacyEvents(part) ==
    [kind : {"global"}, id : Numbers(part), object : Nodes \cup Links(part)]
    \cup [kind : {"info"}, id : Numbers(part), active : BOOLEAN]
    \cup [kind : {"remove"}, id : Numbers(part)]

\* A link is announced without its state.
Announced(o) == IF o.link THEN [link |-> TRUE, from |-> o.from, active |-> FALSE] ELSE o

\* What is said of an object, and of whether there is one; what of it is so.
Tells(part, id) == {e \in PrivacyEvents(part) : e.id = id}
Comes(part, id) == {e \in Tells(part, id) : e.kind \in {"global", "remove"}}
Stands(part, w, id) ==
    {e \in Comes(part, id) :
        /\ e.kind = "remove" => id \notin DOMAIN w.objects
        /\ e.kind = "global" => id \in DOMAIN w.objects /\ e.object = Announced(w.objects[id])}
Flows(part, w, id) == {e \in Tells(part, id) : e.kind = "info" /\ (e.active <=> w.objects[id].active)}
Begins(part, id) == {e \in Tells(part, id) : e.kind = "global"}
Binds(part, id) == {e \in Begins(part, id) : e.object.link}

\* A proxy there is for a link.
Follows(bound, id) == \E p \in bound : p.alive /\ p.link = id

\* What had a number is gone before it is announced again.
Again(part, bound, L, id, i) ==
    \/ \E k \in 1 .. i - 1 : /\ L[k] \in Comes(part, id) \ Begins(part, id)
                             /\ \A j \in k + 1 .. i - 1 : L[j] \notin Begins(part, id)
    \/ ~Follows(bound, id) /\ \A j \in 1 .. i - 1 : L[j] \notin Begins(part, id)

PrivacyShape(part) ==
    /\ DOMAIN panel = {"graph", "bound", "made", "sharing", "following", "due", "dot", "pulsing"}
    /\ DOMAIN world = {"objects", "free", "bound", "up", "moves"}
    /\ DOMAIN wire = {"events", "binds"}
    /\ panel.graph \in [DOMAIN panel.graph -> Nodes \cup Links(part)]
    /\ DOMAIN panel.graph \subseteq Numbers(part)
    /\ world.objects \in [DOMAIN world.objects -> Nodes \cup Links(part)]
    /\ DOMAIN world.objects \subseteq Numbers(part)
    /\ world.bound \subseteq Privacy(part)!LinksIn(world.objects)
    /\ wire.events \in Seq(PrivacyEvents(part)) /\ wire.binds \in Seq(Numbers(part))
    /\ panel.following

\* A number that is free is nothing's, and there is one of it.
FreeInv(part) ==
    /\ world.free \in Seq(Numbers(part))
    /\ \A i \in 1..Len(world.free) : world.free[i] \notin DOMAIN world.objects
    /\ \A i, j \in 1..Len(world.free) : world.free[i] = world.free[j] => i = j

\* The library's numbers stay below PipeWire's: a proxy goes with its link and no sooner.
ProxyInv(part) ==
    /\ \A p \in panel.bound :
          /\ DOMAIN p = {"n", "local", "link", "alive"} /\ p.alive \in BOOLEAN
          /\ p.local \in Nat /\ p.local <= part.local + Len(part.ids) /\ p.link \in Numbers(part)
    /\ \A p, q \in panel.bound : p.alive /\ q.alive /\ p.link = q.link => p = q
    /\ \A id \in Numbers(part) : Follows(panel.bound, id) <=> id \in Privacy(part)!LinksIn(panel.graph)

\* Of every object it was last said rightly that it is or is not there, or it is known.
GraphInv(part) ==
    \A id \in Numbers(part) :
        \/ Says(wire.events, Comes(part, id), Stands(part, world, id))
        \/ /\ Mute(wire.events, Comes(part, id))
           /\ id \in DOMAIN panel.graph <=> id \in DOMAIN world.objects
           /\ id \in DOMAIN world.objects => Announced(panel.graph[id]) = Announced(world.objects[id])

\* Of a link whose state is told it was last told rightly, or it is known.
ActiveInv(part) ==
    \A id \in world.bound :
        \/ Says(wire.events, Tells(part, id), Flows(part, world, id))
        \/ /\ Mute(wire.events, Tells(part, id))
           /\ panel.graph[id].active <=> world.objects[id].active

\* Of another it will be asked.
BindInv(part) ==
    \A id \in Privacy(part)!LinksIn(world.objects) \ world.bound :
        \/ \E i \in 1..Len(wire.binds) : wire.binds[i] = id
        \/ ~Mute(wire.events, Binds(part, id))

OrderInv(part) ==
    \A id \in Numbers(part) : \A i \in 1..Len(wire.events) :
        wire.events[i] \in Begins(part, id) => Again(part, panel.bound, wire.events, id, i)

DotInv(part) ==
    /\ panel.sharing = Privacy(part)!ScreenSharing(panel.graph)
    /\ ~panel.due => panel.dot = panel.sharing /\ panel.pulsing = panel.sharing

PrivacyParts(part) ==
    /\ PrivacyShape(part) /\ FreeInv(part) /\ ProxyInv(part) /\ GraphInv(part) /\ ActiveInv(part)
    /\ BindInv(part) /\ OrderInv(part) /\ DotInv(part)
PrivacyInv(part) == Privacy(part)!Apart /\ world.up => PrivacyParts(part)

LEMMA MuteTaken ==
    ASSUME NEW L, NEW M, NEW x, Shorter(M, L, x), NEW A, Mute(L, A)
    PROVE  Mute(M, A) /\ x \notin A
<1>1. Len(L) \in Nat \ {0} /\ Len(M) = Len(L) - 1 /\ x = L[1] /\ \A i \in 1..Len(M) : M[i] = L[i + 1]
  BY DEF Shorter
<1> QED BY <1>1 DEF Mute

LEMMA SaysJoined ==
    ASSUME NEW L, NEW M, Len(L) \in Nat, Len(M) \in Nat, Len(L) <= Len(M), \A i \in 1..Len(L) : M[i] = L[i],
           NEW A, NEW R
    PROVE  /\ (\E i \in Len(L) + 1 .. Len(M) : M[i] \in R /\ \A j \in i + 1 .. Len(M) : M[j] \notin A) => Says(M, A, R)
           /\ (\A j \in Len(L) + 1 .. Len(M) : M[j] \notin A) =>
                 (Says(L, A, R) => Says(M, A, R)) /\ (Mute(L, A) => Mute(M, A))
<1>1. ASSUME NEW i \in Len(L) + 1 .. Len(M), M[i] \in R, \A j \in i + 1 .. Len(M) : M[j] \notin A
      PROVE  Says(M, A, R)
  BY <1>1 DEF Says
<1>2. ASSUME \A j \in Len(L) + 1 .. Len(M) : M[j] \notin A, Says(L, A, R) PROVE Says(M, A, R)
  <2>1. PICK i \in 1..Len(L) : L[i] \in R /\ \A j \in i + 1 .. Len(L) : L[j] \notin A
    BY <1>2 DEF Says
  <2>2. i \in 1..Len(M) /\ M[i] \in R
    BY <2>1
  <2>3. ASSUME NEW j \in i + 1 .. Len(M) PROVE M[j] \notin A
    <3>1. CASE j <= Len(L)
      <4>1. j \in 1..Len(L) /\ j \in i + 1 .. Len(L)
        BY <2>1, <2>3, <3>1
      <4> QED BY <2>1, <4>1
    <3>2. CASE ~(j <= Len(L))
      BY <1>2, <2>1, <2>3, <3>2
    <3> QED BY <3>1, <3>2
  <2> QED BY <2>2, <2>3 DEF Says
<1>3. ASSUME \A j \in Len(L) + 1 .. Len(M) : M[j] \notin A, Mute(L, A) PROVE Mute(M, A)
  <2>1. ASSUME NEW j \in 1..Len(M) PROVE M[j] \notin A
    <3>1. CASE j <= Len(L)
      <4>1. j \in 1..Len(L)
        BY <2>1, <3>1
      <4> QED BY <1>3, <4>1 DEF Mute
    <3>2. CASE ~(j <= Len(L))
      BY <1>3, <2>1, <3>2
    <3> QED BY <3>1, <3>2
  <2> QED BY <2>1 DEF Mute
<1> QED BY <1>1, <1>2, <1>3

LEMMA NumbersHaveALeast ==
    ASSUME NEW S \in SUBSET Nat, S # {}
    PROVE  (CHOOSE x \in S : \A y \in S : x <= y) \in S
<1>1. PICK x \in S : \A y \in S : ~(<<y, x>> \in OpToRel(<, Nat))
  BY NatLessThanWellFounded, WFMin
<1>2. ASSUME NEW y \in S PROVE x <= y
  <2>1. x \in Nat /\ y \in Nat
    BY <1>1
  <2>2. ~(y < x)
    BY <1>1, <2>1, Zenon DEF OpToRel
  <2> QED BY <2>1, <2>2
<1> QED BY <1>1, <1>2

\* What events have of their own.
LEMMA PrivacySpeaks ==
    ASSUME NEW part, NEW e \in PrivacyEvents(part)
    PROVE  /\ e.kind \in {"global", "info", "remove"} /\ e.id \in Numbers(part)
           /\ e.kind = "global" => e.object \in Nodes \cup Links(part)
           /\ e.kind = "info" => e.active \in BOOLEAN
<1>1. CASE e \in [kind : {"global"}, id : Numbers(part), object : Nodes \cup Links(part)]
  BY <1>1
<1>2. CASE e \in [kind : {"info"}, id : Numbers(part), active : BOOLEAN]
  BY <1>2
<1>3. CASE e \in [kind : {"remove"}, id : Numbers(part)]
  BY <1>3
<1> QED BY <1>1, <1>2, <1>3 DEF PrivacyEvents

\* What objects have of their own.
LEMMA ObjectsHave ==
    ASSUME NEW part, NEW o \in Nodes \cup Links(part)
    PROVE  /\ o.link \in BOOLEAN
           /\ o.link => /\ o \in Links(part) /\ o.from \in Numbers(part) /\ o.active \in BOOLEAN
                        /\ o = [link |-> TRUE, from |-> o.from, active |-> o.active]
           /\ ~o.link => o \in Nodes /\ o.cast \in BOOLEAN
           /\ Announced(o).link = o.link /\ Announced(o) \in Nodes \cup Links(part)
BY DEF Nodes, Links, Announced

\* What is announced alike and flows alike is alike.
LEMMA ObjectsAlike ==
    ASSUME NEW part, NEW o \in Nodes \cup Links(part), NEW p \in Nodes \cup Links(part),
           Announced(o) = Announced(p), o.link => (o.active <=> p.active)
    PROVE  o = p
<1>1. o.link = p.link
  BY ObjectsHave
<1>2. CASE o.link
  <2>1. /\ o = [link |-> TRUE, from |-> o.from, active |-> o.active]
        /\ p = [link |-> TRUE, from |-> p.from, active |-> p.active]
        /\ o.active \in BOOLEAN /\ p.active \in BOOLEAN
    BY <1>1, <1>2, ObjectsHave
  <2>2. o.from = p.from
    BY <1>1, <1>2 DEF Announced
  <2> QED BY <1>2, <2>1, <2>2
<1>3. CASE ~o.link
  BY <1>1, <1>3 DEF Announced
<1> QED BY <1>2, <1>3, ObjectsHave

LEMMA PrivacyPromises ==
    ASSUME NEW part, PrivacyInv(part), Privacy(part)!Apart
    PROVE  Privacy(part)!QuietIsCurrent
<1> SUFFICES ASSUME Privacy(part)!Rest, world.up
             PROVE  panel.dot = Privacy(part)!ScreenSharing(world.objects) /\ panel.pulsing = panel.dot
  BY DEF Privacy!QuietIsCurrent
<1>1. PrivacyShape(part) /\ GraphInv(part) /\ ActiveInv(part) /\ BindInv(part) /\ DotInv(part)
  BY DEF PrivacyInv, PrivacyParts
<1>2. wire.events = <<>> /\ wire.binds = <<>> /\ ~panel.due
  BY <1>1 DEF PrivacyShape, Privacy!Rest, Privacy!TurnDue, Privacy!ServerDue, Privacy!LoopDue
<1>3. \A A, R : ~Says(wire.events, A, R) /\ Mute(wire.events, A)
  BY <1>2 DEF Says, Mute
<1>4. /\ panel.graph \in [DOMAIN panel.graph -> Nodes \cup Links(part)] /\ DOMAIN panel.graph \subseteq Numbers(part)
      /\ world.objects \in [DOMAIN world.objects -> Nodes \cup Links(part)]
      /\ DOMAIN world.objects \subseteq Numbers(part)
  BY <1>1 DEF PrivacyShape
<1>5. ASSUME NEW id \in Numbers(part)
      PROVE  /\ id \in DOMAIN panel.graph <=> id \in DOMAIN world.objects
             /\ id \in DOMAIN world.objects => Announced(panel.graph[id]) = Announced(world.objects[id])
  BY <1>1, <1>3 DEF GraphInv
<1>6. DOMAIN panel.graph = DOMAIN world.objects
  BY <1>4, <1>5
<1>7. ASSUME NEW id \in DOMAIN world.objects PROVE panel.graph[id] = world.objects[id]
  <2> DEFINE o == panel.graph[id]
             p == world.objects[id]
  <2>1. o \in Nodes \cup Links(part) /\ p \in Nodes \cup Links(part) /\ Announced(o) = Announced(p)
    BY <1>4, <1>5, <1>6, <1>7
  <2>2. ASSUME o.link PROVE o.active <=> p.active
    <3>1. p.link
      BY <2>1, <2>2, ObjectsHave
    <3>2. id \in Privacy(part)!LinksIn(world.objects)
      BY <1>7, <3>1 DEF Privacy!LinksIn
    <3>3. id \in world.bound
      BY <1>1, <1>2, <1>3, <3>2 DEF BindInv
    <3> QED BY <1>1, <1>3, <3>3 DEF ActiveInv
  <2> HIDE DEF o, p
  <2>3. o = p
    BY <2>1, <2>2, ObjectsAlike
  <2> QED BY <2>3 DEF o, p
<1>8. panel.graph = world.objects
  BY <1>4, <1>6, <1>7
<1> QED BY <1>1, <1>2, <1>8 DEF DotInv

LEMMA AgainStays ==
    ASSUME NEW part, NEW bound, NEW L, NEW M, NEW id, NEW i \in Int,
           \A j \in 1 .. i - 1 : M[j] = L[j], Again(part, bound, L, id, i)
    PROVE  Again(part, bound, M, id, i)
<1> DEFINE B == Begins(part, id)
           C == Comes(part, id) \ Begins(part, id)
<1>1. CASE \E k \in 1 .. i - 1 : L[k] \in C /\ \A j \in k + 1 .. i - 1 : L[j] \notin B
  <2>1. PICK k \in 1 .. i - 1 : L[k] \in C /\ \A j \in k + 1 .. i - 1 : L[j] \notin B
    BY <1>1
  <2>2. M[k] \in C /\ \A j \in k + 1 .. i - 1 : M[j] \notin B
    BY <2>1
  <2> QED BY <2>2 DEF Again
<1>2. CASE ~Follows(bound, id) /\ \A j \in 1 .. i - 1 : L[j] \notin B
  BY <1>2 DEF Again
<1> QED BY <1>1, <1>2 DEF Again

\* What PipeWire does is told, and what is told is so.
LEMMA PrivacyTells ==
    ASSUME NEW part, PrivacyParts(part), UNCHANGED panel, NEW x \in PrivacyEvents(part),
           Longer(wire'.events, wire.events, x),
           world'.bound \subseteq Numbers(part),
           \A id \in Numbers(part) :
              /\ \/ x \in Stands(part, world', id)
                 \/ /\ x \notin Comes(part, id) /\ (id \in DOMAIN world'.objects <=> id \in DOMAIN world.objects)
                    /\ id \in DOMAIN world.objects => Announced(world'.objects[id]) = Announced(world.objects[id])
              /\ id \in world'.bound =>
                    \/ x \in Flows(part, world', id)
                    \/ /\ x \notin Tells(part, id) /\ id \in world.bound
                       /\ world'.objects[id].active <=> world.objects[id].active
              /\ x \in Begins(part, id) => id \notin DOMAIN world.objects,
           \A id \in Privacy(part)!LinksIn(world'.objects) \ world'.bound :
              \/ x \in Binds(part, id)
              \/ /\ id \in Privacy(part)!LinksIn(world.objects) \ world.bound
                 /\ (\E i \in 1..Len(wire.binds) : wire.binds[i] = id) =>
                       (\E i \in 1..Len(wire'.binds) : wire'.binds[i] = id)
    PROVE  /\ GraphInv(part)' /\ ActiveInv(part)' /\ BindInv(part)' /\ OrderInv(part)'
           /\ ProxyInv(part)' /\ DotInv(part)'
<1> DEFINE L == wire.events
           M == wire'.events
<1>1. PrivacyShape(part) /\ ProxyInv(part) /\ GraphInv(part) /\ ActiveInv(part) /\ BindInv(part) /\ OrderInv(part)
      /\ DotInv(part)
  BY DEF PrivacyParts
<1>2. /\ L \in Seq(PrivacyEvents(part)) /\ Len(L) \in Nat /\ Len(M) = Len(L) + 1 /\ M[Len(M)] = x
      /\ \A i \in 1..Len(L) : M[i] = L[i]
  BY <1>1 DEF PrivacyShape, Longer
<1>3. GraphInv(part)'
  <2> SUFFICES ASSUME NEW id \in Numbers(part)
               PROVE  \/ Says(M, Comes(part, id), Stands(part, world', id))
                      \/ /\ Mute(M, Comes(part, id))
                         /\ id \in DOMAIN panel.graph <=> id \in DOMAIN world'.objects
                         /\ id \in DOMAIN world'.objects =>
                               Announced(panel.graph[id]) = Announced(world'.objects[id])
    BY DEF GraphInv
  <2>1. CASE x \in Stands(part, world', id)
    BY <2>1, SaysAppended
  <2>2. CASE /\ x \notin Comes(part, id) /\ (id \in DOMAIN world'.objects <=> id \in DOMAIN world.objects)
             /\ id \in DOMAIN world.objects => Announced(world'.objects[id]) = Announced(world.objects[id])
    <3>1. Stands(part, world', id) = Stands(part, world, id)
      BY <2>2 DEF Stands
    <3>2. /\ Says(L, Comes(part, id), Stands(part, world, id)) => Says(M, Comes(part, id), Stands(part, world, id))
          /\ Mute(L, Comes(part, id)) => Mute(M, Comes(part, id))
      BY <2>2, SaysAppended
    <3> QED BY <1>1, <2>2, <3>1, <3>2 DEF GraphInv
  <2> QED BY <2>1, <2>2
<1>4. ActiveInv(part)'
  <2> SUFFICES ASSUME NEW id \in world'.bound
               PROVE  \/ Says(M, Tells(part, id), Flows(part, world', id))
                      \/ /\ Mute(M, Tells(part, id))
                         /\ panel.graph[id].active <=> world'.objects[id].active
    BY DEF ActiveInv
  <2>0. id \in Numbers(part)
    OBVIOUS
  <2>1. CASE x \in Flows(part, world', id)
    BY <2>1, SaysAppended
  <2>2. CASE /\ x \notin Tells(part, id) /\ id \in world.bound
             /\ world'.objects[id].active <=> world.objects[id].active
    <3>1. Flows(part, world', id) = Flows(part, world, id)
      BY <2>2 DEF Flows
    <3>2. /\ Says(L, Tells(part, id), Flows(part, world, id)) => Says(M, Tells(part, id), Flows(part, world, id))
          /\ Mute(L, Tells(part, id)) => Mute(M, Tells(part, id))
      BY <2>2, SaysAppended
    <3> QED BY <1>1, <2>2, <3>1, <3>2 DEF ActiveInv
  <2> QED BY <2>0, <2>1, <2>2
<1>5. BindInv(part)'
  <2> SUFFICES ASSUME NEW id \in Privacy(part)!LinksIn(world'.objects) \ world'.bound
               PROVE  (\E i \in 1..Len(wire'.binds) : wire'.binds[i] = id) \/ ~Mute(M, Binds(part, id))
    BY DEF BindInv, Privacy!LinksIn
  <2>1. CASE x \in Binds(part, id)
    <3>1. Len(M) \in 1..Len(M)
      BY <1>2
    <3> QED BY <1>2, <2>1, <3>1 DEF Mute
  <2>2. CASE /\ id \in Privacy(part)!LinksIn(world.objects) \ world.bound
             /\ (\E i \in 1..Len(wire.binds) : wire.binds[i] = id) =>
                   (\E i \in 1..Len(wire'.binds) : wire'.binds[i] = id)
    <3>1. Mute(M, Binds(part, id)) => Mute(L, Binds(part, id))
      <4>1. \A i \in 1..Len(L) : i \in 1..Len(M)
        BY <1>2
      <4> QED BY <1>2, <4>1 DEF Mute
    <3> QED BY <1>1, <2>2, <3>1 DEF BindInv
  <2> QED BY <2>1, <2>2
<1>6. OrderInv(part)'
  <2> SUFFICES ASSUME NEW id \in Numbers(part), NEW i \in 1..Len(M), M[i] \in Begins(part, id)
               PROVE  Again(part, panel.bound, M, id, i)
    BY DEF OrderInv
  <2>1. \A j \in 1 .. i - 1 : M[j] = L[j]
    BY <1>2
  <2>2. Again(part, panel.bound, L, id, i)
    <3>1. CASE i \in 1..Len(L)
      BY <1>1, <1>2, <3>1 DEF OrderInv
    <3>2. CASE i \notin 1..Len(L)
      <4>1. i = Len(L) + 1 /\ i - 1 = Len(L) /\ x \in Begins(part, id)
        BY <1>2, <3>2
      <4>2. id \notin DOMAIN world.objects
        BY <4>1
      <4>3. CASE Says(L, Comes(part, id), Stands(part, world, id))
        <5>1. PICK k \in 1..Len(L) : L[k] \in Stands(part, world, id) /\ \A j \in k + 1 .. Len(L) : L[j] \notin Comes(part, id)
          BY <4>3 DEF Says
        <5>2. L[k] \in Comes(part, id) \ Begins(part, id)
          BY <4>2, <5>1 DEF Stands, Comes, Begins
        <5>3. \A j \in k + 1 .. Len(L) : L[j] \notin Begins(part, id)
          BY <5>1 DEF Comes, Begins
        <5> QED BY <4>1, <5>2, <5>3 DEF Again
      <4>4. CASE Mute(L, Comes(part, id)) /\ id \notin DOMAIN panel.graph
        <5>1. \A j \in 1..Len(L) : L[j] \notin Begins(part, id)
          BY <4>4 DEF Mute, Comes, Begins
        <5>2. ~Follows(panel.bound, id)
          BY <1>1, <4>4 DEF ProxyInv, Privacy!LinksIn
        <5> QED BY <4>1, <5>1, <5>2 DEF Again
      <4> QED BY <1>1, <4>2, <4>3, <4>4 DEF GraphInv
    <3> QED BY <3>1, <3>2
  <2> QED BY <2>1, <2>2, AgainStays
<1>7. ProxyInv(part)' /\ DotInv(part)'
  BY <1>1 DEF ProxyInv, DotInv
<1> QED BY <1>3, <1>4, <1>5, <1>6, <1>7

LEMMA EventAppended ==
    ASSUME NEW part, PrivacyShape(part), NEW x \in PrivacyEvents(part), NEW M, M = Append(wire.events, x)
    PROVE  M \in Seq(PrivacyEvents(part)) /\ Longer(M, wire.events, x)
<1>1. wire.events \in Seq(PrivacyEvents(part)) /\ Len(wire.events) \in Nat
  BY DEF PrivacyShape
<1> QED BY <1>1 DEF Longer

LEMMA PrivacyCreates ==
    ASSUME NEW part, PrivacyParts(part), NEW object \in Nodes \cup Links(part),
           Privacy(part)!Create(object, Announced(object))
    PROVE  PrivacyParts(part)'
<1> DEFINE id == Head(world.free)
           x == [kind |-> "global", id |-> id, object |-> Announced(object)]
           objects == Privacy(part)!With(world.objects, id, object)
           free == Tail(world.free)
           events == Append(wire.events, x)
<1>1. /\ PrivacyShape(part) /\ FreeInv(part)
      /\ DOMAIN world = {"objects", "free", "bound", "up", "moves"} /\ DOMAIN wire = {"events", "binds"}
  BY DEF PrivacyParts, PrivacyShape
<1>2. /\ world.free # <<>> /\ panel' = panel
      /\ world' = [world EXCEPT !.moves = @ + 1, !.objects = objects, !.free = free]
      /\ wire' = [wire EXCEPT !.events = events]
  <2> DEFINE t == [Privacy(part)!Did(Privacy(part)!Now) EXCEPT !.world.objects = objects, !.world.free = free]
  <2>1. DOMAIN t = {"panel", "world", "wire"} /\ t.panel = panel /\ t.wire = wire
        /\ t.world = [world EXCEPT !.moves = @ + 1, !.objects = objects, !.free = free]
    BY <1>1 DEF Privacy!Did, Privacy!Now
  <2>2. world.free # <<>> /\ Privacy(part)!Become(Privacy(part)!Say(t, x))
    BY DEF Privacy!Create
  <2> HIDE DEF t, x, objects, free
  <2> QED BY <1>1, <2>1, <2>2 DEF Privacy!Become, Privacy!Say
<1>3. /\ id \in Numbers(part) /\ free \in Seq(Numbers(part)) /\ Len(free) = Len(world.free) - 1
      /\ id = world.free[1] /\ Len(world.free) \in Nat \ {0}
      /\ \A i \in 1..Len(free) : free[i] = world.free[i + 1]
  BY <1>1, <1>2 DEF FreeInv
<1>4. /\ id \notin DOMAIN world.objects
      /\ \A i \in 1..Len(free) : free[i] # id /\ free[i] \notin DOMAIN world.objects
      /\ \A i, j \in 1..Len(free) : free[i] = free[j] => i = j
  <2>1. \A i \in 1..Len(free) : i + 1 \in 1..Len(world.free) /\ 1 \in 1..Len(world.free) /\ i + 1 # 1
    BY <1>3
  <2>2. 1 \in 1..Len(world.free)
    BY <1>3
  <2> HIDE DEF id, free
  <2>3. ASSUME NEW i \in 1..Len(free), NEW j \in 1..Len(free), free[i] = free[j] PROVE i = j
    <3>1. i + 1 = j + 1
      BY <1>1, <1>3, <2>1, <2>3 DEF FreeInv
    <3> QED BY <3>1
  <2> QED BY <1>1, <1>3, <2>1, <2>2, <2>3 DEF FreeInv
<1>5. x \in PrivacyEvents(part) /\ x.kind = "global" /\ x.id = id /\ x.object = Announced(object)
  BY <1>3, ObjectsHave DEF PrivacyEvents
<1>6. /\ DOMAIN objects = DOMAIN world.objects \cup {id} /\ objects[id] = object
      /\ \A y \in DOMAIN world.objects : y # id => objects[y] = world.objects[y]
      /\ objects \in [DOMAIN world.objects \cup {id} -> Nodes \cup Links(part)]
  <2> DEFINE S == Nodes \cup Links(part)
  <2>1. world.objects \in [DOMAIN world.objects -> S] /\ object \in S
    BY <1>1 DEF PrivacyShape
  <2> HIDE DEF id, S
  <2>2. /\ DOMAIN objects = DOMAIN world.objects \cup {id} /\ objects[id] = object
        /\ \A y \in DOMAIN world.objects : y # id => objects[y] = world.objects[y]
        /\ objects \in [DOMAIN world.objects \cup {id} -> S]
    BY <2>1 DEF Privacy!With
  <2> QED BY <2>2 DEF S
<1> HIDE DEF id, x, objects, free
<1>7. events \in Seq(PrivacyEvents(part)) /\ Longer(events, wire.events, x)
  BY <1>1, <1>5, EventAppended
<1> HIDE DEF events
<1>8. /\ DOMAIN world' = DOMAIN world /\ world'.objects = objects /\ world'.free = free
      /\ world'.bound = world.bound /\ world'.up = world.up
      /\ DOMAIN wire' = DOMAIN wire /\ wire'.events = events /\ wire'.binds = wire.binds
  BY <1>1, <1>2
<1>9. DOMAIN objects \subseteq Numbers(part) /\ world.bound \subseteq Privacy(part)!LinksIn(objects)
  <2>1. ASSUME NEW i \in world.bound PROVE i \in DOMAIN objects /\ objects[i].link
    BY <1>1, <1>4, <1>6, <2>1 DEF PrivacyShape, Privacy!LinksIn
  <2> QED BY <1>1, <1>3, <1>6, <2>1 DEF PrivacyShape, Privacy!LinksIn
<1>10. PrivacyShape(part)'
  BY <1>1, <1>2, <1>6, <1>7, <1>8, <1>9 DEF PrivacyShape, Privacy!LinksIn
<1>11. FreeInv(part)'
  BY SMTT(30), <1>1, <1>3, <1>4, <1>6, <1>8 DEF FreeInv
<1>12. ASSUME NEW i \in Numbers(part)
       PROVE  /\ \/ x \in Stands(part, world', i)
                 \/ /\ x \notin Comes(part, i) /\ (i \in DOMAIN world'.objects <=> i \in DOMAIN world.objects)
                    /\ i \in DOMAIN world.objects => Announced(world'.objects[i]) = Announced(world.objects[i])
              /\ i \in world'.bound =>
                    \/ x \in Flows(part, world', i)
                    \/ /\ x \notin Tells(part, i) /\ i \in world.bound
                       /\ world'.objects[i].active <=> world.objects[i].active
              /\ x \in Begins(part, i) => i \notin DOMAIN world.objects
  <2>1. CASE i = id
    <3>1. x \in Stands(part, world', i)
      BY <1>5, <1>6, <1>8, <2>1 DEF Stands, Comes, Tells
    <3>2. i \notin world'.bound
      BY <1>1, <1>4, <1>8, <2>1 DEF PrivacyShape, Privacy!LinksIn
    <3> QED BY <1>4, <2>1, <3>1, <3>2
  <2>2. CASE i # id
    <3>1. x \notin Tells(part, i) /\ x \notin Comes(part, i) /\ x \notin Begins(part, i)
      BY <1>5, <2>2 DEF Comes, Tells, Begins
    <3>2. i \in DOMAIN world'.objects <=> i \in DOMAIN world.objects
      BY <1>6, <1>8, <2>2
    <3>3. CASE i \in DOMAIN world.objects
      <4>1. world'.objects[i] = world.objects[i]
        BY <1>6, <1>8, <2>2, <3>3
      <4> QED BY <1>8, <3>1, <3>2, <4>1
    <3>4. CASE i \notin DOMAIN world.objects
      <4>1. i \notin world'.bound
        BY <1>1, <1>8, <3>4 DEF PrivacyShape, Privacy!LinksIn
      <4> QED BY <3>1, <3>2, <3>4, <4>1
    <3> QED BY <3>3, <3>4
  <2> QED BY <2>1, <2>2

<1>13. ASSUME NEW i \in Privacy(part)!LinksIn(world'.objects) \ world'.bound
       PROVE  \/ x \in Binds(part, i)
              \/ /\ i \in Privacy(part)!LinksIn(world.objects) \ world.bound
                 /\ (\E k \in 1..Len(wire.binds) : wire.binds[k] = i) =>
                       (\E k \in 1..Len(wire'.binds) : wire'.binds[k] = i)
  <2>0. i \in DOMAIN objects /\ objects[i].link /\ i \notin world.bound
    BY <1>8, <1>13 DEF Privacy!LinksIn
  <2>1. CASE i = id
    <3>1. Announced(object).link
      BY <1>6, <2>0, <2>1, ObjectsHave
    <3> QED BY <1>5, <2>1, <3>1 DEF Binds, Begins, Tells
  <2>2. CASE i # id
    BY <1>6, <1>8, <2>0, <2>2 DEF Privacy!LinksIn
  <2> QED BY <2>1, <2>2
<1>14. world'.bound \subseteq Numbers(part) /\ Longer(wire'.events, wire.events, x)
  BY <1>1, <1>7, <1>8 DEF PrivacyShape, Privacy!LinksIn
<1>15. /\ GraphInv(part)' /\ ActiveInv(part)' /\ BindInv(part)' /\ OrderInv(part)'
       /\ ProxyInv(part)' /\ DotInv(part)'
  BY <1>2, <1>5, <1>12, <1>13, <1>14, PrivacyTells
<1> QED BY <1>10, <1>11, <1>15 DEF PrivacyParts

LEMMA AlikeInLinks ==
    ASSUME NEW part, NEW f, NEW g, DOMAIN g = DOMAIN f,
           f \in [DOMAIN f -> Nodes \cup Links(part)], g \in [DOMAIN f -> Nodes \cup Links(part)],
           \A i \in DOMAIN f : Announced(g[i]) = Announced(f[i])
    PROVE  Privacy(part)!LinksIn(g) = Privacy(part)!LinksIn(f)
<1>1. ASSUME NEW i \in DOMAIN f PROVE g[i].link = f[i].link
  <2> DEFINE o == g[i]
             p == f[i]
  <2>1. o \in Nodes \cup Links(part) /\ p \in Nodes \cup Links(part) /\ Announced(o) = Announced(p)
    BY <1>1
  <2> HIDE DEF o, p
  <2>2. Announced(o).link = o.link
    BY <2>1, ObjectsHave
  <2>3. Announced(p).link = p.link
    BY <2>1, ObjectsHave
  <2> QED BY <2>1, <2>2, <2>3 DEF o, p
<1> QED BY <1>1 DEF Privacy!LinksIn

\* Nothing that is told of has changed.
LEMMA PrivacyUntold ==
    ASSUME NEW part, PrivacyParts(part), UNCHANGED panel,
           DOMAIN world' = DOMAIN world, world'.free = world.free, world'.bound = world.bound,
           world'.objects \in [DOMAIN world.objects -> Nodes \cup Links(part)],
           \A i \in DOMAIN world.objects : Announced(world'.objects[i]) = Announced(world.objects[i]),
           \A i \in world.bound : world'.objects[i].active <=> world.objects[i].active,
           DOMAIN wire' = DOMAIN wire, wire'.events = wire.events, wire'.binds \in Seq(Numbers(part)),
           \A i \in Privacy(part)!LinksIn(world.objects) \ world.bound :
              (\E k \in 1..Len(wire.binds) : wire.binds[k] = i) =>
                 (\E k \in 1..Len(wire'.binds) : wire'.binds[k] = i)
    PROVE  PrivacyParts(part)'
<1>1. /\ PrivacyShape(part) /\ FreeInv(part)
      /\ DOMAIN world = {"objects", "free", "bound", "up", "moves"} /\ DOMAIN wire = {"events", "binds"}
      /\ DOMAIN world.objects \subseteq Numbers(part)
  BY DEF PrivacyParts, PrivacyShape
<1>2. DOMAIN world'.objects = DOMAIN world.objects
  OBVIOUS
<1>3. Privacy(part)!LinksIn(world'.objects) = Privacy(part)!LinksIn(world.objects)
  BY <1>1, <1>2, AlikeInLinks DEF PrivacyShape
<1>4. PrivacyShape(part)'
  BY <1>1, <1>2, <1>3 DEF PrivacyShape, Privacy!LinksIn
<1>5. FreeInv(part)'
  BY <1>1, <1>2 DEF FreeInv
<1>6. GraphInv(part)'
  <2>1. ASSUME NEW i \in Numbers(part) PROVE Stands(part, world', i) = Stands(part, world, i)
    BY <1>2 DEF Stands
  <2> QED BY <1>2, <2>1 DEF GraphInv, PrivacyParts
<1>7. ActiveInv(part)'
  <2>1. ASSUME NEW i \in world.bound PROVE Flows(part, world', i) = Flows(part, world, i)
    BY <2>1 DEF Flows
  <2> QED BY <2>1 DEF ActiveInv, PrivacyParts
<1>8. BindInv(part)'
  <2>1. BindInv(part)
    BY DEF PrivacyParts
  <2> SUFFICES ASSUME NEW i \in Privacy(part)!LinksIn(world'.objects) \ world'.bound
               PROVE  (\E k \in 1..Len(wire'.binds) : wire'.binds[k] = i) \/ ~Mute(wire'.events, Binds(part, i))
    BY DEF BindInv, Privacy!LinksIn
  <2> QED BY <1>3, <2>1 DEF BindInv
<1>9. OrderInv(part)' /\ ProxyInv(part)' /\ DotInv(part)'
  BY DEF OrderInv, ProxyInv, DotInv, PrivacyParts
<1> QED BY <1>4, <1>5, <1>6, <1>7, <1>8, <1>9 DEF PrivacyParts

\* Of an object only how it flows has changed, which is told of one whose state is told.
LEMMA PrivacyTold ==
    ASSUME NEW part, PrivacyParts(part), NEW s, NEW id,
           DOMAIN s = {"panel", "world", "wire"}, s.panel = panel,
           DOMAIN s.world = DOMAIN world, s.world.free = world.free, s.world.up = world.up,
           s.world.objects \in [DOMAIN world.objects -> Nodes \cup Links(part)],
           \A i \in DOMAIN world.objects : Announced(s.world.objects[i]) = Announced(world.objects[i]),
           \A i \in world.bound \ {id} : s.world.objects[i].active <=> world.objects[i].active,
           world.bound \subseteq s.world.bound,
           s.world.bound \subseteq Privacy(part)!LinksIn(s.world.objects),
           s.world.bound \subseteq world.bound \cup {id},
           DOMAIN s.wire = DOMAIN wire, s.wire.events = wire.events, s.wire.binds \in Seq(Numbers(part)),
           \A i \in Numbers(part) : i # id =>
              ((\E k \in 1..Len(wire.binds) : wire.binds[k] = i) =>
                  (\E k \in 1..Len(s.wire.binds) : s.wire.binds[k] = i)),
           id \in Privacy(part)!LinksIn(s.world.objects) \ s.world.bound =>
              ((\E k \in 1..Len(wire.binds) : wire.binds[k] = id) =>
                  (\E k \in 1..Len(s.wire.binds) : s.wire.binds[k] = id)),
           Privacy(part)!Become(Privacy(part)!Told(s, id))
    PROVE  PrivacyParts(part)'
<1> DEFINE x == [kind |-> "info", id |-> id, active |-> s.world.objects[id].active]
           events == Append(wire.events, x)
<1>1. /\ PrivacyShape(part) /\ FreeInv(part)
      /\ DOMAIN world = {"objects", "free", "bound", "up", "moves"} /\ DOMAIN wire = {"events", "binds"}
      /\ DOMAIN world.objects \subseteq Numbers(part)
  BY DEF PrivacyParts, PrivacyShape
<1>2. DOMAIN s.world.objects = DOMAIN world.objects
  OBVIOUS
<1>4. Privacy(part)!LinksIn(s.world.objects) = Privacy(part)!LinksIn(world.objects)
  BY <1>1, <1>2, AlikeInLinks DEF PrivacyShape
<1>5. ASSUME NEW i \in Privacy(part)!LinksIn(s.world.objects) \ s.world.bound
      PROVE  /\ i \in Privacy(part)!LinksIn(world.objects) \ world.bound
             /\ (\E k \in 1..Len(wire.binds) : wire.binds[k] = i) =>
                   (\E k \in 1..Len(s.wire.binds) : s.wire.binds[k] = i)
  <2>1. i \in Numbers(part)
    BY <1>1, <1>2, <1>5 DEF Privacy!LinksIn
  <2> QED BY <1>4, <1>5, <2>1
<1>6. CASE id \in s.world.bound
  <2>1. panel' = panel /\ world' = s.world /\ wire' = [s.wire EXCEPT !.events = events]
    <3>1. Privacy(part)!Told(s, id) = [s EXCEPT !.wire.events = events]
      BY <1>6 DEF Privacy!Told, Privacy!Say
    <3> HIDE DEF events
    <3> QED BY <3>1 DEF Privacy!Become
  <2>2. DOMAIN wire' = DOMAIN wire /\ wire'.events = events /\ wire'.binds = s.wire.binds
    BY <1>1, <2>1
  <2>3. /\ x \in PrivacyEvents(part) /\ x.kind = "info" /\ x.id = id /\ x.active = s.world.objects[id].active
        /\ id \in Numbers(part)
    <3>1. id \in DOMAIN world.objects /\ s.world.objects[id].link
      BY <1>2, <1>6 DEF Privacy!LinksIn
    <3>2. s.world.objects[id].active \in BOOLEAN /\ id \in Numbers(part)
      BY <1>1, <3>1, ObjectsHave
    <3> QED BY <3>2 DEF PrivacyEvents
  <2> HIDE DEF x
  <2>4. events \in Seq(PrivacyEvents(part)) /\ Longer(events, wire.events, x)
    BY <1>1, <2>3, EventAppended
  <2> HIDE DEF events
  <2>5. PrivacyShape(part)'
    BY <1>1, <1>2, <2>1, <2>2, <2>4 DEF PrivacyShape, Privacy!LinksIn
  <2>6. FreeInv(part)'
    BY <1>1, <1>2, <2>1 DEF FreeInv
  <2>7. ASSUME NEW i \in Numbers(part)
        PROVE  /\ \/ x \in Stands(part, world', i)
                  \/ /\ x \notin Comes(part, i) /\ (i \in DOMAIN world'.objects <=> i \in DOMAIN world.objects)
                     /\ i \in DOMAIN world.objects => Announced(world'.objects[i]) = Announced(world.objects[i])
               /\ i \in world'.bound =>
                     \/ x \in Flows(part, world', i)
                     \/ /\ x \notin Tells(part, i) /\ i \in world.bound
                        /\ world'.objects[i].active <=> world.objects[i].active
               /\ x \in Begins(part, i) => i \notin DOMAIN world.objects
    <3>1. x \notin Comes(part, i) /\ x \notin Begins(part, i)
      BY <2>3 DEF Comes, Begins
    <3>2. i \in DOMAIN world'.objects <=> i \in DOMAIN world.objects
      BY <1>2, <2>1
    <3>3. i \in world'.bound /\ i # id => i \in world.bound /\ x \notin Tells(part, i)
      BY <2>1, <2>3 DEF Tells
    <3>4. i = id => x \in Flows(part, world', i)
      BY <2>1, <2>3 DEF Flows, Tells
    <3> QED BY <2>1, <3>1, <3>2, <3>3, <3>4
  <2>8. world'.bound \subseteq Numbers(part) /\ Longer(wire'.events, wire.events, x)
    BY <1>1, <1>2, <2>1, <2>2, <2>4 DEF Privacy!LinksIn
  <2>9. \A i \in Privacy(part)!LinksIn(world'.objects) \ world'.bound :
           /\ i \in Privacy(part)!LinksIn(world.objects) \ world.bound
           /\ (\E k \in 1..Len(wire.binds) : wire.binds[k] = i) =>
                 (\E k \in 1..Len(wire'.binds) : wire'.binds[k] = i)
    BY <1>5, <2>1, <2>2
  <2>10. /\ GraphInv(part)' /\ ActiveInv(part)' /\ BindInv(part)' /\ OrderInv(part)'
         /\ ProxyInv(part)' /\ DotInv(part)'
    BY <2>1, <2>3, <2>7, <2>8, <2>9, PrivacyTells
  <2> QED BY <2>5, <2>6, <2>10 DEF PrivacyParts
<1>7. CASE id \notin s.world.bound
  <2>1. panel' = panel /\ world' = s.world /\ wire' = s.wire
    BY <1>7 DEF Privacy!Told, Privacy!Become
  <2>2. s.world.bound = world.bound /\ \A i \in world.bound : s.world.objects[i].active <=> world.objects[i].active
    BY <1>7
  <2> QED BY <1>4, <1>5, <2>1, <2>2, PrivacyUntold
<1> QED BY <1>6, <1>7

LEMMA PrivacyToggles ==
    ASSUME NEW part, PrivacyParts(part), Privacy(part)!Toggle
    PROVE  PrivacyParts(part)'
<1>1. PICK id \in Privacy(part)!LinksIn(world.objects) :
         Privacy(part)!Become(Privacy(part)!Told(
            [Privacy(part)!Did(Privacy(part)!Now) EXCEPT !.world.objects[id].active = ~@], id))
  BY DEF Privacy!Toggle
<1> DEFINE s == [Privacy(part)!Did(Privacy(part)!Now) EXCEPT !.world.objects[id].active = ~@]
           objects == [world.objects EXCEPT ![id].active = ~@]
<1>2. /\ PrivacyShape(part)
      /\ DOMAIN world = {"objects", "free", "bound", "up", "moves"} /\ DOMAIN wire = {"events", "binds"}
      /\ world.objects \in [DOMAIN world.objects -> Nodes \cup Links(part)]
      /\ world.bound \subseteq Privacy(part)!LinksIn(world.objects) /\ wire.binds \in Seq(Numbers(part))
  BY DEF PrivacyParts, PrivacyShape
<1>3. /\ DOMAIN s = {"panel", "world", "wire"} /\ s.panel = panel /\ s.wire = wire
      /\ DOMAIN s.world = DOMAIN world /\ s.world.free = world.free /\ s.world.up = world.up
      /\ s.world.bound = world.bound /\ s.world.objects = objects
  BY <1>2 DEF Privacy!Did, Privacy!Now
<1>4. /\ DOMAIN objects = DOMAIN world.objects /\ id \in DOMAIN world.objects
      /\ \A i \in DOMAIN world.objects : i # id => objects[i] = world.objects[i]
      /\ objects[id] = [world.objects[id] EXCEPT !.active = ~@]
  BY <1>2 DEF Privacy!LinksIn
<1>5. /\ objects[id] \in Links(part) /\ Announced(objects[id]) = Announced(world.objects[id])
      /\ objects[id].link
  <2>1. /\ world.objects[id].from \in Numbers(part)
        /\ world.objects[id] = [link |-> TRUE, from |-> world.objects[id].from, active |-> world.objects[id].active]
    BY <1>2, ObjectsHave DEF Privacy!LinksIn
  <2> DEFINE o == world.objects[id]
             p == objects[id]
             from == o.from
             was == o.active
             is == ~was
  <2>2. /\ p = [o EXCEPT !.active = is] /\ is \in BOOLEAN /\ from \in Numbers(part)
        /\ o = [link |-> TRUE, from |-> from, active |-> was]
    BY <1>2, <1>4, <2>1, ObjectsHave DEF Privacy!LinksIn
  <2> HIDE DEF o, p, from, was, is, objects
  <2>3. p = [link |-> TRUE, from |-> from, active |-> is]
    BY <2>2
  <2>4. p \in Links(part) /\ Announced(p) = Announced(o) /\ p.link
    BY <2>2, <2>3 DEF Links, Announced
  <2> QED BY <2>4 DEF o, p
<1>6. objects \in [DOMAIN world.objects -> Nodes \cup Links(part)]
  <2>1. ASSUME NEW i \in DOMAIN objects PROVE objects[i] \in Nodes \cup Links(part)
    <3> HIDE DEF objects
    <3> QED BY <1>2, <1>4, <1>5, <2>1
  <2> QED BY <1>4, <2>1
<1>7. \A i \in DOMAIN world.objects : Announced(objects[i]) = Announced(world.objects[i])
  <2> HIDE DEF objects
  <2> QED BY <1>4, <1>5
<1> HIDE DEF objects
<1>8. world.bound \subseteq Privacy(part)!LinksIn(objects)
  BY <1>2, <1>4, <1>5 DEF Privacy!LinksIn
<1>9. \A i \in world.bound \ {id} : objects[i].active <=> world.objects[i].active
  BY <1>2, <1>4 DEF Privacy!LinksIn
<1> HIDE DEF s
<1>10. Privacy(part)!Become(Privacy(part)!Told(s, id))
  BY <1>1 DEF s
<1> QED BY <1>2, <1>3, <1>6, <1>7, <1>8, <1>9, <1>10, PrivacyTold

LEMMA PrivacyBinds ==
    ASSUME NEW part, PrivacyParts(part), Privacy(part)!Bind
    PROVE  PrivacyParts(part)'
<1> DEFINE id == Head(wire.binds)
           binds == Tail(wire.binds)
           s == [Privacy(part)!Now EXCEPT !.wire.binds = Tail(@)]
           t == [s EXCEPT !.world.bound = @ \cup {id}]
<1>1. /\ PrivacyShape(part)
      /\ DOMAIN world = {"objects", "free", "bound", "up", "moves"} /\ DOMAIN wire = {"events", "binds"}
      /\ world.objects \in [DOMAIN world.objects -> Nodes \cup Links(part)]
      /\ world.bound \subseteq Privacy(part)!LinksIn(world.objects) /\ wire.binds \in Seq(Numbers(part))
  BY DEF PrivacyParts, PrivacyShape
<1>2. wire.binds # <<>> /\ Privacy(part)!Become(
         IF id \in Privacy(part)!LinksIn(world.objects) \ world.bound THEN Privacy(part)!Told(t, id) ELSE s)
  BY DEF Privacy!Bind
<1>3. /\ binds \in Seq(Numbers(part)) /\ Len(binds) = Len(wire.binds) - 1 /\ Len(wire.binds) \in Nat \ {0}
      /\ id = wire.binds[1] /\ id \in Numbers(part) /\ \A k \in 1..Len(binds) : binds[k] = wire.binds[k + 1]
  BY <1>1, <1>2
<1>4. /\ DOMAIN s = {"panel", "world", "wire"} /\ s.panel = panel /\ s.world = world
      /\ DOMAIN s.wire = DOMAIN wire /\ s.wire.events = wire.events /\ s.wire.binds = binds
  BY <1>1 DEF Privacy!Now
<1> HIDE DEF id, s, binds
<1>5. ASSUME NEW i, i # id, NEW k \in 1..Len(wire.binds), wire.binds[k] = i
      PROVE  \E l \in 1..Len(binds) : binds[l] = i
  <2>1. k # 1
    BY <1>3, <1>5
  <2>2. k - 1 \in 1..Len(binds) /\ binds[k - 1] = wire.binds[(k - 1) + 1] /\ (k - 1) + 1 = k
    BY <1>3, <2>1
  <2> QED BY <1>5, <2>2
<1>6. CASE id \in Privacy(part)!LinksIn(world.objects) \ world.bound
  <2>1. /\ DOMAIN t = {"panel", "world", "wire"} /\ t.panel = panel /\ t.wire = s.wire
        /\ DOMAIN t.world = DOMAIN world /\ t.world.free = world.free /\ t.world.up = world.up
        /\ t.world.objects = world.objects /\ t.world.bound = world.bound \cup {id}
    BY <1>1, <1>4
  <2> HIDE DEF t
  <2>2. Privacy(part)!Become(Privacy(part)!Told(t, id))
    BY <1>2, <1>6
  <2>3. /\ t.world.objects \in [DOMAIN world.objects -> Nodes \cup Links(part)]
        /\ \A i \in DOMAIN world.objects : Announced(t.world.objects[i]) = Announced(world.objects[i])
        /\ \A i \in world.bound \ {id} : t.world.objects[i].active <=> world.objects[i].active
        /\ world.bound \subseteq t.world.bound /\ t.world.bound \subseteq world.bound \cup {id}
        /\ t.world.bound \subseteq Privacy(part)!LinksIn(t.world.objects)
        /\ id \notin Privacy(part)!LinksIn(t.world.objects) \ t.world.bound
    BY <1>1, <1>6, <2>1
  <2>4. /\ DOMAIN t.wire = DOMAIN wire /\ t.wire.events = wire.events /\ t.wire.binds \in Seq(Numbers(part))
        /\ \A i \in Numbers(part) : i # id =>
              ((\E k \in 1..Len(wire.binds) : wire.binds[k] = i) =>
                  (\E k \in 1..Len(t.wire.binds) : t.wire.binds[k] = i))
    <3>1. DOMAIN t.wire = DOMAIN wire /\ t.wire.events = wire.events /\ t.wire.binds = binds
      BY <1>4, <2>1
    <3> QED BY <1>3, <1>5, <3>1
  <2> QED BY <2>1, <2>2, <2>3, <2>4, PrivacyTold
<1>7. CASE ~(id \in Privacy(part)!LinksIn(world.objects) \ world.bound)
  <2>1. panel' = panel /\ world' = world /\ wire' = s.wire
    BY <1>2, <1>4, <1>7 DEF Privacy!Become
  <2>2. \A i \in Privacy(part)!LinksIn(world.objects) \ world.bound : i # id
    BY <1>7
  <2>3. /\ DOMAIN wire' = DOMAIN wire /\ wire'.events = wire.events /\ wire'.binds \in Seq(Numbers(part))
        /\ \A i \in Privacy(part)!LinksIn(world.objects) \ world.bound :
              (\E k \in 1..Len(wire.binds) : wire.binds[k] = i) =>
                  (\E k \in 1..Len(wire'.binds) : wire'.binds[k] = i)
    BY <1>3, <1>4, <1>5, <2>1, <2>2
  <2> QED BY <1>1, <2>1, <2>3, PrivacyUntold
<1> QED BY <1>6, <1>7

LEMMA NumbersAreFew ==
    ASSUME NEW part, Privacy(part)!ConstantsOK
    PROVE  IsFiniteSet(Numbers(part)) /\ Cardinality(Numbers(part)) <= Len(part.ids) /\ Numbers(part) \subseteq Nat
<1>1. part.ids \in Seq(Nat) /\ Len(part.ids) \in Nat
  BY DEF Privacy!ConstantsOK
<1>2. part.ids \in Surjection(1..Len(part.ids), Numbers(part))
  BY <1>1 DEF Surjection, Numbers
<1>3. IsFiniteSet(1..Len(part.ids)) /\ Cardinality(1..Len(part.ids)) = Len(part.ids)
  BY <1>1, FS_Interval
<1>4. IsFiniteSet(Numbers(part)) /\ Cardinality(Numbers(part)) <= Cardinality(1..Len(part.ids))
  BY <1>2, <1>3, FS_Surjection
<1> QED BY <1>1, <1>3, <1>4 DEF Numbers

\* A set is told in some order, each of it once.
Lists(gone, D) ==
    /\ gone \in Seq(D) /\ Len(gone) \in Nat \ {0}
    /\ \A i, j \in 1..Len(gone) : gone[i] = gone[j] => i = j
    /\ \A x \in D : \E i \in 1..Len(gone) : gone[i] = x

LEMMA OneMore ==
    ASSUME NEW S, NEW n \in Nat, NEW order \in [1..n -> S], \A i, j \in 1..n : order[i] = order[j] => i = j,
           \A x \in S : \E i \in 1..n : order[i] = x, NEW id, id \notin S,
           NEW gone, gone = Append(order, id)
    PROVE  Lists(gone, S \cup {id})
<1> DEFINE D == S \cup {id}
<1>1. order \in Seq(D) /\ Len(order) = n /\ id \in D /\ \A i \in 1..n : order[i] \in S
  OBVIOUS
<1> HIDE DEF D
<1>2. /\ gone \in Seq(D) /\ Len(gone) = n + 1 /\ gone[n + 1] = id
      /\ \A i \in 1..n : gone[i] = order[i]
  BY <1>1
<1>3. ASSUME NEW i \in 1..Len(gone), NEW j \in 1..Len(gone), gone[i] = gone[j] PROVE i = j
  <2>1. \A k \in 1..Len(gone) : IF k = n + 1 THEN gone[k] = id ELSE k \in 1..n /\ gone[k] = order[k] /\ order[k] \in S
    BY <1>1, <1>2
  <2> QED BY <1>3, <2>1
<1>4. ASSUME NEW x \in D PROVE \E i \in 1..Len(gone) : gone[i] = x
  <2>1. CASE x = id
    BY <1>2, <2>1
  <2>2. CASE x \in S
    <3>1. PICK i \in 1..n : order[i] = x
      BY <2>2
    <3>2. i \in 1..Len(gone)
      BY <1>2
    <3> QED BY <1>2, <3>1, <3>2
  <2> QED BY <2>1, <2>2 DEF D
<1>5. Len(gone) \in Nat \ {0}
  BY <1>2
<1> QED BY <1>2, <1>3, <1>4, <1>5 DEF Lists, D

LEMMA OrdersAre ==
    ASSUME NEW part, NEW S, IsFiniteSet(S), NEW id, id \notin S,
           NEW gone, gone = Append(CHOOSE order \in Privacy(part)!Orders(S) : TRUE, id)
    PROVE  Lists(gone, S \cup {id})
<1> DEFINE n == Cardinality(S)
           orders == {f \in [1..n -> S] : \A i, j \in DOMAIN f : f[i] = f[j] => i = j}
           order == CHOOSE f \in Privacy(part)!Orders(S) : TRUE
<1>1. Privacy(part)!Orders(S) = orders
  BY DEF Privacy!Orders, Privacy!Cardinality, Cardinality
<1>2. n \in Nat /\ \E f : f \in Bijection(1..n, S)
  BY FS_CardinalityType DEF ExistsBijection
<1>3. PICK f : f \in Bijection(1..n, S)
  BY <1>2
<1>4. f \in orders
  BY <1>3 DEF Bijection, Injection, IsInjective
<1>5. order \in orders
  BY <1>1, <1>4
<1>6. gone = Append(order, id)
  OBVIOUS
<1> HIDE DEF order
<1>7. order \in [1..n -> S] /\ \A i, j \in 1..n : order[i] = order[j] => i = j
  BY <1>5
<1> HIDE DEF orders
<1>8. order \in Injection(1..n, S)
  BY <1>7 DEF Injection, IsInjective
<1>9. IsFiniteSet(1..n) /\ Cardinality(1..n) = n
  BY <1>2, FS_Interval
<1>10. order \in Surjection(1..n, S)
  BY <1>8, <1>9, FS_Injection
<1>11. \A x \in S : \E i \in 1..n : order[i] = x
  BY <1>10 DEF Surjection
<1> HIDE DEF n
<1> QED BY <1>2, <1>6, <1>7, <1>11, OneMore

\* Two lists, one after the other.
LEMMA JoinOf ==
    ASSUME NEW S, NEW A \in Seq(S), NEW B \in Seq(S), NEW M, M = A \o B
    PROVE  /\ M \in Seq(S) /\ Len(A) \in Nat /\ Len(B) \in Nat /\ Len(M) = Len(A) + Len(B)
           /\ \A i \in 1..Len(A) : M[i] = A[i]
           /\ \A i \in 1..Len(M) : i > Len(A) => i - Len(A) \in 1..Len(B) /\ M[i] = B[i - Len(A)]
OBVIOUS

\* That they are gone is said of them all, once of each.
Removals(part, said, gone) ==
    /\ said \in Seq(PrivacyEvents(part)) /\ Len(said) = Len(gone)
    /\ \A i \in 1..Len(gone) : said[i].kind = "remove" /\ said[i].id = gone[i]

Removed(part, M, L, D) ==
    /\ M \in Seq(PrivacyEvents(part)) /\ Len(L) \in Nat /\ Len(M) \in Nat /\ Len(L) <= Len(M)
    /\ \A i \in 1..Len(L) : M[i] = L[i]
    /\ \A i \in Len(L) + 1 .. Len(M) : M[i] \in PrivacyEvents(part) /\ M[i].kind = "remove" /\ M[i].id \in D
    /\ \A x \in D : \E i \in Len(L) + 1 .. Len(M) : M[i].id = x /\ \A j \in i + 1 .. Len(M) : M[j].id # x

LEMMA RemovesSaid ==
    ASSUME NEW part, NEW L \in Seq(PrivacyEvents(part)), NEW D \in SUBSET Numbers(part), NEW gone, Lists(gone, D),
           NEW said, Removals(part, said, gone), NEW M, M = L \o said
    PROVE  Removed(part, M, L, D)
<1> DEFINE n == Len(gone)
<1>1. n \in Nat /\ Len(L) \in Nat /\ \A i \in 1..n : gone[i] \in D
  <2>1. gone \in Seq(D)
    BY DEF Lists
  <2> QED BY <2>1
<1>2. ASSUME NEW i \in 1..n PROVE said[i] \in PrivacyEvents(part) /\ said[i].kind = "remove" /\ said[i].id = gone[i]
  BY <1>1 DEF Removals
<1>3. said \in Seq(PrivacyEvents(part)) /\ Len(said) = n /\ M = L \o said
  BY DEF Removals
<1> HIDE DEF n
<1>5. /\ M \in Seq(PrivacyEvents(part)) /\ Len(M) = Len(L) + n
      /\ \A i \in 1..Len(L) : M[i] = L[i]
      /\ \A i \in 1..Len(M) : i > Len(L) => i - Len(L) \in 1..n /\ M[i] = said[i - Len(L)]
  <2> DEFINE E == PrivacyEvents(part)
  <2>1. L \in Seq(E) /\ said \in Seq(E) /\ M = L \o said
    BY <1>3
  <2> HIDE DEF E
  <2>2. /\ M \in Seq(E) /\ Len(M) = Len(L) + Len(said) /\ \A i \in 1..Len(L) : M[i] = L[i]
        /\ \A i \in 1..Len(M) : i > Len(L) => i - Len(L) \in 1..Len(said) /\ M[i] = said[i - Len(L)]
    BY ONLY <2>1, JoinOf
  <2> QED BY <1>3, <2>2 DEF E
<1>8. ASSUME NEW i \in Len(L) + 1 .. Len(M)
      PROVE  /\ i - Len(L) \in 1..n /\ M[i] \in PrivacyEvents(part) /\ M[i].kind = "remove"
             /\ M[i].id = gone[i - Len(L)] /\ M[i].id \in D
  <2>1. i \in 1..Len(M) /\ i > Len(L)
    BY <1>1, <1>5
  <2>2. i - Len(L) \in 1..n /\ M[i] = said[i - Len(L)]
    BY <1>5, <2>1
  <2> QED BY <1>1, <1>2, <2>2
<1>9. ASSUME NEW x \in D
      PROVE  \E i \in Len(L) + 1 .. Len(M) : M[i].id = x /\ \A j \in i + 1 .. Len(M) : M[j].id # x
  <2>1. PICK k \in 1..n : gone[k] = x
    BY DEF Lists, n
  <2> DEFINE i == Len(L) + k
  <2>2. i \in Len(L) + 1 .. Len(M) /\ i - Len(L) = k
    BY <1>1, <1>5
  <2> HIDE DEF i
  <2>3. M[i].id = x
    BY <1>8, <2>1, <2>2
  <2>4. ASSUME NEW j \in i + 1 .. Len(M) PROVE M[j].id # x
    <3>1. j \in Len(L) + 1 .. Len(M) /\ j - Len(L) # k
      BY <1>1, <1>5, <2>2
    <3>2. j - Len(L) \in 1..n /\ M[j].id = gone[j - Len(L)]
      BY <1>8, <3>1
    <3> QED BY <2>1, <3>1, <3>2 DEF Lists, n
  <2> QED BY <2>2, <2>3, <2>4
<1>10. Len(M) \in Nat /\ Len(L) <= Len(M)
  BY <1>1, <1>5
<1> QED BY <1>1, <1>5, <1>8, <1>9, <1>10 DEF Removed

\* What was given back is given out first, and each number once.
Backwards(N, back, gone) ==
    /\ back \in Seq(N) /\ Len(back) = Len(gone)
    /\ \A i \in 1..Len(gone) : back[i] = gone[Len(gone) + 1 - i]

Released(N, M, D, F) ==
    /\ M \in Seq(N)
    /\ \A i \in 1..Len(M) : M[i] \in D \/ \E k \in 1..Len(F) : M[i] = F[k]
    /\ \A i, j \in 1..Len(M) : M[i] = M[j] => i = j
Once(F, D) ==
    /\ \A i, j \in 1..Len(F) : F[i] = F[j] => i = j
    /\ \A i \in 1..Len(F) : F[i] \notin D

LEMMA FreeGrows ==
    ASSUME NEW N, NEW F \in Seq(N), NEW D \in SUBSET N, NEW gone, Lists(gone, D), Once(F, D),
           NEW back, Backwards(N, back, gone), NEW M, M = back \o F
    PROVE  Released(N, M, D, F)
<1> DEFINE n == Len(gone)
<1>1. n \in Nat /\ Len(F) \in Nat /\ \A i \in 1..n : gone[i] \in D
  <2>1. gone \in Seq(D)
    BY DEF Lists
  <2> QED BY <2>1
<1>2. ASSUME NEW i \in 1..n PROVE n + 1 - i \in 1..n /\ back[i] = gone[n + 1 - i] /\ back[i] \in D
  <2>1. n + 1 - i \in 1..n
    BY <1>1
  <2> QED BY <1>1, <2>1 DEF Backwards
<1>5. \A i, j \in 1..n : gone[i] = gone[j] => i = j
  BY DEF Lists
<1> HIDE DEF n
<1>6. /\ M \in Seq(N) /\ Len(M) = n + Len(F)
      /\ \A i \in 1..Len(M) : i > n => i - n \in 1..Len(F) /\ M[i] = F[i - n]
      /\ \A i \in 1..n : M[i] = back[i]
  <2>1. F \in Seq(N) /\ back \in Seq(N) /\ M = back \o F
    BY DEF Backwards
  <2>2. /\ M \in Seq(N) /\ Len(M) = Len(back) + Len(F) /\ \A i \in 1..Len(back) : M[i] = back[i]
        /\ \A i \in 1..Len(M) : i > Len(back) => i - Len(back) \in 1..Len(F) /\ M[i] = F[i - Len(back)]
    BY ONLY <2>1
  <2> QED BY <2>2 DEF n, Backwards
<1>8. ASSUME NEW i \in 1..Len(M), i > n PROVE i - n \in 1..Len(F) /\ M[i] = F[i - n] /\ M[i] \notin D
  BY <1>6, <1>8 DEF Once
<1>9. ASSUME NEW i \in 1..Len(M), i <= n PROVE i \in 1..n /\ M[i] = gone[n + 1 - i] /\ M[i] \in D
  <2>1. i \in 1..n
    BY <1>1, <1>6, <1>9
  <2> QED BY <1>2, <1>6, <2>1
<1>10. ASSUME NEW i \in 1..Len(M) PROVE M[i] \in D \/ \E k \in 1..Len(F) : M[i] = F[k]
  <2>1. i > n \/ i <= n
    BY <1>1, <1>6
  <2> QED BY <1>8, <1>9, <2>1
<1>11. ASSUME NEW i \in 1..Len(M), NEW j \in 1..Len(M), M[i] = M[j] PROVE i = j
  <2>1. CASE i <= n /\ j <= n
    <3>1. /\ i \in 1..n /\ n + 1 - i \in 1..n /\ M[i] = gone[n + 1 - i]
          /\ j \in 1..n /\ n + 1 - j \in 1..n /\ M[j] = gone[n + 1 - j]
      BY <1>2, <1>9, <2>1
    <3>2. n + 1 - i = n + 1 - j
      BY <1>5, <1>11, <3>1
    <3> QED BY <1>1, <3>1, <3>2
  <2>2. CASE i > n /\ j > n
    <3>2. i - n \in 1..Len(F) /\ j - n \in 1..Len(F) /\ F[i - n] = F[j - n]
      BY <1>8, <1>11, <2>2
    <3>1. i - n = j - n
      BY <3>2 DEF Once
    <3> QED BY <1>1, <1>6, <3>1
  <2>3. CASE ~(i <= n <=> j <= n)
    <3>1. (i <= n /\ j > n) \/ (i > n /\ j <= n)
      BY <1>1, <1>6, <2>3
    <3> QED BY <1>8, <1>9, <1>11, <3>1
  <2>4. (i <= n \/ i > n) /\ (j <= n \/ j > n)
    BY <1>1, <1>6
  <2> QED BY <2>1, <2>2, <2>3, <2>4
<1> QED BY <1>6, <1>10, <1>11 DEF Released

LEMMA PrivacyRemoves ==
    ASSUME NEW part, PrivacyParts(part), Privacy(part)!ConstantsOK, Privacy(part)!Remove
    PROVE  PrivacyParts(part)'
<1>1. PICK id \in DOMAIN world.objects :
         LET links == {l \in Privacy(part)!LinksIn(world.objects) : world.objects[l].from = id} \ {id}
             dead == links \cup {id}
             gone == Append(CHOOSE order \in Privacy(part)!Orders(links) : TRUE, id)
             n == Len(gone)
         IN  Privacy(part)!Become([Privacy(part)!Did(Privacy(part)!Now) EXCEPT
                !.world.objects = Privacy(part)!Without(world.objects, dead),
                !.world.bound = world.bound \ dead,
                !.world.free = [i \in 1..n |-> gone[n + 1 - i]] \o world.free,
                !.wire.events = wire.events \o [i \in 1..n |-> [kind |-> "remove", id |-> gone[i]]]])
  BY DEF Privacy!Remove
<1> DEFINE links == {l \in Privacy(part)!LinksIn(world.objects) : world.objects[l].from = id} \ {id}
           dead == links \cup {id}
           gone == Append(CHOOSE order \in Privacy(part)!Orders(links) : TRUE, id)
           n == Len(gone)
           objects == Privacy(part)!Without(world.objects, dead)
           back == [i \in 1..n |-> gone[n + 1 - i]]
           free == back \o world.free
           said == [i \in 1..n |-> [kind |-> "remove", id |-> gone[i]]]
           events == wire.events \o said
           L == wire.events
<1>2. /\ PrivacyShape(part) /\ FreeInv(part) /\ ProxyInv(part) /\ GraphInv(part) /\ ActiveInv(part)
      /\ BindInv(part) /\ OrderInv(part) /\ DotInv(part)
      /\ DOMAIN world = {"objects", "free", "bound", "up", "moves"} /\ DOMAIN wire = {"events", "binds"}
      /\ world.objects \in [DOMAIN world.objects -> Nodes \cup Links(part)]
      /\ DOMAIN world.objects \subseteq Numbers(part)
      /\ world.bound \subseteq Privacy(part)!LinksIn(world.objects)
      /\ L \in Seq(PrivacyEvents(part))
  BY DEF PrivacyParts, PrivacyShape
<1>3. dead \in SUBSET Numbers(part) /\ links \subseteq Numbers(part) /\ id \notin links
  BY <1>2 DEF Privacy!LinksIn
<1>4. Lists(gone, dead)
  <2>1. IsFiniteSet(links)
    BY <1>3, NumbersAreFew, FS_Subset
  <2> HIDE DEF links
  <2> QED BY <1>3, <2>1, OrdersAre
<1>5. /\ panel' = panel /\ DOMAIN world' = DOMAIN world /\ DOMAIN wire' = DOMAIN wire
      /\ world'.objects = objects /\ world'.free = free /\ world'.bound = world.bound \ dead
      /\ world'.up = world.up /\ wire'.events = events /\ wire'.binds = wire.binds
  <2> DEFINE b == world.bound \ dead
             t == [Privacy(part)!Did(Privacy(part)!Now) EXCEPT
                     !.world.objects = objects, !.world.bound = b, !.world.free = free, !.wire.events = events]
  <2>1. Privacy(part)!Become(t)
    BY <1>1
  <2> HIDE DEF dead, objects, free, events, b
  <2>2. /\ t.panel = panel
        /\ DOMAIN t.world = DOMAIN world /\ DOMAIN t.wire = DOMAIN wire
        /\ t.world.objects = objects /\ t.world.free = free /\ t.world.bound = b
        /\ t.world.up = world.up /\ t.wire.events = events /\ t.wire.binds = wire.binds
    BY <1>2 DEF Privacy!Did, Privacy!Now
  <2>3. panel' = t.panel /\ world' = t.world /\ wire' = t.wire
    <3> HIDE DEF t
    <3> QED BY <2>1 DEF Privacy!Become
  <2> QED BY <2>2, <2>3 DEF b
<1>6. /\ DOMAIN objects = DOMAIN world.objects \ dead
      /\ \A y \in DOMAIN world.objects \ dead : objects[y] = world.objects[y]
      /\ objects \in [DOMAIN world.objects \ dead -> Nodes \cup Links(part)]
  <2> HIDE DEF dead
  <2> QED BY <1>2 DEF Privacy!Without
<1> HIDE DEF links, gone, objects
<1>0. gone \in Seq(dead) /\ n \in Nat /\ \A i \in 1..n : gone[i] \in dead
  <2>1. gone \in Seq(dead)
    BY <1>4 DEF Lists
  <2> HIDE DEF dead
  <2> QED BY <2>1
<1>7. /\ events \in Seq(PrivacyEvents(part)) /\ Len(L) \in Nat /\ Len(events) \in Nat /\ Len(L) <= Len(events)
      /\ \A i \in 1..Len(L) : events[i] = L[i]
      /\ \A i \in Len(L) + 1 .. Len(events) :
            events[i] \in PrivacyEvents(part) /\ events[i].kind = "remove" /\ events[i].id \in dead
      /\ \A x \in dead : \E i \in Len(L) + 1 .. Len(events) :
            events[i].id = x /\ \A j \in i + 1 .. Len(events) : events[j].id # x
  <2>1. L \in Seq(PrivacyEvents(part)) /\ dead \in SUBSET Numbers(part) /\ Lists(gone, dead)
    BY <1>2, <1>3, <1>4
  <2> HIDE DEF dead
  <2>2. Removals(part, said, gone)
    <3>1. ASSUME NEW i \in 1..n PROVE [kind |-> "remove", id |-> gone[i]] \in PrivacyEvents(part)
      BY <1>0, <1>3 DEF PrivacyEvents
    <3> QED BY <1>0, <3>1 DEF Removals
  <2>3. events = L \o said
    OBVIOUS
  <2> HIDE DEF events, said, L, n, back, free
  <2>4. Removed(part, events, L, dead)
    BY ONLY <2>1, <2>2, <2>3, RemovesSaid
  <2> QED BY ONLY <2>4 DEF Removed
<1>8. /\ free \in Seq(Numbers(part))
      /\ \A i \in 1..Len(free) : free[i] \in dead \/ \E k \in 1..Len(world.free) : free[i] = world.free[k]
      /\ \A i, j \in 1..Len(free) : free[i] = free[j] => i = j
  <2>1. /\ world.free \in Seq(Numbers(part)) /\ \A i, j \in 1..Len(world.free) : world.free[i] = world.free[j] => i = j
        /\ \A i \in 1..Len(world.free) : world.free[i] \notin DOMAIN world.objects
    BY <1>2 DEF FreeInv
  <2>2. dead \subseteq DOMAIN world.objects
    BY DEF links, Privacy!LinksIn
  <2> HIDE DEF dead
  <2>3. \A i \in 1..Len(world.free) : world.free[i] \notin dead
    BY <2>1, <2>2
  <2> DEFINE F == world.free
             N == Numbers(part)
  <2>4. F \in Seq(N) /\ Once(F, dead)
    BY <2>1, <2>3 DEF Once
  <2>5. dead \in SUBSET N /\ Lists(gone, dead)
    BY <1>3, <1>4
  <2>6. Backwards(N, back, gone)
    <3>1. ASSUME NEW i \in 1..n PROVE n + 1 - i \in 1..n /\ gone[n + 1 - i] \in N
      <4>1. n + 1 - i \in 1..n
        BY <1>0
      <4> QED BY <1>0, <2>5, <4>1
    <3> QED BY <1>0, <3>1 DEF Backwards
  <2>8. free = back \o F
    OBVIOUS
  <2> HIDE DEF free, back, F, N, n, said, events, L
  <2>7. Released(N, free, dead, F)
    BY ONLY <2>4, <2>5, <2>6, <2>8, FreeGrows
  <2> QED BY <2>7 DEF F, N, Released
<1> HIDE DEF free, events, dead
<1>9. Privacy(part)!LinksIn(objects) = Privacy(part)!LinksIn(world.objects) \ dead
  BY <1>6 DEF Privacy!LinksIn
<1>10. PrivacyShape(part)'
  BY <1>2, <1>5, <1>6, <1>7, <1>9 DEF PrivacyShape, Privacy!LinksIn
<1>11. FreeInv(part)'
  BY <1>2, <1>5, <1>6, <1>8 DEF FreeInv
<1>12. ASSUME NEW x \in Numbers(part) \ dead, NEW i \in Len(L) + 1 .. Len(events) PROVE events[i] \notin Tells(part, x)
  BY <1>7, <1>12 DEF Tells
<1>13. GraphInv(part)'
  <2> SUFFICES ASSUME NEW x \in Numbers(part)
               PROVE  \/ Says(events, Comes(part, x), Stands(part, world', x))
                      \/ /\ Mute(events, Comes(part, x))
                         /\ x \in DOMAIN panel.graph <=> x \in DOMAIN objects
                         /\ x \in DOMAIN objects => Announced(panel.graph[x]) = Announced(objects[x])
    BY <1>5 DEF GraphInv
  <2>1. CASE x \in dead
    <3>1. PICK i \in Len(L) + 1 .. Len(events) : events[i].id = x /\ \A j \in i + 1 .. Len(events) : events[j].id # x
      BY <1>7, <2>1
    <3>2. events[i] \in Stands(part, world', x)
      BY <1>5, <1>6, <1>7, <2>1, <3>1 DEF Stands, Comes, Tells
    <3>3. \A j \in i + 1 .. Len(events) : events[j] \notin Comes(part, x)
      BY <3>1 DEF Comes, Tells
    <3> QED BY <1>7, <3>2, <3>3, SaysJoined
  <2>2. CASE x \notin dead
    <3>1. \A j \in Len(L) + 1 .. Len(events) : events[j] \notin Comes(part, x)
      BY <1>12, <2>2 DEF Comes
    <3>2. /\ Says(L, Comes(part, x), Stands(part, world, x)) => Says(events, Comes(part, x), Stands(part, world, x))
          /\ Mute(L, Comes(part, x)) => Mute(events, Comes(part, x))
      BY <1>7, <3>1, SaysJoined
    <3>3. /\ x \in DOMAIN objects <=> x \in DOMAIN world.objects
          /\ x \in DOMAIN objects => objects[x] = world.objects[x]
      BY <1>6, <2>2
    <3>4. Stands(part, world', x) = Stands(part, world, x)
      BY <1>5, <3>3 DEF Stands
    <3> QED BY <1>2, <3>2, <3>3, <3>4 DEF GraphInv
  <2> QED BY <2>1, <2>2
<1>14. ActiveInv(part)'
  <2> SUFFICES ASSUME NEW x \in world.bound \ dead
               PROVE  \/ Says(events, Tells(part, x), Flows(part, world', x))
                      \/ /\ Mute(events, Tells(part, x))
                         /\ panel.graph[x].active <=> objects[x].active
    BY <1>5 DEF ActiveInv
  <2>1. x \in DOMAIN world.objects /\ x \in Numbers(part) \ dead
    BY <1>2 DEF Privacy!LinksIn
  <2>2. \A j \in Len(L) + 1 .. Len(events) : events[j] \notin Tells(part, x)
    BY <1>12, <2>1
  <2>3. /\ Says(L, Tells(part, x), Flows(part, world, x)) => Says(events, Tells(part, x), Flows(part, world, x))
        /\ Mute(L, Tells(part, x)) => Mute(events, Tells(part, x))
    BY <1>7, <2>2, SaysJoined
  <2>4. objects[x] = world.objects[x]
    BY <1>6, <2>1
  <2>5. Flows(part, world', x) = Flows(part, world, x)
    BY <1>5, <2>4 DEF Flows
  <2> QED BY <1>2, <2>3, <2>4, <2>5 DEF ActiveInv
<1>15. BindInv(part)'
  <2> SUFFICES ASSUME NEW x \in Privacy(part)!LinksIn(world.objects) \ world.bound
               PROVE  (\E i \in 1..Len(wire.binds) : wire.binds[i] = x) \/ ~Mute(events, Binds(part, x))
    BY <1>5, <1>9 DEF BindInv, Privacy!LinksIn
  <2>1. Mute(events, Binds(part, x)) => Mute(L, Binds(part, x))
    <3>1. \A i \in 1..Len(L) : i \in 1..Len(events)
      BY <1>7
    <3> QED BY <1>7, <3>1 DEF Mute
  <2> QED BY <1>2, <2>1 DEF BindInv
<1>16. OrderInv(part)'
  <2> SUFFICES ASSUME NEW x \in Numbers(part), NEW i \in 1..Len(events), events[i] \in Begins(part, x)
               PROVE  Again(part, panel.bound, events, x, i)
    BY <1>5 DEF OrderInv
  <2>1. i \in 1..Len(L)
    <3>1. i \notin Len(L) + 1 .. Len(events)
      BY <1>7 DEF Begins
    <3> QED BY <1>7, <3>1
  <2>2. Again(part, panel.bound, L, x, i)
    BY <1>2, <1>7, <2>1 DEF OrderInv
  <2>3. \A j \in 1 .. i - 1 : events[j] = L[j]
    BY <1>7, <2>1
  <2> QED BY <2>1, <2>2, <2>3, AgainStays
<1>17. ProxyInv(part)' /\ DotInv(part)'
  BY <1>2, <1>5 DEF ProxyInv, DotInv
<1> QED BY <1>10, <1>11, <1>13, <1>14, <1>15, <1>16, <1>17 DEF PrivacyParts

\* What is published is drawn.
LEMMA PrivacyPublishes ==
    ASSUME NEW part, DotInv(part), NEW t,
           DOMAIN t.panel = {"graph", "bound", "made", "sharing", "following", "due", "dot", "pulsing"},
           DOMAIN t = {"panel", "world", "wire"},
           t.panel.sharing = panel.sharing, t.panel.due = panel.due, t.panel.dot = panel.dot,
           t.panel.pulsing = panel.pulsing, Privacy(part)!Become(Privacy(part)!Publish(t))
    PROVE  /\ world' = t.world /\ wire' = t.wire /\ DOMAIN panel' = DOMAIN t.panel
           /\ panel'.graph = t.panel.graph /\ panel'.bound = t.panel.bound
           /\ panel'.following = t.panel.following /\ DotInv(part)'
<1> DEFINE sharing == Privacy(part)!ScreenSharing(t.panel.graph)
           u == [t EXCEPT !.panel.sharing = sharing, !.panel.due = TRUE]
<1>1. CASE t.panel.sharing = sharing
  <2>1. panel' = t.panel /\ world' = t.world /\ wire' = t.wire
    BY <1>1 DEF Privacy!Publish, Privacy!Become
  <2> QED BY <1>1, <2>1 DEF DotInv
<1>2. CASE t.panel.sharing # sharing
  <2>1. Privacy(part)!Become(u)
    BY <1>2 DEF Privacy!Publish
  <2> HIDE DEF sharing
  <2>2. /\ u.world = t.world /\ u.wire = t.wire
        /\ u.panel = [t.panel EXCEPT !.sharing = sharing, !.due = TRUE]
    OBVIOUS
  <2> HIDE DEF u
  <2>3. panel' = u.panel /\ world' = u.world /\ wire' = u.wire
    BY <2>1 DEF Privacy!Become
  <2>4. /\ DOMAIN panel' = DOMAIN t.panel /\ panel'.graph = t.panel.graph /\ panel'.bound = t.panel.bound
        /\ panel'.following = t.panel.following /\ panel'.sharing = sharing /\ panel'.due = TRUE
    BY <2>2, <2>3
  <2>5. sharing = Privacy(part)!ScreenSharing(panel'.graph)
    BY <2>4 DEF sharing
  <2> QED BY <2>2, <2>3, <2>4, <2>5 DEF DotInv
<1> QED BY <1>1, <1>2

\* What is heard of an object is known of it; what is not about it changes nothing.
Heard(part, e, id) ==
    /\ e \in Stands(part, world, id) =>
          /\ id \in DOMAIN panel'.graph <=> id \in DOMAIN world.objects
          /\ id \in DOMAIN world.objects => Announced(panel'.graph[id]) = Announced(world.objects[id])
    /\ e \notin Comes(part, id) =>
          /\ id \in DOMAIN panel'.graph <=> id \in DOMAIN panel.graph
          /\ id \in DOMAIN panel.graph => Announced(panel'.graph[id]) = Announced(panel.graph[id])
    /\ Follows(panel'.bound, id) => Follows(panel.bound, id) \/ e \in Begins(part, id)
    /\ e \in Comes(part, id) \ Begins(part, id) => ~Follows(panel'.bound, id)
    /\ e \notin Tells(part, id) /\ id \in DOMAIN panel.graph =>
          panel'.graph[id].active = panel.graph[id].active
    /\ e \in Flows(part, world, id) /\ id \in Privacy(part)!LinksIn(panel.graph) =>
          (panel'.graph[id].active <=> e.active)
    /\ (\E i \in 1..Len(wire.binds) : wire.binds[i] = id) \/ e \in Binds(part, id) =>
          \E i \in 1..Len(wire'.binds) : wire'.binds[i] = id

LEMMA PrivacyHears ==
    ASSUME NEW part, PrivacyParts(part), NEW e \in PrivacyEvents(part),
           Shorter(wire'.events, wire.events, e), wire'.events \in Seq(PrivacyEvents(part)),
           world' = world, DOMAIN wire' = DOMAIN wire, wire'.binds \in Seq(Numbers(part)),
           DOMAIN panel' = DOMAIN panel, panel'.following = panel.following,
           panel'.graph \in [DOMAIN panel'.graph -> Nodes \cup Links(part)],
           DOMAIN panel'.graph \subseteq Numbers(part),
           ProxyInv(part)', DotInv(part)',
           \A id \in Numbers(part) : Heard(part, e, id)
    PROVE  PrivacyParts(part)'
<1> DEFINE L == wire.events
           M == wire'.events
<1>1. /\ PrivacyShape(part) /\ FreeInv(part) /\ ProxyInv(part) /\ GraphInv(part) /\ ActiveInv(part)
      /\ BindInv(part) /\ OrderInv(part) /\ world.bound \subseteq Privacy(part)!LinksIn(world.objects)
      /\ DOMAIN world.objects \subseteq Numbers(part)
      /\ world.objects \in [DOMAIN world.objects -> Nodes \cup Links(part)]
      /\ panel.graph \in [DOMAIN panel.graph -> Nodes \cup Links(part)]
  BY DEF PrivacyParts, PrivacyShape
<1>2. Len(L) \in Nat \ {0} /\ Len(M) = Len(L) - 1 /\ L[1] = e /\ \A i \in 1..Len(M) : M[i] = L[i + 1]
  BY DEF Shorter
<1>3. PrivacyShape(part)'
  BY <1>1 DEF PrivacyShape, Privacy!LinksIn
<1>4. FreeInv(part)'
  BY <1>1 DEF FreeInv
<1>5. GraphInv(part)'
  <2> SUFFICES ASSUME NEW id \in Numbers(part)
               PROVE  \/ Says(M, Comes(part, id), Stands(part, world, id))
                      \/ /\ Mute(M, Comes(part, id))
                         /\ id \in DOMAIN panel'.graph <=> id \in DOMAIN world.objects
                         /\ id \in DOMAIN world.objects => Announced(panel'.graph[id]) = Announced(world.objects[id])
    BY DEF GraphInv
  <2>1. CASE Says(L, Comes(part, id), Stands(part, world, id))
    <3>1. \/ Says(M, Comes(part, id), Stands(part, world, id))
          \/ e \in Stands(part, world, id) /\ Mute(M, Comes(part, id))
      BY <2>1, SaysTaken
    <3> QED BY <3>1 DEF Heard
  <2>2. CASE /\ Mute(L, Comes(part, id))
             /\ id \in DOMAIN panel.graph <=> id \in DOMAIN world.objects
             /\ id \in DOMAIN world.objects => Announced(panel.graph[id]) = Announced(world.objects[id])
    <3>1. Mute(M, Comes(part, id)) /\ e \notin Comes(part, id)
      BY <2>2, MuteTaken
    <3> QED BY <2>2, <3>1 DEF Heard
  <2> QED BY <1>1, <2>1, <2>2 DEF GraphInv
<1>6. ActiveInv(part)'
  <2> SUFFICES ASSUME NEW id \in world.bound
               PROVE  \/ Says(M, Tells(part, id), Flows(part, world, id))
                      \/ /\ Mute(M, Tells(part, id))
                         /\ panel'.graph[id].active <=> world.objects[id].active
    BY DEF ActiveInv
  <2>1. id \in Numbers(part) /\ id \in DOMAIN world.objects /\ world.objects[id].link
    BY <1>1 DEF Privacy!LinksIn
  <2>2. CASE Says(L, Tells(part, id), Flows(part, world, id))
    <3>1. \/ Says(M, Tells(part, id), Flows(part, world, id))
          \/ e \in Flows(part, world, id) /\ Mute(M, Tells(part, id))
      BY <2>2, SaysTaken
    <3>2. ASSUME e \in Flows(part, world, id), Mute(M, Tells(part, id))
          PROVE  panel'.graph[id].active <=> world.objects[id].active
      <4>1. \A i \in 1..Len(L) : L[i] \notin Comes(part, id)
        <5> SUFFICES ASSUME NEW i \in 1..Len(L) PROVE L[i] \notin Comes(part, id)
          OBVIOUS
        <5>1. CASE i = 1
          BY <1>2, <3>2, <5>1 DEF Flows, Comes
        <5>2. CASE i # 1
          <6>1. i - 1 \in 1..Len(M) /\ (i - 1) + 1 = i
            BY <1>2, <5>2
          <6>2. M[i - 1] = L[i]
            BY <1>2, <6>1
          <6> QED BY <3>2, <6>1, <6>2 DEF Mute, Comes
        <5> QED BY <5>1, <5>2
      <4>2. ~Says(L, Comes(part, id), Stands(part, world, id))
        BY <4>1 DEF Says, Stands
      <4>3. id \in DOMAIN panel.graph /\ Announced(panel.graph[id]) = Announced(world.objects[id])
        BY <1>1, <2>1, <4>2 DEF GraphInv
      <4>4. panel.graph[id].link
        <5> DEFINE o == panel.graph[id]
                   p == world.objects[id]
        <5>1. o \in Nodes \cup Links(part) /\ p \in Nodes \cup Links(part) /\ Announced(o) = Announced(p) /\ p.link
          BY <1>1, <2>1, <4>3
        <5> HIDE DEF o, p
        <5>2. Announced(o).link = o.link /\ Announced(p).link = p.link
          BY <5>1, ObjectsHave
        <5>3. o.link
          BY <5>1, <5>2
        <5> QED BY <5>3 DEF o
      <4>5. id \in Privacy(part)!LinksIn(panel.graph)
        BY <4>3, <4>4 DEF Privacy!LinksIn
      <4>6. e.active <=> world.objects[id].active
        BY <3>2 DEF Flows
      <4>7. panel'.graph[id].active <=> e.active
        BY <2>1, <3>2, <4>5 DEF Heard
      <4> QED BY <4>6, <4>7
    <3> QED BY <3>1, <3>2
  <2>3. CASE Mute(L, Tells(part, id)) /\ (panel.graph[id].active <=> world.objects[id].active)
    <3>1. Mute(M, Tells(part, id)) /\ e \notin Tells(part, id)
      BY <2>3, MuteTaken
    <3>2. ~Says(L, Comes(part, id), Stands(part, world, id))
      BY <2>3 DEF Says, Mute, Stands, Comes
    <3>3. id \in DOMAIN panel.graph
      BY <1>1, <2>1, <3>2 DEF GraphInv
    <3> QED BY <2>1, <2>3, <3>1, <3>3 DEF Heard
  <2> QED BY <1>1, <2>2, <2>3 DEF ActiveInv
<1>7. BindInv(part)'
  <2> SUFFICES ASSUME NEW id \in Privacy(part)!LinksIn(world.objects) \ world.bound
               PROVE  (\E i \in 1..Len(wire'.binds) : wire'.binds[i] = id) \/ ~Mute(M, Binds(part, id))
    BY DEF BindInv, Privacy!LinksIn
  <2>1. id \in Numbers(part)
    BY <1>1 DEF Privacy!LinksIn
  <2>2. CASE \E i \in 1..Len(wire.binds) : wire.binds[i] = id
    BY <2>1, <2>2 DEF Heard
  <2>3. CASE ~Mute(L, Binds(part, id))
    <3>1. PICK k \in 1..Len(L) : L[k] \in Binds(part, id)
      BY <2>3 DEF Mute
    <3>2. CASE k = 1
      BY <1>2, <2>1, <3>1, <3>2 DEF Heard
    <3>3. CASE k # 1
      <4>1. k - 1 \in 1..Len(M) /\ (k - 1) + 1 = k
        BY <1>2, <3>3
      <4>2. M[k - 1] = L[k]
        BY <1>2, <4>1
      <4> QED BY <3>1, <4>1, <4>2 DEF Mute
    <3> QED BY <3>2, <3>3
  <2> QED BY <1>1, <2>2, <2>3 DEF BindInv
<1>8. OrderInv(part)'
  <2> SUFFICES ASSUME NEW id \in Numbers(part), NEW i \in 1..Len(M), M[i] \in Begins(part, id)
               PROVE  Again(part, panel'.bound, M, id, i)
    BY DEF OrderInv
  <2> DEFINE B == Begins(part, id)
             C == Comes(part, id) \ Begins(part, id)
  <2>1. i + 1 \in 1..Len(L) /\ (i + 1) - 1 = i /\ L[i + 1] \in B
    BY <1>2
  <2>2. \/ \E k \in 1 .. i : L[k] \in C /\ \A j \in k + 1 .. i : L[j] \notin B
        \/ ~Follows(panel.bound, id) /\ \A j \in 1 .. i : L[j] \notin B
    BY <1>1, <2>1 DEF OrderInv, Again
  <2>3. \A j \in 1 .. i - 1 : j + 1 \in 1 .. i /\ M[j] = L[j + 1]
    <3> SUFFICES ASSUME NEW j \in 1 .. i - 1 PROVE j + 1 \in 1 .. i /\ M[j] = L[j + 1]
      OBVIOUS
    <3>1. j \in 1..Len(M) /\ j + 1 \in 1 .. i
      BY <1>2
    <3> QED BY <1>2, <3>1
  <2>4. CASE \E k \in 1 .. i : L[k] \in C /\ \A j \in k + 1 .. i : L[j] \notin B
    <3>1. PICK k \in 1 .. i : L[k] \in C /\ \A j \in k + 1 .. i : L[j] \notin B
      BY <2>4
    <3>2. CASE k = 1
      <4>1. ~Follows(panel'.bound, id)
        BY <1>2, <3>1, <3>2 DEF Heard
      <4>2. \A j \in 1 .. i - 1 : M[j] \notin B
        <5> SUFFICES ASSUME NEW j \in 1 .. i - 1 PROVE M[j] \notin B
          OBVIOUS
        <5>1. j + 1 \in k + 1 .. i
          BY <3>2
        <5> QED BY <2>3, <3>1, <5>1
      <4> QED BY <4>1, <4>2 DEF Again
    <3>3. CASE k # 1
      <4> DEFINE l == k - 1
      <4>1. l \in 1 .. i - 1 /\ l + 1 = k
        BY <3>3
      <4>2. \A j \in l + 1 .. i - 1 : j + 1 \in k + 1 .. i /\ j \in 1 .. i - 1
        BY <4>1
      <4> HIDE DEF l
      <4>3. M[l] \in C /\ \A j \in l + 1 .. i - 1 : M[j] \notin B
        BY <2>3, <3>1, <4>1, <4>2
      <4> QED BY <4>1, <4>3 DEF Again
    <3> QED BY <3>2, <3>3
  <2>5. CASE ~Follows(panel.bound, id) /\ \A j \in 1 .. i : L[j] \notin B
    <3>1. e \notin B
      <4>1. 1 \in 1 .. i
        BY <1>2
      <4> QED BY <1>2, <2>5, <4>1
    <3>2. ~Follows(panel'.bound, id)
      BY <2>5, <3>1 DEF Heard
    <3>3. \A j \in 1 .. i - 1 : M[j] \notin B
      BY <2>3, <2>5
    <3> QED BY <3>2, <3>3 DEF Again
  <2> QED BY <2>2, <2>4, <2>5
<1> QED BY <1>3, <1>4, <1>5, <1>6, <1>7, <1>8 DEF PrivacyParts

\* There are fewer proxies than numbers for them.
LEMMA LocalIdIs ==
    ASSUME NEW part, Privacy(part)!ConstantsOK, ProxyInv(part)
    PROVE  Privacy(part)!LocalId \in Nat /\ Privacy(part)!LocalId <= part.local + Len(part.ids)
<1> DEFINE A == {q \in panel.bound : q.alive}
           S == {p.local : p \in A}
           f == [p \in A |-> p.link]
           g == [p \in A |-> p.local]
           N == Numbers(part)
           n == Cardinality(S)
           all == part.local .. part.local + n
<1>1. /\ part.local \in Nat /\ part.ids \in Seq(Nat) /\ Len(part.ids) \in Nat
      /\ IsFiniteSet(N) /\ Cardinality(N) \in Nat /\ Cardinality(N) <= Len(part.ids)
  BY NumbersAreFew, FS_CardinalityType DEF Privacy!ConstantsOK
<1>2. \A p \in A : p.link \in N /\ p.local \in Nat
  BY DEF ProxyInv
<1>3. \A p, q \in A : p.link = q.link => p = q
  BY DEF ProxyInv
<1> HIDE DEF A, N
<1>4. f \in Injection(A, N)
  BY <1>2, <1>3 DEF Injection, IsInjective
<1>5. IsFiniteSet(A) /\ Cardinality(A) \in Nat /\ Cardinality(A) <= Len(part.ids)
  <2> HIDE DEF f
  <2>1. IsFiniteSet(A) /\ Cardinality(A) <= Cardinality(N)
    BY <1>1, <1>4, FS_Injection
  <2>2. Cardinality(A) \in Nat
    BY <2>1, FS_CardinalityType
  <2> QED BY <1>1, <2>1, <2>2
<1>6. g \in Surjection(A, S)
  BY DEF Surjection
<1> HIDE DEF S
<1>7. IsFiniteSet(S) /\ n \in Nat /\ n <= Len(part.ids)
  <2> HIDE DEF g
  <2>1. IsFiniteSet(S) /\ Cardinality(S) <= Cardinality(A)
    BY <1>5, <1>6, FS_Surjection
  <2>2. n \in Nat
    BY <2>1, FS_CardinalityType
  <2> QED BY <1>5, <2>1, <2>2
<1>8. all \ S # {}
  <2>1. IsFiniteSet(all) /\ Cardinality(all) = n + 1
    <3> DEFINE a == part.local
               b == part.local + n
    <3> HIDE DEF n
    <3>1. a \in Int /\ b \in Int /\ ~(a > b) /\ b - a + 1 = n + 1
      BY <1>1, <1>7
    <3>2. all = a .. b
      OBVIOUS
    <3> HIDE DEF a, b, all
    <3>3. IsFiniteSet(a .. b) /\ Cardinality(a .. b) = b - a + 1
      BY <3>1, FS_Interval
    <3> QED BY <3>1, <3>2, <3>3
  <2> HIDE DEF all
  <2>2. ASSUME all \subseteq S PROVE FALSE
    <3>1. Cardinality(all) <= Cardinality(S)
      BY <1>7, <2>2, FS_Subset
    <3> QED BY <1>7, <2>1, <3>1
  <2> QED BY <2>2
<1> DEFINE free == all \ S
<1>9. free \in SUBSET Nat /\ \A x \in free : x <= part.local + Len(part.ids)
  BY <1>1, <1>7
<1>10. (CHOOSE x \in free : \A y \in free : x <= y) \in free
  <2> HIDE DEF free
  <2>1. free # {}
    BY <1>8 DEF free
  <2> QED BY <1>9, <2>1, NumbersHaveALeast
<1>11. Privacy(part)!LocalId = CHOOSE x \in free : \A y \in free : x <= y
  BY DEF Privacy!LocalId, Privacy!Locals, Privacy!Lowest, Privacy!Cardinality, Cardinality, S, A
<1> HIDE DEF free
<1> QED BY <1>9, <1>10, <1>11

\* The first line, taken.
Taken(part, s, e) ==
    /\ e \in PrivacyEvents(part) /\ Shorter(s.wire.events, wire.events, e)
    /\ s.wire.events \in Seq(PrivacyEvents(part))
    /\ DOMAIN s = {"panel", "world", "wire"} /\ s.panel = panel /\ s.world = world
    /\ DOMAIN s.wire = DOMAIN wire /\ s.wire.binds = wire.binds

LEMMA BeginsAnew ==
    ASSUME NEW part, OrderInv(part), ProxyInv(part), NEW s, NEW e, Taken(part, s, e), e.kind = "global"
    PROVE  e.id \in Numbers(part) /\ ~Follows(panel.bound, e.id) /\ e.id \notin Privacy(part)!LinksIn(panel.graph)
<1>1. e.id \in Numbers(part) /\ e \in Begins(part, e.id)
  BY PrivacySpeaks DEF Taken, Begins, Tells
<1>2. 1 \in 1..Len(wire.events) /\ wire.events[1] = e
  BY DEF Taken, Shorter
<1>3. Again(part, panel.bound, wire.events, e.id, 1)
  BY <1>1, <1>2 DEF OrderInv
<1>4. ~Follows(panel.bound, e.id)
  BY <1>3 DEF Again
<1> QED BY <1>1, <1>4 DEF ProxyInv

LEMMA PrivacyMeetsNode ==
    ASSUME NEW part, PrivacyParts(part), NEW s, NEW e, Taken(part, s, e), e.kind = "global", ~e.object.link,
           Privacy(part)!Become(Privacy(part)!Publish(Privacy(part)!Global(s, e)))
    PROVE  PrivacyParts(part)'
<1> DEFINE graph == Privacy(part)!With(panel.graph, e.id, e.object)
           t == [s EXCEPT !.panel.graph = graph]
<1>1. /\ PrivacyShape(part) /\ ProxyInv(part) /\ OrderInv(part) /\ DotInv(part)
      /\ DOMAIN panel = {"graph", "bound", "made", "sharing", "following", "due", "dot", "pulsing"}
      /\ panel.graph \in [DOMAIN panel.graph -> Nodes \cup Links(part)] /\ DOMAIN panel.graph \subseteq Numbers(part)
      /\ wire.binds \in Seq(Numbers(part))
  BY DEF PrivacyParts, PrivacyShape
<1>2. /\ e.id \in Numbers(part) /\ ~Follows(panel.bound, e.id)
      /\ e \in PrivacyEvents(part) /\ e.object \in Nodes \cup Links(part)
  BY <1>1, BeginsAnew, PrivacySpeaks DEF Taken
<1>3. /\ DOMAIN graph = DOMAIN panel.graph \cup {e.id} /\ graph[e.id] = e.object
      /\ \A i \in DOMAIN panel.graph : i # e.id => graph[i] = panel.graph[i]
      /\ graph \in [DOMAIN panel.graph \cup {e.id} -> Nodes \cup Links(part)]
  BY <1>1, <1>2 DEF Privacy!With
<1>4. Privacy(part)!Become(Privacy(part)!Publish(t))
  BY DEF Privacy!Global, Taken
<1> HIDE DEF graph
<1>5. /\ DOMAIN t = {"panel", "world", "wire"} /\ t.world = world /\ t.wire = s.wire
      /\ t.panel = [panel EXCEPT !.graph = graph]
  BY DEF Taken
<1> HIDE DEF t
<1>6. /\ DOMAIN t.panel = DOMAIN panel /\ t.panel.graph = graph /\ t.panel.bound = panel.bound
      /\ t.panel.sharing = panel.sharing /\ t.panel.due = panel.due /\ t.panel.dot = panel.dot
      /\ t.panel.pulsing = panel.pulsing /\ t.panel.following = panel.following
  BY <1>1, <1>5
<1>7. /\ world' = world /\ wire' = s.wire /\ DOMAIN panel' = DOMAIN panel /\ panel'.graph = graph
      /\ panel'.bound = panel.bound /\ panel'.following = panel.following /\ DotInv(part)'
  BY <1>1, <1>4, <1>5, <1>6, PrivacyPublishes
<1>8. ProxyInv(part)'
  <2>1. ASSUME NEW id \in Numbers(part)
        PROVE  Follows(panel.bound, id) <=> id \in Privacy(part)!LinksIn(graph)
    BY <1>1, <1>2, <1>3 DEF ProxyInv, Privacy!LinksIn
  <2> QED BY <1>1, <1>7, <2>1 DEF ProxyInv
<1>9. ASSUME NEW id \in Numbers(part) PROVE Heard(part, e, id)
  <2>1. e \notin Flows(part, world, id) /\ e \notin Binds(part, id) /\ e \notin Comes(part, id) \ Begins(part, id)
    BY DEF Flows, Binds, Comes, Begins
  <2>2. wire'.binds = wire.binds
    BY <1>7 DEF Taken
  <2>3. CASE id = e.id
    <3>1. e \in Tells(part, id) /\ e \in Comes(part, id)
      BY <1>2, <2>3 DEF Tells, Comes
    <3>2. e \in Stands(part, world, id) => /\ id \in DOMAIN world.objects
                                           /\ Announced(panel'.graph[id]) = Announced(world.objects[id])
      <4>1. Announced(e.object) = e.object
        BY DEF Announced
      <4> QED BY <1>3, <1>7, <2>3, <4>1 DEF Stands
    <3> QED BY <1>3, <1>7, <2>1, <2>2, <2>3, <3>1, <3>2 DEF Heard
  <2>4. CASE id # e.id
    <3>1. e \notin Stands(part, world, id)
      BY <2>4 DEF Stands, Comes, Tells
    <3>2. id \in DOMAIN graph <=> id \in DOMAIN panel.graph
      BY <1>3, <2>4
    <3>3. id \in DOMAIN panel.graph => graph[id] = panel.graph[id]
      BY <1>3, <2>4
    <3> QED BY <1>3, <1>7, <2>1, <2>2, <2>4, <3>1, <3>2, <3>3 DEF Heard
  <2> QED BY <2>3, <2>4
<1>10. /\ e \in PrivacyEvents(part) /\ Shorter(wire'.events, wire.events, e)
       /\ wire'.events \in Seq(PrivacyEvents(part)) /\ DOMAIN wire' = DOMAIN wire /\ wire'.binds \in Seq(Numbers(part))
  BY <1>1, <1>7 DEF Taken
<1>11. /\ panel'.graph \in [DOMAIN panel'.graph -> Nodes \cup Links(part)]
       /\ DOMAIN panel'.graph \subseteq Numbers(part)
  BY <1>1, <1>2, <1>3, <1>7
<1> QED BY <1>7, <1>8, <1>9, <1>10, <1>11, PrivacyHears

LEMMA PrivacyMeetsLink ==
    ASSUME NEW part, PrivacyParts(part), Privacy(part)!ConstantsOK,
           NEW s, NEW e, Taken(part, s, e), e.kind = "global", e.object.link,
           Privacy(part)!Become(Privacy(part)!Publish(Privacy(part)!Global(s, e)))
    PROVE  PrivacyParts(part)'
<1> DEFINE graph == Privacy(part)!With(panel.graph, e.id, e.object)
           proxy == [n |-> panel.made, local |-> Privacy(part)!LocalId, link |-> e.id, alive |-> TRUE]
           bound == panel.bound \cup {proxy}
           binds == Append(wire.binds, e.id)
           t == [s EXCEPT !.panel.graph = graph]
           u == [t EXCEPT !.wire.binds = Append(@, e.id), !.panel.made = @ + 1,
                          !.panel.bound = @ \cup {[n |-> panel.made, local |-> Privacy(part)!LocalId, link |-> e.id,
                                                   alive |-> TRUE]}]
<1>1. /\ PrivacyShape(part) /\ ProxyInv(part) /\ OrderInv(part) /\ DotInv(part)
      /\ DOMAIN panel = {"graph", "bound", "made", "sharing", "following", "due", "dot", "pulsing"}
      /\ panel.graph \in [DOMAIN panel.graph -> Nodes \cup Links(part)] /\ DOMAIN panel.graph \subseteq Numbers(part)
      /\ wire.binds \in Seq(Numbers(part)) /\ DOMAIN wire = {"events", "binds"}
  BY DEF PrivacyParts, PrivacyShape
<1>2. /\ e.id \in Numbers(part) /\ ~Follows(panel.bound, e.id)
      /\ e \in PrivacyEvents(part) /\ e.object \in Nodes \cup Links(part)
  BY <1>1, BeginsAnew, PrivacySpeaks DEF Taken
<1>3. /\ DOMAIN graph = DOMAIN panel.graph \cup {e.id} /\ graph[e.id] = e.object
      /\ \A i \in DOMAIN panel.graph : i # e.id => graph[i] = panel.graph[i]
      /\ graph \in [DOMAIN panel.graph \cup {e.id} -> Nodes \cup Links(part)]
  BY <1>1, <1>2 DEF Privacy!With
<1>4. Privacy(part)!Become(Privacy(part)!Publish(u))
  BY DEF Privacy!Global, Taken
<1>5. /\ DOMAIN proxy = {"n", "local", "link", "alive"} /\ proxy.alive = TRUE /\ proxy.link = e.id
      /\ proxy.local \in Nat /\ proxy.local <= part.local + Len(part.ids)
  BY <1>1, LocalIdIs
<1>6. /\ binds \in Seq(Numbers(part)) /\ Longer(binds, wire.binds, e.id)
  BY <1>1, <1>2 DEF Longer
<1> HIDE DEF graph, proxy
<1>7. /\ DOMAIN t = {"panel", "world", "wire"} /\ t.world = world /\ t.wire = s.wire
      /\ t.panel = [panel EXCEPT !.graph = graph]
  BY DEF Taken
<1> HIDE DEF t
<1>8. /\ DOMAIN t.panel = DOMAIN panel /\ t.panel.graph = graph /\ t.panel.bound = panel.bound
      /\ t.panel.sharing = panel.sharing /\ t.panel.due = panel.due /\ t.panel.dot = panel.dot
      /\ t.panel.pulsing = panel.pulsing /\ t.panel.following = panel.following
      /\ DOMAIN s.wire = {"events", "binds"} /\ s.wire.binds = wire.binds
  BY <1>1, <1>7 DEF Taken
<1>9. /\ DOMAIN u = {"panel", "world", "wire"} /\ u.world = world /\ DOMAIN u.wire = DOMAIN wire
      /\ u.wire.events = s.wire.events /\ u.wire.binds = binds
      /\ DOMAIN u.panel = DOMAIN panel /\ u.panel.graph = graph /\ u.panel.bound = bound
      /\ u.panel.sharing = panel.sharing /\ u.panel.due = panel.due /\ u.panel.dot = panel.dot
      /\ u.panel.pulsing = panel.pulsing /\ u.panel.following = panel.following
  BY <1>1, <1>7, <1>8 DEF proxy
<1> HIDE DEF u, binds
<1>10. /\ world' = world /\ wire' = u.wire /\ DOMAIN panel' = DOMAIN panel /\ panel'.graph = graph
       /\ panel'.bound = bound /\ panel'.following = panel.following /\ DotInv(part)'
  BY ZenonT(60), <1>1, <1>4, <1>9, PrivacyPublishes
<1>11. ASSUME NEW id
       PROVE  Follows(bound, id) <=> Follows(panel.bound, id) \/ id = e.id
  BY <1>5 DEF Follows
<1>12. ProxyInv(part)'
  <2>1. ASSUME NEW id \in Numbers(part)
        PROVE  Follows(bound, id) <=> id \in Privacy(part)!LinksIn(graph)
    BY <1>1, <1>2, <1>3, <1>11 DEF ProxyInv, Privacy!LinksIn
  <2>2. ASSUME NEW p \in bound
        PROVE  /\ DOMAIN p = {"n", "local", "link", "alive"} /\ p.alive \in BOOLEAN
               /\ p.local \in Nat /\ p.local <= part.local + Len(part.ids) /\ p.link \in Numbers(part)
    <3>1. CASE p = proxy
      BY <1>2, <1>5, <3>1
    <3>2. CASE p \in panel.bound
      BY <1>1, <3>2 DEF ProxyInv
    <3> QED BY <3>1, <3>2
  <2>3. ASSUME NEW p \in bound, NEW q \in bound, p.alive, q.alive, p.link = q.link PROVE p = q
    <3>1. \A r \in panel.bound : r.alive => r.link # e.id
      BY <1>2 DEF Follows
    <3>2. CASE p \in panel.bound /\ q \in panel.bound
      BY <1>1, <2>3, <3>2 DEF ProxyInv
    <3> QED BY <1>5, <2>3, <3>1, <3>2
  <2> HIDE DEF bound
  <2> QED BY <1>10, <2>1, <2>2, <2>3 DEF ProxyInv
<1>13. ASSUME NEW id \in Numbers(part) PROVE Heard(part, e, id)
  <2>1. e \notin Flows(part, world, id) /\ e \notin Comes(part, id) \ Begins(part, id)
    BY DEF Flows, Comes, Begins
  <2>2. /\ wire'.binds = binds /\ Len(binds) = Len(wire.binds) + 1 /\ Len(wire.binds) \in Nat
        /\ binds[Len(binds)] = e.id /\ \A i \in 1..Len(wire.binds) : i \in 1..Len(binds) /\ binds[i] = wire.binds[i]
    BY <1>6, <1>9, <1>10 DEF Longer
  <2>3. ASSUME (\E i \in 1..Len(wire.binds) : wire.binds[i] = id) \/ id = e.id
        PROVE  \E i \in 1..Len(wire'.binds) : wire'.binds[i] = id
    <3>1. Len(binds) \in 1..Len(binds)
      BY <2>2
    <3> QED BY <2>2, <2>3, <3>1
  <2>4. CASE id = e.id
    <3>1. e \in Tells(part, id) /\ e \in Comes(part, id) /\ e \in Begins(part, id)
      BY <1>2, <2>4 DEF Tells, Comes, Begins
    <3>2. e \in Stands(part, world, id) => /\ id \in DOMAIN world.objects
                                           /\ Announced(graph[id]) = Announced(world.objects[id])
      <4>1. \A o : Announced(Announced(o)) = Announced(o)
        BY DEF Announced
      <4>2. e \in Stands(part, world, id) => id \in DOMAIN world.objects /\ e.object = Announced(world.objects[id])
        BY DEF Stands
      <4>3. graph[id] = e.object
        BY <1>3, <2>4
      <4> QED BY <4>1, <4>2, <4>3
    <3>3. id \in DOMAIN graph
      BY <1>3, <2>4
    <3> QED BY <1>10, <2>1, <2>3, <2>4, <3>1, <3>2, <3>3 DEF Heard
  <2>5. CASE id # e.id
    <3>1. e \notin Stands(part, world, id) /\ e \notin Binds(part, id)
      BY <2>5 DEF Stands, Comes, Tells, Binds, Begins
    <3>2. id \in DOMAIN graph <=> id \in DOMAIN panel.graph
      BY <1>3, <2>5
    <3>3. id \in DOMAIN panel.graph => graph[id] = panel.graph[id]
      BY <1>3, <2>5
    <3>4. Follows(bound, id) => Follows(panel.bound, id)
      BY <1>11, <2>5
    <3> QED BY <1>10, <2>1, <2>3, <2>5, <3>1, <3>2, <3>3, <3>4 DEF Heard
  <2> QED BY <2>4, <2>5
<1>14. /\ e \in PrivacyEvents(part) /\ Shorter(wire'.events, wire.events, e)
       /\ wire'.events \in Seq(PrivacyEvents(part)) /\ DOMAIN wire' = DOMAIN wire /\ wire'.binds \in Seq(Numbers(part))
  BY <1>1, <1>6, <1>9, <1>10 DEF Taken
<1>15. /\ panel'.graph \in [DOMAIN panel'.graph -> Nodes \cup Links(part)]
       /\ DOMAIN panel'.graph \subseteq Numbers(part)
  BY <1>1, <1>2, <1>3, <1>10
<1> QED BY <1>10, <1>12, <1>13, <1>14, <1>15, PrivacyHears

LEMMA PrivacyIsInformed ==
    ASSUME NEW part, PrivacyParts(part), NEW s, NEW e, Taken(part, s, e), e.kind = "info",
           Privacy(part)!Become(Privacy(part)!Publish(Privacy(part)!Info(s, e)))
    PROVE  PrivacyParts(part)'
<1> DEFINE active == e.active
           there == e.id \in Privacy(part)!Listening /\ e.id \in Privacy(part)!LinksIn(panel.graph)
           graph == IF there THEN [panel.graph EXCEPT ![e.id].active = active] ELSE panel.graph
           t == Privacy(part)!Info(s, e)
<1>1. /\ PrivacyShape(part) /\ ProxyInv(part) /\ DotInv(part)
      /\ DOMAIN panel = {"graph", "bound", "made", "sharing", "following", "due", "dot", "pulsing"}
      /\ panel.graph \in [DOMAIN panel.graph -> Nodes \cup Links(part)] /\ DOMAIN panel.graph \subseteq Numbers(part)
      /\ wire.binds \in Seq(Numbers(part))
  BY DEF PrivacyParts, PrivacyShape
<1>2. e \in PrivacyEvents(part) /\ e.id \in Numbers(part) /\ active \in BOOLEAN
  BY PrivacySpeaks DEF Taken
<1>3. /\ DOMAIN graph = DOMAIN panel.graph /\ \A i \in DOMAIN panel.graph : i # e.id => graph[i] = panel.graph[i]
      /\ there => graph[e.id] = [panel.graph[e.id] EXCEPT !.active = active]
      /\ ~there => graph = panel.graph
  <2> HIDE DEF active
  <2> QED BY <1>1 DEF Privacy!LinksIn
<1>4. /\ DOMAIN t = {"panel", "world", "wire"} /\ t.world = world /\ t.wire = s.wire
      /\ DOMAIN t.panel = DOMAIN panel /\ t.panel.graph = graph /\ t.panel.bound = panel.bound
      /\ t.panel.sharing = panel.sharing /\ t.panel.due = panel.due /\ t.panel.dot = panel.dot
      /\ t.panel.pulsing = panel.pulsing /\ t.panel.following = panel.following
  <2>1. CASE there
    <3> DEFINE g == [panel.graph EXCEPT ![e.id].active = active]
               u == [s EXCEPT !.panel.graph = g]
    <3>1. t = u
      BY <2>1 DEF Taken, Privacy!Info
    <3>2. graph = g
      BY <2>1
    <3> HIDE DEF t, graph, g
    <3>3. DOMAIN u = {"panel", "world", "wire"} /\ u.world = world /\ u.wire = s.wire /\ u.panel = [panel EXCEPT !.graph = g]
      BY DEF Taken
    <3> HIDE DEF u
    <3> QED BY <1>1, <3>1, <3>2, <3>3
  <2>2. CASE ~there
    <3>1. t = s
      BY <2>2 DEF Taken, Privacy!Info
    <3>2. graph = panel.graph
      BY <2>2
    <3> HIDE DEF t, graph
    <3> QED BY <3>1, <3>2 DEF Taken
  <2> QED BY <2>1, <2>2
<1>5. Privacy(part)!Become(Privacy(part)!Publish(t))
  OBVIOUS
<1> HIDE DEF t, graph
<1>7. /\ world' = world /\ wire' = s.wire /\ DOMAIN panel' = DOMAIN panel /\ panel'.graph = graph
      /\ panel'.bound = panel.bound /\ panel'.following = panel.following /\ DotInv(part)'
  BY <1>1, <1>4, <1>5, PrivacyPublishes
<1>8. ASSUME there
      PROVE  /\ graph[e.id] \in Links(part) /\ (graph[e.id].active <=> active)
             /\ Announced(graph[e.id]) = Announced(panel.graph[e.id])
  <2> DEFINE o == panel.graph[e.id]
             p == graph[e.id]
             from == o.from
             was == o.active
  <2>1. o \in Nodes \cup Links(part) /\ o.link
    BY <1>1, <1>8 DEF Privacy!LinksIn
  <2>2. p = [o EXCEPT !.active = active]
    BY <1>3, <1>8
  <2> HIDE DEF o, p
  <2>3. from \in Numbers(part) /\ o = [link |-> TRUE, from |-> from, active |-> was]
    BY <2>1, ObjectsHave
  <2> HIDE DEF from, was, active
  <2>4. p = [link |-> TRUE, from |-> from, active |-> active]
    BY <2>2, <2>3
  <2>5. p \in Links(part) /\ (p.active <=> active) /\ Announced(p) = Announced(o)
    BY <1>2, <2>3, <2>4 DEF Links, Announced
  <2> QED BY <2>5 DEF o, p
<1>9. graph \in [DOMAIN graph -> Nodes \cup Links(part)]
  <2>1. CASE ~there
    BY <1>1, <1>3, <2>1
  <2>2. CASE there
    <3>1. ASSUME NEW i \in DOMAIN graph PROVE graph[i] \in Nodes \cup Links(part)
      BY <1>1, <1>3, <1>8, <2>2, <3>1
    <3>2. graph = [i \in DOMAIN graph |-> graph[i]]
      BY <1>1, <2>2 DEF graph
    <3> HIDE DEF there
    <3> QED BY <3>1, <3>2
  <2> QED BY <2>1, <2>2
<1>10. \A i \in DOMAIN panel.graph : Announced(graph[i]) = Announced(panel.graph[i])
  BY <1>3, <1>8
<1>11. Privacy(part)!LinksIn(graph) = Privacy(part)!LinksIn(panel.graph)
  BY <1>1, <1>3, <1>9, <1>10, AlikeInLinks
<1>12. ProxyInv(part)'
  BY <1>1, <1>7, <1>11 DEF ProxyInv
<1>13. ASSUME NEW id \in Numbers(part) PROVE Heard(part, e, id)
  <2>1. /\ e \notin Comes(part, id) /\ e \notin Stands(part, world, id) /\ e \notin Begins(part, id)
        /\ e \notin Binds(part, id)
    BY DEF Comes, Stands, Begins, Binds
  <2>2. wire'.binds = wire.binds
    BY <1>7 DEF Taken
  <2>3. e \notin Tells(part, id) => id # e.id
    BY <1>2 DEF Tells
  <2>4. ASSUME e \in Flows(part, world, id), id \in Privacy(part)!LinksIn(panel.graph)
        PROVE  graph[id].active <=> e.active
    <3>1. id = e.id
      BY <2>4 DEF Flows, Tells
    <3>2. id \in Privacy(part)!Listening
      BY <1>1, <2>4 DEF ProxyInv, Follows, Privacy!Listening
    <3> QED BY <1>8, <2>4, <3>1, <3>2
  <2>5. e \notin Tells(part, id) /\ id \in DOMAIN panel.graph => graph[id].active = panel.graph[id].active
    BY <1>3, <2>3
  <2> HIDE DEF there
  <2> QED BY <1>3, <1>7, <1>10, <2>1, <2>2, <2>4, <2>5 DEF Heard
<1>14. /\ e \in PrivacyEvents(part) /\ Shorter(wire'.events, wire.events, e)
       /\ wire'.events \in Seq(PrivacyEvents(part)) /\ DOMAIN wire' = DOMAIN wire /\ wire'.binds \in Seq(Numbers(part))
  BY <1>1, <1>7 DEF Taken
<1>15. /\ panel'.graph \in [DOMAIN panel'.graph -> Nodes \cup Links(part)]
       /\ DOMAIN panel'.graph \subseteq Numbers(part)
  BY <1>1, <1>3, <1>7, <1>9
<1> HIDE DEF there, active
<1> QED BY <1>7, <1>12, <1>13, <1>14, <1>15, PrivacyHears

\* The proxies dropped are none: their own numbers are clear of PipeWire's.
LEMMA PrivacyForgets ==
    ASSUME NEW part, PrivacyParts(part), Privacy(part)!Apart, Privacy(part)!ConstantsOK,
           NEW s, NEW e, Taken(part, s, e), e.kind = "remove",
           Privacy(part)!Become(Privacy(part)!Publish(Privacy(part)!GlobalRemove(s, e)))
    PROVE  PrivacyParts(part)'
<1> DEFINE graph == Privacy(part)!Without(panel.graph, {e.id})
           Dead(p) == IF p.link = e.id THEN [p EXCEPT !.alive = FALSE] ELSE p
           bound == {p \in {Dead(q) : q \in panel.bound} : p.local # e.id}
           t == [s EXCEPT !.panel.graph = graph, !.panel.bound = bound]
<1>1. /\ PrivacyShape(part) /\ ProxyInv(part) /\ DotInv(part)
      /\ DOMAIN panel = {"graph", "bound", "made", "sharing", "following", "due", "dot", "pulsing"}
      /\ panel.graph \in [DOMAIN panel.graph -> Nodes \cup Links(part)] /\ DOMAIN panel.graph \subseteq Numbers(part)
      /\ wire.binds \in Seq(Numbers(part))
  BY DEF PrivacyParts, PrivacyShape
<1>2. e \in PrivacyEvents(part) /\ e.id \in Numbers(part)
  BY PrivacySpeaks DEF Taken
<1>3. /\ DOMAIN graph = DOMAIN panel.graph \ {e.id} /\ \A i \in DOMAIN graph : graph[i] = panel.graph[i]
      /\ graph \in [DOMAIN graph -> Nodes \cup Links(part)]
  BY <1>1 DEF Privacy!Without
<1>4. Privacy(part)!Become(Privacy(part)!Publish(t))
  BY DEF Privacy!GlobalRemove, Taken
<1>5. ASSUME NEW p \in panel.bound
      PROVE  /\ DOMAIN Dead(p) = {"n", "local", "link", "alive"} /\ Dead(p).link = p.link /\ Dead(p).local = p.local
             /\ Dead(p).alive \in BOOLEAN /\ (Dead(p).alive <=> p.alive /\ p.link # e.id)
             /\ Dead(p).alive => Dead(p) = p
             /\ Dead(p) \in bound
  <2>1. /\ DOMAIN p = {"n", "local", "link", "alive"} /\ p.alive \in BOOLEAN
        /\ p.local \in Nat /\ p.local <= part.local + Len(part.ids)
    BY <1>1 DEF ProxyInv
  <2>2. /\ DOMAIN Dead(p) = {"n", "local", "link", "alive"} /\ Dead(p).link = p.link /\ Dead(p).local = p.local
        /\ Dead(p).alive \in BOOLEAN /\ (Dead(p).alive <=> p.alive /\ p.link # e.id)
        /\ Dead(p).alive => Dead(p) = p
    BY <2>1
  <2>3. p.local # e.id
    <3>1. PICK i \in 1..Len(part.ids) : e.id = part.ids[i]
      BY <1>2 DEF Numbers
    <3>2. part.ids \in Seq(Nat) /\ part.local \in Nat
      BY DEF Privacy!ConstantsOK
    <3>3. i \in DOMAIN part.ids /\ e.id \in Nat /\ Len(part.ids) \in Nat
      BY <3>1, <3>2
    <3>4. e.id > part.local + Len(part.ids)
      BY <3>1, <3>3 DEF Privacy!Apart
    <3> QED BY <2>1, <3>2, <3>3, <3>4
  <2> HIDE DEF Dead
  <2>4. Dead(p) \in bound
    BY <2>2, <2>3
  <2> QED BY <2>2, <2>4
<1>6. \A p \in bound : \E q \in panel.bound : p = Dead(q)
  OBVIOUS
<1> HIDE DEF graph, bound, Dead
<1>7. /\ DOMAIN t = {"panel", "world", "wire"} /\ t.world = world /\ t.wire = s.wire
      /\ t.panel = [panel EXCEPT !.graph = graph, !.bound = bound]
  BY <1>1 DEF Taken
<1> HIDE DEF t
<1>8. /\ DOMAIN t.panel = DOMAIN panel /\ t.panel.graph = graph /\ t.panel.bound = bound
      /\ t.panel.sharing = panel.sharing /\ t.panel.due = panel.due /\ t.panel.dot = panel.dot
      /\ t.panel.pulsing = panel.pulsing /\ t.panel.following = panel.following
  BY <1>1, <1>7
<1>9. /\ world' = world /\ wire' = s.wire /\ DOMAIN panel' = DOMAIN panel /\ panel'.graph = graph
      /\ panel'.bound = bound /\ panel'.following = panel.following /\ DotInv(part)'
  <2>1. DotInv(part) /\ DOMAIN t.panel = {"graph", "bound", "made", "sharing", "following", "due", "dot", "pulsing"}
    BY <1>1, <1>8
  <2>2. /\ world' = t.world /\ wire' = t.wire /\ DOMAIN panel' = DOMAIN t.panel
        /\ panel'.graph = t.panel.graph /\ panel'.bound = t.panel.bound
        /\ panel'.following = t.panel.following /\ DotInv(part)'
    BY <1>4, <1>7, <1>8, <2>1, PrivacyPublishes
  <2> QED BY <1>7, <1>8, <2>2
<1>10. ASSUME NEW id
       PROVE  Follows(bound, id) <=> Follows(panel.bound, id) /\ id # e.id
  BY <1>5, <1>6 DEF Follows
<1>11. ProxyInv(part)'
  <2>1. ASSUME NEW id \in Numbers(part)
        PROVE  Follows(bound, id) <=> id \in Privacy(part)!LinksIn(graph)
    BY <1>1, <1>3, <1>10 DEF ProxyInv, Privacy!LinksIn
  <2>2. ASSUME NEW p \in bound
        PROVE  /\ DOMAIN p = {"n", "local", "link", "alive"} /\ p.alive \in BOOLEAN
               /\ p.local \in Nat /\ p.local <= part.local + Len(part.ids) /\ p.link \in Numbers(part)
    <3>1. PICK q \in panel.bound : p = Dead(q)
      BY <1>6
    <3>2. q.local \in Nat /\ q.local <= part.local + Len(part.ids) /\ q.link \in Numbers(part)
      BY <1>1 DEF ProxyInv
    <3> QED BY <1>5, <3>1, <3>2
  <2>3. ASSUME NEW p \in bound, NEW q \in bound, p.alive, q.alive, p.link = q.link PROVE p = q
    <3>1. p \in panel.bound /\ q \in panel.bound
      BY <1>5, <1>6, <2>3
    <3> QED BY <1>1, <2>3, <3>1 DEF ProxyInv
  <2> QED BY <1>9, <2>1, <2>2, <2>3 DEF ProxyInv
<1>12. ASSUME NEW id \in Numbers(part) PROVE Heard(part, e, id)
  <2>1. e \notin Flows(part, world, id) /\ e \notin Begins(part, id) /\ e \notin Binds(part, id)
    BY DEF Flows, Begins, Binds
  <2>2. wire'.binds = wire.binds
    BY <1>9 DEF Taken
  <2>3. Follows(bound, id) => Follows(panel.bound, id) /\ id # e.id
    BY <1>10
  <2>4. e \in Comes(part, id) => id = e.id
    BY DEF Comes, Tells
  <2>5. e \notin Comes(part, id) => id # e.id
    BY <1>2 DEF Comes, Tells
  <2>6. e \notin Tells(part, id) => id # e.id
    BY <1>2 DEF Tells
  <2>7. e \in Stands(part, world, id) => id = e.id /\ id \notin DOMAIN world.objects
    BY DEF Stands, Comes, Tells
  <2>8. id = e.id => id \notin DOMAIN graph
    BY <1>3
  <2>9. id # e.id => /\ id \in DOMAIN graph <=> id \in DOMAIN panel.graph
                     /\ id \in DOMAIN panel.graph => graph[id] = panel.graph[id]
    BY <1>3
  <2> QED BY <1>9, <2>1, <2>2, <2>3, <2>4, <2>5, <2>6, <2>7, <2>8, <2>9 DEF Heard
<1>13. /\ e \in PrivacyEvents(part) /\ Shorter(wire'.events, wire.events, e)
       /\ wire'.events \in Seq(PrivacyEvents(part)) /\ DOMAIN wire' = DOMAIN wire /\ wire'.binds \in Seq(Numbers(part))
  BY <1>1, <1>9 DEF Taken
<1>14. /\ panel'.graph \in [DOMAIN panel'.graph -> Nodes \cup Links(part)]
       /\ DOMAIN panel'.graph \subseteq Numbers(part)
  BY <1>1, <1>3, <1>9
<1> QED BY <1>9, <1>11, <1>12, <1>13, <1>14, PrivacyHears

LEMMA PrivacyTakes ==
    ASSUME NEW part, PrivacyParts(part), Privacy(part)!Apart, Privacy(part)!ConstantsOK, Privacy(part)!TakeEvent
    PROVE  PrivacyParts(part)'
<1> DEFINE e == Head(wire.events)
           events == Tail(wire.events)
           s == [Privacy(part)!Now EXCEPT !.wire.events = Tail(@)]
<1>1. wire.events # <<>> /\ wire.events \in Seq(PrivacyEvents(part)) /\ DOMAIN wire = {"events", "binds"}
  BY DEF PrivacyParts, PrivacyShape, Privacy!TakeEvent
<1>2. e \in PrivacyEvents(part) /\ events \in Seq(PrivacyEvents(part)) /\ Shorter(events, wire.events, e)
  <2> DEFINE E == PrivacyEvents(part)
             L == wire.events
  <2>1. L \in Seq(E) /\ L # <<>>
    BY <1>1
  <2> HIDE DEF E, L
  <2>2. /\ Head(L) \in E /\ Tail(L) \in Seq(E) /\ Len(L) \in Nat \ {0} /\ Len(Tail(L)) = Len(L) - 1 /\ L[1] = Head(L)
        /\ \A i \in 1..Len(Tail(L)) : Tail(L)[i] = L[i + 1]
    BY <2>1
  <2> QED BY <2>2 DEF E, L, Shorter
<1>3. Taken(part, s, e)
  <2> HIDE DEF e
  <2>1. /\ DOMAIN s = {"panel", "world", "wire"} /\ s.panel = panel /\ s.world = world
        /\ DOMAIN s.wire = DOMAIN wire /\ s.wire.binds = wire.binds /\ s.wire.events = events
    BY <1>1 DEF Privacy!Now
  <2> HIDE DEF s, events
  <2> QED BY <1>2, <2>1 DEF Taken
<1>4. e.kind \in {"global", "info", "remove"}
  BY <1>2, PrivacySpeaks
<1>5. Privacy(part)!Become(Privacy(part)!Publish(CASE e.kind = "global" -> Privacy(part)!Global(s, e)
                                                   [] e.kind = "info"   -> Privacy(part)!Info(s, e)
                                                   [] OTHER             -> Privacy(part)!GlobalRemove(s, e)))
  BY DEF Privacy!TakeEvent
<1> HIDE DEF e, s
<1>6. CASE e.kind = "global"
  <2>1. Privacy(part)!Become(Privacy(part)!Publish(Privacy(part)!Global(s, e)))
    BY <1>5, <1>6
  <2>2. e.object.link \/ ~e.object.link
    OBVIOUS
  <2> QED BY <1>3, <1>6, <2>1, <2>2, PrivacyMeetsLink, PrivacyMeetsNode
<1>7. CASE e.kind = "info"
  <2>1. Privacy(part)!Become(Privacy(part)!Publish(Privacy(part)!Info(s, e)))
    BY <1>5, <1>7
  <2> QED BY <1>3, <1>7, <2>1, PrivacyIsInformed
<1>8. CASE e.kind = "remove"
  <2>1. Privacy(part)!Become(Privacy(part)!Publish(Privacy(part)!GlobalRemove(s, e)))
    BY <1>5, <1>8
  <2> QED BY <1>3, <1>8, <2>1, PrivacyForgets
<1> QED BY <1>4, <1>6, <1>7, <1>8

LEMMA PrivacyDraws ==
    ASSUME NEW part, PrivacyParts(part), Privacy(part)!Draw
    PROVE  PrivacyParts(part)'
<1> DEFINE sharing == panel.sharing
<1>1. /\ PrivacyShape(part) /\ DotInv(part)
      /\ DOMAIN panel = {"graph", "bound", "made", "sharing", "following", "due", "dot", "pulsing"}
  BY DEF PrivacyParts, PrivacyShape
<1>2. panel' = [panel EXCEPT !.due = FALSE, !.dot = sharing, !.pulsing = sharing] /\ UNCHANGED <<world, wire>>
  BY DEF Privacy!Draw, Privacy!Become, Privacy!Now
<1> HIDE DEF sharing
<1>3. /\ DOMAIN panel' = DOMAIN panel /\ panel'.graph = panel.graph /\ panel'.bound = panel.bound
      /\ panel'.following = panel.following /\ panel'.sharing = panel.sharing
      /\ panel'.dot = sharing /\ panel'.pulsing = sharing
  BY <1>1, <1>2
<1>4. PrivacyShape(part)'
  BY <1>1, <1>2, <1>3 DEF PrivacyShape, Privacy!LinksIn
<1>5. FreeInv(part)' /\ ProxyInv(part)' /\ GraphInv(part)' /\ ActiveInv(part)' /\ BindInv(part)' /\ OrderInv(part)'
  BY <1>2, <1>3 DEF PrivacyParts, FreeInv, ProxyInv, GraphInv, ActiveInv, BindInv, OrderInv, Privacy!LinksIn
<1>6. DotInv(part)'
  BY <1>1, <1>2, <1>3 DEF DotInv, sharing
<1> QED BY <1>4, <1>5, <1>6 DEF PrivacyParts

LEMMA PrivacyStarts ==
    ASSUME NEW part, Privacy(part)!ConstantsOK, Privacy(part)!Init
    PROVE  PrivacyInv(part)
<1>1. /\ panel = [graph |-> <<>>, bound |-> {}, made |-> 0, sharing |-> FALSE, following |-> TRUE,
                  due |-> FALSE, dot |-> FALSE, pulsing |-> FALSE]
      /\ world = [objects |-> <<>>, free |-> part.ids, bound |-> {}, up |-> TRUE, moves |-> 0]
      /\ wire = [events |-> <<>>, binds |-> <<>>]
  BY DEF Privacy!Init
<1>2. DOMAIN <<>> = {} /\ <<>> \in [{} -> Nodes \cup Links(part)]
  OBVIOUS
<1>3. part.ids \in Seq(Nat) /\ \A i, j \in 1..Len(part.ids) : part.ids[i] = part.ids[j] => i = j
  BY DEF Privacy!ConstantsOK
<1>4. part.ids \in Seq(Numbers(part))
  <2>1. \A i \in 1..Len(part.ids) : part.ids[i] \in Numbers(part)
    BY DEF Numbers
  <2> HIDE DEF Numbers
  <2> QED BY SMTT(30), <1>3, <2>1
<1>5. PrivacyShape(part)
  BY <1>1, <1>2 DEF PrivacyShape, Privacy!LinksIn
<1>6. FreeInv(part)
  BY <1>1, <1>2, <1>3, <1>4 DEF FreeInv
<1>7. ProxyInv(part)
  BY <1>1, <1>2 DEF ProxyInv, Follows, Privacy!LinksIn
<1>8. GraphInv(part)
  BY <1>1, <1>2 DEF GraphInv, Mute
<1>9. ActiveInv(part) /\ BindInv(part) /\ OrderInv(part)
  BY <1>1, <1>2 DEF ActiveInv, BindInv, OrderInv, Privacy!LinksIn
<1>10. DotInv(part)
  BY <1>1, <1>2 DEF DotInv, Privacy!ScreenSharing, Privacy!LinksIn
<1> QED BY <1>5, <1>6, <1>7, <1>8, <1>9, <1>10 DEF PrivacyInv, PrivacyParts

\* PipeWire that has gone does not come back.
LEMMA PrivacyGoes ==
    ASSUME NEW part, Privacy(part)!Next, PrivacyInv(part), Privacy(part)!ConstantsOK
    PROVE  PrivacyInv(part)'
<1> SUFFICES ASSUME Privacy(part)!Apart, world'.up PROVE PrivacyParts(part)'
  BY DEF PrivacyInv, Privacy!Apart
<1> USE DEF Privacy!Next
<1>1. CASE world.up
  <2>1. PrivacyParts(part) /\ PrivacyShape(part)
    BY <1>1 DEF PrivacyInv, PrivacyParts
  <2>2. CASE Privacy(part)!Turn
    <3>1. ~Privacy(part)!LoopEnds
      BY <1>1 DEF Privacy!LoopEnds
    <3> QED BY <2>1, <2>2, <3>1, PrivacyTakes DEF Privacy!Turn
  <2>3. CASE Privacy(part)!Server
    BY <2>1, <2>3, PrivacyBinds DEF Privacy!Server
  <2>4. CASE Privacy(part)!Loop
    BY <2>1, <2>4, PrivacyDraws DEF Privacy!Loop
  <2>5. CASE Privacy(part)!AddNode
    <3>1. PICK node \in {Privacy(part)!Cast, Privacy(part)!Other} : Privacy(part)!Create(node, node)
      BY <2>5 DEF Privacy!AddNode
    <3>2. node \in Nodes \cup Links(part) /\ Announced(node) = node
      <4>1. ~node.link /\ node \in Nodes
        <5>1. [link |-> FALSE, cast |-> TRUE] \in Nodes /\ [link |-> FALSE, cast |-> FALSE] \in Nodes
          BY DEF Nodes
        <5>2. node = [link |-> FALSE, cast |-> TRUE] \/ node = [link |-> FALSE, cast |-> FALSE]
          BY <3>1 DEF Privacy!Cast, Privacy!Other
        <5>3. CASE node = [link |-> FALSE, cast |-> TRUE]
          BY <5>1, <5>3
        <5>4. CASE node = [link |-> FALSE, cast |-> FALSE]
          BY <5>1, <5>4
        <5> QED BY <5>2, <5>3, <5>4
      <4>2. Announced(node) = node
        BY <4>1, Zenon DEF Announced
      <4> QED BY <4>1, <4>2
    <3> QED BY <2>1, <3>1, <3>2, PrivacyCreates
  <2>6. CASE Privacy(part)!AddLink
    <3>1. PICK from \in DOMAIN world.objects \ Privacy(part)!LinksIn(world.objects), active \in BOOLEAN :
             Privacy(part)!Create(Privacy(part)!Link(from, active), Privacy(part)!Link(from, FALSE))
      BY <2>6 DEF Privacy!AddLink
    <3> DEFINE link == Privacy(part)!Link(from, active)
    <3>2. from \in Numbers(part)
      BY <2>1, <3>1 DEF PrivacyShape
    <3>3. link \in Nodes \cup Links(part) /\ Announced(link) = Privacy(part)!Link(from, FALSE)
      BY <3>1, <3>2 DEF Privacy!Link, Links, Announced
    <3>4. Privacy(part)!Create(link, Announced(link))
      BY <3>1, <3>3
    <3> HIDE DEF link
    <3> QED BY <2>1, <3>3, <3>4, PrivacyCreates
  <2>7. CASE Privacy(part)!Toggle
    BY <2>1, <2>7, PrivacyToggles
  <2>8. CASE Privacy(part)!Remove
    BY <2>1, <2>8, PrivacyRemoves
  <2>9. CASE Privacy(part)!Die
    <3>1. DOMAIN world = {"objects", "free", "bound", "up", "moves"}
      BY <2>1 DEF PrivacyShape
    <3>2. world'.up = FALSE
      <4> DEFINE s == [Privacy(part)!Did(Privacy(part)!Now) EXCEPT !.world.up = FALSE, !.wire.binds = <<>>]
      <4>1. s.world.up = FALSE
        BY <3>1 DEF Privacy!Did, Privacy!Now
      <4>2. Privacy(part)!Become(s)
        BY <2>9 DEF Privacy!Die
      <4> HIDE DEF s
      <4> QED BY <4>1, <4>2 DEF Privacy!Become
    <3> QED BY <3>2
  <2> QED BY <2>2, <2>3, <2>4, <2>5, <2>6, <2>7, <2>8, <2>9
<1>2. CASE ~world.up
  <2>1. world' = world
    <3>1. ~Privacy(part)!Server /\ ~Privacy(part)!AddNode /\ ~Privacy(part)!AddLink /\ ~Privacy(part)!Toggle
          /\ ~Privacy(part)!Remove /\ ~Privacy(part)!Die
      BY <1>2 DEF Privacy!Server, Privacy!Bind, Privacy!AddNode, Privacy!AddLink, Privacy!Toggle, Privacy!Remove,
                  Privacy!Die, Privacy!Spare
    <3>2. Privacy(part)!Turn \/ Privacy(part)!Loop
      BY <3>1
    <3>3. CASE Privacy(part)!Loop
      BY <3>3 DEF Privacy!Loop, Privacy!Draw, Privacy!Become, Privacy!Now
    <3>4. CASE Privacy(part)!LoopEnds
      BY <3>4 DEF Privacy!LoopEnds, Privacy!Become, Privacy!Now
    <3>5. CASE Privacy(part)!TakeEvent
      <4> DEFINE e == Head(wire.events)
                 s == [Privacy(part)!Now EXCEPT !.wire.events = Tail(@)]
                 t == CASE e.kind = "global" -> Privacy(part)!Global(s, e)
                        [] e.kind = "info"   -> Privacy(part)!Info(s, e)
                        [] OTHER             -> Privacy(part)!GlobalRemove(s, e)
      <4>1. s.world = world /\ DOMAIN s = {"panel", "world", "wire"}
        BY DEF Privacy!Now
      <4>2. Privacy(part)!Become(Privacy(part)!Publish(t))
        BY <3>5 DEF Privacy!TakeEvent
      <4> HIDE DEF e, s
      <4>3. t.world = world /\ DOMAIN t = DOMAIN s
        <5>1. Privacy(part)!Global(s, e).world = world /\ DOMAIN Privacy(part)!Global(s, e) = DOMAIN s
          BY <4>1 DEF Privacy!Global
        <5>2. Privacy(part)!Info(s, e).world = world /\ DOMAIN Privacy(part)!Info(s, e) = DOMAIN s
          BY <4>1 DEF Privacy!Info
        <5>3. Privacy(part)!GlobalRemove(s, e).world = world /\ DOMAIN Privacy(part)!GlobalRemove(s, e) = DOMAIN s
          BY <4>1 DEF Privacy!GlobalRemove
        <5> QED BY <5>1, <5>2, <5>3
      <4> HIDE DEF t
      <4>4. Privacy(part)!Publish(t).world = world
        BY <4>1, <4>3 DEF Privacy!Publish
      <4> QED BY <4>2, <4>4 DEF Privacy!Become
    <3> QED BY <3>2, <3>3, <3>4, <3>5 DEF Privacy!Turn
  <2> QED BY <1>2, <2>1
<1> QED BY <1>1, <1>2

LEMMA PrivacyStays ==
    ASSUME NEW part, PrivacyInv(part), UNCHANGED <<panel, world, wire>>
    PROVE  PrivacyInv(part)'
BY DEF PrivacyInv, PrivacyParts, PrivacyShape, FreeInv, ProxyInv, GraphInv, ActiveInv, BindInv, OrderInv, DotInv,
       Stands, Flows, Privacy!Apart, Privacy!LinksIn, Privacy!ScreenSharing

-----------------------------------------------------------------------------
(* All of them.                                                            *)

LevelsInv ==
    /\ subject \in Subjects
    /\ \A s \in Backlights : subject = s => BacklightInv(Parts[s])
    /\ \A s \in Batteries : subject = s => BatteryInv(Parts[s])
    /\ \A s \in Modes : subject = s => ProfilesInv(Parts[s])
    /\ \A s \in Watches : subject = s => PrivacyInv(Parts[s])
    /\ \A s \in Headsets : subject = s => HeadsetInv(Parts[s])
    /\ \A s \in Capsules : subject = s => CapsuleInv
    /\ \A s \in Strips : subject = s => NiriInv(Parts[s])
    /\ \A s \in Askers : subject = s => RequestsInv(Parts[s])

LEMMA LevelsStart == Init => LevelsInv
<1> SUFFICES ASSUME Init PROVE LevelsInv
  OBVIOUS
<1>1. subject \in Subjects
  BY DEF Init
<1>2. ASSUME NEW s \in Backlights, subject = s PROVE BacklightInv(Parts[s])
  <2>1. Backlight(Parts[s])!Init
    BY <1>2 DEF Init, Sounds, Backlights, Capsules, Batteries, Modes, Watches, Headsets, Strips, Askers
  <2> QED BY <2>1, <1>2, ConstantsAssumption, BacklightStarts
<1>3. ASSUME NEW s \in Batteries, subject = s PROVE BatteryInv(Parts[s])
  <2>1. Battery(Parts[s])!Init
    BY <1>3 DEF Init, Sounds, Backlights, Capsules, Batteries, Modes, Watches, Headsets, Strips, Askers
  <2> QED BY <2>1, <1>3, ConstantsAssumption, BatteryStarts
<1>4. ASSUME NEW s \in Modes, subject = s PROVE ProfilesInv(Parts[s])
  <2>1. Profiles(Parts[s])!Init
    BY <1>4 DEF Init, Sounds, Backlights, Capsules, Batteries, Modes, Watches, Headsets, Strips, Askers
  <2> QED BY <2>1, <1>4, ConstantsAssumption, ProfilesStarts
<1>5. ASSUME NEW s \in Headsets, subject = s PROVE HeadsetInv(Parts[s])
  <2>1. Headset(Parts[s])!Init
    BY <1>5 DEF Init, Sounds, Backlights, Capsules, Batteries, Modes, Watches, Headsets, Strips, Askers
  <2> QED BY <2>1, HeadsetStarts
<1>6. ASSUME NEW s \in Capsules, subject = s PROVE CapsuleInv
  <2>1. Capsule(Parts[s])!Init
    BY <1>6 DEF Init, Sounds, Backlights, Capsules, Batteries, Modes, Watches, Headsets, Strips, Askers
  <2> QED BY <2>1, CapsuleStarts
<1>7. ASSUME NEW s \in Askers, subject = s PROVE RequestsInv(Parts[s])
  <2>1. Requests(Parts[s])!Init
    BY <1>7 DEF Init, Sounds, Backlights, Capsules, Batteries, Modes, Watches, Headsets, Strips, Askers
  <2> QED BY <2>1, RequestsStart
<1>8. ASSUME NEW s \in Strips, subject = s PROVE NiriInv(Parts[s])
  <2>1. Niri(Parts[s])!Init
    BY <1>8 DEF Init, Sounds, Backlights, Capsules, Batteries, Modes, Watches, Headsets, Strips, Askers
  <2> QED BY <2>1, <1>8, ConstantsAssumption, NiriStarts
<1>9. ASSUME NEW s \in Watches, subject = s PROVE PrivacyInv(Parts[s])
  <2>1. Privacy(Parts[s])!Init
    BY <1>9 DEF Init, Sounds, Backlights, Capsules, Batteries, Modes, Watches, Headsets, Strips, Askers
  <2> QED BY <2>1, <1>9, ConstantsAssumption, PrivacyStarts
<1> QED BY <1>1, <1>2, <1>3, <1>4, <1>5, <1>6, <1>7, <1>8, <1>9 DEF LevelsInv

LEMMA LevelsKept == LevelsInv /\ [Next]_vars => LevelsInv'
<1> SUFFICES ASSUME LevelsInv, [Next]_vars PROVE LevelsInv'
  OBVIOUS
<1>1. subject' = subject /\ subject \in Subjects
  BY DEF LevelsInv, Next, vars
<1>2. UNCHANGED <<panel, world, wire>> \/ Next
  BY DEF vars
<1>3. ASSUME NEW s \in Backlights, subject = s PROVE BacklightInv(Parts[s])'
  <2>1. CASE Next
    <3>1. Backlight(Parts[s])!Next
      BY <1>3, <2>1 DEF Next, SoundStep, BacklightStep, CapsuleStep, BatteryStep, ProfilesStep, PrivacyStep,
         HeadsetStep, NiriStep, RequestsStep,
         Sounds, Backlights, Capsules, Batteries, Modes, Watches, Headsets, Strips, Askers
    <3> QED BY <3>1, <1>3, ConstantsAssumption, BacklightSteps DEF LevelsInv
  <2> QED BY <1>2, <1>3, <2>1, BacklightStays DEF LevelsInv
<1>4. ASSUME NEW s \in Batteries, subject = s PROVE BatteryInv(Parts[s])'
  <2>1. CASE Next
    <3>1. Battery(Parts[s])!Next
      BY <1>4, <2>1 DEF Next, SoundStep, BacklightStep, CapsuleStep, BatteryStep, ProfilesStep, PrivacyStep,
         HeadsetStep, NiriStep, RequestsStep,
         Sounds, Backlights, Capsules, Batteries, Modes, Watches, Headsets, Strips, Askers
    <3> QED BY <3>1, <1>4, ConstantsAssumption, BatterySteps DEF LevelsInv
  <2> QED BY <1>2, <1>4, <2>1, BatteryStays DEF LevelsInv
<1>5. ASSUME NEW s \in Modes, subject = s PROVE ProfilesInv(Parts[s])'
  <2>1. CASE Next
    <3>1. Profiles(Parts[s])!Next
      BY <1>5, <2>1 DEF Next, SoundStep, BacklightStep, CapsuleStep, BatteryStep, ProfilesStep, PrivacyStep,
         HeadsetStep, NiriStep, RequestsStep,
         Sounds, Backlights, Capsules, Batteries, Modes, Watches, Headsets, Strips, Askers
    <3> QED BY <3>1, <1>5, ConstantsAssumption, ProfilesSteps DEF LevelsInv
  <2> QED BY <1>2, <1>5, <2>1, ProfilesStays DEF LevelsInv
<1>6. ASSUME NEW s \in Headsets, subject = s PROVE HeadsetInv(Parts[s])'
  <2>1. CASE Next
    <3>1. Headset(Parts[s])!Next
      BY <1>6, <2>1 DEF Next, SoundStep, BacklightStep, CapsuleStep, BatteryStep, ProfilesStep, PrivacyStep,
         HeadsetStep, NiriStep, RequestsStep,
         Sounds, Backlights, Capsules, Batteries, Modes, Watches, Headsets, Strips, Askers
    <3> QED BY <3>1, <1>6, HeadsetSteps DEF LevelsInv
  <2> QED BY <1>2, <1>6, <2>1, HeadsetStays DEF LevelsInv
<1>7. ASSUME NEW s \in Capsules, subject = s PROVE CapsuleInv'
  <2>1. CASE Next
    <3>1. Capsule(Parts[s])!Next
      BY <1>7, <2>1 DEF Next, SoundStep, BacklightStep, CapsuleStep, BatteryStep, ProfilesStep, PrivacyStep,
         HeadsetStep, NiriStep, RequestsStep,
         Sounds, Backlights, Capsules, Batteries, Modes, Watches, Headsets, Strips, Askers
    <3> QED BY <3>1, <1>7, CapsuleSteps DEF LevelsInv
  <2> QED BY <1>2, <1>7, <2>1, CapsuleStays DEF LevelsInv
<1>8. ASSUME NEW s \in Askers, subject = s PROVE RequestsInv(Parts[s])'
  <2>1. CASE Next
    <3>1. Requests(Parts[s])!Next
      BY <1>8, <2>1 DEF Next, SoundStep, BacklightStep, CapsuleStep, BatteryStep, ProfilesStep, PrivacyStep,
         HeadsetStep, NiriStep, RequestsStep,
         Sounds, Backlights, Capsules, Batteries, Modes, Watches, Headsets, Strips, Askers
    <3> QED BY <3>1, <1>8, ConstantsAssumption, RequestsSteps DEF LevelsInv
  <2> QED BY <1>2, <1>8, <2>1, RequestsStay DEF LevelsInv
<1>9. ASSUME NEW s \in Strips, subject = s PROVE NiriInv(Parts[s])'
  <2>1. CASE Next
    <3>1. Niri(Parts[s])!Next
      BY <1>9, <2>1 DEF Next, SoundStep, BacklightStep, CapsuleStep, BatteryStep, ProfilesStep, PrivacyStep,
         HeadsetStep, NiriStep, RequestsStep,
         Sounds, Backlights, Capsules, Batteries, Modes, Watches, Headsets, Strips, Askers
    <3> QED BY <3>1, <1>9, ConstantsAssumption, NiriSteps DEF LevelsInv
  <2> QED BY <1>2, <1>9, <2>1, NiriStays DEF LevelsInv
<1>10. ASSUME NEW s \in Watches, subject = s PROVE PrivacyInv(Parts[s])'
  <2>1. CASE Next
    <3>1. Privacy(Parts[s])!Next
      BY <1>10, <2>1 DEF Next, SoundStep, BacklightStep, CapsuleStep, BatteryStep, ProfilesStep, PrivacyStep,
         HeadsetStep, NiriStep, RequestsStep,
         Sounds, Backlights, Capsules, Batteries, Modes, Watches, Headsets, Strips, Askers
    <3> QED BY <3>1, <1>10, ConstantsAssumption, PrivacyGoes DEF LevelsInv
  <2> QED BY <1>2, <1>10, <2>1, PrivacyStays DEF LevelsInv
<1> QED BY <1>1, <1>3, <1>4, <1>5, <1>6, <1>7, <1>8, <1>9, <1>10 DEF LevelsInv

\* What holds of each subject between its steps holds of whichever is looked at.
THEOREM LevelsInvariance == Spec => []LevelsInv
BY LevelsStart, LevelsKept, PTL DEF Spec

\* What is asked of the backlight, the battery, the power mode and the headset is done, and at
\* rest shown, whatever crosses it on the way, and so are the workspaces and who watches the
\* screen, with the exceptions PromisesAreKept names (a daemon slow to answer is not shown, nor
\* another's choice for it); and a request is told what niri said to it, but while one that gave
\* up has yet to throw the connection away.
THEOREM PromisesKept == Spec => []PromisesAreKept
<1>1. LevelsInv => PromisesAreKept
  BY ConstantsAssumption, BacklightPromises, BatteryPromises, ProfilesPromises, HeadsetPromises,
     CapsulePromises, PrivacyPromises, NiriPromises, RequestsPromise DEF LevelsInv, PromisesAreKept
<1> QED BY LevelsInvariance, <1>1, PTL
=============================================================================

------------------------- MODULE NotificationsProofs -------------------------
(***************************************************************************)
(* What holds of the notification daemon for every number of applications, *)
(* banners, history entries and ids.                                       *)
(***************************************************************************)
EXTENDS NotificationRestart, SequencesExt, SequenceTheorems, FiniteSetTheorems,
        WellFoundedInduction, TLAPS

-----------------------------------------------------------------------------
(* Lists without repetition, and sets of indices.                          *)

(* Dropping an id from a list that names it at most once. *)
LEMMA RemoveFirstProperties ==
    ASSUME NEW S, NEW s \in Seq(S), IsInjective(s), NEW x
    PROVE  /\ RemoveFirst(s, x) \in Seq(S)
           /\ IsInjective(RemoveFirst(s, x))
           /\ Range(RemoveFirst(s, x)) = Range(s) \ {x}
           /\ x \in Range(s) => Len(RemoveFirst(s, x)) = Len(s) - 1
           /\ x \notin Range(s) => RemoveFirst(s, x) = s
           /\ \A j \in 1..Len(RemoveFirst(s, x)) :
                 \/ RemoveFirst(s, x)[j] = s[j]
                 \/ j + 1 \in 1..Len(s) /\ RemoveFirst(s, x)[j] = s[j+1]
<1>1. CASE ~\E i \in 1..Len(s) : s[i] = x
  <2>1. RemoveFirst(s, x) = s
    BY <1>1 DEF RemoveFirst
  <2>2. x \notin Range(s)
    BY <1>1 DEF Range
  <2> QED BY <2>1, <2>2
<1>2. CASE \E i \in 1..Len(s) : s[i] = x
  <2>1. PICK i \in 1..Len(s) : s[i] = x
    BY <1>2
  <2> DEFINE t == SubSeq(s, 1, i-1) \o SubSeq(s, i+1, Len(s))
  <2>2. SelectInSeq(s, LAMBDA v: v = x) = i
    <3>1. {k \in 1..Len(s) : s[k] = x} = {i}
      BY <2>1 DEF IsInjective
    <3>2. Min({i}) = i
      BY DEF Min
    <3> QED BY <3>1, <3>2 DEF SelectInSeq
  <2>3. RemoveFirst(s, x) = t
    BY <1>2, <2>2 DEF RemoveFirst, RemoveAt
  <2>4. /\ SubSeq(s, 1, i-1) \in Seq(S)
        /\ Len(SubSeq(s, 1, i-1)) = i-1
        /\ \A j \in 1..(i-1) : SubSeq(s, 1, i-1)[j] = s[j]
    BY <2>1, SubSeqProperties
  <2>5. /\ SubSeq(s, i+1, Len(s)) \in Seq(S)
        /\ Len(SubSeq(s, i+1, Len(s))) = Len(s) - i
        /\ \A j \in 1..(Len(s)-i) : SubSeq(s, i+1, Len(s))[j] = s[i+j]
    <3>1. i+1 \in Int /\ Len(s) \in Int
      BY <2>1
    <3>2. \A k \in (i+1)..Len(s) : s[k] \in S
      BY <2>1
    <3> DEFINE u == SubSeq(s, i+1, Len(s))
    <3>3. /\ u \in Seq(S)
          /\ Len(u) = IF i+1 <= Len(s) THEN Len(s)-(i+1)+1 ELSE 0
          /\ \A j \in 1..(Len(s)-(i+1)+1) : u[j] = s[(i+1)+j-1]
      BY <3>1, <3>2, SubSeqProperties
    <3> HIDE DEF u
    <3>4. Len(u) = Len(s) - i
      BY <2>1, <3>3
    <3>5. \A j \in 1..(Len(s)-i) : u[j] = s[i+j]
      <4> SUFFICES ASSUME NEW j \in 1..(Len(s)-i) PROVE u[j] = s[i+j]
        OBVIOUS
      <4>1. j \in 1..(Len(s)-(i+1)+1) /\ (i+1)+j-1 = i+j
        BY <2>1
      <4> QED BY <3>3, <4>1
    <3> QED BY <3>3, <3>4, <3>5 DEF u
  <2>6. /\ t \in Seq(S)
        /\ Len(t) = Len(s) - 1
        /\ \A j \in 1..(Len(s)-1) : t[j] = IF j < i THEN s[j] ELSE s[j+1]
    <3> DEFINE a == SubSeq(s, 1, i-1)
               b == SubSeq(s, i+1, Len(s))
    <3> HIDE DEF a, b
    <3>1. /\ a \in Seq(S) /\ Len(a) = i-1 /\ \A j \in 1..(i-1) : a[j] = s[j]
      BY <2>4 DEF a
    <3>2. /\ b \in Seq(S) /\ Len(b) = Len(s) - i /\ \A j \in 1..(Len(s)-i) : b[j] = s[i+j]
      BY <2>5 DEF b
    <3>3. /\ a \o b \in Seq(S)
          /\ Len(a \o b) = Len(a) + Len(b)
          /\ \A j \in 1..(Len(a) + Len(b)) :
                (a \o b)[j] = IF j <= Len(a) THEN a[j] ELSE b[j - Len(a)]
      BY <3>1, <3>2, ConcatProperties
    <3> DEFINE c == a \o b
    <3> HIDE DEF c
    <3>4. c \in Seq(S) /\ Len(c) = Len(s) - 1
      BY <3>1, <3>2, <3>3, <2>1 DEF c
    <3>5. \A j \in 1..(Len(s)-1) : c[j] = IF j < i THEN s[j] ELSE s[j+1]
      <4> SUFFICES ASSUME NEW j \in 1..(Len(s)-1)
                   PROVE c[j] = IF j < i THEN s[j] ELSE s[j+1]
        OBVIOUS
      <4>1. c[j] = IF j <= i-1 THEN a[j] ELSE b[j - (i-1)]
        BY <2>1, <3>1, <3>2, <3>3 DEF c
      <4>2. CASE j < i
        BY <2>1, <3>1, <4>1, <4>2
      <4>3. CASE ~(j < i)
        <5>1. j - (i-1) \in 1..(Len(s)-i) /\ i + (j - (i-1)) = j + 1
          BY <2>1, <4>3
        <5> QED BY <2>1, <3>2, <4>1, <4>3, <5>1
      <4> QED BY <4>2, <4>3
    <3> QED BY <3>4, <3>5 DEF a, b, c
  <2> HIDE DEF t
  <2>7. IsInjective(t)
    <3> SUFFICES ASSUME NEW a \in 1..(Len(s)-1), NEW b \in 1..(Len(s)-1), t[a] = t[b]
                 PROVE  a = b
      BY <2>6 DEF IsInjective
    <3> DEFINE p == IF a < i THEN a ELSE a+1
               q == IF b < i THEN b ELSE b+1
    <3>1. p \in DOMAIN s /\ q \in DOMAIN s
      BY <2>1
    <3>2. t[a] = s[p] /\ t[b] = s[q]
      BY <2>6
    <3>3. p = q
      <4> HIDE DEF p, q
      <4> QED BY <3>1, <3>2 DEF IsInjective
    <3>4. i \in Int /\ a \in Int /\ b \in Int
      BY <2>1
    <3> QED BY <3>3, <3>4
  <2>8. Range(t) = Range(s) \ {x}
    <3>1. ASSUME NEW y \in Range(t) PROVE y \in Range(s) \ {x}
      BY <2>1, <2>6 DEF Range, IsInjective
    <3>2. ASSUME NEW y \in Range(s), y # x PROVE y \in Range(t)
      <4>1. PICK k \in 1..Len(s) : s[k] = y
        BY DEF Range
      <4>2. CASE k < i
        BY <2>1, <2>6, <4>1, <4>2 DEF Range
      <4>3. CASE k > i
        <5>1. k-1 \in 1..Len(t) /\ t[k-1] = s[k]
          BY <2>1, <2>6, <4>3
        <5> QED BY <5>1, <4>1, <2>6 DEF Range
      <4> QED BY <2>1, <3>2, <4>1, <4>2, <4>3
    <3> QED BY <3>1, <3>2
  <2>9. x \in Range(s)
    BY <2>1 DEF Range
  <2>10. \A j \in 1..Len(t) : t[j] = s[j] \/ (j + 1 \in 1..Len(s) /\ t[j] = s[j+1])
    <3> SUFFICES ASSUME NEW j \in 1..Len(t)
                 PROVE t[j] = s[j] \/ (j + 1 \in 1..Len(s) /\ t[j] = s[j+1])
      OBVIOUS
    <3>1. j \in 1..(Len(s)-1) /\ j + 1 \in 1..Len(s)
      BY <2>1, <2>6
    <3> QED BY <2>6, <3>1
  <2> QED BY <2>3, <2>6, <2>7, <2>8, <2>9, <2>10
<1> QED BY <1>1, <1>2

(* Putting a new id in front of such a list. *)
LEMMA InsertFirstProperties ==
    ASSUME NEW S, NEW s \in Seq(S), IsInjective(s), NEW x \in S, x \notin Range(s)
    PROVE  /\ <<x>> \o s \in Seq(S)
           /\ IsInjective(<<x>> \o s)
           /\ Range(<<x>> \o s) = Range(s) \cup {x}
           /\ Len(<<x>> \o s) = Len(s) + 1
           /\ \A j \in 1..Len(s) : (<<x>> \o s)[j+1] = s[j]
<1> DEFINE t == <<x>> \o s
<1>1. <<x>> \in Seq(S) /\ Len(<<x>>) = 1 /\ <<x>>[1] = x
  OBVIOUS
<1>2. /\ t \in Seq(S)
      /\ Len(t) = 1 + Len(s)
      /\ \A j \in 1..(1 + Len(s)) : t[j] = IF j <= 1 THEN <<x>>[j] ELSE s[j - 1]
  BY <1>1, ConcatProperties
<1> HIDE DEF t
<1>3. Len(s) \in Nat /\ DOMAIN s = 1..Len(s) /\ DOMAIN t = 1..Len(t)
  BY <1>2, LenProperties
<1>4. t[1] = x /\ \A j \in 1..Len(s) : j+1 \in 1..(1 + Len(s)) /\ t[j+1] = s[j]
  BY <1>1, <1>2, <1>3
<1>5. \A j \in DOMAIN t : j = 1 \/ (j-1 \in DOMAIN s /\ t[j] = s[j-1])
  BY <1>2, <1>3
<1>6. IsInjective(t)
  <2> SUFFICES ASSUME NEW a \in DOMAIN t, NEW b \in DOMAIN t, t[a] = t[b] PROVE a = b
    BY DEF IsInjective
  <2>1. CASE a = 1 \/ b = 1
    BY <1>4, <1>5, <2>1 DEF Range
  <2>2. CASE a # 1 /\ b # 1
    <3>1. a-1 \in DOMAIN s /\ b-1 \in DOMAIN s /\ s[a-1] = s[b-1]
      BY <1>5, <2>2
    <3>2. a-1 = b-1
      BY <3>1 DEF IsInjective
    <3> QED BY <3>2, <1>2, <1>3
  <2> QED BY <2>1, <2>2
<1>7. Range(t) = Range(s) \cup {x}
  <2>1. ASSUME NEW y \in Range(t) PROVE y \in Range(s) \cup {x}
    BY <1>4, <1>5 DEF Range
  <2>2. x \in Range(t)
    BY <1>2, <1>3, <1>4 DEF Range
  <2>3. ASSUME NEW y \in Range(s) PROVE y \in Range(t)
    <3>1. PICK j \in 1..Len(s) : s[j] = y
      BY <1>3 DEF Range
    <3>2. j+1 \in DOMAIN t /\ t[j+1] = y
      BY <3>1, <1>2, <1>3, <1>4
    <3> QED BY <3>2 DEF Range
  <2> QED BY <2>1, <2>2, <2>3
<1>8. Len(t) = Len(s) + 1
  BY <1>2, <1>3
<1> QED BY <1>2, <1>4, <1>6, <1>7, <1>8 DEF t

(* A set of indices that is not empty has a greatest one: the indices from *)
(* one on form a chain of finite sets, and the least of them starts there. *)
LEMMA GreatestIndex ==
    ASSUME NEW n \in Nat, NEW I \in SUBSET (1..n), I # {}
    PROVE  \E i \in I : \A j \in I : j <= i
<1> DEFINE from(i) == {j \in I : i <= j}
           chain == {from(i) : i \in I}
<1>1. IsFiniteSet(1..n)
  BY FS_Interval
<1>2. chain \subseteq FiniteSubsetsOf(1..n)
  <2> SUFFICES ASSUME NEW i \in I PROVE from(i) \in FiniteSubsetsOf(1..n)
    OBVIOUS
  <2> QED BY <1>1, FS_Subset DEF FiniteSubsetsOf
<1>3. chain # {}
  OBVIOUS
<1>4. PICK C \in chain : \A D \in chain : <<D, C>> \notin StrictSubsetOrdering(1..n)
  BY <1>2, <1>3, WFMin, FS_StrictSubsetOrderingWellFounded
<1>5. PICK i \in I : C = from(i)
  OBVIOUS
<1>6. ASSUME NEW j \in I, ~(j <= i) PROVE FALSE
  <2>1. i \in from(i) /\ i \notin from(j) /\ from(j) \subseteq from(i)
    <3>1. \A k \in I : k \in Int
      OBVIOUS
    <3>2. i < j
      BY <1>6, <3>1
    <3>3. i \in from(i)
      BY <3>1
    <3>4. i \notin from(j)
      BY <3>1, <3>2
    <3>5. from(j) \subseteq from(i)
      <4> SUFFICES ASSUME NEW k \in from(j) PROVE k \in from(i)
        OBVIOUS
      <4>1. k \in I /\ j <= k
        OBVIOUS
      <4>2. i <= k
        BY <3>1, <3>2, <4>1
      <4> QED BY <4>1, <4>2
    <3> QED BY <3>3, <3>4, <3>5
  <2>2. from(j) \in FiniteSubsetsOf(1..n) /\ from(i) \in FiniteSubsetsOf(1..n)
    BY <1>2
  <2>3. <<from(j), from(i)>> \in StrictSubsetOrdering(1..n)
    BY <2>1, <2>2 DEF StrictSubsetOrdering, FiniteSubsetsOf
  <2> QED BY <1>4, <1>5, <2>3
<1> QED BY <1>6

(* A list without repetition is as long as what it names is many. *)
LEMMA InjectiveCounts ==
    ASSUME NEW S, NEW s \in Seq(S), IsInjective(s)
    PROVE  Cardinality(Range(s)) = Len(s)
<1>1. Len(s) \in Nat /\ DOMAIN s = 1..Len(s)
  OBVIOUS
<1>2. s \in Bijection(1..Len(s), Range(s))
  BY <1>1 DEF Bijection, Injection, Surjection, IsInjective, Range
<1>3. ExistsBijection(1..Len(s), Range(s))
  BY <1>2 DEF ExistsBijection
<1> QED BY <1>1, <1>3, FS_CountingElements

-----------------------------------------------------------------------------

LEMMA PersistTyped ==
    ASSUME NEW d, Typed(d), Coherent(d)
    PROVE  /\ Persist(d) = [d EXCEPT !.saved = Persist(d).saved]
           /\ Persist(d).saved \in Document
<1> DEFINE entry(i) == [id       |-> d.history[i],
                        app      |-> d.records[d.history[i]].app,
                        critical |-> d.records[d.history[i]].critical]
           entries == [i \in DOMAIN d.history |-> entry(i)]
           doc == [dnd |-> d.dnd, next |-> d.next, history |-> entries]
<1>1. entries \in Seq(Entry)
  <2>1. DOMAIN d.history = 1..Len(d.history) /\ Len(d.history) \in Nat
    BY DEF Typed
  <2>2. \A i \in DOMAIN d.history : entry(i) \in Entry
    <3> SUFFICES ASSUME NEW i \in DOMAIN d.history PROVE entry(i) \in Entry
      OBVIOUS
    <3>1. d.history[i] \in Ids /\ d.history[i] \in DOMAIN d.records
      BY DEF Typed, Coherent, Range
    <3>2. d.records[d.history[i]] \in Record
      BY <3>1 DEF Typed
    <3> QED BY <3>1, <3>2 DEF Entry, Record
  <2>3. entries \in [1..Len(d.history) -> Entry]
    BY <2>1, <2>2
  <2> QED BY <2>1, <2>3, SeqDef
<1>2. doc \in Document
  BY <1>1 DEF Document, Typed
<1>3. Persist(d) = [d EXCEPT !.saved = doc]
  BY DEF Persist
<1>4. Persist(d).saved = doc
  BY <1>3 DEF Typed
<1> QED BY <1>2, <1>3, <1>4

Good(d) == Typed(d) /\ Coherent(d) /\ Filed(d) /\ Timed(d)

LEMMA RemoveToastEffect ==
    ASSUME NEW d, Typed(d), Coherent(d), NEW id
    PROVE  /\ Typed(RemoveToast(d, id))
           /\ Coherent(RemoveToast(d, id))
           /\ Filed(d) => Filed(RemoveToast(d, id))
           /\ Timed(d) => Timed(RemoveToast(d, id))
           /\ RemoveToast(d, id).history = d.history
           /\ RemoveToast(d, id).records = d.records
           /\ RemoveToast(d, id).unseen = d.unseen
           /\ Range(RemoveToast(d, id).toasts) = Range(d.toasts) \ {id}
           /\ RemoveToast(d, id).toasts = RemoveFirst(d.toasts, id)
           /\ \A x \in Range(d.toasts) \ {id} : RemoveToast(d, id).timer[x] = d.timer[x]
<1> DEFINE e == RemoveToast(d, id)
           toasts == RemoveFirst(d.toasts, id)
           timer == [x \in DOMAIN d.timer \ {id} |-> d.timer[x]]
<1>1. e = [d EXCEPT !.toasts = toasts, !.timer = timer]
  BY DEF RemoveToast
<1>2. DOMAIN e = DOMAIN d /\ e.toasts = toasts /\ e.timer = timer
  BY <1>1 DEF Typed
<1>3. /\ e.connected = d.connected /\ e.dnd = d.dnd /\ e.next = d.next
      /\ e.history = d.history /\ e.records = d.records /\ e.unseen = d.unseen
      /\ e.saved = d.saved /\ e.signals = d.signals /\ e.reply = d.reply
  BY <1>1 DEF Typed
<1>4. /\ toasts \in Seq(Ids)
      /\ IsInjective(toasts)
      /\ Range(toasts) = Range(d.toasts) \ {id}
  BY RemoveFirstProperties DEF Typed, Coherent
<1> HIDE DEF e, toasts
<1>5. Typed(e)
  BY <1>2, <1>3, <1>4 DEF Typed
<1>6. Coherent(e)
  BY <1>2, <1>3, <1>4 DEF Coherent
<1>7. (Filed(d) => Filed(e)) /\ (Timed(d) => Timed(e))
  BY <1>2, <1>3 DEF Filed, Timed
<1>8. \A x \in Range(d.toasts) \ {id} : e.timer[x] = d.timer[x]
  BY <1>2 DEF Coherent
<1> QED BY <1>2, <1>3, <1>4, <1>5, <1>6, <1>7, <1>8 DEF e, toasts

LEMMA CloseEffect ==
    ASSUME NEW d, Typed(d), Coherent(d), NEW id, NEW reason \in Reasons
    PROVE  /\ Typed(Close(d, id, reason))
           /\ Coherent(Close(d, id, reason))
           /\ Filed(d) => Filed(Close(d, id, reason))
           /\ Timed(d) => Timed(Close(d, id, reason))
           /\ Close(d, id, reason).history = RemoveFirst(d.history, id)
           /\ Close(d, id, reason).toasts = RemoveFirst(d.toasts, id)
           /\ DOMAIN Close(d, id, reason).records = DOMAIN d.records \ {id}
           /\ \A x \in DOMAIN d.records \ {id} :
                 Close(d, id, reason).records[x] = d.records[x]
           /\ \A x \in DOMAIN d.timer \ {id} :
                 Close(d, id, reason).timer[x] = d.timer[x]
<1>1. CASE id \notin DOMAIN d.records
  <2>1. Close(d, id, reason) = d
    BY <1>1 DEF Close
  <2>2. id \notin Range(d.history) /\ id \notin Range(d.toasts)
    BY <1>1 DEF Coherent
  <2>3. RemoveFirst(d.history, id) = d.history /\ RemoveFirst(d.toasts, id) = d.toasts
    BY <2>2, RemoveFirstProperties DEF Typed, Coherent
  <2> QED BY <1>1, <2>1, <2>3
<1>2. CASE id \in DOMAIN d.records
  <2> DEFINE e == RemoveToast(d, id)
             history == RemoveFirst(d.history, id)
             records == [x \in DOMAIN e.records \ {id} |-> e.records[x]]
             unseen == UnseenAfterClose(e.unseen, Len(history))
             gone == [e EXCEPT !.records = records, !.history = history, !.unseen = unseen]
             told == EmitClosed(gone, id, reason)
  <2>1. /\ Typed(e) /\ Coherent(e) /\ (Filed(d) => Filed(e)) /\ (Timed(d) => Timed(e))
        /\ e.toasts = RemoveFirst(d.toasts, id)
        /\ Range(e.toasts) = Range(d.toasts) \ {id}
        /\ \A x \in Range(d.toasts) \ {id} : e.timer[x] = d.timer[x]
    BY RemoveToastEffect
  <2>2. e.history = d.history /\ e.records = d.records
    BY RemoveToastEffect
  <2>3. /\ history \in Seq(Ids) /\ IsInjective(history)
        /\ Range(history) = Range(d.history) \ {id}
    BY RemoveFirstProperties DEF Typed, Coherent
  <2>4. unseen \in Nat
    <3>1. Len(history) \in Nat
      BY <2>3
    <3> QED BY <2>1, <3>1 DEF UnseenAfterClose, Smaller, Typed
  <2> HIDE DEF e, history, unseen
  <2>5. /\ DOMAIN gone = DOMAIN e /\ gone.records = records
        /\ gone.history = history /\ gone.unseen = unseen
        /\ gone.connected = e.connected /\ gone.dnd = e.dnd /\ gone.next = e.next
        /\ gone.toasts = e.toasts /\ gone.timer = e.timer /\ gone.saved = e.saved
        /\ gone.signals = e.signals /\ gone.reply = e.reply
    BY <2>1 DEF Typed
  <2>6. DOMAIN records = DOMAIN d.records \ {id}
        /\ \A x \in DOMAIN d.records \ {id} : records[x] = d.records[x]
    BY <2>2
  <2> HIDE DEF records, gone
  <2>7. Typed(gone)
    BY <2>1, <2>2, <2>3, <2>4, <2>5, <2>6 DEF Typed
  <2>8. Coherent(gone)
    BY <2>1, <2>2, <2>3, <2>5, <2>6 DEF Coherent
  <2>9. Filed(d) => Filed(gone)
    BY <2>2, <2>3, <2>5, <2>6 DEF Filed
  <2>10. Timed(d) => Timed(gone)
    BY <2>1, <2>2, <2>5, <2>6 DEF Timed, Coherent
  <2>11. /\ Typed(told) /\ told.history = gone.history /\ told.toasts = gone.toasts
         /\ told.records = gone.records /\ told.timer = gone.timer
    <3>1. CASE ~gone.connected
      BY <3>1, <2>7 DEF EmitClosed
    <3>2. CASE gone.connected
      <4> DEFINE signals == Append(gone.signals, [id |-> id, reason |-> reason])
      <4>1. signals \in Seq(Signal)
        <5>1. [id |-> id, reason |-> reason] \in Signal
          BY <1>2 DEF Signal, Typed
        <5>2. gone.signals \in Seq(Signal)
          BY <2>7 DEF Typed
        <5> QED BY <5>1, <5>2, AppendProperties
      <4>2. told = [gone EXCEPT !.signals = signals]
        BY <3>2 DEF EmitClosed
      <4> HIDE DEF signals, told
      <4> QED BY <2>7, <4>1, <4>2 DEF Typed
    <3> QED BY <3>1, <3>2, <2>7 DEF Typed
  <2> HIDE DEF told
  <2>12. Coherent(told) /\ (Filed(d) => Filed(told)) /\ (Timed(d) => Timed(told))
    BY <2>8, <2>9, <2>10, <2>11 DEF Coherent, Filed, Timed
  <2>13. \/ Close(d, id, reason) = told
         \/ Close(d, id, reason) = Persist(told)
    BY <1>2 DEF Close, told, gone, records, unseen, history, e
  <2> DEFINE kept == Persist(told)
  <2>14. /\ Typed(kept) /\ Coherent(kept) /\ (Filed(told) => Filed(kept))
         /\ (Timed(told) => Timed(kept))
         /\ kept.history = told.history /\ kept.toasts = told.toasts
         /\ kept.records = told.records /\ kept.timer = told.timer
    <3>1. kept = [told EXCEPT !.saved = kept.saved] /\ kept.saved \in Document
      BY <2>11, <2>12, PersistTyped
    <3> HIDE DEF kept
    <3>2. /\ DOMAIN kept = DOMAIN told
          /\ kept.history = told.history /\ kept.toasts = told.toasts
          /\ kept.records = told.records /\ kept.timer = told.timer
      BY <3>1, <2>11 DEF Typed
    <3>3. Typed(kept)
      BY <3>1, <2>11 DEF Typed
    <3> QED BY <3>2, <3>3, <2>12 DEF Coherent, Filed, Timed
  <2> HIDE DEF kept
  <2>15. /\ told.history = RemoveFirst(d.history, id)
         /\ told.toasts = RemoveFirst(d.toasts, id)
         /\ DOMAIN told.records = DOMAIN d.records \ {id}
         /\ \A x \in DOMAIN d.records \ {id} : told.records[x] = d.records[x]
    BY <2>1, <2>5, <2>6, <2>11 DEF history
  <2>16. \A x \in DOMAIN d.timer \ {id} : told.timer[x] = d.timer[x]
    BY <2>1, <2>5, <2>11 DEF Coherent
  <2> QED BY <2>11, <2>12, <2>13, <2>14, <2>15, <2>16 DEF kept
<1> QED BY <1>1, <1>2

LEMMA DismissToastEffect ==
    ASSUME NEW d, Good(d), NEW id, NEW reason \in Reasons
    PROVE  /\ Good(DismissToast(d, id, reason))
           /\ DismissToast(d, id, reason).toasts = RemoveFirst(d.toasts, id)
           /\ \/ DismissToast(d, id, reason).history = d.history
              \/ DismissToast(d, id, reason).history = RemoveFirst(d.history, id)
           /\ DOMAIN d.records \ {id} \subseteq DOMAIN DismissToast(d, id, reason).records
           /\ \A x \in DOMAIN d.records \ {id} :
                 DismissToast(d, id, reason).records[x] = d.records[x]
<1> DEFINE e == RemoveToast(d, id)
           c == Close(e, id, reason)
<1>1. d.toasts \in Seq(Ids) /\ IsInjective(d.toasts)
  BY DEF Good, Typed, Coherent
<1>2. CASE ~Contains(d.toasts, id)
  <2>1. id \notin Range(d.toasts)
    BY <1>1, <1>2 DEF Contains, Range
  <2>2. RemoveFirst(d.toasts, id) = d.toasts
    BY <1>1, <2>1, RemoveFirstProperties
  <2> QED BY <1>2, <2>2 DEF DismissToast
<1>3. CASE Contains(d.toasts, id)
  <2>1. /\ Good(e) /\ e.toasts = RemoveFirst(d.toasts, id)
        /\ Range(e.toasts) = Range(d.toasts) \ {id}
        /\ e.history = d.history /\ e.records = d.records
    BY RemoveToastEffect DEF Good
  <2> HIDE DEF e
  <2>2. CASE Contains(e.history, id)
    BY <1>3, <2>1, <2>2 DEF DismissToast, e
  <2>3. CASE ~Contains(e.history, id)
    <3>1. DismissToast(d, id, reason) = c
      BY <1>3, <2>3 DEF DismissToast, e
    <3>2. /\ Good(c) /\ c.toasts = RemoveFirst(e.toasts, id)
          /\ c.history = RemoveFirst(e.history, id)
          /\ DOMAIN c.records = DOMAIN e.records \ {id}
          /\ \A x \in DOMAIN e.records \ {id} : c.records[x] = e.records[x]
      BY <2>1, CloseEffect DEF Good
    <3>3. RemoveFirst(e.toasts, id) = e.toasts
      <4>1. e.toasts \in Seq(Ids) /\ IsInjective(e.toasts) /\ id \notin Range(e.toasts)
        BY <2>1 DEF Good, Typed, Coherent
      <4> QED BY <4>1, RemoveFirstProperties
    <3> HIDE DEF c
    <3> QED BY <2>1, <3>1, <3>2, <3>3
  <2> QED BY <2>2, <2>3
<1> QED BY <1>2, <1>3

LEMMA SetPausedEffect ==
    ASSUME NEW d, Good(d), NEW id, NEW paused \in BOOLEAN
    PROVE  /\ Good(SetPaused(d, id, paused))
           /\ SetPaused(d, id, paused).toasts = d.toasts
           /\ SetPaused(d, id, paused).history = d.history
<1>1. CASE ~Contains(d.toasts, id)
  BY <1>1 DEF SetPaused
<1>2. CASE Contains(d.toasts, id)
  <2> DEFINE running == ~paused /\ d.timer[id].expires
             timer == [d.timer EXCEPT ![id].running = running]
             e == [d EXCEPT !.timer[id].running = running]
  <2>1. id \in DOMAIN d.timer
    BY <1>2 DEF Good, Typed, Coherent, Contains, Range
  <2>2. d.timer[id] \in Timer
    BY <2>1 DEF Good, Typed
  <2>3. running \in BOOLEAN
    BY <2>2 DEF Timer
  <2> HIDE DEF running
  <2>4. /\ DOMAIN timer = DOMAIN d.timer
        /\ \A x \in DOMAIN d.timer : /\ timer[x] \in Timer
                                     /\ timer[x].expires = d.timer[x].expires
    BY <2>1, <2>2, <2>3 DEF Good, Typed, Timer
  <2>5. e = [d EXCEPT !.timer = timer]
    BY DEF Good, Typed
  <2> HIDE DEF timer, e
  <2>6. /\ DOMAIN e = DOMAIN d /\ e.timer = timer
        /\ e.connected = d.connected /\ e.dnd = d.dnd /\ e.next = d.next
        /\ e.history = d.history /\ e.toasts = d.toasts /\ e.records = d.records
        /\ e.unseen = d.unseen /\ e.saved = d.saved
        /\ e.signals = d.signals /\ e.reply = d.reply
    BY <2>5 DEF Good, Typed
  <2>7. Typed(e)
    BY <2>4, <2>6 DEF Good, Typed
  <2>8. Coherent(e) /\ Filed(e) /\ Timed(e)
    BY <2>4, <2>6 DEF Good, Coherent, Filed, Timed
  <2>9. SetPaused(d, id, paused) = e
    BY <1>2 DEF SetPaused, e, running
  <2> QED BY <2>6, <2>7, <2>8, <2>9 DEF Good
<1> QED BY <1>1, <1>2

Fits(d) == Len(d.toasts) <= MaxToasts

LEMMA RaiseEffect ==
    ASSUME NEW d, Good(d), NEW id \in DOMAIN d.records, id \notin Range(d.toasts),
           NEW timer \in Timer, d.records[id].critical <=> ~timer.expires,
           Len(d.toasts) < MaxToasts
    PROVE  /\ Good(Raise(d, id, timer))
           /\ Fits(Raise(d, id, timer))
           /\ Raise(d, id, timer).history = d.history
<1> DEFINE e == Raise(d, id, timer)
           toasts == <<id>> \o d.toasts
           timers == [x \in DOMAIN d.timer \cup {id} |-> IF x = id THEN timer ELSE d.timer[x]]
<1>1. id \in Ids
  BY DEF Good, Typed
<1>2. /\ toasts \in Seq(Ids) /\ IsInjective(toasts)
      /\ Range(toasts) = Range(d.toasts) \cup {id}
      /\ Len(toasts) = Len(d.toasts) + 1
  BY <1>1, InsertFirstProperties DEF Good, Typed, Coherent
<1>3. e = [d EXCEPT !.toasts = toasts, !.timer = timers]
  BY DEF Raise
<1> HIDE DEF e, toasts, timers
<1>4. /\ DOMAIN e = DOMAIN d /\ e.toasts = toasts /\ e.timer = timers
      /\ e.connected = d.connected /\ e.dnd = d.dnd /\ e.next = d.next
      /\ e.history = d.history /\ e.records = d.records /\ e.unseen = d.unseen
      /\ e.saved = d.saved /\ e.signals = d.signals /\ e.reply = d.reply
  BY <1>3 DEF Good, Typed
<1>5. /\ DOMAIN timers = Range(toasts)
      /\ \A x \in DOMAIN timers : timers[x] \in Timer
      /\ \A x \in DOMAIN timers : d.records[x].critical <=> ~timers[x].expires
  BY <1>2 DEF timers, Good, Typed, Coherent, Timed
<1>9. DOMAIN timers \subseteq Ids
  BY <1>1 DEF timers, Good, Typed
<1>6. Typed(e)
  BY <1>2, <1>4, <1>5, <1>9 DEF Good, Typed
<1>7. Coherent(e) /\ Filed(e) /\ Timed(e)
  BY <1>2, <1>4, <1>5 DEF Good, Coherent, Filed, Timed
<1>8. Fits(e)
  <2>1. Len(d.toasts) \in Nat /\ MaxToasts \in Nat
    BY ConstantsAssumption DEF Good, Typed
  <2> QED BY <1>2, <1>4, <2>1 DEF Fits
<1> QED BY <1>4, <1>6, <1>7, <1>8 DEF Good, e

LEMMA AdmitReplaces ==
    ASSUME NEW n \in Nat, NEW critical \in [1..n -> BOOLEAN], NEW incoming \in BOOLEAN,
           Admit(critical, incoming).kind = "replace"
    PROVE  /\ Admit(critical, incoming).index \in 1..n
           /\ ~critical[Admit(critical, incoming).index]
<1> DEFINE ordinary == {i \in 1..n : ~critical[i]}
           index == CHOOSE i \in ordinary : \A j \in ordinary : j <= i
<1>1. Len(critical) \in Nat /\ Len(critical) = n /\ DOMAIN critical = 1..n
  OBVIOUS
<1>2. MaxToasts \in Nat
  BY ConstantsAssumption
<1>3. ordinary # {} /\ Admit(critical, incoming).index = index
  BY <1>1, <1>2 DEF Admit
<1>4. \E i \in ordinary : \A j \in ordinary : j <= i
  BY <1>3, GreatestIndex
<1>5. index \in ordinary
  BY <1>4
<1> QED BY <1>3, <1>5

LEMMA AdmitFills ==
    ASSUME NEW n \in Nat, NEW critical \in [1..n -> BOOLEAN],
           Admit(critical, TRUE).kind = "full"
    PROVE  n >= MaxToasts /\ \A i \in 1..n : critical[i]
<1>1. Len(critical) = n /\ DOMAIN critical = 1..n
  OBVIOUS
<1>2. MaxToasts \in Nat
  BY ConstantsAssumption
<1> DEFINE ordinary == {i \in DOMAIN critical : ~critical[i]}
<1>3. n >= MaxToasts
  BY <1>1, <1>2 DEF Admit
<1>4. ordinary = {}
  BY <1>1, <1>2, <1>3 DEF Admit
<1> QED BY <1>1, <1>3, <1>4

LEMMA ShowToastEffect ==
    ASSUME NEW d, Typed(d), Coherent(d), Filed(d), Fits(d),
           NEW id \in DOMAIN d.records, NEW timer \in Timer,
           \A x \in DOMAIN d.timer \ {id} : d.records[x].critical <=> ~d.timer[x].expires,
           NEW critical \in BOOLEAN, critical = d.records[id].critical,
           critical <=> ~timer.expires
    PROVE  /\ Good(ShowToast(d, id, critical, timer))
           /\ Fits(ShowToast(d, id, critical, timer))
           /\ \/ ShowToast(d, id, critical, timer).history = d.history
              \/ \E y : ShowToast(d, id, critical, timer).history = RemoveFirst(d.history, y)
<1> DEFINE stack == [i \in DOMAIN d.toasts |-> d.records[d.toasts[i]].critical]
           place == Admit(stack, critical)
<1>1. /\ d.toasts \in Seq(Ids) /\ IsInjective(d.toasts) /\ Len(d.toasts) \in Nat
      /\ DOMAIN d.toasts = 1..Len(d.toasts)
  BY DEF Typed, Coherent
<1>2. stack \in [1..Len(d.toasts) -> BOOLEAN]
  <2> SUFFICES ASSUME NEW i \in DOMAIN d.toasts PROVE d.records[d.toasts[i]].critical \in BOOLEAN
    BY <1>1
  <2>1. d.toasts[i] \in DOMAIN d.records
    BY DEF Coherent, Range
  <2>2. d.records[d.toasts[i]] \in Record
    BY <2>1 DEF Typed
  <2> QED BY <2>2 DEF Record
<1>3. Len(stack) = Len(d.toasts)
  BY <1>1, <1>2
<1>4. CASE Contains(d.toasts, id)
  <2> DEFINE timers == [d.timer EXCEPT ![id] = timer]
             e == [d EXCEPT !.timer[id] = timer]
  <2>1. id \in DOMAIN d.timer
    BY <1>1, <1>4 DEF Coherent, Contains, Range
  <2>2. e = [d EXCEPT !.timer = timers]
    BY DEF Typed
  <2>3. /\ DOMAIN timers = DOMAIN d.timer
        /\ \A x \in DOMAIN d.timer : timers[x] \in Timer
        /\ \A x \in DOMAIN d.timer : d.records[x].critical <=> ~timers[x].expires
    BY <2>1 DEF Typed
  <2> HIDE DEF timers, e
  <2>4. /\ DOMAIN e = DOMAIN d /\ e.timer = timers
        /\ e.connected = d.connected /\ e.dnd = d.dnd /\ e.next = d.next
        /\ e.history = d.history /\ e.toasts = d.toasts /\ e.records = d.records
        /\ e.unseen = d.unseen /\ e.saved = d.saved
        /\ e.signals = d.signals /\ e.reply = d.reply
    BY <2>2 DEF Typed
  <2>5. Typed(e)
    BY <2>3, <2>4 DEF Typed
  <2>6. Coherent(e) /\ Filed(e) /\ Timed(e) /\ Fits(e)
    BY <2>3, <2>4 DEF Coherent, Filed, Timed, Fits
  <2>7. ShowToast(d, id, critical, timer) = e
    BY <1>4 DEF ShowToast, e
  <2> QED BY <2>4, <2>5, <2>6, <2>7 DEF Good
<1>5. CASE ~Contains(d.toasts, id)
  <2>1. id \notin Range(d.toasts) /\ id \notin DOMAIN d.timer
    BY <1>1, <1>5 DEF Contains, Range, Coherent
  <2>2. Good(d)
    BY <2>1 DEF Good, Timed
  <2>3. place.kind \in {"room", "replace", "full"}
    BY DEF Admit
  <2>4. CASE place.kind = "room"
    <3>1. Len(d.toasts) < MaxToasts
      BY <1>3, <2>4 DEF Admit
    <3>2. ShowToast(d, id, critical, timer) = Raise(d, id, timer)
      BY <1>5, <2>4 DEF ShowToast
    <3> QED BY <2>1, <2>2, <3>1, <3>2, RaiseEffect
  <2>5. CASE place.kind = "replace"
    <3> DEFINE out == d.toasts[place.index]
               c == DismissToast(d, out, "undefined")
    <3>1. place.index \in 1..Len(d.toasts)
      BY <1>1, <1>2, <2>5, AdmitReplaces
    <3>2. out \in Range(d.toasts) /\ out # id
      BY <1>1, <2>1, <3>1 DEF Range
    <3> HIDE DEF out
    <3>3. /\ Good(c) /\ c.toasts = RemoveFirst(d.toasts, out)
          /\ c.history = d.history \/ c.history = RemoveFirst(d.history, out)
          /\ id \in DOMAIN c.records /\ c.records[id] = d.records[id]
      BY <2>2, <3>2, DismissToastEffect DEF Reasons
    <3>4. /\ Range(c.toasts) = Range(d.toasts) \ {out}
          /\ Len(c.toasts) = Len(d.toasts) - 1
      BY <1>1, <3>2, <3>3, RemoveFirstProperties
    <3>5. Len(c.toasts) < MaxToasts
      BY <1>1, <3>4, ConstantsAssumption DEF Fits
    <3>6. ShowToast(d, id, critical, timer) = Raise(c, id, timer)
      BY <1>5, <2>5 DEF ShowToast, out
    <3> HIDE DEF c
    <3>7. Good(Raise(c, id, timer)) /\ Fits(Raise(c, id, timer))
          /\ Raise(c, id, timer).history = c.history
      BY <2>1, <3>3, <3>4, <3>5, RaiseEffect
    <3> QED BY <3>3, <3>6, <3>7
  <2>6. CASE place.kind = "full"
    <3>1. ShowToast(d, id, critical, timer) = d
      BY <1>5, <2>6 DEF ShowToast
    <3> QED BY <2>2, <3>1
  <2> HIDE DEF place
  <2> QED BY <2>3, <2>4, <2>5, <2>6
<1> QED BY <1>4, <1>5

-----------------------------------------------------------------------------
(* What the methods leave alone, and what they say on the bus.             *)

(* What the document says of one notification, and the whole document.     *)
Entered(d, id) == [id |-> id, app |-> d.records[id].app, critical |-> d.records[id].critical]
DocumentOf(d) ==
    [dnd |-> d.dnd, next |-> d.next,
     history |-> [i \in DOMAIN d.history |-> Entered(d, d.history[i])]]

(* A method that answers nobody and neither counts on nor flips a switch.  *)
Steady(d, e) ==
    e.connected = d.connected /\ e.dnd = d.dnd /\ e.next = d.next /\ e.reply = d.reply

(* From a daemon that has emitted nothing: nothing is emitted and, with a  *)
(* bus, nothing forgotten; or one end is emitted, and nothing else is      *)
(* forgotten.                                                              *)
Told(d, e) ==
    \/ /\ e.signals = << >>
       /\ d.connected => DOMAIN d.records \subseteq DOMAIN e.records
    \/ \E s \in Signal :
          /\ e.signals = <<s>>
          /\ s.id \notin DOMAIN e.records
          /\ DOMAIN d.records \ {s.id} \subseteq DOMAIN e.records

LEMMA PersistLeaves ==
    ASSUME NEW d, Typed(d)
    PROVE  /\ Persist(d).saved = DocumentOf(d) /\ Steady(d, Persist(d))
           /\ Persist(d).signals = d.signals /\ Persist(d).records = d.records
           /\ Persist(d).history = d.history /\ Persist(d).toasts = d.toasts
           /\ Persist(d).timer = d.timer
<1>1. Persist(d) = [d EXCEPT !.saved = DocumentOf(d)]
  BY DEF Persist, DocumentOf, Entered
<1> QED BY <1>1 DEF Typed, Steady

LEMMA RemoveToastLeaves ==
    ASSUME NEW d, Typed(d), NEW id
    PROVE  /\ Steady(d, RemoveToast(d, id)) /\ RemoveToast(d, id).saved = d.saved
           /\ RemoveToast(d, id).signals = d.signals
<1> DEFINE toasts == RemoveFirst(d.toasts, id)
           timer == [x \in DOMAIN d.timer \ {id} |-> d.timer[x]]
<1>1. RemoveToast(d, id) = [d EXCEPT !.toasts = toasts, !.timer = timer]
  BY DEF RemoveToast
<1> HIDE DEF toasts, timer
<1> QED BY <1>1 DEF Typed, Steady

(* Closing tells the sender of the one it forgets, and saves exactly when  *)
(* the history loses an entry.                                             *)
LEMMA CloseLeaves ==
    ASSUME NEW d, Typed(d), Coherent(d), d.signals = << >>, NEW id, NEW reason \in Reasons
    PROVE  /\ Steady(d, Close(d, id, reason))
           /\ Told(d, Close(d, id, reason))
           /\ id \notin Range(d.history) => Close(d, id, reason).saved = d.saved
           /\ id \in Range(d.history) =>
                 Close(d, id, reason).saved = DocumentOf(Close(d, id, reason))
<1> DEFINE c == Close(d, id, reason)
<1>1. CASE id \notin DOMAIN d.records
  <2>1. c = d
    BY <1>1 DEF Close
  <2>2. id \notin Range(d.history)
    BY <1>1 DEF Coherent
  <2> QED BY <1>1, <2>1, <2>2 DEF Steady, Told
<1>2. CASE id \in DOMAIN d.records
  <2> DEFINE e == RemoveToast(d, id)
             history == RemoveFirst(d.history, id)
             records == [x \in DOMAIN e.records \ {id} |-> e.records[x]]
             unseen == UnseenAfterClose(e.unseen, Len(history))
             gone == [e EXCEPT !.records = records, !.history = history, !.unseen = unseen]
             told == EmitClosed(gone, id, reason)
             signal == [id |-> id, reason |-> reason]
  <2>1. Steady(d, e) /\ e.saved = d.saved /\ e.signals = << >> /\ e.records = d.records
        /\ Typed(e)
    BY RemoveToastLeaves, RemoveToastEffect
  <2> HIDE DEF e, history, unseen
  <2>2. DOMAIN records = DOMAIN d.records \ {id}
    BY <2>1
  <2> HIDE DEF records
  <2>3. /\ DOMAIN gone = DOMAIN e /\ gone.records = records /\ gone.signals = << >>
        /\ Steady(d, gone) /\ gone.saved = d.saved
    BY <2>1 DEF Typed, Steady
  <2>4. signal \in Signal /\ signal.id = id
    BY <1>2 DEF Signal, Typed
  <2>5. /\ Steady(d, told) /\ told.saved = d.saved /\ told.records = records
        /\ told.signals = IF d.connected THEN <<signal>> ELSE << >>
        /\ DOMAIN told = DOMAIN gone
    <3>1. CASE ~gone.connected
      BY <3>1, <2>3 DEF EmitClosed, Steady
    <3>2. CASE gone.connected
      <4>1. told = [gone EXCEPT !.signals = Append(gone.signals, signal)]
        BY <3>2 DEF EmitClosed
      <4>2. Append(gone.signals, signal) = <<signal>>
        <5> HIDE DEF gone, signal
        <5>1. Append(<< >>, signal) = <<signal>>
          OBVIOUS
        <5> QED BY <2>3, <5>1
      <4>3. told = [gone EXCEPT !.signals = <<signal>>]
        BY <4>1, <4>2
      <4> HIDE DEF gone, told, signal
      <4> QED BY <2>1, <2>3, <3>2, <4>3 DEF Typed, Steady
    <3> QED BY <3>1, <3>2
  <2> HIDE DEF gone, told
  <2>6. c = IF Contains(d.history, id) THEN Persist(told) ELSE told
    BY <1>2 DEF Close, told, gone, records, unseen, history, e
  <2>7. Contains(d.history, id) <=> id \in Range(d.history)
    BY DEF Contains, Range
  <2>8. /\ Persist(told).saved = DocumentOf(told) /\ Steady(told, Persist(told))
        /\ Persist(told).signals = told.signals /\ Persist(told).records = records
        /\ DocumentOf(Persist(told)) = DocumentOf(told)
    <3>1. Persist(told) = [told EXCEPT !.saved = DocumentOf(told)]
      BY DEF Persist, DocumentOf, Entered
    <3>2. DOMAIN told = DOMAIN d
      BY <2>1, <2>3, <2>5 DEF Typed
    <3>3. /\ Persist(told).saved = DocumentOf(told) /\ Steady(told, Persist(told))
          /\ Persist(told).signals = told.signals /\ Persist(told).records = records
          /\ Persist(told).history = told.history
      BY <2>5, <3>1, <3>2 DEF Typed, Steady
    <3> QED BY <2>5, <3>3 DEF DocumentOf, Entered, Steady
  <2>9. /\ Steady(d, c) /\ c.records = records
        /\ c.signals = IF d.connected THEN <<signal>> ELSE << >>
        /\ id \notin Range(d.history) => c.saved = d.saved
        /\ id \in Range(d.history) => c.saved = DocumentOf(c)
    BY <2>5, <2>6, <2>7, <2>8 DEF Steady
  <2> HIDE DEF c, signal
  <2>10. Told(d, c)
    <3>1. CASE d.connected
      BY <2>2, <2>4, <2>9, <3>1 DEF Told
    <3>2. CASE ~d.connected
      BY <2>9, <3>2 DEF Told
    <3> QED BY <3>1, <3>2
  <2> QED BY <2>9, <2>10 DEF c
<1> QED BY <1>1, <1>2

(* A banner that is taken away closes nothing that is in the history.      *)
LEMMA DismissToastLeaves ==
    ASSUME NEW d, Typed(d), Coherent(d), d.signals = << >>, NEW id, NEW reason \in Reasons
    PROVE  /\ Steady(d, DismissToast(d, id, reason))
           /\ Told(d, DismissToast(d, id, reason))
           /\ DismissToast(d, id, reason).saved = d.saved
           /\ DismissToast(d, id, reason).history = d.history
           /\ DOMAIN DismissToast(d, id, reason).records \subseteq DOMAIN d.records
           /\ Typed(DismissToast(d, id, reason)) /\ Coherent(DismissToast(d, id, reason))
           /\ Range(DismissToast(d, id, reason).toasts) = Range(d.toasts) \ {id}
           /\ \A x \in Range(d.history) \cup (DOMAIN d.records \ {id}) :
                 /\ x \in DOMAIN DismissToast(d, id, reason).records
                 /\ DismissToast(d, id, reason).records[x] = d.records[x]
           /\ \A x \in DOMAIN d.timer \ {id} :
                 /\ x \in DOMAIN DismissToast(d, id, reason).timer
                 /\ DismissToast(d, id, reason).timer[x] = d.timer[x]
<1> DEFINE e == RemoveToast(d, id)
           c == Close(e, id, reason)
<1>1. CASE ~Contains(d.toasts, id)
  <2>1. DismissToast(d, id, reason) = d /\ id \notin Range(d.toasts)
    BY <1>1 DEF DismissToast, Contains, Range
  <2> QED BY <2>1 DEF Steady, Told, Coherent
<1>2. CASE Contains(d.toasts, id)
  <2>1. /\ Typed(e) /\ Coherent(e) /\ Steady(d, e) /\ e.saved = d.saved
        /\ e.signals = << >> /\ e.records = d.records /\ e.history = d.history
        /\ Range(e.toasts) = Range(d.toasts) \ {id}
        /\ \A x \in Range(d.toasts) \ {id} : e.timer[x] = d.timer[x]
    BY RemoveToastLeaves, RemoveToastEffect
  <2>2. \A x \in DOMAIN d.timer \ {id} : x \in DOMAIN e.timer /\ e.timer[x] = d.timer[x]
    BY <2>1 DEF Coherent
  <2> HIDE DEF e
  <2>3. CASE Contains(e.history, id)
    <3>1. DismissToast(d, id, reason) = e
      BY <1>2, <2>3 DEF DismissToast, e
    <3>2. Told(d, e)
      BY <2>1 DEF Told
    <3> QED BY <2>1, <2>2, <3>1, <3>2 DEF Coherent
  <2>4. CASE ~Contains(e.history, id)
    <3>1. DismissToast(d, id, reason) = c
      BY <1>2, <2>4 DEF DismissToast, e
    <3>2. id \notin Range(e.history)
      BY <2>4 DEF Contains, Range
    <3>3. /\ Steady(e, c) /\ Told(e, c) /\ c.saved = e.saved
          /\ Typed(c) /\ Coherent(c)
          /\ c.history = RemoveFirst(e.history, id)
          /\ c.toasts = RemoveFirst(e.toasts, id)
          /\ DOMAIN c.records = DOMAIN e.records \ {id}
          /\ \A x \in DOMAIN e.records \ {id} : c.records[x] = e.records[x]
          /\ \A x \in DOMAIN e.timer \ {id} : c.timer[x] = e.timer[x]
      BY <2>1, <3>2, CloseLeaves, CloseEffect
    <3> HIDE DEF c
    <3>4. /\ e.history \in Seq(Ids) /\ IsInjective(e.history)
          /\ e.toasts \in Seq(Ids) /\ IsInjective(e.toasts)
      BY <2>1 DEF Typed, Coherent
    <3>5. c.history = e.history /\ Range(c.toasts) = Range(e.toasts) \ {id}
      BY <3>2, <3>3, <3>4, RemoveFirstProperties
    <3>6. \A x \in Range(d.history) : x \in DOMAIN e.records \ {id}
      BY <2>1, <3>2 DEF Coherent
    <3>7. \A x \in DOMAIN e.timer \ {id} : x \in DOMAIN c.timer
      BY <2>1, <3>3, <3>5 DEF Coherent
    <3>8. Told(d, c)
      BY <2>1, <3>3 DEF Told, Steady
    <3>9. Steady(d, c)
      BY <2>1, <3>3 DEF Steady
    <3> QED BY <2>1, <2>2, <3>1, <3>3, <3>5, <3>6, <3>7, <3>8, <3>9
  <2> QED BY <2>3, <2>4
<1> QED BY <1>1, <1>2

CriticalToasts(d) == {x \in Range(d.toasts) : d.records[x].critical}

(* A banner is made room for without a word about anything in the history, *)
(* and a critical one without a critical one.                              *)
LEMMA ShowToastLeaves ==
    ASSUME NEW d, Typed(d), Coherent(d), d.signals = << >>,
           NEW id \in DOMAIN d.records, NEW timer, NEW critical \in BOOLEAN
    PROVE  LET e == ShowToast(d, id, critical, timer)
           IN  /\ Steady(d, e) /\ Told(d, e)
               /\ e.saved = d.saved /\ e.history = d.history
               /\ DOMAIN e.records \subseteq DOMAIN d.records
               /\ \A x \in Range(d.history) \cup {id} :
                     x \in DOMAIN e.records /\ e.records[x] = d.records[x]
               /\ critical =>
                     /\ CriticalToasts(d) \subseteq Range(e.toasts)
                     /\ \/ id \in Range(e.toasts)
                        \/ CriticalToasts(d) = Range(d.toasts) /\ Len(d.toasts) >= MaxToasts
<1> DEFINE stack == [i \in DOMAIN d.toasts |-> d.records[d.toasts[i]].critical]
           place == Admit(stack, critical)
           e == ShowToast(d, id, critical, timer)
<1>1. /\ d.toasts \in Seq(Ids) /\ IsInjective(d.toasts) /\ Len(d.toasts) \in Nat
      /\ DOMAIN d.toasts = 1..Len(d.toasts)
  BY DEF Typed, Coherent
<1>2. stack \in [1..Len(d.toasts) -> BOOLEAN]
  <2> SUFFICES ASSUME NEW i \in DOMAIN d.toasts PROVE d.records[d.toasts[i]].critical \in BOOLEAN
    BY <1>1
  <2>1. d.toasts[i] \in DOMAIN d.records
    BY DEF Coherent, Range
  <2>2. d.records[d.toasts[i]] \in Record
    BY <2>1 DEF Typed
  <2> QED BY <2>2 DEF Record
<1>3. ASSUME NEW b, Typed(b), Coherent(b), id \in Ids, id \notin Range(b.toasts)
      PROVE  /\ Steady(b, Raise(b, id, timer)) /\ Raise(b, id, timer).signals = b.signals
             /\ Raise(b, id, timer).saved = b.saved /\ Raise(b, id, timer).history = b.history
             /\ Raise(b, id, timer).records = b.records
             /\ Range(Raise(b, id, timer).toasts) = Range(b.toasts) \cup {id}
  <2> DEFINE toasts == <<id>> \o b.toasts
             timers == [x \in DOMAIN b.timer \cup {id} |-> IF x = id THEN timer ELSE b.timer[x]]
  <2>1. Range(toasts) = Range(b.toasts) \cup {id}
    BY <1>3, InsertFirstProperties DEF Typed, Coherent
  <2>2. Raise(b, id, timer) = [b EXCEPT !.toasts = toasts, !.timer = timers]
    BY DEF Raise
  <2> HIDE DEF toasts, timers
  <2> QED BY <1>3, <2>1, <2>2 DEF Typed, Steady
<1>4. id \in Ids
  BY DEF Typed
<1>5. CASE Contains(d.toasts, id)
  <2> DEFINE timers == [d.timer EXCEPT ![id] = timer]
  <2>1. id \in Range(d.toasts)
    BY <1>5 DEF Contains, Range
  <2>2. e = [d EXCEPT !.timer = timers]
    BY <1>5 DEF ShowToast, Typed
  <2> HIDE DEF timers, e
  <2>3. /\ Steady(d, e) /\ e.saved = d.saved /\ e.history = d.history
        /\ e.records = d.records /\ e.toasts = d.toasts /\ e.signals = d.signals
    BY <2>2 DEF Typed, Steady
  <2>4. Told(d, e)
    BY <2>3 DEF Told
  <2>5. CriticalToasts(d) \subseteq Range(e.toasts) /\ id \in Range(e.toasts)
    BY <2>1, <2>3 DEF CriticalToasts
  <2>6. \A x \in Range(d.history) \cup {id} : x \in DOMAIN e.records /\ e.records[x] = d.records[x]
    BY <2>3 DEF Coherent
  <2> QED BY <2>3, <2>4, <2>5, <2>6 DEF e
<1>6. CASE ~Contains(d.toasts, id)
  <2>1. id \notin Range(d.toasts)
    BY <1>1, <1>6 DEF Contains, Range
  <2>2. place.kind \in {"room", "replace", "full"}
    BY DEF Admit
  <2>3. CASE place.kind = "room"
    <3>1. e = Raise(d, id, timer)
      BY <1>6, <2>3 DEF ShowToast
    <3> QED BY <1>3, <1>4, <2>1, <3>1 DEF Told, Coherent, CriticalToasts
  <2>4. CASE place.kind = "replace"
    <3> DEFINE out == d.toasts[place.index]
               c == DismissToast(d, out, "undefined")
    <3>1. place.index \in 1..Len(d.toasts) /\ ~stack[place.index]
      BY <1>1, <1>2, <2>4, AdmitReplaces
    <3>2. out \in Range(d.toasts) /\ out # id /\ ~d.records[out].critical
      BY <1>1, <2>1, <3>1 DEF Range
    <3> HIDE DEF out
    <3>3. /\ Steady(d, c) /\ Told(d, c) /\ c.saved = d.saved /\ c.history = d.history
          /\ DOMAIN c.records \subseteq DOMAIN d.records
          /\ Typed(c) /\ Coherent(c)
          /\ Range(c.toasts) = Range(d.toasts) \ {out}
          /\ \A x \in Range(d.history) \cup (DOMAIN d.records \ {out}) :
                x \in DOMAIN c.records /\ c.records[x] = d.records[x]
      BY DismissToastLeaves DEF Reasons
    <3>4. e = Raise(c, id, timer)
      BY <1>6, <2>4 DEF ShowToast, out
    <3> HIDE DEF c, e
    <3>5. /\ Steady(c, e) /\ e.signals = c.signals /\ e.saved = c.saved
          /\ e.history = c.history /\ e.records = c.records
          /\ Range(e.toasts) = Range(c.toasts) \cup {id}
      BY <1>3, <1>4, <2>1, <3>3, <3>4
    <3>6. Steady(d, e) /\ Told(d, e)
      BY <3>3, <3>5 DEF Steady, Told
    <3>7. CriticalToasts(d) \subseteq Range(e.toasts)
      BY <3>2, <3>3, <3>5 DEF CriticalToasts
    <3> QED BY <3>2, <3>3, <3>5, <3>6, <3>7 DEF e, Coherent
  <2>5. CASE place.kind = "full"
    <3>1. e = d
      BY <1>6, <2>5 DEF ShowToast
    <3>2. critical => Len(d.toasts) >= MaxToasts /\ \A i \in 1..Len(d.toasts) : stack[i]
      <4> SUFFICES ASSUME critical
                   PROVE  Len(d.toasts) >= MaxToasts /\ \A i \in 1..Len(d.toasts) : stack[i]
        OBVIOUS
      <4> HIDE DEF stack
      <4>1. Admit(stack, TRUE).kind = "full"
        BY <2>5
      <4> QED BY <1>1, <1>2, <4>1, AdmitFills
    <3>3. critical => CriticalToasts(d) = Range(d.toasts)
      BY <1>1, <3>2 DEF CriticalToasts, Range
    <3> QED BY <3>1, <3>2, <3>3 DEF Steady, Told, Coherent, CriticalToasts
  <2> HIDE DEF place
  <2> QED BY <2>2, <2>3, <2>4, <2>5
<1> QED BY <1>5, <1>6

LEMMA OverflowShrinks ==
    ASSUME NEW h \in Seq(Ids), IsInjective(h), NEW x
    PROVE  Overflow(RemoveFirst(h, x)) \subseteq Overflow(h) \ {x}
<1> DEFINE r == RemoveFirst(h, x)
<1>1. /\ r \in Seq(Ids) /\ Range(r) = Range(h) \ {x}
      /\ \A j \in 1..Len(r) :
            r[j] = h[j] \/ (j+1 \in 1..Len(h) /\ r[j] = h[j+1])
      /\ x \in Range(h) => Len(r) = Len(h) - 1
      /\ x \notin Range(h) => r = h
  BY RemoveFirstProperties
<1> HIDE DEF r
<1>2. MaxHistory \in Nat /\ Len(h) \in Nat /\ Len(r) \in Nat /\ Len(r) <= Len(h)
  BY <1>1, ConstantsAssumption
<1>3. DOMAIN r = 1..Len(r) /\ DOMAIN h = 1..Len(h)
  BY <1>1
<1>4. ASSUME NEW j \in DOMAIN r, j > MaxHistory PROVE r[j] \in Overflow(h) \ {x}
  <2>1. r[j] # x
    BY <1>1 DEF Range
  <2>2. CASE r[j] = h[j]
    BY <1>2, <1>3, <1>4, <2>1, <2>2 DEF Overflow
  <2>3. CASE j+1 \in 1..Len(h) /\ r[j] = h[j+1]
    <3>1. j+1 > MaxHistory
      BY <1>2, <1>3, <1>4
    <3> QED BY <1>3, <2>1, <2>3, <3>1 DEF Overflow
  <2> QED BY <1>1, <1>3, <2>2, <2>3
<1> QED BY <1>4 DEF Overflow, r

LEMMA NothingOverflows ==
    ASSUME NEW h \in Seq(Ids), Overflow(h) = {}
    PROVE  Len(h) <= MaxHistory
<1>1. MaxHistory \in Nat /\ Len(h) \in Nat /\ DOMAIN h = 1..Len(h)
  BY ConstantsAssumption
<1> SUFFICES ASSUME Len(h) > MaxHistory PROVE FALSE
  BY <1>1
<1>2. Len(h) \in DOMAIN h
  BY <1>1
<1> QED BY <1>2 DEF Overflow

TypedRequest(req) ==
    /\ req.app \in Senders /\ req.critical \in BOOLEAN /\ req.transient \in BOOLEAN
    /\ req.internal \in BOOLEAN /\ req.expire \in Int

RecordOf(req) == [app |-> req.app, critical |-> req.critical,
                  transient |-> req.transient, internal |-> req.internal]

NextId(d, req) ==
    IF Replacing(d, req) THEN d.next ELSE IF d.next = MaxId THEN 1 ELSE d.next + 1

(* A delivery up to the point where its banner is shown or taken away.     *)
KnownBy(d, req) ==
    Insert(IF Replacing(d, req) THEN d ELSE TakeId(d), IdFor(d, req), RecordOf(req))
FiledBy(d, req) == File(KnownBy(d, req), IdFor(d, req), Route(req, d.dnd).history)

(* What a delivery takes over from the daemon it comes to.                 *)
Kin(d, req, e) ==
    /\ e.connected = d.connected /\ e.dnd = d.dnd /\ e.saved = d.saved
    /\ e.signals = d.signals /\ e.reply = d.reply /\ e.next = NextId(d, req)

LEMMA FileEffect ==
    ASSUME NEW d, Good(d), Overflow(d.history) = {}, NEW req, TypedRequest(req)
    PROVE  LET id == IdFor(d, req)
               filed == FiledBy(d, req)
           IN  /\ id \in Ids
               /\ Typed(filed) /\ Coherent(filed) /\ Filed(filed)
               /\ filed.toasts = d.toasts /\ filed.timer = d.timer
               /\ DOMAIN filed.records = DOMAIN d.records \cup {id}
               /\ filed.records[id] = RecordOf(req)
               /\ \A x \in DOMAIN d.records \ {id} : filed.records[x] = d.records[x]
               /\ Kin(d, req, filed)
               /\ ~Route(req, d.dnd).history =>
                     Overflow(filed.history) = {} /\ filed.history = RemoveFirst(d.history, id)
<1> DEFINE id == IdFor(d, req)
           routing == Route(req, d.dnd)
           taken == IF Replacing(d, req) THEN d ELSE TakeId(d)
           record == RecordOf(req)
           known == KnownBy(d, req)
           filed == FiledBy(d, req)
<1>1. id \in Ids
  BY DEF IdFor, Replacing, Good, Typed
<1>2. record \in Record /\ (routing.history <=> ~record.transient /\ ~record.internal)
  BY DEF TypedRequest, Record, Route, RecordOf
<1>3. /\ Typed(taken) /\ taken.history = d.history /\ taken.toasts = d.toasts
      /\ taken.timer = d.timer /\ taken.records = d.records
      /\ taken.connected = d.connected /\ taken.dnd = d.dnd /\ taken.saved = d.saved
      /\ taken.signals = d.signals /\ taken.reply = d.reply
      /\ taken.next = NextId(d, req)
  <2>1. CASE Replacing(d, req)
    BY <2>1 DEF Good, NextId
  <2>2. CASE ~Replacing(d, req)
    <3> DEFINE next == IF d.next = MaxId THEN 1 ELSE d.next + 1
    <3>1. next \in Ids
      BY ConstantsAssumption DEF Good, Typed, Ids
    <3>2. taken = [d EXCEPT !.next = next]
      BY <2>2 DEF TakeId
    <3>3. next = NextId(d, req)
      BY <2>2 DEF NextId
    <3> HIDE DEF next, taken
    <3> QED BY <3>1, <3>2, <3>3 DEF Good, Typed
  <2> QED BY <2>1, <2>2
<1> HIDE DEF id, record, taken
<1>4. /\ Typed(known) /\ Coherent(known)
      /\ known.history = d.history /\ known.toasts = d.toasts /\ known.timer = d.timer
      /\ known.records[id] = record /\ DOMAIN known.records = DOMAIN d.records \cup {id}
      /\ \A x \in DOMAIN d.records \ {id} : known.records[x] = d.records[x]
      /\ Kin(d, req, known)
  <2> DEFINE records == [x \in DOMAIN taken.records \cup {id} |->
                            IF x = id THEN record ELSE taken.records[x]]
  <2>1. known = [taken EXCEPT !.records = records]
    BY DEF Insert, KnownBy, known, taken, id, record
  <2>2. /\ DOMAIN records = DOMAIN d.records \cup {id} /\ records[id] = record
        /\ \A x \in DOMAIN d.records \ {id} : records[x] = d.records[x]
    BY <1>3
  <2> HIDE DEF records, known
  <2>3. /\ DOMAIN known = DOMAIN taken /\ known.records = records
        /\ known.connected = taken.connected /\ known.dnd = taken.dnd
        /\ known.next = taken.next /\ known.history = taken.history
        /\ known.toasts = taken.toasts /\ known.timer = taken.timer
        /\ known.unseen = taken.unseen /\ known.saved = taken.saved
        /\ known.signals = taken.signals /\ known.reply = taken.reply
    BY <2>1, <1>3 DEF Typed
  <2>4. Typed(known)
    BY <1>1, <1>2, <1>3, <2>2, <2>3 DEF Good, Typed
  <2>5. Coherent(known)
    BY <1>3, <2>2, <2>3 DEF Good, Coherent
  <2>6. Kin(d, req, known)
    BY <1>3, <2>3 DEF Kin
  <2> QED BY <1>3, <2>2, <2>3, <2>4, <2>5, <2>6
<1> HIDE DEF known
<1>5. /\ Typed(filed) /\ Coherent(filed) /\ Filed(filed)
      /\ filed.toasts = d.toasts /\ filed.timer = d.timer /\ filed.records = known.records
      /\ Kin(d, req, filed)
      /\ ~routing.history =>
            Overflow(filed.history) = {} /\ filed.history = RemoveFirst(d.history, id)
  <2>0. known.history \in Seq(Ids) /\ IsInjective(known.history)
        /\ (Contains(known.history, id) <=> id \in Range(known.history))
    BY <1>4 DEF Typed, Coherent, Contains, Range
  <2>1. CASE routing.history /\ ~Contains(known.history, id)
    <3> DEFINE history == <<id>> \o known.history
    <3>1. /\ history \in Seq(Ids) /\ IsInjective(history)
          /\ Range(history) = Range(known.history) \cup {id}
      BY <1>1, <2>0, <2>1, InsertFirstProperties
    <3>2. filed = [known EXCEPT !.history = history, !.unseen = known.unseen + 1]
      BY <2>1 DEF File, FiledBy, known, id
    <3> HIDE DEF history, filed, routing
    <3>3. /\ DOMAIN filed = DOMAIN known /\ filed.records = known.records
          /\ filed.connected = known.connected /\ filed.dnd = known.dnd
          /\ filed.next = known.next /\ filed.history = history
          /\ filed.toasts = known.toasts /\ filed.timer = known.timer
          /\ filed.unseen = known.unseen + 1 /\ filed.saved = known.saved
          /\ filed.signals = known.signals /\ filed.reply = known.reply
      BY <3>2, <1>4 DEF Typed
    <3>4. Typed(filed)
      BY <1>4, <3>1, <3>3 DEF Typed
    <3>5. Coherent(filed)
      BY <1>4, <3>1, <3>3 DEF Coherent
    <3>6. Filed(filed)
      BY <1>2, <1>4, <2>1, <3>1, <3>3 DEF Good, Filed
    <3> QED BY <2>1, <3>3, <3>4, <3>5, <3>6, <1>4 DEF Kin
  <2>2. CASE ~routing.history /\ Contains(known.history, id)
    <3> DEFINE history == RemoveFirst(known.history, id)
    <3>1. /\ history \in Seq(Ids) /\ IsInjective(history)
          /\ Range(history) = Range(known.history) \ {id}
      BY <2>0, RemoveFirstProperties
    <3>2. filed = [known EXCEPT !.history = history]
      BY <2>2 DEF File, FiledBy, known, id
    <3>3. Overflow(history) = {}
      BY <1>4, <2>0, OverflowShrinks
    <3>8. history = RemoveFirst(d.history, id)
      BY <1>4
    <3> HIDE DEF history, filed, routing
    <3>4. /\ DOMAIN filed = DOMAIN known /\ filed.records = known.records
          /\ filed.connected = known.connected /\ filed.dnd = known.dnd
          /\ filed.next = known.next /\ filed.history = history
          /\ filed.toasts = known.toasts /\ filed.timer = known.timer
          /\ filed.unseen = known.unseen /\ filed.saved = known.saved
          /\ filed.signals = known.signals /\ filed.reply = known.reply
      BY <3>2, <1>4 DEF Typed
    <3>5. Typed(filed)
      BY <1>4, <3>1, <3>4 DEF Typed
    <3>6. Coherent(filed)
      BY <1>4, <3>1, <3>4 DEF Coherent
    <3>7. Filed(filed)
      BY <1>2, <1>4, <2>2, <3>1, <3>4 DEF Good, Filed
    <3> QED BY <3>3, <3>4, <3>5, <3>6, <3>7, <3>8, <1>4 DEF Kin
  <2>3. CASE routing.history <=> Contains(known.history, id)
    <3>1. filed = known
      BY <2>3 DEF File, FiledBy, known, id
    <3> HIDE DEF filed, routing
    <3>2. Filed(known)
      BY <1>2, <1>4, <2>0, <2>3 DEF Good, Filed
    <3>3. ~routing.history => RemoveFirst(d.history, id) = d.history
      BY <1>4, <2>0, <2>3, RemoveFirstProperties
    <3> QED BY <1>4, <3>1, <3>2, <3>3
  <2>4. routing.history \in BOOLEAN
    BY <1>2 DEF Route
  <2> QED BY <2>1, <2>2, <2>3, <2>4 DEF Contains
<1> HIDE DEF filed
<1> QED BY <1>1, <1>4, <1>5 DEF id, filed, record, routing

LEMMA DeliverEffect ==
    ASSUME NEW d, Good(d), Fits(d), Overflow(d.history) = {}, NEW req, TypedRequest(req)
    PROVE  /\ Good(Deliver(d, req))
           /\ Fits(Deliver(d, req))
           /\ ~Route(req, d.dnd).history => Overflow(Deliver(d, req).history) = {}
<1> DEFINE id == IdFor(d, req)
           routing == Route(req, d.dnd)
           record == RecordOf(req)
           filed == FiledBy(d, req)
           timer == ToastTimer(req.expire, req.critical)
           shown == IF routing.toast THEN ShowToast(filed, id, req.critical, timer)
                    ELSE RemoveToast(filed, id)
<1>2. /\ record \in Record /\ timer \in Timer
      /\ record.critical = req.critical
      /\ record.critical <=> ~timer.expires
      /\ routing.history <=> ~record.transient /\ ~record.internal
  <2>1. DefaultTimeout \in Nat
    BY ConstantsAssumption
  <2>2. record \in Record /\ record.critical = req.critical
    BY DEF TypedRequest, Record, RecordOf
  <2>3. timer \in Timer
    <3>1. CASE req.critical
      BY <3>1 DEF ToastTimer, Timer
    <3>2. CASE ~req.critical
      <4>1. (IF req.expire > 0 THEN req.expire ELSE DefaultTimeout) \in Nat
        BY <2>1 DEF TypedRequest
      <4> QED BY <3>2, <4>1 DEF ToastTimer, Timer
    <3> QED BY <3>1, <3>2
  <2>4. req.critical <=> ~timer.expires
    BY DEF ToastTimer, TypedRequest
  <2>5. routing.history <=> ~record.transient /\ ~record.internal
    BY DEF Route, RecordOf
  <2> QED BY <2>2, <2>3, <2>4, <2>5
<1>5. /\ id \in Ids
      /\ Typed(filed) /\ Coherent(filed) /\ Filed(filed)
      /\ filed.toasts = d.toasts /\ filed.timer = d.timer
      /\ DOMAIN filed.records = DOMAIN d.records \cup {id}
      /\ filed.records[id] = record
      /\ \A x \in DOMAIN d.records \ {id} : filed.records[x] = d.records[x]
      /\ ~routing.history => Overflow(filed.history) = {}
  BY FileEffect
<1> HIDE DEF id, record, timer, filed
<1>6. /\ Good(shown) /\ Fits(shown)
      /\ ~routing.history => Overflow(shown.history) = {}
  <2>1. id \in DOMAIN filed.records /\ filed.records[id] = record
    BY <1>5
  <2>2. Fits(filed)
    BY <1>5 DEF Fits
  <2>3. \A x \in DOMAIN filed.timer \ {id} : filed.records[x].critical <=> ~filed.timer[x].expires
    BY <1>5 DEF Good, Timed, Coherent
  <2>4. filed.history \in Seq(Ids) /\ IsInjective(filed.history)
    BY <1>5 DEF Typed, Coherent
  <2>5. CASE routing.toast
    <3> DEFINE e == ShowToast(filed, id, req.critical, timer)
    <3>1. /\ Good(e) /\ Fits(e)
          /\ e.history = filed.history \/ \E y : e.history = RemoveFirst(filed.history, y)
      BY <1>2, <1>5, <2>1, <2>2, <2>3, ShowToastEffect DEF TypedRequest
    <3>2. Overflow(filed.history) = {} => Overflow(e.history) = {}
      BY <2>4, <3>1, OverflowShrinks
    <3>3. shown = e
      BY <2>5
    <3> HIDE DEF e, shown
    <3> QED BY <1>5, <3>1, <3>2, <3>3
  <2>6. CASE ~routing.toast
    <3> DEFINE e == RemoveToast(filed, id)
    <3>1. /\ Typed(e) /\ Coherent(e) /\ Filed(e)
          /\ e.history = filed.history /\ e.records = filed.records
          /\ Range(e.toasts) = Range(filed.toasts) \ {id}
          /\ e.toasts = RemoveFirst(filed.toasts, id)
          /\ \A x \in Range(filed.toasts) \ {id} : e.timer[x] = filed.timer[x]
      BY <1>5, RemoveToastEffect
    <3>2. shown = e
      BY <2>6
    <3> HIDE DEF e, shown
    <3>3. Timed(e)
      BY <1>5, <2>3, <3>1 DEF Timed, Coherent
    <3>4. Fits(e)
      <4>1. filed.toasts \in Seq(Ids) /\ IsInjective(filed.toasts)
        BY <1>5 DEF Typed, Coherent
      <4>2. Len(e.toasts) = Len(filed.toasts) \/ Len(e.toasts) = Len(filed.toasts) - 1
        BY <3>1, <4>1, RemoveFirstProperties
      <4>3. Len(filed.toasts) \in Nat /\ MaxToasts \in Nat
        BY <4>1, ConstantsAssumption
      <4> QED BY <2>2, <4>2, <4>3 DEF Fits
    <3> QED BY <1>5, <3>1, <3>2, <3>3, <3>4 DEF Good
  <2> QED BY <2>5, <2>6
<1> HIDE DEF shown
<1>7. Deliver(d, req) = IF IsDiscarded(routing) THEN Close(shown, id, "undefined") ELSE shown
  BY DEF Deliver, shown, filed, timer, id, FiledBy, KnownBy, RecordOf
<1>8. CASE ~IsDiscarded(routing)
  BY <1>6, <1>7, <1>8
<1>9. CASE IsDiscarded(routing)
  <2> DEFINE c == Close(shown, id, "undefined")
  <2>1. /\ Good(c)
        /\ c.history = RemoveFirst(shown.history, id)
        /\ c.toasts = RemoveFirst(shown.toasts, id)
    BY <1>6, CloseEffect DEF Good, Reasons
  <2>2. /\ shown.toasts \in Seq(Ids) /\ IsInjective(shown.toasts)
        /\ shown.history \in Seq(Ids) /\ IsInjective(shown.history)
    BY <1>6 DEF Good, Typed, Coherent
  <2>3. Overflow(shown.history) = {} => Overflow(c.history) = {}
    BY <2>1, <2>2, OverflowShrinks
  <2>4. Fits(c)
    <3>1. Len(c.toasts) = Len(shown.toasts) \/ Len(c.toasts) = Len(shown.toasts) - 1
      BY <2>1, <2>2, RemoveFirstProperties
    <3>2. Len(shown.toasts) \in Nat /\ MaxToasts \in Nat
      BY <2>2, ConstantsAssumption
    <3> QED BY <1>6, <3>1, <3>2 DEF Fits
  <2>5. Deliver(d, req) = c
    BY <1>7, <1>9
  <2> HIDE DEF c
  <2> QED BY <1>6, <2>1, <2>3, <2>4, <2>5
<1> QED BY <1>8, <1>9

LEMMA DeliverLeaves ==
    ASSUME NEW d, Good(d), Overflow(d.history) = {}, d.signals = << >>,
           NEW req, TypedRequest(req)
    PROVE  LET id == IdFor(d, req)
               e == Deliver(d, req)
           IN  /\ e.connected = d.connected /\ e.dnd = d.dnd /\ e.saved = d.saved
               /\ e.reply = d.reply /\ e.next = NextId(d, req)
               /\ Told(d, e)
               /\ DOMAIN e.records \subseteq DOMAIN d.records \cup {id}
               /\ id \in DOMAIN e.records => e.records[id] = RecordOf(req)
               /\ ~Route(req, d.dnd).history =>
                     /\ e.history = RemoveFirst(d.history, id)
                     /\ \A x \in Range(d.history) \ {id} : e.records[x] = d.records[x]
               /\ req.critical =>
                     /\ CriticalToasts(d) \subseteq Range(e.toasts)
                     /\ \/ id \in Range(e.toasts)
                        \/ CriticalToasts(d) = Range(d.toasts) /\ Len(d.toasts) >= MaxToasts
<1> DEFINE id == IdFor(d, req)
           routing == Route(req, d.dnd)
           filed == FiledBy(d, req)
           timer == ToastTimer(req.expire, req.critical)
           shown == IF routing.toast THEN ShowToast(filed, id, req.critical, timer)
                    ELSE RemoveToast(filed, id)
           e == Deliver(d, req)
<1>1. /\ id \in Ids
      /\ Typed(filed) /\ Coherent(filed)
      /\ filed.toasts = d.toasts
      /\ DOMAIN filed.records = DOMAIN d.records \cup {id}
      /\ filed.records[id] = RecordOf(req)
      /\ \A x \in DOMAIN d.records \ {id} : filed.records[x] = d.records[x]
      /\ Kin(d, req, filed)
      /\ ~routing.history => filed.history = RemoveFirst(d.history, id)
  BY FileEffect
<1>2. /\ d.history \in Seq(Ids) /\ IsInjective(d.history)
      /\ Range(d.history) \subseteq DOMAIN d.records
      /\ Range(d.toasts) \subseteq DOMAIN d.records
  BY DEF Good, Typed, Coherent
<1>3. ~routing.history => Range(filed.history) = Range(d.history) \ {id}
  BY <1>1, <1>2, RemoveFirstProperties
<1>4. req.critical \in BOOLEAN
  BY DEF TypedRequest
<1>5. e = IF IsDiscarded(routing) THEN Close(shown, id, "undefined") ELSE shown
  BY DEF Deliver, FiledBy, KnownBy, RecordOf
<1> HIDE DEF e, filed, timer
(* The banner, or none.                                                    *)
<1>6. /\ Steady(filed, shown) /\ Told(filed, shown)
      /\ shown.saved = filed.saved /\ shown.history = filed.history
      /\ DOMAIN shown.records \subseteq DOMAIN filed.records
      /\ \A x \in Range(filed.history) \cup {id} :
            x \in DOMAIN shown.records /\ shown.records[x] = filed.records[x]
  <2>1. CASE routing.toast
    <3> DEFINE f == ShowToast(filed, id, req.critical, timer)
    <3>1. shown = f
      BY <2>1
    <3>2. /\ Steady(filed, f) /\ Told(filed, f) /\ f.saved = filed.saved
          /\ f.history = filed.history
          /\ DOMAIN f.records \subseteq DOMAIN filed.records
          /\ \A x \in Range(filed.history) \cup {id} :
                x \in DOMAIN f.records /\ f.records[x] = filed.records[x]
      BY <1>1, <1>4, ShowToastLeaves DEF Kin
    <3> QED BY <3>1, <3>2
  <2>2. CASE ~routing.toast
    <3>1. shown = RemoveToast(filed, id)
      BY <2>2
    <3> HIDE DEF shown
    <3>2. /\ Steady(filed, shown) /\ shown.saved = filed.saved
          /\ shown.signals = filed.signals /\ shown.history = filed.history
          /\ shown.records = filed.records
      BY <1>1, <3>1, RemoveToastLeaves, RemoveToastEffect
    <3> QED BY <1>1, <3>2 DEF Told, Kin, Coherent
  <2> QED BY <2>1, <2>2
<1>7. req.critical =>
        /\ CriticalToasts(d) \subseteq Range(shown.toasts)
        /\ \/ id \in Range(shown.toasts)
           \/ CriticalToasts(d) = Range(d.toasts) /\ Len(d.toasts) >= MaxToasts
  <2> SUFFICES ASSUME req.critical
               PROVE  /\ CriticalToasts(d) \subseteq Range(shown.toasts)
                      /\ \/ id \in Range(shown.toasts)
                         \/ CriticalToasts(d) = Range(d.toasts) /\ Len(d.toasts) >= MaxToasts
    OBVIOUS
  <2>1. shown = ShowToast(filed, id, req.critical, timer)
    BY DEF Route
  <2> HIDE DEF shown
  <2>2. /\ CriticalToasts(filed) \subseteq Range(shown.toasts)
        /\ \/ id \in Range(shown.toasts)
           \/ CriticalToasts(filed) = Range(filed.toasts) /\ Len(filed.toasts) >= MaxToasts
    BY ZenonT(60), <1>1, <1>4, <2>1, ShowToastLeaves DEF Kin
  <2>3. CriticalToasts(d) \subseteq CriticalToasts(filed)
    <3>1. filed.records[id].critical = req.critical
      BY <1>1 DEF RecordOf
    <3> QED BY <1>1, <1>2, <3>1 DEF CriticalToasts
  <2>4. CASE id \in Range(shown.toasts)
    BY <2>2, <2>3, <2>4
  <2>5. CASE id \notin Range(shown.toasts)
    <3>1. CriticalToasts(filed) = Range(d.toasts) /\ Len(d.toasts) >= MaxToasts
      BY <1>1, <2>2, <2>5
    <3>2. id \notin Range(d.toasts)
      BY <2>2, <2>5, <3>1
    <3>3. CriticalToasts(d) = Range(d.toasts)
      BY <1>1, <1>2, <3>1, <3>2 DEF CriticalToasts
    <3> QED BY <2>2, <2>3, <3>1, <3>3
  <2> QED BY <2>4, <2>5
<1>8. /\ shown.connected = d.connected /\ shown.dnd = d.dnd /\ shown.saved = d.saved
      /\ shown.reply = d.reply /\ shown.next = NextId(d, req)
      /\ Told(d, shown)
  BY <1>1, <1>6 DEF Kin, Steady, Told
<1>9. CASE ~IsDiscarded(routing)
  <2>1. e = shown
    BY <1>5, <1>9
  <2> HIDE DEF shown
  <2> QED BY <1>1, <1>2, <1>3, <1>6, <1>7, <1>8, <2>1 DEF e
<1>10. CASE IsDiscarded(routing)
  <2>1. ~routing.toast /\ ~routing.history /\ ~req.critical
    BY <1>10 DEF IsDiscarded, Route
  <2>2. shown = RemoveToast(filed, id)
    BY <2>1
  <2> HIDE DEF shown
  <2>3. /\ Typed(shown) /\ Coherent(shown) /\ shown.signals = << >>
        /\ shown.records = filed.records
    BY <1>1, <2>2, RemoveToastEffect, RemoveToastLeaves DEF Kin, Good
  <2>4. d.signals = << >> /\ id \notin Range(shown.history)
    BY <1>3, <1>6, <2>1
  <2>5. e = Close(shown, id, "undefined")
    BY <1>5, <1>10
  <2>6. /\ Steady(shown, e) /\ Told(shown, e) /\ e.saved = shown.saved
        /\ e.history = RemoveFirst(shown.history, id)
        /\ DOMAIN e.records = DOMAIN shown.records \ {id}
        /\ \A x \in DOMAIN shown.records \ {id} : e.records[x] = shown.records[x]
    BY <2>3, <2>4, <2>5, CloseLeaves, CloseEffect DEF Reasons
  <2>7. e.history = shown.history
    BY <2>3, <2>4, <2>6, RemoveFirstProperties DEF Typed, Coherent
  <2>8. Told(d, e)
    BY <1>1, <1>8, <2>3, <2>6 DEF Told
  <2>9. \A x \in Range(d.history) \ {id} : e.records[x] = d.records[x]
    BY <1>1, <1>2, <2>3, <2>6
  <2> QED BY <1>1, <1>6, <1>8, <2>1, <2>3, <2>6, <2>7, <2>8, <2>9 DEF Steady, e
<1> QED BY <1>9, <1>10

(* A daemon that differs from a good one in no list, timer or record. *)
LEMMA GoodStays ==
    ASSUME NEW d, Good(d), Fits(d), NEW e, Typed(e), e.history = d.history,
           e.toasts = d.toasts, e.timer = d.timer, e.records = d.records
    PROVE  Good(e) /\ Fits(e)
BY DEF Good, Fits, Coherent, Filed, Timed

-----------------------------------------------------------------------------
(* The inductive invariant.  An overrun of the history is exactly what the *)
(* running loop is still going to close.                                   *)

IInv ==
    /\ TypeOK
    /\ Good(daemon)
    /\ Fits(daemon)
    /\ Overflow(daemon.history) \subseteq loop.ids
    /\ loop.op = "dismiss" => Overflow(daemon.history) = {}

Distinct(doc) ==
    \A i, j \in DOMAIN doc.history : doc.history[i].id = doc.history[j].id => i = j

(* A run that starts from a document has its first entries, filed as they  *)
(* were, and while ids do not wrap around its counter is past every one.   *)
Restored(d, doc) ==
    /\ d.dnd = doc.dnd /\ d.saved = doc /\ d.signals = << >> /\ d.reply = 0
    /\ \A k \in DOMAIN d.history :
          /\ k \in DOMAIN doc.history /\ k <= MaxHistory /\ d.history[k] = doc.history[k].id
          /\ d.records[d.history[k]].app = doc.history[k].app
          /\ d.records[d.history[k]].critical = doc.history[k].critical
    /\ \A k \in DOMAIN doc.history : k <= MaxHistory => k \in DOMAIN d.history
    /\ d.next <= IdBound /\ IdBound < MaxId => \A x \in DOMAIN d.records : x < d.next

LEMMA RestoreEffect ==
    ASSUME NEW doc \in Document, Distinct(doc), NEW d, d = Restore(doc)
    PROVE  Good(d) /\ Fits(d) /\ Overflow(d.history) = {} /\ Restored(d, doc)
<1> DEFINE count == Smaller(Len(doc.history), MaxHistory)
           kept == SubSeq(doc.history, 1, count)
           ids == IdsOf(kept)
           history == [i \in DOMAIN kept |-> kept[i].id]
           entry(x) == CHOOSE e \in Range(kept) : e.id = x
           records == [x \in ids |-> [app |-> entry(x).app, critical |-> entry(x).critical,
                                      transient |-> FALSE, internal |-> FALSE]]
           highest == IF ids = {} THEN 0 ELSE CHOOSE m \in ids : \A n \in ids : n <= m
<1>1. /\ doc.history \in Seq(Entry)
      /\ \A i, j \in DOMAIN doc.history : doc.history[i].id = doc.history[j].id => i = j
  BY DEF Document, Distinct
<1>2. Len(doc.history) \in Nat /\ MaxHistory \in Nat /\ DOMAIN doc.history = 1..Len(doc.history)
  BY <1>1, ConstantsAssumption
<1>3. count \in Nat /\ count <= Len(doc.history) /\ count <= MaxHistory
  BY <1>2 DEF Smaller
<1> HIDE DEF count
<1>4. /\ kept \in Seq(Entry) /\ Len(kept) = count
      /\ \A i \in 1..count : kept[i] = doc.history[i]
  <2>1. \A i \in 1..count : doc.history[i] \in Entry
    BY <1>1, <1>2, <1>3
  <2>2. /\ SubSeq(doc.history, 1, count) \in Seq(Entry)
        /\ Len(SubSeq(doc.history, 1, count)) = IF 1 <= count THEN count-1+1 ELSE 0
        /\ \A i \in 1..(count-1+1) : SubSeq(doc.history, 1, count)[i] = doc.history[1+i-1]
    BY <1>3, <2>1, SubSeqProperties
  <2>3. \A i \in 1..count : i \in 1..(count-1+1) /\ 1+i-1 = i
    BY <1>3
  <2> QED BY <1>3, <2>2, <2>3
<1> HIDE DEF kept
<1>5. DOMAIN kept = 1..count /\ (\A i \in DOMAIN kept : kept[i] \in Entry /\ kept[i].id \in Ids)
  <2>1. DOMAIN kept = 1..count
    BY <1>4, LenProperties
  <2>2. \A i \in 1..count : kept[i] \in Entry
    BY <1>4, ElementOfSeq
  <2> QED BY <2>1, <2>2 DEF Entry
<1>6. \A i, j \in DOMAIN kept : kept[i].id = kept[j].id => i = j
  BY <1>1, <1>2, <1>3, <1>4, <1>5
<1>7. /\ history \in Seq(Ids) /\ Len(history) = count /\ IsInjective(history)
      /\ Range(history) = ids /\ ids \subseteq Ids
  <2>1. history \in [1..count -> Ids]
    BY <1>5
  <2>2. history \in Seq(Ids)
    BY <1>3, <2>1, SeqDef
  <2>3. Len(history) = count
    BY <1>3, <2>1, <2>2
  <2>4. IsInjective(history)
    BY <1>6 DEF IsInjective
  <2>5. Range(history) = ids /\ ids \subseteq Ids
    BY <1>5 DEF Range, IdsOf
  <2> QED BY <2>2, <2>3, <2>4, <2>5
<1>8. \A x \in ids : records[x] \in Record
  <2> SUFFICES ASSUME NEW x \in ids PROVE records[x] \in Record
    OBVIOUS
  <2>1. \E e \in Range(kept) : e.id = x
    BY DEF IdsOf, Range
  <2>2. entry(x) \in Range(kept)
    BY <2>1
  <2>3. entry(x) \in Entry
    BY <2>2, <1>5 DEF Range
  <2> HIDE DEF entry
  <2> QED BY <2>3 DEF Entry, Record
<1>20. /\ \A k \in DOMAIN history :
            /\ k \in DOMAIN doc.history /\ k <= MaxHistory /\ history[k] = doc.history[k].id
            /\ records[history[k]].app = doc.history[k].app
            /\ records[history[k]].critical = doc.history[k].critical
       /\ \A k \in DOMAIN doc.history : k <= MaxHistory => k \in DOMAIN history
  <2>1. DOMAIN history = 1..count
    BY <1>5
  <2>2. \A k \in 1..count : k \in DOMAIN doc.history /\ k <= MaxHistory /\ kept[k] = doc.history[k]
    BY <1>2, <1>3, <1>4
  <2>3. ASSUME NEW k \in DOMAIN history PROVE entry(history[k]) = doc.history[k]
    <3>1. kept[k] \in Range(kept) /\ kept[k].id = history[k]
      BY <1>5, <2>1 DEF Range
    <3>2. entry(history[k]) \in Range(kept) /\ entry(history[k]).id = history[k]
      BY <3>1
    <3> HIDE DEF entry
    <3>3. PICK j \in DOMAIN kept : entry(history[k]) = kept[j]
      BY <3>2 DEF Range
    <3>4. j = k
      BY <1>5, <1>6, <2>1, <3>1, <3>2, <3>3
    <3> QED BY <2>1, <2>2, <3>3, <3>4
  <2>4. \A k \in DOMAIN history : history[k] \in ids
    BY <1>5, <2>1 DEF IdsOf
  <2>5. \A k \in DOMAIN doc.history : k <= MaxHistory => k \in DOMAIN history
    BY <1>2, <1>3, <2>1 DEF count, Smaller
  <2>6. \A k \in DOMAIN history : history[k] = doc.history[k].id
    BY <1>5, <2>1, <2>2
  <2>7. \A k \in DOMAIN history :
           /\ records[history[k]].app = doc.history[k].app
           /\ records[history[k]].critical = doc.history[k].critical
    <3> HIDE DEF history, ids, entry
    <3> QED BY <2>3, <2>4
  <2> QED BY <2>1, <2>2, <2>5, <2>6, <2>7
<1>21. highest \in Nat /\ \A x \in ids : x <= highest
  <2>1. CASE ids = {}
    BY <2>1
  <2>2. CASE ids # {}
    <3>1. MaxId \in Nat /\ ids \in SUBSET (1..MaxId)
      BY <1>7, ConstantsAssumption DEF Ids
    <3>2. \E m \in ids : \A n \in ids : n <= m
      BY <2>2, <3>1, GreatestIndex
    <3>3. highest \in ids /\ \A n \in ids : n <= highest
      BY <2>2, <3>2
    <3> HIDE DEF highest, ids
    <3> QED BY <3>1, <3>3
  <2> QED BY <2>1, <2>2
<1>9. /\ FirstId(doc.next, highest) \in Ids
      /\ FirstId(doc.next, highest) <= IdBound /\ IdBound < MaxId =>
            \A x \in ids : x < FirstId(doc.next, highest)
  <2> HIDE DEF highest, ids
  <2>2. doc.next \in Ids /\ MaxId \in Nat \ {0} /\ IdBound \in Nat
    BY <1>1, ConstantsAssumption DEF Document
  <2> DEFINE next == Smaller(highest + 1, MaxId)
  <2>3. next \in Ids /\ (next < MaxId => next = highest + 1)
    BY <1>21, <2>2 DEF Smaller, Ids
  <2> HIDE DEF next
  <2>4. Larger(doc.next, next) \in Ids /\ 1 \in Ids /\ next <= Larger(doc.next, next)
    BY <2>2, <2>3 DEF Larger, Ids
  <2>5. FirstId(doc.next, highest) = Larger(Larger(doc.next, next), 1)
    BY DEF FirstId, next
  <2>6. FirstId(doc.next, highest) \in Ids /\ next <= FirstId(doc.next, highest)
    BY <2>2, <2>3, <2>4, <2>5 DEF Larger, Ids
  <2>7. ASSUME FirstId(doc.next, highest) <= IdBound, IdBound < MaxId, NEW x \in ids
        PROVE  x < FirstId(doc.next, highest)
    <3>1. next < MaxId /\ x \in Nat
      BY <1>7, <2>2, <2>3, <2>6, <2>7 DEF Ids
    <3> QED BY <1>21, <2>2, <2>3, <2>6, <3>1 DEF Ids
  <2> QED BY <2>6, <2>7
<1> HIDE DEF history, records, ids, highest
<1>10. d = [connected |-> FALSE, dnd |-> doc.dnd, next |-> FirstId(doc.next, highest),
                 history |-> history, toasts |-> << >>, timer |-> [x \in {} |-> 0],
                 records |-> records, unseen |-> 0, saved |-> doc, signals |-> << >>,
                 reply |-> 0]
  BY DEF Restore, history, records, ids, highest, kept, count
<1>11. /\ d.connected = FALSE /\ d.dnd = doc.dnd
       /\ d.next = FirstId(doc.next, highest) /\ d.history = history
       /\ d.toasts = << >> /\ d.timer = [x \in {} |-> 0]
       /\ d.records = records /\ d.unseen = 0 /\ d.saved = doc
       /\ d.signals = << >> /\ d.reply = 0
       /\ DOMAIN d = {"connected", "dnd", "next", "history", "toasts", "timer",
                           "records", "unseen", "saved", "signals", "reply"}
  BY <1>10
<1>12. DOMAIN d.timer = {} /\ Range(d.toasts) = {} /\ DOMAIN records = ids
  BY <1>11 DEF Range, records
<1>13. Typed(d)
  <2>1. doc.dnd \in BOOLEAN
    BY <1>1 DEF Document
  <2>2. << >> \in Seq(Ids) /\ << >> \in Seq(Signal)
    OBVIOUS
  <2>3. /\ d.next \in Ids /\ d.history \in Seq(Ids) /\ d.toasts \in Seq(Ids)
        /\ d.unseen \in Nat /\ d.saved \in Document
        /\ d.signals \in Seq(Signal) /\ d.reply \in Ids \cup {0}
        /\ d.connected \in BOOLEAN /\ d.dnd \in BOOLEAN
    <3>1. d.next \in Ids
      BY <1>9, <1>11
    <3>2. d.history \in Seq(Ids)
      BY <1>7, <1>11
    <3>3. d.toasts \in Seq(Ids) /\ d.signals \in Seq(Signal)
      BY <1>11, <2>2
    <3>4. d.unseen \in Nat /\ d.reply \in Ids \cup {0}
      BY <1>11
    <3>5. d.saved \in Document
      BY <1>1, <1>11
    <3>6. d.connected \in BOOLEAN /\ d.dnd \in BOOLEAN
      BY <1>11, <2>1
    <3> QED BY <3>1, <3>2, <3>3, <3>4, <3>5, <3>6
  <2>4. /\ DOMAIN d.timer \subseteq Ids
        /\ \A id \in DOMAIN d.timer : d.timer[id] \in Timer
    BY <1>12
  <2>5. /\ DOMAIN d.records \subseteq Ids
        /\ \A id \in DOMAIN d.records : d.records[id] \in Record
    BY <1>7, <1>8, <1>11, <1>12
  <2> QED BY <1>11, <2>3, <2>4, <2>5 DEF Typed
<1>14. Coherent(d)
  BY <1>7, <1>11, <1>12 DEF Coherent, IsInjective
<1>15. Filed(d) /\ Timed(d)
  <2>1. \A x \in ids : ~records[x].transient /\ ~records[x].internal
    BY DEF records
  <2> QED BY <1>7, <1>11, <1>12, <2>1 DEF Filed, Timed
<1>16. Overflow(d.history) = {}
  BY <1>2, <1>3, <1>7, <1>11 DEF Overflow
<1>17. Fits(d)
  BY <1>11, ConstantsAssumption DEF Fits
<1> QED
  BY <1>2, <1>9, <1>11, <1>12, <1>13, <1>14, <1>15, <1>16, <1>17, <1>20 DEF Good, Restored

LEMMA InitIInv == Init => IInv
<1> SUFFICES ASSUME NEW doc \in Persisted, daemon = Restore(doc), loop = NoLoop PROVE IInv
  BY DEF Init
<1>1. doc \in Document /\ Distinct(doc)
  BY PersistedAssumption DEF Distinct
<1>2. Good(daemon) /\ Fits(daemon) /\ Overflow(daemon.history) = {}
  BY <1>1, RestoreEffect
<1>3. loop \in [op : {"close", "dismiss"}, ids : SUBSET Ids, reason : Reasons]
  BY DEF NoLoop, Reasons
<1> QED BY <1>2, <1>3 DEF IInv, TypeOK, Good

LEMMA QuietEffect ==
    ASSUME IInv
    PROVE  /\ Good(Quiet) /\ Fits(Quiet)
           /\ Quiet.history = daemon.history /\ Quiet.toasts = daemon.toasts
           /\ Quiet.timer = daemon.timer /\ Quiet.records = daemon.records
           /\ Quiet.next = daemon.next /\ Quiet.dnd = daemon.dnd
<1> DEFINE q == Quiet
<1>1. /\ DOMAIN q = DOMAIN daemon /\ q.signals = << >> /\ q.reply = 0
      /\ q.connected = daemon.connected /\ q.dnd = daemon.dnd /\ q.next = daemon.next
      /\ q.history = daemon.history /\ q.toasts = daemon.toasts /\ q.timer = daemon.timer
      /\ q.records = daemon.records /\ q.unseen = daemon.unseen /\ q.saved = daemon.saved
  BY DEF Quiet, IInv, Good, Typed
<1>2. << >> \in Seq(Signal)
  OBVIOUS
<1> HIDE DEF q
<1>3. Typed(q)
  BY <1>1, <1>2 DEF IInv, Good, Typed
<1>4. Good(q) /\ Fits(q)
  BY <1>1, <1>3, GoodStays DEF IInv
<1> QED BY <1>1, <1>4 DEF q

(* What a command leaves to be shown: its daemon is good and overruns by   *)
(* nothing the loop it starts is not going to close.                       *)
LEMMA NextIInv ==
    ASSUME IInv, Good(daemon'), Fits(daemon'),
           loop' \in [op : {"close", "dismiss"}, ids : SUBSET Ids, reason : Reasons],
           Overflow(daemon'.history) \subseteq loop'.ids,
           loop'.op = "dismiss" => Overflow(daemon'.history) = {}
    PROVE  IInv'
BY DEF IInv, TypeOK, Good, Typed, Coherent, Filed, Timed, Fits, Overflow

LEMMA IdleOverflow ==
    ASSUME IInv, Idle
    PROVE  Overflow(daemon.history) = {}
BY DEF IInv, Idle

LEMMA CloseIInv ==
    ASSUME IInv, Idle, NEW id, NEW reason \in Reasons,
           daemon' = Close(Quiet, id, reason), UNCHANGED loop
    PROVE  IInv'
<1> DEFINE c == Close(Quiet, id, reason)
<1>1. /\ Good(Quiet) /\ Fits(Quiet) /\ Quiet.history = daemon.history
      /\ Overflow(daemon.history) = {}
  BY QuietEffect, IdleOverflow
<1>2. /\ Good(c) /\ c.history = RemoveFirst(Quiet.history, id)
      /\ c.toasts = RemoveFirst(Quiet.toasts, id)
  BY <1>1, CloseEffect DEF Good
<1>3. /\ Quiet.toasts \in Seq(Ids) /\ IsInjective(Quiet.toasts)
      /\ Quiet.history \in Seq(Ids) /\ IsInjective(Quiet.history)
  BY <1>1 DEF Good, Typed, Coherent
<1> HIDE DEF c
<1>4. Overflow(c.history) = {}
  BY <1>1, <1>2, <1>3, OverflowShrinks
<1>5. Fits(c)
  <2>1. Len(c.toasts) = Len(Quiet.toasts) \/ Len(c.toasts) = Len(Quiet.toasts) - 1
    BY <1>2, <1>3, RemoveFirstProperties
  <2>2. Len(Quiet.toasts) \in Nat /\ MaxToasts \in Nat
    BY <1>3, ConstantsAssumption
  <2> QED BY <1>1, <2>1, <2>2 DEF Fits
<1>6. daemon' = c
  BY DEF c
<1> QED BY <1>2, <1>4, <1>5, <1>6, NextIInv DEF IInv, TypeOK

LEMMA DismissIInv ==
    ASSUME IInv, Overflow(daemon.history) = {}, NEW id, NEW reason \in Reasons,
           daemon' = DismissToast(Quiet, id, reason),
           loop' \in [op : {"close", "dismiss"}, ids : SUBSET Ids, reason : Reasons]
    PROVE  IInv'
<1> DEFINE c == DismissToast(Quiet, id, reason)
<1>1. Good(Quiet) /\ Fits(Quiet) /\ Quiet.history = daemon.history
  BY QuietEffect
<1>2. /\ Good(c) /\ c.toasts = RemoveFirst(Quiet.toasts, id)
      /\ c.history = Quiet.history \/ c.history = RemoveFirst(Quiet.history, id)
  BY <1>1, DismissToastEffect
<1>3. /\ Quiet.toasts \in Seq(Ids) /\ IsInjective(Quiet.toasts)
      /\ Quiet.history \in Seq(Ids) /\ IsInjective(Quiet.history)
  BY <1>1 DEF Good, Typed, Coherent
<1> HIDE DEF c
<1>4. Overflow(c.history) = {}
  BY <1>1, <1>2, <1>3, OverflowShrinks
<1>5. Fits(c)
  <2>1. Len(c.toasts) = Len(Quiet.toasts) \/ Len(c.toasts) = Len(Quiet.toasts) - 1
    BY <1>2, <1>3, RemoveFirstProperties
  <2>2. Len(Quiet.toasts) \in Nat /\ MaxToasts \in Nat
    BY <1>3, ConstantsAssumption
  <2> QED BY <1>1, <2>1, <2>2 DEF Fits
<1>6. daemon' = c
  BY DEF c
<1> QED BY <1>2, <1>4, <1>5, <1>6, NextIInv

LEMMA ReplyEffect ==
    ASSUME NEW d, Good(d), Fits(d), NEW id \in Ids
    PROVE  /\ Good([d EXCEPT !.reply = id])
           /\ Fits([d EXCEPT !.reply = id])
           /\ [d EXCEPT !.reply = id].history = d.history
<1> DEFINE e == [d EXCEPT !.reply = id]
<1>1. /\ DOMAIN e = DOMAIN d /\ e.reply = id
      /\ e.connected = d.connected /\ e.dnd = d.dnd /\ e.next = d.next
      /\ e.history = d.history /\ e.toasts = d.toasts /\ e.timer = d.timer
      /\ e.records = d.records /\ e.unseen = d.unseen
      /\ e.saved = d.saved /\ e.signals = d.signals
  BY DEF Good, Typed
<1> HIDE DEF e
<1>2. Typed(e)
  BY <1>1 DEF Good, Typed
<1>3. Good(e) /\ Fits(e)
  BY <1>1, <1>2, GoodStays
<1> QED BY <1>1, <1>3 DEF e

LEMMA NotifyIInv ==
    ASSUME IInv, NEW req, TypedRequest(req), Notify(req)
    PROVE  IInv'
<1> DEFINE delivered == [Deliver(Quiet, req) EXCEPT !.reply = IdFor(daemon, req)]
           raw == Deliver(Quiet, req)
           routing == Route(req, daemon.dnd)
           evicted == Overflow(delivered.history)
<1>1. Idle /\ Overflow(daemon.history) = {}
  BY IdleOverflow DEF Notify
<1>2. /\ Good(Quiet) /\ Fits(Quiet) /\ Quiet.history = daemon.history /\ Quiet.dnd = daemon.dnd
  BY QuietEffect
<1>3. /\ Good(raw) /\ Fits(raw)
      /\ ~routing.history => Overflow(raw.history) = {}
  BY <1>1, <1>2, DeliverEffect
<1>4. IdFor(daemon, req) \in Ids
  BY DEF IdFor, Replacing, IInv, Good, Typed
<1> HIDE DEF raw
<1>5. delivered = [raw EXCEPT !.reply = IdFor(daemon, req)]
  BY DEF raw
<1> HIDE DEF delivered
<1>6. /\ Good(delivered) /\ Fits(delivered) /\ delivered.history = raw.history
  BY <1>3, <1>4, <1>5, ReplyEffect
<1>7. evicted \subseteq Ids
  BY <1>6 DEF Overflow, Good, Typed
<1>8. CASE evicted # {} /\ ~IsDiscarded(routing)
  <2>1. /\ daemon' = delivered
        /\ loop' = [op |-> "close", ids |-> evicted, reason |-> "undefined"]
    BY <1>8 DEF Notify, delivered, raw
  <2> HIDE DEF evicted
  <2>2. loop' \in [op : {"close", "dismiss"}, ids : SUBSET Ids, reason : Reasons]
    BY <1>7, <2>1 DEF Reasons
  <2>3. Overflow(daemon'.history) = evicted
    BY <2>1 DEF evicted
  <2>4. loop'.op = "close" /\ loop'.ids = evicted
    BY <2>1
  <2> QED BY <1>6, <2>1, <2>2, <2>3, <2>4, NextIInv
<1>9. CASE ~(evicted # {} /\ ~IsDiscarded(routing))
  <2>1. /\ daemon' = IF routing.history THEN Persist(delivered) ELSE delivered
        /\ loop' = loop
    BY <1>9 DEF Notify, delivered, raw
  <2>2. Overflow(delivered.history) = {}
    <3>1. CASE evicted = {}
      BY <3>1
    <3>2. CASE IsDiscarded(routing)
      <4>1. Overflow(raw.history) = {}
        BY <1>3, <3>2 DEF IsDiscarded
      <4> QED BY <1>6, <4>1
    <3> QED BY <1>9, <3>1, <3>2
  <2> DEFINE kept == Persist(delivered)
  <2>3. /\ Good(kept) /\ Fits(kept) /\ kept.history = delivered.history
    <3>1. kept = [delivered EXCEPT !.saved = kept.saved] /\ kept.saved \in Document
      BY <1>6, PersistTyped DEF Good
    <3> HIDE DEF kept
    <3>2. /\ DOMAIN kept = DOMAIN delivered /\ kept.reply = delivered.reply
          /\ kept.connected = delivered.connected /\ kept.dnd = delivered.dnd
          /\ kept.next = delivered.next /\ kept.history = delivered.history
          /\ kept.toasts = delivered.toasts /\ kept.timer = delivered.timer
          /\ kept.records = delivered.records /\ kept.unseen = delivered.unseen
          /\ kept.signals = delivered.signals
      BY <1>6, <3>1 DEF Good, Typed
    <3>3. Typed(kept)
      BY <1>6, <3>1, <3>2 DEF Good, Typed
    <3> QED BY <1>6, <3>2, <3>3, GoodStays
  <2> HIDE DEF kept
  <2>4. daemon' = kept \/ daemon' = delivered
    BY <2>1 DEF kept
  <2>5. Good(daemon') /\ Fits(daemon') /\ Overflow(daemon'.history) = {}
    BY <1>6, <2>2, <2>3, <2>4
  <2>6. loop' \in [op : {"close", "dismiss"}, ids : SUBSET Ids, reason : Reasons]
    BY <2>1 DEF IInv, TypeOK
  <2> QED BY <2>5, <2>6, NextIInv
<1> QED BY <1>8, <1>9

(* A handler that leaves both lists alone. *)
LEMMA KeepIInv ==
    ASSUME IInv, Good(daemon'), Fits(daemon'), daemon'.history = daemon.history,
           UNCHANGED loop
    PROVE  IInv'
<1>1. loop' \in [op : {"close", "dismiss"}, ids : SUBSET Ids, reason : Reasons]
  BY DEF IInv, TypeOK
<1>2. Overflow(daemon'.history) = Overflow(daemon.history)
  OBVIOUS
<1> QED BY <1>1, <1>2, NextIInv DEF IInv

(* A handler that only starts a loop; the history fits, since none ran. *)
LEMMA LoopStartIInv ==
    ASSUME IInv, Idle, daemon' = Quiet,
           loop' \in [op : {"close", "dismiss"}, ids : SUBSET Ids, reason : Reasons]
    PROVE  IInv'
<1>1. Good(daemon') /\ Fits(daemon') /\ daemon'.history = daemon.history
  BY QuietEffect
<1>2. Overflow(daemon'.history) = {}
  BY <1>1, IdleOverflow
<1> QED BY <1>1, <1>2, NextIInv

LEMMA ClearIInv ==
    ASSUME IInv, ClearAll \/ \E app \in Senders : ClearGroup(app)
    PROVE  IInv'
<1>1. Range(daemon.history) \subseteq Ids
  BY DEF IInv, Good, Typed, Range
<1>2. CASE ClearAll
  <2>1. loop' \in [op : {"close", "dismiss"}, ids : SUBSET Ids, reason : Reasons]
    BY <1>1, <1>2 DEF ClearAll, Reasons
  <2> QED BY <1>2, <2>1, LoopStartIInv DEF ClearAll
<1>3. CASE \E app \in Senders : ClearGroup(app)
  <2>1. PICK app \in Senders : ClearGroup(app)
    BY <1>3
  <2> DEFINE ids == {id \in Range(daemon.history) : daemon.records[id].app = app}
  <2>2. ids \in SUBSET Ids
    BY <1>1
  <2>3. loop' = [op |-> "close", reason |-> "dismissed", ids |-> ids]
    BY <2>1 DEF ClearGroup
  <2> HIDE DEF ids
  <2>4. loop' \in [op : {"close", "dismiss"}, ids : SUBSET Ids, reason : Reasons]
    BY <2>2, <2>3 DEF Reasons
  <2> QED BY <2>1, <2>4, LoopStartIInv DEF ClearGroup
<1> QED BY <1>2, <1>3

LEMMA ExpireIInv ==
    ASSUME IInv, ExpireDue
    PROVE  IInv'
<1>1. Due \in SUBSET Ids
  BY DEF Due, IInv, Good, Typed, Range
<1>2. loop' \in [op : {"close", "dismiss"}, ids : SUBSET Ids, reason : Reasons]
  <2>1. loop' = [op |-> "dismiss", ids |-> Due, reason |-> "expired"]
    BY DEF ExpireDue
  <2> QED BY <1>1, <2>1 DEF Reasons
<1> QED BY <1>2, LoopStartIInv DEF ExpireDue

LEMMA SetDndIInv ==
    ASSUME IInv, NEW dnd \in BOOLEAN, SetDnd(dnd)
    PROVE  IInv'
<1> DEFINE changed == [Quiet EXCEPT !.dnd = dnd]
           kept == Persist(changed)
<1>1. Good(Quiet) /\ Fits(Quiet) /\ Quiet.history = daemon.history
  BY QuietEffect
<1>2. /\ DOMAIN changed = DOMAIN Quiet /\ changed.dnd = dnd /\ changed.next = Quiet.next
      /\ changed.connected = Quiet.connected /\ changed.history = Quiet.history
      /\ changed.toasts = Quiet.toasts /\ changed.timer = Quiet.timer
      /\ changed.records = Quiet.records /\ changed.unseen = Quiet.unseen
      /\ changed.saved = Quiet.saved /\ changed.signals = Quiet.signals
      /\ changed.reply = Quiet.reply
  BY <1>1 DEF Good, Typed
<1>3. daemon' = Quiet \/ daemon' = kept
  BY DEF SetDnd
<1>4. UNCHANGED loop
  BY DEF SetDnd
<1> HIDE DEF changed
<1>5. Typed(changed)
  BY <1>1, <1>2 DEF Good, Typed
<1>6. Good(changed) /\ Fits(changed)
  BY <1>1, <1>2, <1>5, GoodStays
<1>7. kept = [changed EXCEPT !.saved = kept.saved] /\ kept.saved \in Document
  BY <1>6, PersistTyped DEF Good
<1> HIDE DEF kept
<1>8. /\ DOMAIN kept = DOMAIN changed /\ kept.dnd = changed.dnd /\ kept.next = changed.next
      /\ kept.connected = changed.connected /\ kept.history = changed.history
      /\ kept.toasts = changed.toasts /\ kept.timer = changed.timer
      /\ kept.records = changed.records /\ kept.unseen = changed.unseen
      /\ kept.signals = changed.signals /\ kept.reply = changed.reply
  BY <1>6, <1>7 DEF Good, Typed
<1>9. Typed(kept)
  BY <1>6, <1>7, <1>8 DEF Good, Typed
<1>10. Good(kept) /\ Fits(kept)
  BY <1>6, <1>8, <1>9, GoodStays
<1> QED BY <1>1, <1>2, <1>3, <1>4, <1>8, <1>10, KeepIInv

LEMMA FlagIInv ==
    ASSUME IInv, MarkSeen \/ Enabled
    PROVE  IInv'
<1>1. Good(Quiet) /\ Fits(Quiet) /\ Quiet.history = daemon.history
  BY QuietEffect
<1>2. /\ DOMAIN daemon' = DOMAIN Quiet /\ daemon'.dnd = Quiet.dnd
      /\ daemon'.next = Quiet.next /\ daemon'.history = Quiet.history
      /\ daemon'.toasts = Quiet.toasts /\ daemon'.timer = Quiet.timer
      /\ daemon'.records = Quiet.records /\ daemon'.saved = Quiet.saved
      /\ daemon'.signals = Quiet.signals /\ daemon'.reply = Quiet.reply
      /\ daemon'.unseen \in {0, Quiet.unseen}
      /\ daemon'.connected \in BOOLEAN
      /\ UNCHANGED loop
  <2>1. CASE MarkSeen
    <3>1. daemon' = [Quiet EXCEPT !.unseen = 0] /\ UNCHANGED loop
      BY <2>1 DEF MarkSeen
    <3> QED BY <1>1, <3>1 DEF Good, Typed
  <2>2. CASE Enabled
    <3>1. daemon' = [Quiet EXCEPT !.connected = TRUE] /\ UNCHANGED loop
      BY <2>2 DEF Enabled
    <3> QED BY <1>1, <3>1 DEF Good, Typed
  <2> QED BY <2>1, <2>2
<1>3. Typed(daemon')
  BY <1>1, <1>2 DEF Good, Typed
<1>4. Good(daemon') /\ Fits(daemon')
  BY <1>1, <1>2, <1>3, GoodStays
<1> QED BY <1>1, <1>2, <1>4, KeepIInv

LEMMA PauseIInv ==
    ASSUME IInv, NEW id, PauseToast(id) \/ ResumeToast(id)
    PROVE  IInv'
<1>1. PICK paused \in BOOLEAN : daemon' = SetPaused(Quiet, id, paused)
  BY DEF PauseToast, ResumeToast
<1>2. Good(Quiet) /\ Fits(Quiet) /\ Quiet.history = daemon.history
  BY QuietEffect
<1>3. /\ Good(daemon') /\ daemon'.toasts = Quiet.toasts
      /\ daemon'.history = Quiet.history
  BY <1>1, <1>2, SetPausedEffect
<1>4. UNCHANGED loop
  BY DEF PauseToast, ResumeToast
<1> QED BY <1>2, <1>3, <1>4, KeepIInv DEF Fits

(* Time only lowers what a timer has left. *)
LEMMA TickIInv ==
    ASSUME IInv, Tick
    PROVE  IInv'
<1>1. /\ Good(Quiet) /\ Fits(Quiet) /\ Quiet.history = daemon.history
      /\ Quiet.timer = daemon.timer
  BY QuietEffect
<1> DEFINE timer == [id \in DOMAIN Quiet.timer |-> RunDown(Quiet.timer[id])]
<1>2. daemon' = [Quiet EXCEPT !.timer = timer] /\ UNCHANGED loop
  BY DEF Tick
<1>3. /\ DOMAIN timer = DOMAIN Quiet.timer
      /\ \A id \in DOMAIN timer :
            timer[id] \in Timer /\ timer[id].expires = Quiet.timer[id].expires
  <2>1. \A id \in DOMAIN Quiet.timer : Quiet.timer[id] \in Timer
    BY <1>1 DEF Good, Typed
  <2>2. \A id \in DOMAIN Quiet.timer :
           /\ RunDown(Quiet.timer[id]) \in Timer
           /\ RunDown(Quiet.timer[id]).expires = Quiet.timer[id].expires
    BY <2>1 DEF Timer, RunDown
  <2> QED BY <2>2
<1> HIDE DEF timer
<1>4. /\ DOMAIN daemon' = DOMAIN Quiet /\ daemon'.dnd = Quiet.dnd
      /\ daemon'.next = Quiet.next /\ daemon'.history = Quiet.history
      /\ daemon'.toasts = Quiet.toasts /\ daemon'.timer = timer
      /\ daemon'.records = Quiet.records /\ daemon'.saved = Quiet.saved
      /\ daemon'.signals = Quiet.signals /\ daemon'.reply = Quiet.reply
      /\ daemon'.unseen = Quiet.unseen /\ daemon'.connected = Quiet.connected
  BY <1>1, <1>2 DEF Good, Typed
<1>5. Typed(daemon')
  BY <1>1, <1>3, <1>4 DEF Good, Typed
<1>6. Coherent(daemon') /\ Filed(daemon')
  BY <1>1, <1>3, <1>4 DEF Good, Coherent, Filed
<1>7. Timed(daemon')
  BY <1>1, <1>3, <1>4 DEF Good, Timed
<1> QED BY <1>1, <1>2, <1>4, <1>5, <1>6, <1>7, KeepIInv DEF Good, Fits

(* Closing one id of a loop leaves an overrun that the rest still covers. *)
LEMMA LoopStepIInv ==
    ASSUME IInv, NEW id \in Ids, LoopStep(id)
    PROVE  IInv'
<1> DEFINE c == Close(Quiet, id, loop.reason)
           rest == loop.ids \ {id}
<1>1. /\ loop \in [op : {"close", "dismiss"}, ids : SUBSET Ids, reason : Reasons]
      /\ loop.reason \in Reasons
  BY DEF IInv, TypeOK
<1>2. (loop' = NoLoop /\ rest = {}) \/ loop' = [loop EXCEPT !.ids = rest]
  BY DEF LoopStep
<1>3. /\ loop' \in [op : {"close", "dismiss"}, ids : SUBSET Ids, reason : Reasons]
      /\ loop'.ids = rest
  <2>1. CASE loop' = NoLoop /\ rest = {}
    BY <2>1 DEF NoLoop, Reasons
  <2>2. CASE loop' = [loop EXCEPT !.ids = rest]
    <3> HIDE DEF rest
    <3>1. rest \in SUBSET Ids
      BY <1>1 DEF rest
    <3> QED BY <1>1, <2>2, <3>1
  <2> QED BY <1>2, <2>1, <2>2
<1>4. loop'.op = "dismiss" => loop.op = "dismiss"
  BY <1>1, <1>2 DEF NoLoop
<1>5. CASE loop.op = "dismiss"
  <2>1. Overflow(daemon.history) = {}
    BY <1>5 DEF IInv
  <2>2. daemon' = DismissToast(Quiet, id, loop.reason)
    BY <1>5 DEF LoopStep
  <2> QED BY <1>1, <1>3, <2>1, <2>2, DismissIInv
<1>6. CASE loop.op # "dismiss"
  <2>1. daemon' = c
    BY <1>1, <1>6 DEF LoopStep
  <2>2. /\ Good(Quiet) /\ Fits(Quiet) /\ Quiet.history = daemon.history
    BY QuietEffect
  <2>3. /\ Good(c) /\ c.history = RemoveFirst(Quiet.history, id)
        /\ c.toasts = RemoveFirst(Quiet.toasts, id)
    BY <1>1, <2>2, CloseEffect DEF Good
  <2>4. /\ Quiet.toasts \in Seq(Ids) /\ IsInjective(Quiet.toasts)
        /\ Quiet.history \in Seq(Ids) /\ IsInjective(Quiet.history)
    BY <2>2 DEF Good, Typed, Coherent
  <2> HIDE DEF c
  <2>5. Overflow(c.history) \subseteq Overflow(daemon.history) \ {id}
    BY <2>2, <2>3, <2>4, OverflowShrinks
  <2>6. Overflow(c.history) \subseteq loop'.ids
    BY <1>3, <2>5 DEF IInv
  <2>7. Fits(c)
    <3>1. Len(c.toasts) = Len(Quiet.toasts) \/ Len(c.toasts) = Len(Quiet.toasts) - 1
      BY <2>3, <2>4, RemoveFirstProperties
    <3>2. Len(Quiet.toasts) \in Nat /\ MaxToasts \in Nat
      BY <2>4, ConstantsAssumption
    <3> QED BY <2>2, <3>1, <3>2 DEF Fits
  <2> QED BY <1>3, <1>4, <1>6, <2>1, <2>3, <2>6, <2>7, NextIInv
<1> QED BY <1>5, <1>6

-----------------------------------------------------------------------------
LEMMA RequestsTyped ==
    /\ \A req \in Requests : TypedRequest(req)
    /\ TypedRequest(Report)
<1>1. ASSUME NEW req \in Requests PROVE TypedRequest(req)
  <2>1. /\ req.app \in Apps /\ req.critical \in BOOLEAN /\ req.transient \in BOOLEAN
        /\ req.internal \in {FALSE} /\ req.expire \in Expires
    BY DEF Requests
  <2>2. req.internal \in BOOLEAN
    BY <2>1
  <2> QED BY <2>1, <2>2, ConstantsAssumption DEF TypedRequest, Senders
<1>2. TypedRequest(Report)
  BY DEF Report, TypedRequest, Senders
<1> QED BY <1>1, <1>2

LEMMA StepIInv == IInv /\ [Next]_vars => IInv'
<1> SUFFICES ASSUME IInv, [Next]_vars PROVE IInv'
  OBVIOUS
<1>1. CASE UNCHANGED vars
  BY ZenonT(60), <1>1 DEF vars, IInv, TypeOK, Good, Typed, Coherent, Filed, Timed, Fits, Overflow
<1>2. ASSUME NEW req \in Requests, Notify(req) PROVE IInv'
  BY <1>2, RequestsTyped, NotifyIInv
<1>3. CASE Notify(Report)
  BY <1>3, RequestsTyped, NotifyIInv
<1>4. ASSUME NEW id \in 1..IdBound, NEW reason \in {"dismissed", "requested"},
             CloseOne(id, reason)
      PROVE  IInv'
  BY <1>4, CloseIInv DEF CloseOne, Reasons
<1>5. ASSUME NEW id \in 1..IdBound, DismissOne(id) PROVE IInv'
  <2>1. /\ daemon' = DismissToast(Quiet, id, "dismissed")
        /\ Overflow(daemon.history) = {}
        /\ "dismissed" \in Reasons
    BY <1>5, IdleOverflow DEF DismissOne, Reasons
  <2>2. loop' \in [op : {"close", "dismiss"}, ids : SUBSET Ids, reason : Reasons]
    BY <1>5 DEF DismissOne, IInv, TypeOK
  <2> QED BY <2>1, <2>2, DismissIInv
<1>6. CASE ClearAll \/ \E app \in Senders : ClearGroup(app)
  BY <1>6, ClearIInv
<1>7. ASSUME NEW dnd \in BOOLEAN, SetDnd(dnd) PROVE IInv'
  BY <1>7, SetDndIInv
<1>8. CASE MarkSeen \/ Enabled
  BY <1>8, FlagIInv
<1>9. ASSUME NEW id \in 1..IdBound, PauseToast(id) \/ ResumeToast(id) PROVE IInv'
  BY <1>9, PauseIInv
<1>10. ASSUME NEW id \in 1..IdBound, InvokeAction(id) PROVE IInv'
  BY <1>10, CloseIInv DEF InvokeAction, Reasons
<1>11. CASE ExpireDue
  BY <1>11, ExpireIInv
<1>12. ASSUME NEW id \in Ids, LoopStep(id) PROVE IInv'
  BY <1>12, LoopStepIInv
<1>13. CASE Tick
  BY <1>13, TickIInv
<1> QED
  BY <1>1, <1>2, <1>3, <1>4, <1>5, <1>6, <1>7, <1>8, <1>9, <1>10, <1>11, <1>12, <1>13
     DEF Next, Step

\* The inductive invariant of the lists, timers, records and caps.
THEOREM Invariance == Spec => []IInv
<1>1. Init => IInv
  BY InitIInv
<1>2. IInv /\ [Next]_vars => IInv'
  BY StepIInv
<1> QED BY <1>1, <1>2, PTL DEF Spec

-----------------------------------------------------------------------------
(* What a restart rests on.  The document handed over is enough for one:   *)
(* every entry is among the first that restore() keeps, and in its order.  *)

Kept(d) ==
    /\ d.saved.dnd = d.dnd
    /\ \A i \in DOMAIN d.history : \E k \in DOMAIN d.saved.history :
          k <= MaxHistory /\ d.saved.history[k] = Entered(d, d.history[i])
    /\ \A i, j \in DOMAIN d.history : i < j =>
          \E k, l \in DOMAIN d.saved.history :
             /\ k < l /\ l <= MaxHistory
             /\ d.saved.history[k] = Entered(d, d.history[i])
             /\ d.saved.history[l] = Entered(d, d.history[j])

LEMMA DocumentKeeps ==
    ASSUME NEW d, d.history \in Seq(Ids), Len(d.history) <= MaxHistory,
           d.saved = DocumentOf(d)
    PROVE  Kept(d)
<1>1. /\ DOMAIN d.history = 1..Len(d.history) /\ Len(d.history) \in Nat
      /\ MaxHistory \in Nat
  BY ConstantsAssumption
<1>2. /\ d.saved.dnd = d.dnd
      /\ DOMAIN d.saved.history = DOMAIN d.history
      /\ \A i \in DOMAIN d.history : d.saved.history[i] = Entered(d, d.history[i])
  BY DEF DocumentOf
<1>3. \A i \in DOMAIN d.history : i <= MaxHistory
  BY <1>1
<1> QED BY <1>2, <1>3 DEF Kept

LEMMA DocumentDistinct ==
    ASSUME NEW d, Coherent(d)
    PROVE  Distinct(DocumentOf(d))
BY DEF Distinct, DocumentOf, Entered, Coherent, IsInjective

(* A history that lost an entry, or none, is still in the document.        *)
LEMMA ThinnerKeeps ==
    ASSUME NEW d, d.history \in Seq(Ids), IsInjective(d.history), Kept(d),
           NEW e, NEW id, e.saved = d.saved, e.dnd = d.dnd,
           e.history = RemoveFirst(d.history, id),
           \A x \in Range(e.history) : e.records[x] = d.records[x]
    PROVE  Kept(e)
<1>1. /\ e.history \in Seq(Ids) /\ IsInjective(e.history)
      /\ \A j \in 1..Len(e.history) :
            \/ e.history[j] = d.history[j]
            \/ j + 1 \in 1..Len(d.history) /\ e.history[j] = d.history[j+1]
      /\ Len(e.history) \in Nat /\ Len(d.history) \in Nat
      /\ Len(e.history) <= Len(d.history)
  BY RemoveFirstProperties
<1>2. DOMAIN e.history = 1..Len(e.history) /\ DOMAIN d.history = 1..Len(d.history)
  BY <1>1
<1>3. \A i \in DOMAIN e.history : Entered(e, e.history[i]) = Entered(d, e.history[i])
  BY DEF Entered, Range
<1>4. ASSUME NEW i \in DOMAIN e.history
      PROVE  \E a \in DOMAIN d.history : a \in {i, i+1} /\ d.history[a] = e.history[i]
  <2>1. i \in 1..Len(e.history) /\ i \in Nat /\ i \in DOMAIN d.history
    BY <1>1, <1>2
  <2>2. CASE e.history[i] = d.history[i]
    BY <2>1, <2>2
  <2>3. CASE i + 1 \in 1..Len(d.history) /\ e.history[i] = d.history[i+1]
    BY <1>2, <2>3
  <2> QED BY <1>1, <2>1, <2>2, <2>3
<1>5. ASSUME NEW i \in DOMAIN e.history
      PROVE  \E k \in DOMAIN e.saved.history :
                k <= MaxHistory /\ e.saved.history[k] = Entered(e, e.history[i])
  <2>1. PICK a \in DOMAIN d.history : d.history[a] = e.history[i]
    BY <1>4
  <2> QED BY <1>3, <2>1 DEF Kept
<1>6. ASSUME NEW i \in DOMAIN e.history, NEW j \in DOMAIN e.history, i < j
      PROVE  \E k, l \in DOMAIN e.saved.history :
                /\ k < l /\ l <= MaxHistory
                /\ e.saved.history[k] = Entered(e, e.history[i])
                /\ e.saved.history[l] = Entered(e, e.history[j])
  <2>1. PICK a \in DOMAIN d.history : a \in {i, i+1} /\ d.history[a] = e.history[i]
    BY <1>4
  <2>2. PICK b \in DOMAIN d.history : b \in {j, j+1} /\ d.history[b] = e.history[j]
    BY <1>4
  <2>3. e.history[i] # e.history[j]
    BY <1>1, <1>6 DEF IsInjective
  <2>4. a < b
    BY <1>2, <1>6, <2>1, <2>2, <2>3
  <2>5. PICK k \in DOMAIN d.saved.history, l \in DOMAIN d.saved.history :
           /\ k < l /\ l <= MaxHistory
           /\ d.saved.history[k] = Entered(d, d.history[a])
           /\ d.saved.history[l] = Entered(d, d.history[b])
    BY <2>4 DEF Kept
  <2> QED BY <1>3, <2>1, <2>2, <2>5
<1>7. e.saved.dnd = e.dnd
  BY DEF Kept
<1> QED BY <1>5, <1>6, <1>7 DEF Kept

LEMMA SameKeeps ==
    ASSUME NEW d, Kept(d), NEW e, e.saved = d.saved, e.dnd = d.dnd, e.history = d.history,
           \A x \in Range(d.history) : e.records[x] = d.records[x]
    PROVE  Kept(e)
<1>1. \A i \in DOMAIN d.history : Entered(e, d.history[i]) = Entered(d, d.history[i])
  BY DEF Entered, Range
<1> QED BY <1>1 DEF Kept

(* Between commands the document is enough; a loop that closes makes it so *)
(* with the last entry it takes from the history.  And a loop that         *)
(* dismisses was started for banners whose time was running.               *)
Dismissing ==
    loop.op = "dismiss" =>
        /\ loop.ids # {}
        /\ \A id \in loop.ids \cap DOMAIN daemon.timer : daemon.timer[id].running

JInv ==
    /\ IInv
    /\ Distinct(daemon.saved)
    /\ \/ Kept(daemon)
       \/ loop.op = "close" /\ loop.ids \cap Range(daemon.history) # {}
    /\ Dismissing

LEMMA QuietLeaves ==
    ASSUME IInv
    PROVE  /\ Quiet.signals = << >> /\ Quiet.reply = 0
           /\ Quiet.connected = daemon.connected /\ Quiet.dnd = daemon.dnd
           /\ Quiet.saved = daemon.saved
           /\ Kept(daemon) => Kept(Quiet)
<1>1. /\ Quiet.signals = << >> /\ Quiet.reply = 0
      /\ Quiet.connected = daemon.connected /\ Quiet.dnd = daemon.dnd
      /\ Quiet.saved = daemon.saved /\ Quiet.history = daemon.history
      /\ Quiet.records = daemon.records
  BY DEF Quiet, IInv, Good, Typed
<1> QED BY <1>1, SameKeeps

LEMMA IdleKept ==
    ASSUME JInv, Idle
    PROVE  Kept(daemon) /\ loop.op # "dismiss" /\ Kept(Quiet)
BY QuietLeaves DEF JInv, Idle, Dismissing

(* What every step but a delivery does to the promises made outside.       *)
Discreet ==
    /\ Told(Quiet, daemon') /\ daemon'.reply = 0
    /\ daemon'.next = daemon.next /\ DOMAIN daemon'.records \subseteq DOMAIN daemon.records

LEMMA CloseJInv ==
    ASSUME JInv, Idle, NEW id, NEW reason \in Reasons,
           daemon' = Close(Quiet, id, reason), UNCHANGED loop
    PROVE  JInv' /\ Discreet
<1> DEFINE c == Close(Quiet, id, reason)
<1>1. /\ Good(Quiet) /\ Quiet.signals = << >> /\ Quiet.reply = 0
      /\ Quiet.saved = daemon.saved /\ Kept(Quiet)
      /\ Quiet.next = daemon.next /\ Quiet.records = daemon.records
  BY QuietEffect, QuietLeaves, IdleKept DEF JInv
<1>2. /\ Steady(Quiet, c) /\ Told(Quiet, c)
      /\ id \notin Range(Quiet.history) => c.saved = Quiet.saved
      /\ id \in Range(Quiet.history) => c.saved = DocumentOf(c)
  BY <1>1, CloseLeaves DEF Good
<1>3. /\ Typed(c) /\ Coherent(c) /\ c.history = RemoveFirst(Quiet.history, id)
      /\ DOMAIN c.records = DOMAIN Quiet.records \ {id}
      /\ \A x \in DOMAIN Quiet.records \ {id} : c.records[x] = Quiet.records[x]
  BY <1>1, CloseEffect DEF Good
<1>4. IInv'
  BY CloseIInv DEF JInv
<1>5. daemon' = c
  OBVIOUS
<1> HIDE DEF c
<1>6. Len(c.history) <= MaxHistory
  BY <1>3, <1>4, <1>5, NothingOverflows DEF IInv, Idle, Typed
<1>7. Kept(c) /\ Distinct(c.saved)
  <2>1. CASE id \in Range(Quiet.history)
    BY <1>2, <1>3, <1>6, <2>1, DocumentKeeps, DocumentDistinct DEF Typed
  <2>2. CASE id \notin Range(Quiet.history)
    <3>1. /\ Quiet.history \in Seq(Ids) /\ IsInjective(Quiet.history)
          /\ Range(Quiet.history) \subseteq DOMAIN Quiet.records
      BY <1>1 DEF Good, Typed, Coherent
    <3>2. c.history = Quiet.history
      BY <1>3, <2>2, <3>1, RemoveFirstProperties
    <3>3. \A x \in Range(Quiet.history) : c.records[x] = Quiet.records[x]
      BY <1>3, <2>2, <3>1
    <3> QED BY <1>1, <1>2, <2>2, <3>2, <3>3, SameKeeps DEF Steady, JInv
  <2> QED BY <2>1, <2>2
<1>8. loop'.op # "dismiss"
  BY IdleKept
<1>9. Discreet
  BY <1>1, <1>2, <1>3, <1>5 DEF Discreet, Steady
<1> QED BY <1>4, <1>5, <1>7, <1>8, <1>9 DEF JInv, Dismissing

LEMMA DismissJInv ==
    ASSUME JInv, Kept(daemon), NEW id, NEW reason \in Reasons,
           daemon' = DismissToast(Quiet, id, reason), IInv', Dismissing'
    PROVE  JInv' /\ Discreet
<1> DEFINE c == DismissToast(Quiet, id, reason)
<1>1. /\ Good(Quiet) /\ Quiet.signals = << >> /\ Quiet.reply = 0
      /\ Quiet.saved = daemon.saved /\ Kept(Quiet)
      /\ Quiet.next = daemon.next /\ Quiet.records = daemon.records
  BY QuietEffect, QuietLeaves DEF JInv
<1>2. /\ Steady(Quiet, c) /\ Told(Quiet, c) /\ c.saved = Quiet.saved
      /\ c.history = Quiet.history /\ DOMAIN c.records \subseteq DOMAIN Quiet.records
      /\ \A x \in Range(Quiet.history) : c.records[x] = Quiet.records[x]
  BY <1>1, DismissToastLeaves DEF Good
<1>3. daemon' = c
  OBVIOUS
<1> HIDE DEF c
<1>4. Kept(c)
  BY <1>1, <1>2, SameKeeps DEF Steady
<1> QED BY <1>1, <1>2, <1>3, <1>4 DEF JInv, Discreet, Steady

(* A step that touches neither list, record nor document.                  *)
LEMMA KeepJInv ==
    ASSUME JInv, IInv', Dismissing', loop' = loop \/ Idle,
           daemon'.history = Quiet.history, daemon'.records = Quiet.records,
           daemon'.saved = Quiet.saved, daemon'.dnd = Quiet.dnd, daemon'.next = Quiet.next,
           daemon'.signals = << >>, daemon'.reply = 0
    PROVE  JInv' /\ Discreet
<1>1. /\ Quiet.saved = daemon.saved /\ Quiet.history = daemon.history
      /\ Quiet.records = daemon.records /\ Quiet.dnd = daemon.dnd /\ Quiet.next = daemon.next
  BY QuietEffect, QuietLeaves DEF JInv
<1>2. Kept(daemon) => Kept(daemon')
  BY <1>1, SameKeeps
<1>3. \/ Kept(daemon')
      \/ loop'.op = "close" /\ loop'.ids \cap Range(daemon'.history) # {}
  BY <1>1, <1>2, IdleKept DEF JInv
<1>4. Kept(daemon)' <=> Kept(daemon')
  BY DEF Kept, Entered
<1> QED BY <1>1, <1>3, <1>4 DEF JInv, Discreet, Told

LEMMA SetDndJInv ==
    ASSUME JInv, NEW dnd \in BOOLEAN, SetDnd(dnd)
    PROVE  JInv' /\ Discreet
<1> DEFINE changed == [Quiet EXCEPT !.dnd = dnd]
           kept == Persist(changed)
<1>1. /\ Good(Quiet) /\ Quiet.signals = << >> /\ Quiet.reply = 0
      /\ Quiet.saved = daemon.saved /\ Quiet.history = daemon.history /\ Kept(Quiet)
      /\ Quiet.next = daemon.next /\ Quiet.records = daemon.records
      /\ loop.op # "dismiss"
  BY QuietEffect, QuietLeaves, IdleKept DEF JInv, SetDnd
<1>2. IInv'
  BY SetDndIInv DEF JInv
<1>3. UNCHANGED loop /\ Idle
  BY DEF SetDnd
<1>4. Dismissing'
  BY <1>1, <1>3 DEF Dismissing
<1>5. CASE daemon.dnd = dnd
  <2>1. daemon' = Quiet
    BY <1>5 DEF SetDnd
  <2> QED BY <1>1, <1>2, <1>3, <1>4, <2>1, KeepJInv
<1>6. CASE daemon.dnd # dnd
  <2>1. daemon' = kept
    BY <1>6 DEF SetDnd
  <2>2. /\ changed.signals = << >> /\ changed.reply = 0 /\ changed.records = Quiet.records
        /\ changed.history = Quiet.history /\ DOMAIN changed = DOMAIN Quiet
        /\ changed.connected = Quiet.connected
        /\ changed.toasts = Quiet.toasts /\ changed.timer = Quiet.timer
        /\ changed.unseen = Quiet.unseen /\ changed.next = Quiet.next
        /\ changed.saved = Quiet.saved /\ changed.dnd = dnd
    BY <1>1 DEF Good, Typed
  <2> HIDE DEF changed
  <2>3. Typed(changed)
    BY <1>1, <2>2 DEF Good, Typed
  <2>4. /\ kept.saved = DocumentOf(changed) /\ Steady(changed, kept)
        /\ kept.signals = changed.signals /\ kept.records = changed.records
        /\ kept.history = changed.history
    BY <2>3, PersistLeaves
  <2> HIDE DEF kept
  <2>5. DocumentOf(kept) = DocumentOf(changed)
    BY <2>4 DEF DocumentOf, Entered, Steady
  <2>6. kept.history \in Seq(Ids) /\ Coherent(kept) /\ Len(kept.history) <= MaxHistory
    BY <1>2, <1>3, <2>1, NothingOverflows DEF IInv, Idle, Good, Typed
  <2>7. Kept(kept) /\ Distinct(kept.saved)
    BY <2>4, <2>5, <2>6, DocumentKeeps, DocumentDistinct
  <2>8. /\ Told(Quiet, kept) /\ kept.reply = 0
        /\ kept.next = daemon.next /\ kept.records = daemon.records
    BY <1>1, <2>2, <2>4 DEF Told, Steady
  <2> QED BY <1>2, <1>4, <2>1, <2>7, <2>8 DEF JInv, Discreet
<1> QED BY <1>5, <1>6

LEMMA FlagJInv ==
    ASSUME JInv, MarkSeen \/ Enabled \/ ExpireDue \/ ClearAll \/ \E app \in Senders : ClearGroup(app)
    PROVE  JInv' /\ Discreet
<1>1. /\ Good(Quiet) /\ Quiet.signals = << >> /\ Quiet.reply = 0
      /\ Quiet.timer = daemon.timer
  BY QuietEffect, QuietLeaves DEF JInv
<1>2. Idle
  BY DEF MarkSeen, Enabled, ExpireDue, ClearAll, ClearGroup
<1>3. IInv'
  BY FlagIInv, ExpireIInv, ClearIInv DEF JInv
<1>4. /\ daemon'.history = Quiet.history /\ daemon'.records = Quiet.records
      /\ daemon'.saved = Quiet.saved /\ daemon'.dnd = Quiet.dnd
      /\ daemon'.next = Quiet.next
      /\ daemon'.signals = << >> /\ daemon'.reply = 0
  <2>1. CASE MarkSeen
    <3>1. daemon' = [Quiet EXCEPT !.unseen = 0]
      BY <2>1 DEF MarkSeen
    <3> QED BY <1>1, <3>1 DEF Good, Typed
  <2>2. CASE Enabled
    <3>1. daemon' = [Quiet EXCEPT !.connected = TRUE]
      BY <2>2 DEF Enabled
    <3> QED BY <1>1, <3>1 DEF Good, Typed
  <2>3. CASE ExpireDue \/ ClearAll \/ \E app \in Senders : ClearGroup(app)
    <3>1. daemon' = Quiet
      BY <2>3 DEF ExpireDue, ClearAll, ClearGroup
    <3> QED BY <1>1, <3>1
  <2> QED BY <2>1, <2>2, <2>3
<1>5. Dismissing'
  <2>1. CASE MarkSeen \/ Enabled
    <3>1. loop' = loop
      BY <2>1 DEF MarkSeen, Enabled
    <3> QED BY <1>2, <3>1, IdleKept DEF Dismissing
  <2>2. CASE ExpireDue
    <3>1. /\ daemon' = Quiet /\ Due # {}
          /\ loop' = [op |-> "dismiss", ids |-> Due, reason |-> "expired"]
      BY <2>2 DEF ExpireDue
    <3>2. \A id \in Due : daemon.timer[id].running
      BY DEF Due
    <3>3. loop'.ids = Due
      BY <3>1
    <3> QED BY <1>1, <3>1, <3>2, <3>3 DEF Dismissing
  <2>3. CASE ClearAll \/ \E app \in Senders : ClearGroup(app)
    <3>1. loop'.op = "close"
      BY <2>3 DEF ClearAll, ClearGroup
    <3> QED BY <3>1 DEF Dismissing
  <2> QED BY <2>1, <2>2, <2>3
<1> QED BY <1>2, <1>3, <1>4, <1>5, KeepJInv

LEMMA TimerJInv ==
    ASSUME JInv, Tick \/ \E id : PauseToast(id) \/ ResumeToast(id)
    PROVE  JInv' /\ Discreet
<1>1. /\ Good(Quiet) /\ Quiet.signals = << >> /\ Quiet.reply = 0
      /\ Quiet.timer = daemon.timer
  BY QuietEffect, QuietLeaves DEF JInv
<1>2. IInv'
  BY TickIInv, PauseIInv DEF JInv
<1>3. CASE Tick
  <2> DEFINE timer == [id \in DOMAIN Quiet.timer |-> RunDown(Quiet.timer[id])]
  <2>1. daemon' = [Quiet EXCEPT !.timer = timer] /\ loop' = loop
    BY <1>3 DEF Tick
  <2>2. /\ DOMAIN timer = DOMAIN daemon.timer
        /\ \A id \in DOMAIN timer : timer[id].running <=> daemon.timer[id].running
    <3>1. \A id \in DOMAIN Quiet.timer : Quiet.timer[id] \in Timer
      BY <1>1 DEF Good, Typed
    <3>2. \A id \in DOMAIN Quiet.timer :
             RunDown(Quiet.timer[id]).running <=> Quiet.timer[id].running
      BY <3>1 DEF Timer, RunDown
    <3> QED BY <1>1, <3>2
  <2> HIDE DEF timer
  <2>3. /\ daemon'.history = Quiet.history /\ daemon'.records = Quiet.records
        /\ daemon'.saved = Quiet.saved /\ daemon'.dnd = Quiet.dnd
        /\ daemon'.next = Quiet.next
        /\ daemon'.signals = << >> /\ daemon'.reply = 0 /\ daemon'.timer = timer
    BY <1>1, <2>1 DEF Good, Typed
  <2>4. Dismissing'
    BY <2>1, <2>2, <2>3 DEF JInv, Dismissing
  <2> QED BY <1>2, <2>1, <2>2, <2>3, <2>4, KeepJInv
<1>4. CASE \E id : PauseToast(id) \/ ResumeToast(id)
  <2>0. PICK id : PauseToast(id) \/ ResumeToast(id)
    BY <1>4
  <2>1. PICK paused \in BOOLEAN :
           daemon' = SetPaused(Quiet, id, paused) /\ Idle /\ loop' = loop
    BY <2>0 DEF PauseToast, ResumeToast
  <2>2. /\ daemon'.history = Quiet.history /\ daemon'.records = Quiet.records
        /\ daemon'.saved = Quiet.saved /\ daemon'.dnd = Quiet.dnd
        /\ daemon'.next = Quiet.next
        /\ daemon'.signals = << >> /\ daemon'.reply = 0
    <3>1. CASE ~Contains(Quiet.toasts, id)
      BY <1>1, <2>1, <3>1 DEF SetPaused
    <3>2. CASE Contains(Quiet.toasts, id)
      <4> DEFINE timer == [Quiet.timer EXCEPT ![id].running = ~paused /\ Quiet.timer[id].expires]
      <4>1. daemon' = [Quiet EXCEPT !.timer = timer]
        BY <1>1, <2>1, <3>2 DEF SetPaused, Good, Typed
      <4> HIDE DEF timer
      <4> QED BY <1>1, <4>1 DEF Good, Typed
    <3> QED BY <3>1, <3>2
  <2>3. Dismissing'
    BY <2>1, IdleKept DEF Dismissing
  <2> QED BY <1>2, <2>1, <2>2, <2>3, KeepJInv
<1> QED BY <1>3, <1>4

LEMMA TickKeepsBanners ==
    ASSUME IInv, Tick
    PROVE  DOMAIN daemon'.timer = DOMAIN daemon.timer
<1> DEFINE timer == [id \in DOMAIN Quiet.timer |-> RunDown(Quiet.timer[id])]
<1>1. Good(Quiet) /\ Quiet.timer = daemon.timer
  BY QuietEffect
<1>2. daemon' = [Quiet EXCEPT !.timer = timer]
  BY DEF Tick
<1>3. DOMAIN timer = DOMAIN daemon.timer
  BY <1>1
<1> HIDE DEF timer
<1> QED BY <1>1, <1>2, <1>3 DEF Good, Typed

(* The turn of a loop that takes the last entry to go out of the history   *)
(* is the one that makes the document enough.                              *)
LEMMA LoopStepJInv ==
    ASSUME JInv, NEW id \in Ids, LoopStep(id)
    PROVE  JInv' /\ Discreet
<1> DEFINE c == Close(Quiet, id, loop.reason)
           e == DismissToast(Quiet, id, loop.reason)
<1>1. /\ Good(Quiet) /\ Quiet.signals = << >> /\ Quiet.reply = 0
      /\ Quiet.saved = daemon.saved /\ (Kept(daemon) => Kept(Quiet))
      /\ Quiet.timer = daemon.timer /\ Quiet.history = daemon.history
      /\ Quiet.next = daemon.next /\ Quiet.records = daemon.records
  BY QuietEffect, QuietLeaves DEF JInv
<1>2. /\ IInv'
      /\ loop \in [op : {"close", "dismiss"}, ids : SUBSET Ids, reason : Reasons]
      /\ loop.reason \in Reasons
  BY LoopStepIInv DEF JInv, IInv, TypeOK
<1>3. \/ loop' = NoLoop /\ loop.ids = {id}
      \/ loop.ids # {id} /\ loop' = [loop EXCEPT !.ids = loop.ids \ {id}]
  BY DEF LoopStep
<1>4. /\ id \in loop.ids
      /\ loop'.ids = loop.ids \ {id}
      /\ loop'.ids # {} => loop'.op = loop.op
      /\ loop'.op = "dismiss" => loop.op = "dismiss" /\ loop'.ids # {}
  <2>0. id \in loop.ids
    BY DEF LoopStep
  <2>1. CASE loop' = NoLoop /\ loop.ids = {id}
    BY <2>0, <2>1 DEF NoLoop
  <2>2. CASE loop.ids # {id} /\ loop' = [loop EXCEPT !.ids = loop.ids \ {id}]
    <3>1. loop'.ids = loop.ids \ {id} /\ loop'.op = loop.op
      BY <1>2, <2>2
    <3> QED BY <2>0, <2>2, <3>1
  <2> QED BY <1>3, <2>1, <2>2
<1>5. CASE loop.op = "dismiss"
  <2>1. Kept(daemon)
    BY <1>5 DEF JInv
  <2>2. daemon' = e
    BY <1>5 DEF LoopStep
  <2>3. /\ Range(e.toasts) = Range(Quiet.toasts) \ {id} /\ Coherent(e)
        /\ \A x \in DOMAIN Quiet.timer \ {id} : e.timer[x] = Quiet.timer[x]
    BY <1>1, <1>2, DismissToastLeaves DEF Good
  <2> HIDE DEF e
  <2>4. DOMAIN e.timer \subseteq DOMAIN daemon.timer \ {id}
    BY <1>1, <2>3 DEF Good, Coherent
  <2>5. Dismissing'
    BY <1>1, <1>4, <1>5, <2>2, <2>3, <2>4 DEF JInv, Dismissing
  <2> QED BY <1>2, <2>1, <2>2, <2>5, DismissJInv DEF e
<1>6. CASE loop.op # "dismiss"
  <2>1. daemon' = c /\ loop.op = "close" /\ loop'.op # "dismiss"
    BY <1>2, <1>4, <1>6 DEF LoopStep
  <2>2. /\ Steady(Quiet, c) /\ Told(Quiet, c)
        /\ id \notin Range(Quiet.history) => c.saved = Quiet.saved
        /\ id \in Range(Quiet.history) => c.saved = DocumentOf(c)
    BY <1>1, <1>2, CloseLeaves DEF Good
  <2>3. /\ Typed(c) /\ Coherent(c) /\ c.history = RemoveFirst(Quiet.history, id)
        /\ DOMAIN c.records = DOMAIN Quiet.records \ {id}
        /\ \A x \in DOMAIN Quiet.records \ {id} : c.records[x] = Quiet.records[x]
    BY <1>1, <1>2, CloseEffect DEF Good
  <2> HIDE DEF c
  <2>0. Discreet
    BY <1>1, <2>1, <2>2, <2>3 DEF Discreet, Steady
  <2>4. CASE id \in Range(Quiet.history)
    <3>1. Distinct(c.saved)
      BY <2>2, <2>3, <2>4, DocumentDistinct
    <3>2. CASE Overflow(c.history) = {}
      <4>1. Kept(c)
        BY <2>2, <2>3, <2>4, <3>2, NothingOverflows, DocumentKeeps DEF Typed
      <4> QED BY <1>2, <2>0, <2>1, <3>1, <4>1 DEF JInv, Dismissing
    <3>3. CASE Overflow(c.history) # {}
      <4>1. Overflow(c.history) \subseteq loop'.ids
        BY <1>2, <2>1 DEF IInv
      <4>2. Overflow(c.history) \subseteq Range(c.history)
        BY DEF Overflow, Range
      <4>3. loop'.op = "close" /\ loop'.ids \cap Range(c.history) # {}
        BY <1>4, <2>1, <3>3, <4>1, <4>2
      <4> QED BY <1>2, <2>0, <2>1, <3>1, <4>3 DEF JInv, Dismissing
    <3> QED BY <3>2, <3>3
  <2>5. CASE id \notin Range(Quiet.history)
    <3>1. /\ Quiet.history \in Seq(Ids) /\ IsInjective(Quiet.history)
          /\ Range(Quiet.history) \subseteq DOMAIN Quiet.records
      BY <1>1 DEF Good, Typed, Coherent
    <3>2. c.history = Quiet.history /\ c.saved = Quiet.saved /\ Distinct(c.saved)
      BY <1>1, <2>2, <2>3, <2>5, <3>1, RemoveFirstProperties DEF JInv
    <3>3. \A x \in Range(Quiet.history) : c.records[x] = Quiet.records[x]
      BY <2>3, <2>5, <3>1
    <3>4. CASE Kept(daemon)
      <4>1. Kept(c)
        BY <1>1, <2>2, <3>2, <3>3, <3>4, SameKeeps DEF Steady
      <4> QED BY <1>2, <2>0, <2>1, <3>2, <4>1 DEF JInv, Dismissing
    <3>5. CASE loop.ids \cap Range(daemon.history) # {}
      <4>1. loop'.op = "close" /\ loop'.ids \cap Range(c.history) # {}
        BY <1>1, <1>4, <2>1, <2>5, <3>2, <3>5
      <4> QED BY <1>2, <2>0, <2>1, <3>2, <4>1 DEF JInv, Dismissing
    <3> QED BY <3>4, <3>5 DEF JInv
  <2> QED BY <2>4, <2>5
<1> QED BY <1>5, <1>6

(* What a delivery does to the promises made outside.                       *)
LEMMA NotifyJInv ==
    ASSUME JInv, NEW req, TypedRequest(req), Notify(req)
    PROVE  LET id == IdFor(daemon, req)
           IN  /\ JInv' /\ Told(Quiet, daemon')
               /\ Idle /\ id \in Ids
               /\ daemon'.reply = id /\ daemon'.next = NextId(daemon, req)
               /\ DOMAIN daemon'.records \subseteq DOMAIN daemon.records \cup {id}
               /\ id \in DOMAIN daemon'.records => daemon'.records[id] = RecordOf(req)
               /\ req.critical =>
                     /\ CriticalToasts(daemon) \subseteq Range(daemon'.toasts)
                     /\ \/ id \in Range(daemon'.toasts)
                        \/ /\ CriticalToasts(daemon) = Range(daemon.toasts)
                           /\ Len(daemon.toasts) >= MaxToasts
<1> DEFINE id == IdFor(daemon, req)
           raw == Deliver(Quiet, req)
           delivered == [raw EXCEPT !.reply = id]
           routing == Route(req, daemon.dnd)
           evicted == Overflow(delivered.history)
<1>1. /\ Good(Quiet) /\ Fits(Quiet) /\ Quiet.signals = << >>
      /\ Quiet.saved = daemon.saved /\ Kept(Quiet)
      /\ Quiet.history = daemon.history /\ Quiet.toasts = daemon.toasts
      /\ Quiet.records = daemon.records /\ Quiet.dnd = daemon.dnd /\ Quiet.next = daemon.next
      /\ Idle /\ loop.op # "dismiss" /\ Overflow(Quiet.history) = {}
  BY QuietEffect, QuietLeaves, IdleKept, IdleOverflow DEF JInv, Notify
<1>2. /\ id = IdFor(Quiet, req) /\ routing = Route(req, Quiet.dnd)
      /\ NextId(Quiet, req) = NextId(daemon, req)
      /\ CriticalToasts(Quiet) = CriticalToasts(daemon)
  BY <1>1 DEF IdFor, Replacing, NextId, CriticalToasts
<1>3. id \in Ids
  BY DEF IdFor, Replacing, JInv, IInv, Good, Typed
<1>4. IInv'
  BY NotifyIInv DEF JInv
<1>5. IF evicted # {} /\ ~IsDiscarded(routing)
      THEN /\ daemon' = delivered
           /\ loop' = [op |-> "close", ids |-> evicted, reason |-> "undefined"]
      ELSE /\ daemon' = IF routing.history THEN Persist(delivered) ELSE delivered
           /\ UNCHANGED loop
  BY DEF Notify
<1> HIDE DEF id, routing
<1>6. /\ raw.connected = Quiet.connected /\ raw.dnd = Quiet.dnd /\ raw.saved = Quiet.saved
      /\ raw.next = NextId(daemon, req)
      /\ Told(Quiet, raw)
      /\ DOMAIN raw.records \subseteq DOMAIN Quiet.records \cup {id}
      /\ id \in DOMAIN raw.records => raw.records[id] = RecordOf(req)
      /\ ~routing.history =>
            /\ raw.history = RemoveFirst(Quiet.history, id)
            /\ \A x \in Range(Quiet.history) \ {id} : raw.records[x] = Quiet.records[x]
      /\ req.critical =>
            /\ CriticalToasts(daemon) \subseteq Range(raw.toasts)
            /\ \/ id \in Range(raw.toasts)
               \/ CriticalToasts(daemon) = Range(daemon.toasts) /\ Len(daemon.toasts) >= MaxToasts
  BY <1>1, <1>2, DeliverLeaves
<1>7. Good(raw) /\ Fits(raw)
  BY <1>1, DeliverEffect
<1> HIDE DEF raw
<1>8. /\ delivered.connected = raw.connected /\ delivered.dnd = raw.dnd
      /\ delivered.saved = raw.saved /\ delivered.next = raw.next
      /\ delivered.signals = raw.signals /\ delivered.records = raw.records
      /\ delivered.history = raw.history /\ delivered.toasts = raw.toasts
      /\ delivered.reply = id
  BY <1>7 DEF Good, Typed
<1>9. Good(delivered)
  BY <1>3, <1>7, ReplyEffect
<1> HIDE DEF delivered
<1>10. Told(Quiet, delivered)
  BY <1>6, <1>8 DEF Told
<1>11. CASE evicted # {} /\ ~IsDiscarded(routing)
  <2>1. /\ daemon' = delivered
        /\ loop' = [op |-> "close", ids |-> evicted, reason |-> "undefined"]
    BY <1>5, <1>11
  <2>2. evicted \subseteq Range(delivered.history)
    BY DEF Overflow, Range
  <2> HIDE DEF evicted
  <2>3. loop'.op = "close" /\ loop'.ids = evicted
    BY <2>1
  <2>4. loop'.op = "close" /\ loop'.ids \cap Range(daemon'.history) # {}
    BY <1>11, <2>1, <2>2, <2>3
  <2>5. JInv'
    BY <1>1, <1>4, <1>6, <1>8, <2>1, <2>4 DEF JInv, Dismissing
  <2> QED BY <1>1, <1>3, <1>6, <1>8, <1>10, <2>1, <2>5 DEF id
<1>12. CASE ~(evicted # {} /\ ~IsDiscarded(routing))
  <2>1. /\ daemon' = IF routing.history THEN Persist(delivered) ELSE delivered
        /\ loop' = loop
    BY <1>5, <1>12
  <2>2. Dismissing'
    BY <1>1, <2>1 DEF Dismissing
  <2>3. CASE routing.history
    <3> DEFINE kept == Persist(delivered)
    <3>1. daemon' = kept
      BY <2>1, <2>3
    <3>2. /\ kept.saved = DocumentOf(delivered) /\ Steady(delivered, kept)
          /\ kept.signals = delivered.signals /\ kept.records = delivered.records
          /\ kept.history = delivered.history /\ kept.toasts = delivered.toasts
      BY <1>9, PersistLeaves DEF Good
    <3> HIDE DEF kept
    <3>3. DocumentOf(kept) = DocumentOf(delivered)
      BY <3>2 DEF DocumentOf, Entered, Steady
    <3>4. kept.history \in Seq(Ids) /\ Coherent(kept) /\ Len(kept.history) <= MaxHistory
      BY <1>1, <1>4, <2>1, <3>1, NothingOverflows DEF IInv, Idle, Good, Typed
    <3>5. Kept(kept) /\ Distinct(kept.saved)
      BY <3>2, <3>3, <3>4, DocumentKeeps, DocumentDistinct
    <3>6. Told(Quiet, kept)
      BY <1>10, <3>2 DEF Told
    <3>7. JInv'
      BY <1>4, <2>2, <3>1, <3>5 DEF JInv
    <3> QED BY <1>1, <1>3, <1>6, <1>8, <3>1, <3>2, <3>6, <3>7 DEF id, Steady
  <2>4. CASE ~routing.history
    <3>1. daemon' = delivered
      BY <2>1, <2>4
    <3>2. /\ Quiet.history \in Seq(Ids) /\ IsInjective(Quiet.history)
      BY <1>1 DEF Good, Typed, Coherent
    <3>3. Range(delivered.history) = Range(Quiet.history) \ {id}
      BY <1>6, <1>8, <2>4, <3>2, RemoveFirstProperties
    <3>4. \A x \in Range(delivered.history) : delivered.records[x] = Quiet.records[x]
      BY <1>6, <1>8, <2>4, <3>3
    <3>5. Kept(delivered)
      <4>1. /\ delivered.saved = Quiet.saved /\ delivered.dnd = Quiet.dnd
            /\ delivered.history = RemoveFirst(Quiet.history, id)
        BY <1>6, <1>8, <2>4
      <4>2. Kept(Quiet)
        BY <1>1
      <4> QED BY <3>2, <3>4, <4>1, <4>2, ThinnerKeeps
    <3>6. JInv'
      BY <1>1, <1>4, <1>6, <1>8, <2>2, <3>1, <3>5 DEF JInv
    <3> QED BY <1>1, <1>3, <1>6, <1>8, <1>10, <3>1, <3>6 DEF id
  <2> QED BY <2>3, <2>4
<1> QED BY <1>11, <1>12

LEMMA NextJInv ==
    ASSUME JInv, Next
    PROVE  /\ JInv'
           /\ Told(Quiet, daemon')
           /\ Discreet \/ \E req \in Requests \cup {Report} : Notify(req)
<1>1. CASE \E req \in Requests \cup {Report} : Notify(req)
  BY <1>1, RequestsTyped, NotifyJInv
<1>2. CASE \E id \in 1..IdBound, reason \in {"dismissed", "requested"} : CloseOne(id, reason)
  BY <1>2, CloseJInv DEF CloseOne, Reasons, Discreet
<1>3. ASSUME NEW id \in 1..IdBound, DismissOne(id) PROVE JInv' /\ Discreet
  <2>1. /\ daemon' = DismissToast(Quiet, id, "dismissed") /\ loop' = loop
        /\ Kept(daemon) /\ loop.op # "dismiss"
        /\ "dismissed" \in Reasons
    BY <1>3, IdleKept DEF DismissOne, Reasons
  <2>2. IInv'
    BY <1>3, StepIInv DEF JInv, Next, Step
  <2> QED BY <2>1, <2>2, DismissJInv DEF Dismissing
<1>4. CASE \E id \in 1..IdBound : InvokeAction(id)
  BY <1>4, CloseJInv DEF InvokeAction, Reasons, Discreet
<1>5. CASE \E dnd \in BOOLEAN : SetDnd(dnd)
  BY <1>5, SetDndJInv DEF Discreet
<1>6. CASE MarkSeen \/ Enabled \/ ExpireDue \/ ClearAll \/ \E app \in Senders : ClearGroup(app)
  BY <1>6, FlagJInv DEF Discreet
<1>7. CASE Tick \/ \E id \in 1..IdBound : PauseToast(id) \/ ResumeToast(id)
  BY <1>7, TimerJInv DEF Discreet
<1>8. CASE \E id \in Ids : LoopStep(id)
  BY <1>8, LoopStepJInv DEF Discreet
<1> QED
  BY <1>1, <1>2, <1>3, <1>4, <1>5, <1>6, <1>7, <1>8 DEF Next, Step, Discreet

LEMMA RestoredIsKept ==
    ASSUME NEW doc \in Document, NEW d, Restored(d, doc)
    PROVE  Kept(d)
<1>1. \A k \in DOMAIN d.history :
         /\ k \in DOMAIN doc.history /\ k <= MaxHistory
         /\ doc.history[k] = Entered(d, d.history[k])
  <2>1. \A k \in DOMAIN doc.history : doc.history[k] \in Entry
    BY DEF Document
  <2>2. \A e \in Entry : e = [id |-> e.id, app |-> e.app, critical |-> e.critical]
    BY DEF Entry
  <2> QED BY <2>1, <2>2 DEF Restored, Entered
<1> QED BY <1>1 DEF Kept, Restored

LEMMA RestoreJInv ==
    ASSUME NEW doc \in Document, Distinct(doc)
    PROVE  /\ daemon = Restore(doc) /\ loop = NoLoop => JInv
           /\ daemon' = Restore(doc) /\ loop' = NoLoop => JInv'
<1>1. /\ NoLoop \in [op : {"close", "dismiss"}, ids : SUBSET Ids, reason : Reasons]
      /\ NoLoop.op # "dismiss"
  BY DEF NoLoop, Reasons
<1>2. ASSUME daemon = Restore(doc), loop = NoLoop PROVE JInv
  <2>1. /\ Good(daemon) /\ Fits(daemon) /\ Overflow(daemon.history) = {}
        /\ Restored(daemon, doc) /\ Kept(daemon)
    BY <1>2, RestoreEffect, RestoredIsKept
  <2> QED BY <1>1, <1>2, <2>1 DEF JInv, IInv, TypeOK, Good, Dismissing, Restored
<1>3. ASSUME daemon' = Restore(doc), loop' = NoLoop PROVE JInv'
  <2>1. /\ Good(daemon') /\ Fits(daemon') /\ Overflow(daemon'.history) = {}
        /\ Restored(daemon', doc) /\ Kept(daemon')
    BY <1>3, RestoreEffect, RestoredIsKept
  <2>2. Kept(daemon)' <=> Kept(daemon')
    BY DEF Kept, Entered
  <2>3. Distinct(daemon.saved)' <=> Distinct(daemon'.saved)
    BY DEF Distinct
  <2>4. TypeOK'
    BY <1>1, <1>3, <2>1 DEF TypeOK, Good, Typed
  <2>5. Good(daemon)' <=> Good(daemon')
    BY DEF Good, Typed, Coherent, Filed, Timed
  <2>6. (Overflow(daemon.history))' = Overflow(daemon'.history) /\ (Fits(daemon)' <=> Fits(daemon'))
    BY DEF Overflow, Fits
  <2>7. IInv'
    BY <1>1, <1>3, <2>1, <2>4, <2>5, <2>6 DEF IInv
  <2> QED BY <1>1, <1>3, <2>1, <2>2, <2>3, <2>7 DEF JInv, Dismissing, Restored
<1> QED BY <1>2, <1>3

LEMMA JInvStep ==
    ASSUME JInv, [Next]_vars
    PROVE  JInv'
<1>1. CASE UNCHANGED vars
  <2>1. IInv'
    BY <1>1, StepIInv DEF JInv
  <2>2. daemon' = daemon /\ loop' = loop
    BY <1>1 DEF vars
  <2>3. Kept(daemon)' <=> Kept(daemon)
    BY <2>2 DEF Kept, Entered
  <2>4. Distinct(daemon.saved)' <=> Distinct(daemon.saved)
    BY <2>2 DEF Distinct
  <2> QED BY <2>1, <2>2, <2>3, <2>4 DEF JInv, Dismissing
<1> QED BY <1>1, NextJInv

\* And its strengthening by what was saved, signalled and is still to be closed.
THEOREM Safety == Spec => []JInv
<1>1. Init => JInv
  BY PersistedAssumption, RestoreJInv DEF Init, Distinct
<1>2. JInv /\ [Next]_vars => JInv'
  BY JInvStep
<1> QED BY <1>1, <1>2, PTL DEF Spec

-----------------------------------------------------------------------------
(* Every field of the daemon keeps its type, whatever the caps, the senders *)
(* and the document an earlier run left behind.                             *)
THEOREM TypeCorrect == Spec => []TypeOK
<1>1. IInv => TypeOK
  BY DEF IInv
<1> QED BY <1>1, Invariance, PTL

(* History, stack, timers and records never fall apart: each list names     *)
(* known notifications once, and the banners on screen are those timed.     *)
THEOREM AlwaysConsistent == Spec => []Consistent
<1>1. IInv => Consistent
  BY DEF IInv, Good, Consistent
<1> QED BY <1>1, Invariance, PTL

(* What is in the history is what is neither transient nor internal.        *)
THEOREM HistoryIsLasting == Spec => []OnlyLastingInHistory
<1>1. IInv => OnlyLastingInHistory
  BY DEF IInv, Good, OnlyLastingInHistory
<1> QED BY <1>1, Invariance, PTL

(* No critical notification ever gets a timer that runs out.                *)
THEOREM CriticalsAreUntimed == Spec => []CriticalNeverTimed
<1>1. IInv => CriticalNeverTimed
  BY DEF IInv, Good, CriticalNeverTimed
<1> QED BY <1>1, Invariance, PTL

(* The stack never overruns its cap, and the history is back under its cap  *)
(* whenever the task reads its queue: an overrun is at most what the loop    *)
(* that evicts it has still to close.                                       *)
THEOREM CapsHold == Spec => []WithinCaps
<1>1. IInv => WithinCaps
  <2> SUFFICES ASSUME IInv PROVE WithinCaps
    OBVIOUS
  <2>1. Len(daemon.toasts) <= MaxToasts
    BY DEF IInv, Fits
  <2>2. ASSUME Idle PROVE Len(daemon.history) <= MaxHistory
    BY <2>2, IdleOverflow, NothingOverflows DEF IInv, Good, Typed
  <2> QED BY <2>1, <2>2 DEF WithinCaps
<1> QED BY <1>1, Invariance, PTL

Hears ==
    /\ \A i \in DOMAIN daemon'.signals :
          daemon'.signals[i].id \notin DOMAIN daemon'.records
    /\ \A i, j \in DOMAIN daemon'.signals :
          daemon'.signals[i].id = daemon'.signals[j].id => i = j
    /\ daemon.connected =>
          \A id \in Forgotten :
             \E i \in DOMAIN daemon'.signals : daemon'.signals[i].id = id

(* A sender hears of the end of its notification once, when it is forgotten, *)
(* and of nothing that lives on.                                             *)
THEOREM SendersTold == Spec => SendersAreTold
<1>1. ASSUME JInv, Next PROVE Hears
  <2>1. /\ Told(Quiet, daemon')
        /\ Quiet.records = daemon.records /\ Quiet.connected = daemon.connected
    BY <1>1, NextJInv, QuietEffect, QuietLeaves DEF JInv
  <2>2. CASE /\ daemon'.signals = << >>
             /\ daemon.connected => DOMAIN daemon.records \subseteq DOMAIN daemon'.records
    BY <2>2 DEF Forgotten, Hears
  <2>3. ASSUME NEW s \in Signal, daemon'.signals = <<s>>, s.id \notin DOMAIN daemon'.records,
               DOMAIN daemon.records \ {s.id} \subseteq DOMAIN daemon'.records
        PROVE  Hears
    <3>1. DOMAIN daemon'.signals = {1} /\ daemon'.signals[1] = s
      BY <2>3
    <3> QED BY <2>3, <3>1 DEF Forgotten, Hears
  <2> QED BY <2>1, <2>2, <2>3 DEF Told
<1>2. JInv /\ [Next]_vars => [Hears]_vars
  BY <1>1
<1> QED BY <1>2, Safety, PTL DEF Spec, SendersAreTold, Hears

(* Between commands the document handed to the store holds the flag and     *)
(* every entry of the history, as last delivered, in order and within the   *)
(* cap a restart applies.                                                   *)
THEOREM HistorySaved == Spec => []HistoryIsSaved
<1>1. JInv => HistoryIsSaved
  <2> SUFFICES ASSUME JInv, Idle PROVE HistoryIsSaved
    BY DEF HistoryIsSaved
  <2>1. Kept(daemon)
    BY IdleKept
  <2>2. \A x \in DOMAIN daemon.saved.history : x \in Nat
    <3>1. daemon.saved.history \in Seq(Entry)
      BY DEF JInv, IInv, TypeOK, Typed, Document
    <3> QED BY <3>1
  <2>3. ASSUME NEW i \in DOMAIN daemon.history
        PROVE  \E k \in DOMAIN daemon.saved.history : SavedAt(k, daemon.history[i])
    BY <2>1 DEF Kept, SavedAt, Entered
  <2>4. ASSUME NEW i \in DOMAIN daemon.history, NEW j \in DOMAIN daemon.history, i < j
        PROVE  \E k, l \in DOMAIN daemon.saved.history :
                  k < l /\ SavedAt(k, daemon.history[i]) /\ SavedAt(l, daemon.history[j])
    <3>1. PICK k \in DOMAIN daemon.saved.history, l \in DOMAIN daemon.saved.history :
             /\ k < l /\ l <= MaxHistory
             /\ daemon.saved.history[k] = Entered(daemon, daemon.history[i])
             /\ daemon.saved.history[l] = Entered(daemon, daemon.history[j])
      BY <2>1, <2>4 DEF Kept
    <3>2. k <= MaxHistory
      BY <2>2, <3>1, ConstantsAssumption
    <3> QED BY <3>1, <3>2 DEF SavedAt, Entered
  <2>5. daemon.saved.dnd = daemon.dnd
    BY <2>1 DEF Kept
  <2> QED BY <2>3, <2>4, <2>5 DEF HistoryIsSaved
<1> QED BY <1>1, Safety, PTL

Shows ==
    LET id == daemon'.reply
        critical == {x \in Range(daemon.toasts) : daemon.records[x].critical}
    IN id # 0 /\ id \in DOMAIN daemon'.records /\ daemon'.records[id].critical =>
          /\ critical \subseteq Range(daemon'.toasts)
          /\ \/ id \in Range(daemon'.toasts)
             \/ Cardinality(critical) = MaxToasts

(* Whatever is on screen and whatever Do Not Disturb says, a critical       *)
(* arrival has a banner unless every banner of a full stack is critical,    *)
(* and takes away no critical one.                                          *)
THEOREM CriticalShown == Spec => CriticalIsShown
<1>1. ASSUME JInv, Next PROVE Shows
  <2>1. CASE daemon'.reply = 0
    BY <2>1 DEF Shows
  <2>2. ASSUME NEW req \in Requests \cup {Report}, Notify(req) PROVE Shows
    <3>1. TypedRequest(req)
      BY RequestsTyped
    <3> DEFINE id == IdFor(daemon, req)
    <3>2. /\ daemon'.reply = id
          /\ id \in DOMAIN daemon'.records => daemon'.records[id] = RecordOf(req)
          /\ req.critical =>
                /\ CriticalToasts(daemon) \subseteq Range(daemon'.toasts)
                /\ \/ id \in Range(daemon'.toasts)
                   \/ /\ CriticalToasts(daemon) = Range(daemon.toasts)
                      /\ Len(daemon.toasts) >= MaxToasts
      BY <1>1, <2>2, <3>1, NotifyJInv
    <3>3. Cardinality(Range(daemon.toasts)) = Len(daemon.toasts)
      BY <1>1, InjectiveCounts DEF JInv, IInv, Good, Typed, Coherent
    <3>4. Len(daemon.toasts) >= MaxToasts => Len(daemon.toasts) = MaxToasts
      BY <1>1, ConstantsAssumption DEF JInv, IInv, Good, Typed, Fits
    <3> HIDE DEF id
    <3>5. id \in DOMAIN daemon'.records => (daemon'.records[id].critical <=> req.critical)
      BY <3>2 DEF RecordOf
    <3> QED BY <3>2, <3>3, <3>4, <3>5 DEF Shows, CriticalToasts
  <2> QED BY <1>1, <2>1, <2>2, NextJInv DEF Discreet
<1>2. JInv /\ [Next]_vars => [Shows]_vars
  BY <1>1
<1> QED BY <1>2, Safety, PTL DEF Spec, CriticalIsShown, Shows

Holds ==
    loop.op = "dismiss" =>
        \A id \in DOMAIN daemon.timer :
            IsPaused(daemon.timer[id]) => id \in DOMAIN daemon'.timer

(* While a pass retires banners whose time is up, no held one goes: it was  *)
(* running when the pass began and nothing is held before the pass is over. *)
THEOREM HeldStay == Spec => HeldBannersStay
<1>1. ASSUME JInv, Next, loop.op = "dismiss",
             NEW held \in DOMAIN daemon.timer, IsPaused(daemon.timer[held])
      PROVE  held \in DOMAIN daemon'.timer
  <2>1. ~Idle
    BY <1>1 DEF JInv, Dismissing, Idle
  <2>2. Tick \/ \E id \in Ids : LoopStep(id)
    BY <1>1, <2>1 DEF Next, Step, Notify, CloseOne, DismissOne, ClearGroup, ClearAll, SetDnd,
           MarkSeen, PauseToast, ResumeToast, InvokeAction, Enabled, ExpireDue
  <2>3. CASE Tick
    BY <1>1, <2>3, TickKeepsBanners DEF JInv
  <2>4. ASSUME NEW id \in Ids, LoopStep(id) PROVE held \in DOMAIN daemon'.timer
    <3>1. /\ daemon' = DismissToast(Quiet, id, loop.reason) /\ id \in loop.ids
          /\ loop.reason \in Reasons
      BY <1>1, <2>4 DEF LoopStep, JInv, IInv, TypeOK
    <3>2. held # id
      BY <1>1, <3>1 DEF JInv, Dismissing, IsPaused
    <3>3. Good(Quiet) /\ Quiet.signals = << >> /\ Quiet.timer = daemon.timer
      BY <1>1, QuietEffect, QuietLeaves DEF JInv
    <3> QED BY <1>1, <3>1, <3>2, <3>3, DismissToastLeaves DEF Good
  <2> QED BY <2>2, <2>3, <2>4
<1>2. JInv /\ [Next]_vars => [Holds]_vars
  BY <1>1 DEF Holds
<1> QED BY <1>2, Safety, PTL DEF Spec, HeldBannersStay, Holds

-----------------------------------------------------------------------------
(* Restarts: the document on the disk is one some daemon handed over, which *)
(* is all that the next one needs.                                          *)

RestartInv ==
    /\ JInv
    /\ disk \in Document /\ Distinct(disk)

LEMMA SavedIsDocument ==
    ASSUME JInv
    PROVE  daemon.saved \in Document /\ Distinct(daemon.saved)
BY DEF JInv, IInv, Good, Typed

LEMMA RestartRestores ==
    ASSUME RestartInv, Restart
    PROVE  RestartInv' /\ Restored(daemon', disk)
<1>1. daemon' = Restore(disk) /\ loop' = NoLoop /\ disk' = disk
  BY DEF Restart
<1>2. disk \in Document /\ Distinct(disk)
  BY DEF RestartInv
<1>3. /\ Good(daemon') /\ Fits(daemon') /\ Overflow(daemon'.history) = {}
      /\ Restored(daemon', disk)
  BY <1>1, <1>2, RestoreEffect
<1>4. JInv'
  BY <1>1, <1>2, RestoreJInv
<1>5. Distinct(disk)' <=> Distinct(disk)
  BY <1>1 DEF Distinct
<1> QED BY <1>1, <1>2, <1>3, <1>4, <1>5 DEF RestartInv

LEMMA RestartInvStep ==
    ASSUME RestartInv, [RestartNext]_allVars
    PROVE  RestartInv'
<1>1. CASE Restart
  BY <1>1, RestartRestores
<1>2. CASE Save
  <2>1. JInv' /\ disk' = daemon.saved /\ daemon' = daemon
    BY <1>2, JInvStep DEF Save, RestartInv, vars
  <2>2. Distinct(disk)' <=> Distinct(daemon.saved)
    BY <2>1 DEF Distinct
  <2> QED BY <2>1, <2>2, SavedIsDocument DEF RestartInv
<1>3. CASE DaemonStep \/ UNCHANGED allVars
  <2>1. JInv' /\ disk' = disk
    BY <1>3, JInvStep DEF DaemonStep, RestartInv, allVars
  <2>2. Distinct(disk)' <=> Distinct(disk)
    BY <2>1 DEF Distinct
  <2> QED BY <2>1, <2>2 DEF RestartInv
<1> QED BY <1>1, <1>2, <1>3 DEF RestartNext

\* What holds of the panel and of the disk, through ends and restarts at any point.
THEOREM RestartSafety == RestartSpec => []RestartInv
<1>1. RestartInit => RestartInv
  <2> SUFFICES ASSUME NEW doc \in Persisted, daemon = Restore(doc), loop = NoLoop,
                      disk = daemon.saved
               PROVE  RestartInv
    BY DEF RestartInit, Init
  <2>1. doc \in Document /\ Distinct(doc)
    BY PersistedAssumption DEF Distinct
  <2>2. JInv
    BY <2>1, RestoreJInv
  <2> QED BY <2>2, SavedIsDocument DEF RestartInv
<1>2. RestartInv /\ [RestartNext]_allVars => RestartInv'
  BY RestartInvStep
<1> QED BY <1>1, <1>2, PTL DEF RestartSpec

(* Once the document is saved, a restart between commands brings back the   *)
(* Do Not Disturb flag and every entry, as it was filed and in its order,   *)
(* whatever was delivered, closed, evicted or saved half-way before.        *)
THEOREM RestartForgets == RestartSpec => []RestartForgetsNothing
<1>1. RestartInv => RestartForgetsNothing
  <2> SUFFICES ASSUME RestartInv, Idle, disk = daemon.saved,
                      NEW after, after = Restore(disk)
               PROVE  /\ after.dnd = daemon.dnd
                      /\ \A id \in Range(daemon.history) :
                            /\ id \in Range(after.history)
                            /\ FiledAs(after, id) = FiledAs(daemon, id)
                      /\ \A i, j \in DOMAIN daemon.history : i < j =>
                            \E k, l \in DOMAIN after.history :
                               /\ k < l
                               /\ after.history[k] = daemon.history[i]
                               /\ after.history[l] = daemon.history[j]
    BY DEF RestartForgetsNothing
  <2>1. Restored(after, disk)
    BY RestoreEffect DEF RestartInv
  <2>2. Kept(daemon)
    BY IdleKept DEF RestartInv
  <2>3. ASSUME NEW id, NEW k \in DOMAIN disk.history, k <= MaxHistory,
               disk.history[k] = Entered(daemon, id)
        PROVE  /\ k \in DOMAIN after.history /\ after.history[k] = id
               /\ FiledAs(after, id) = FiledAs(daemon, id)
    BY <2>1, <2>3 DEF Restored, Entered, FiledAs
  <2>4. ASSUME NEW i \in DOMAIN daemon.history
        PROVE  /\ daemon.history[i] \in Range(after.history)
               /\ FiledAs(after, daemon.history[i]) = FiledAs(daemon, daemon.history[i])
    <3>1. PICK k \in DOMAIN disk.history :
             k <= MaxHistory /\ disk.history[k] = Entered(daemon, daemon.history[i])
      BY <2>2 DEF Kept
    <3> QED BY <2>3, <3>1 DEF Range
  <2>5. ASSUME NEW i \in DOMAIN daemon.history, NEW j \in DOMAIN daemon.history, i < j
        PROVE  \E k, l \in DOMAIN after.history :
                  /\ k < l
                  /\ after.history[k] = daemon.history[i]
                  /\ after.history[l] = daemon.history[j]
    <3>1. PICK k \in DOMAIN disk.history, l \in DOMAIN disk.history :
             /\ k < l /\ l <= MaxHistory
             /\ disk.history[k] = Entered(daemon, daemon.history[i])
             /\ disk.history[l] = Entered(daemon, daemon.history[j])
      BY <2>2, <2>5 DEF Kept
    <3>2. k \in Nat /\ l \in Nat /\ MaxHistory \in Nat
      BY ConstantsAssumption DEF RestartInv, Document
    <3> QED BY <2>3, <3>1, <3>2
  <2>6. after.dnd = daemon.dnd
    BY <2>1, <2>2 DEF Restored, Kept
  <2> QED BY <2>4, <2>5, <2>6 DEF Range
<1> QED BY <1>1, RestartSafety, PTL

(* As long as ids do not wrap around, the counter is past every id known.   *)
Ahead == daemon.next <= IdBound => \A x \in DOMAIN daemon.records : x < daemon.next

KeepsIds == daemon'.next # daemon.next => daemon'.reply \notin DOMAIN daemon.records

LEMMA AheadStep ==
    ASSUME IdBound < MaxId, RestartInv, Ahead, RestartNext
    PROVE  Ahead' /\ KeepsIds
<1>1. /\ daemon.next \in Ids /\ DOMAIN daemon.records \subseteq Ids
      /\ JInv
  BY DEF RestartInv, JInv, IInv, Good, Typed
<1>2. IdBound \in Nat /\ MaxId \in Nat
  BY ConstantsAssumption
<1>3. CASE Restart
  <2>1. Restored(daemon', disk)
    BY <1>3, RestartRestores
  <2>2. 0 \notin DOMAIN daemon.records
    BY <1>1, <1>2 DEF Ids
  <2> QED BY <2>1, <2>2 DEF Restored, Ahead, KeepsIds
<1>4. CASE Save
  BY <1>4 DEF Save, vars, Ahead, KeepsIds
<1>5. ASSUME Next, Discreet PROVE Ahead' /\ KeepsIds
  BY <1>5 DEF Discreet, Ahead, KeepsIds
<1>6. ASSUME NEW req \in Requests \cup {Report}, Notify(req) PROVE Ahead' /\ KeepsIds
  <2> DEFINE id == IdFor(daemon, req)
  <2>1. TypedRequest(req)
    BY RequestsTyped
  <2>2. /\ daemon'.reply = id /\ daemon'.next = NextId(daemon, req)
        /\ DOMAIN daemon'.records \subseteq DOMAIN daemon.records \cup {id}
        /\ id <= IdBound
    BY <1>1, <1>6, <2>1, NotifyJInv DEF Notify
  <2>3. CASE Replacing(daemon, req)
    <3>1. id \in DOMAIN daemon.records /\ daemon'.next = daemon.next
      BY <2>2, <2>3 DEF IdFor, Replacing, NextId
    <3> HIDE DEF id
    <3> QED BY <2>2, <3>1 DEF Ahead, KeepsIds
  <2>4. CASE ~Replacing(daemon, req)
    <3>1. id = daemon.next
      BY <2>4 DEF IdFor
    <3> HIDE DEF id
    <3>2. \A x \in DOMAIN daemon.records : x < daemon.next /\ x \in Int
      BY <1>1, <2>2, <3>1 DEF Ahead, Ids
    <3>3. daemon.next \in Int /\ daemon'.next = daemon.next + 1
      BY <1>1, <1>2, <2>2, <2>4, <3>1 DEF NextId, Ids
    <3>4. daemon.next \notin DOMAIN daemon.records
      BY <3>2, <3>3
    <3>5. \A x \in DOMAIN daemon'.records : x < daemon'.next
      BY <2>2, <3>1, <3>2, <3>3
    <3> QED BY <2>2, <3>1, <3>4, <3>5 DEF Ahead, KeepsIds
  <2> QED BY <2>3, <2>4
<1>7. CASE DaemonStep
  BY <1>1, <1>5, <1>6, <1>7, NextJInv DEF DaemonStep
<1> QED BY <1>3, <1>4, <1>7 DEF RestartNext

(* An id a restart brought back is handed to nobody else, however old the   *)
(* saved counter is, in every run whose ids stay short of wrapping around   *)
(* (once next_id wraps, the code does hand out ids again).                  *)
THEOREM RestoredIdsKept ==
    ASSUME IdBound < MaxId
    PROVE  RestartSpec => RestoredKeepTheirIds
<1>1. RestartInit => Ahead
  <2> SUFFICES ASSUME NEW doc \in Persisted, daemon = Restore(doc) PROVE Ahead
    BY DEF RestartInit, Init
  <2>1. doc \in Document /\ Distinct(doc)
    BY PersistedAssumption DEF Distinct
  <2>2. Restored(daemon, doc)
    BY <2>1, RestoreEffect
  <2> QED BY <2>2 DEF Restored, Ahead
<1>2. RestartInv /\ Ahead /\ [RestartNext]_allVars => Ahead' /\ [KeepsIds]_allVars
  BY AheadStep DEF allVars, vars, Ahead
<1> QED BY <1>1, <1>2, RestartSafety, PTL DEF RestartSpec, RestoredKeepTheirIds, KeepsIds

=============================================================================

--------------------------------- MODULE Layout ---------------------------------
(***************************************************************************)
(* How a bar shares its width between its three sections                   *)
(* (topbar/src/bar/section_layout.rs, topbar-core/src/layout_math.rs).     *)
(*                                                                         *)
(* A section asks for a width, and has one it would rather not go below.   *)
(* Sections come, go and change, and so does the width of the monitor; the *)
(* toolkit asks for a new allocation at the next frame.                    *)
(***************************************************************************)
EXTENDS Integers, TLAPS

CONSTANTS
    Widths,    \* the interior of the bar, on one monitor or another
    Sizes,     \* what a section may ask for
    Spacing,
    MaxMoves

\* Widths are what the toolkit says they are, never negative.
LayoutAssumption == /\ Widths \subseteq Nat /\ Spacing \in Nat
                    /\ Sizes \subseteq [min : Nat, natural : Nat]

VARIABLES
    panel,   \* where the sections are
    world,   \* the interior, and the sections: there or not, and their sizes
    wire     \* whether a new allocation is asked for

vars == <<panel, world, wire>>

-----------------------------------------------------------------------------
(* layout_math.                                                            *)

Least(a, b) == IF a < b THEN a ELSE b
Most(a, b) == IF a < b THEN b ELSE a

ClampWidth(available, min, natural) ==
    IF available <= 0 THEN 0
    ELSE LET target == Least(natural, available)
         IN  Most(IF target < min THEN Least(min, available) ELSE target, 0)

Absent == [shown |-> FALSE, min |-> 0, natural |-> 0]
Gap(side) == IF side.shown THEN Spacing ELSE 0
Clamped(budget, side) == IF side.shown THEN ClampWidth(budget, side.min, side.natural) ELSE 0

\* The widest the center may be if the sides are to have what they need at least.
CenterCeiling(interior, left, center, right) ==
    Most(interior - 2 * (Most(left.min, right.min) + Most(Gap(left), Gap(right))), center.min)

CenterWidth(interior, left, center, right) ==
    Least(ClampWidth(interior, center.min, center.natural), CenterCeiling(interior, left, center, right))

At(x, width) == [x |-> x, width |-> width]
Nowhere == At(0, 0)

\* compute_center_priority_allocation: the center in the true middle, the sides in what is left.
AroundCenter(interior, left, center, right) ==
    LET width == CenterWidth(interior, left, center, right)
        start == Most((interior - width) \div 2, 0)
        lw == Clamped(Most(start - Gap(left), 0), left)
        rw == Clamped(Most(interior - (start + width) - Gap(right), 0), right)
    IN  [left |-> At(0, lw), center |-> At(start, width), right |-> At(interior - rw, rw)]

\* compute_linear_allocation: of two sides the right one first.
Linear(interior, left, right) ==
    LET available == Most(interior - Spacing, 0)
        fits == left.natural + right.natural <= available
        rw == IF ~right.shown THEN 0
              ELSE IF ~left.shown THEN ClampWidth(interior, right.min, right.natural)
              ELSE IF fits THEN right.natural ELSE Least(right.natural, available)
        lw == IF ~left.shown THEN 0
              ELSE IF ~right.shown THEN ClampWidth(interior, left.min, left.natural)
              ELSE IF fits THEN left.natural ELSE Most(available - rw, 0)
    IN  [left |-> At(0, lw), center |-> Nowhere, right |-> At(interior - rw, rw)]

\* allocate: sections that are hidden are not there.
Allocation(w) == IF w.center.shown THEN AroundCenter(w.interior, w.left, w.center, w.right)
                 ELSE Linear(w.interior, w.left, w.right)

\* SectionClip: what is inside has all it asks for, moved so that the end that matters shows.
Inside(section, width, end) ==
    LET child == Most(Most(width, section.natural), section.min)
        overflow == child - width
    IN  At(CASE end = "start" -> 0 [] end = "center" -> -(overflow \div 2) [] end = "end" -> -overflow, child)

-----------------------------------------------------------------------------
(* What happens to a bar.                                                  *)

Sections == {"left", "center", "right"}

Changes(w) ==
    /\ world.moves < MaxMoves
    /\ world' = [w EXCEPT !.moves = @ + 1]
    /\ wire' = TRUE
    /\ UNCHANGED panel

\* A widget in it comes, goes or says more; set_section
Resize ==
    \E section \in Sections, size \in Sizes :
        /\ size.min <= size.natural
        /\ Changes([world EXCEPT ![section] = [shown |-> TRUE, min |-> size.min, natural |-> size.natural]])
Hide ==
    \E section \in Sections :
        /\ world[section].shown
        /\ Changes([world EXCEPT ![section] = Absent])
Monitor == \E width \in Widths : Changes([world EXCEPT !.interior = width])

Allocate ==
    /\ wire
    /\ panel' = [at |-> Allocation(world), interior |-> world.interior]
    /\ wire' = FALSE
    /\ UNCHANGED world

Init ==
    /\ panel = [at |-> [left |-> Nowhere, center |-> Nowhere, right |-> Nowhere], interior |-> 0]
    /\ \E width \in Widths : world = [interior |-> width, left |-> Absent, center |-> Absent, right |-> Absent,
                                      moves |-> 0]
    /\ wire = TRUE

Turn == Allocate
TurnDue == wire
Next == Turn \/ Resize \/ Hide \/ Monitor

Spec == Init /\ [][Next]_vars /\ WF_vars(Turn)

-----------------------------------------------------------------------------
(* Properties.                                                             *)

Section == [shown : BOOLEAN, min : Nat, natural : Nat]
Strip == [x : Int, width : Int]
TypeOK ==
    /\ panel \in [at : [left : Strip, center : Strip, right : Strip], interior : Nat]
    /\ world \in [interior : Nat, left : Section, center : Section, right : Section, moves : Nat]
    /\ wire \in BOOLEAN

\* The sections are in the bar, in order, and those that have any room are Spacing apart.
Fit(a, interior) ==
    /\ a.left.x = 0 /\ a.left.width >= 0 /\ a.left.width <= interior
    /\ a.center.x >= 0 /\ a.center.width >= 0 /\ a.center.x + a.center.width <= interior
    /\ a.right.width >= 0 /\ a.right.x >= 0 /\ a.right.x + a.right.width = interior
    /\ a.left.width > 0 /\ a.center.width > 0 => a.left.width + Spacing <= a.center.x
    /\ a.right.width > 0 /\ a.center.width > 0 => a.center.x + a.center.width + Spacing <= a.right.x
    /\ a.left.width > 0 /\ a.right.width > 0 => a.left.width + Spacing <= a.right.x
SectionsFit == Fit(panel.at, panel.interior)

\* The center gives way as far as its own minimum, and keeps more than that only where both
\* sides have theirs.
Shared(w, a) ==
    w.center.shown =>
        /\ a.center.width >= Least(w.center.min, w.interior)
        /\ a.center.width > w.center.min /\ w.left.shown => a.left.width >= w.left.min
        /\ a.center.width > w.center.min /\ w.right.shown => a.right.width >= w.right.min
QuietIsCurrent == ~wire => /\ panel.interior = world.interior
                           /\ Shared(world, panel.at)

\* A clipped section shows something all over its width.
ClipsCover ==
    \A section \in Sections, end \in {"start", "center", "end"} :
        LET width == panel.at[section].width
            inside == Inside(world[section], width, end)
        IN  inside.x <= 0 /\ inside.x + inside.width >= width

\* Space is taken from "the sides — never the center" (section_layout.rs:9).
CenterNeverShrinks ==
    ~wire /\ world.center.shown => panel.at.center.width = Least(world.center.natural, world.interior)
-----------------------------------------------------------------------------
(* Proofs.                                                                 *)

\* clamp_width never gives more than there is, nor less than the minimum that there is
\* room for.
LEMMA ClampBounds ==
    ASSUME NEW available \in Int, NEW min \in Nat, NEW natural \in Nat
    PROVE  /\ ClampWidth(available, min, natural) \in Nat
           /\ ClampWidth(available, min, natural) <= Most(available, 0)
           /\ ClampWidth(available, min, natural) >= Least(min, available)
  BY DEF ClampWidth, Least, Most

LEMMA ClampedBounds ==
    ASSUME NEW budget \in Nat, NEW side \in Section
    PROVE  /\ Clamped(budget, side) \in Nat /\ Clamped(budget, side) <= budget
           /\ side.shown => Clamped(budget, side) >= Least(side.min, budget)
           /\ ~side.shown => Clamped(budget, side) = 0
  <1>1. side.min \in Nat /\ side.natural \in Nat /\ side.shown \in BOOLEAN
    BY DEF Section
  <1>2. CASE side.shown
    <2>1. /\ ClampWidth(budget, side.min, side.natural) \in Nat
          /\ ClampWidth(budget, side.min, side.natural) <= Most(budget, 0)
          /\ ClampWidth(budget, side.min, side.natural) >= Least(side.min, budget)
      <3>1. budget \in Int
        OBVIOUS
      <3> QED BY ONLY <1>1, <3>1, ClampBounds
    <2> QED BY <1>2, <2>1 DEF Clamped, Most
  <1>3. CASE ~side.shown
    BY <1>3 DEF Clamped
  <1> QED BY <1>1, <1>2, <1>3

\* The middle of what is left over, in whole pixels.
LEMMA Halves ==
    ASSUME NEW rest \in Nat
    PROVE  /\ rest \div 2 \in Nat
           /\ 2 * (rest \div 2) <= rest /\ rest <= 2 * (rest \div 2) + 1
  OBVIOUS

\* The center has room for its minimum, or all of the bar, and never more than that.
LEMMA CenterBounds ==
    ASSUME LayoutAssumption, NEW interior \in Nat, NEW left \in Section, NEW center \in Section, NEW right \in Section
    PROVE  LET cw == CenterWidth(interior, left, center, right)
           IN  /\ cw \in Nat /\ cw <= interior
               /\ cw >= Least(center.min, interior)
               /\ cw > center.min => interior - cw >= 2 * (Most(left.min, right.min) + Most(Gap(left), Gap(right)))
  <1>1. /\ left.min \in Nat /\ right.min \in Nat /\ center.min \in Nat /\ center.natural \in Nat
        /\ Gap(left) \in Nat /\ Gap(right) \in Nat
    BY DEF LayoutAssumption, Section, Gap
  <1> DEFINE c == ClampWidth(interior, center.min, center.natural)
  <1>2. c \in Nat /\ c <= interior /\ c >= Least(center.min, interior)
    <2>1. c \in Nat /\ c <= Most(interior, 0) /\ c >= Least(center.min, interior)
      <3>1. interior \in Int
        OBVIOUS
      <3> QED BY ONLY <1>1, <3>1, ClampBounds
    <2> QED BY <2>1 DEF Most
  <1>3. /\ Most(left.min, right.min) \in Nat
        /\ Most(Gap(left), Gap(right)) \in Nat
    BY <1>1 DEF Most
  <1>4. LET ceiling == CenterCeiling(interior, left, center, right)
        IN  /\ ceiling \in Int /\ ceiling >= center.min
            /\ ceiling > center.min => interior - ceiling = 2 * (Most(left.min, right.min) + Most(Gap(left), Gap(right)))
    BY <1>1, <1>3 DEF CenterCeiling, Most
  <1> QED BY <1>1, <1>2, <1>3, <1>4 DEF CenterWidth, Least

\* What is laid out around a center fits, and shares the room as it should.
LEMMA AroundCenterFits ==
    ASSUME LayoutAssumption, NEW interior \in Nat, NEW left \in Section, NEW center \in Section, NEW right \in Section
    PROVE  LET a == AroundCenter(interior, left, center, right)
           IN  /\ a \in [left : Strip, center : Strip, right : Strip]
               /\ Fit(a, interior)
               /\ a.center.width >= Least(center.min, interior)
               /\ a.center.width > center.min /\ left.shown => a.left.width >= left.min
               /\ a.center.width > center.min /\ right.shown => a.right.width >= right.min
  <1> DEFINE cw == CenterWidth(interior, left, center, right)
             start == Most((interior - cw) \div 2, 0)
             lb == Most(start - Gap(left), 0)
             rb == Most(interior - (start + cw) - Gap(right), 0)
             lw == Clamped(lb, left)
             rw == Clamped(rb, right)
             need == Most(left.min, right.min) + Most(Gap(left), Gap(right))
  <1>1. /\ cw \in Nat /\ cw <= interior /\ cw >= Least(center.min, interior)
        /\ cw > center.min => interior - cw >= 2 * need
    BY CenterBounds
  <1>2. /\ Gap(left) = (IF left.shown THEN Spacing ELSE 0)
        /\ Gap(right) = (IF right.shown THEN Spacing ELSE 0)
        /\ Spacing \in Nat /\ left.min \in Nat /\ right.min \in Nat /\ center.min \in Nat
        /\ left.shown \in BOOLEAN /\ right.shown \in BOOLEAN
    BY DEF LayoutAssumption, Gap, Section
  <1>3. start \in Nat /\ 2 * start <= interior - cw /\ interior - cw <= 2 * start + 1
    <2>1. interior - cw \in Nat
      BY <1>1
    <2>2. /\ (interior - cw) \div 2 \in Nat
          /\ 2 * ((interior - cw) \div 2) <= interior - cw
          /\ interior - cw <= 2 * ((interior - cw) \div 2) + 1
      BY <2>1, Halves
    <2> QED BY <2>1, <2>2 DEF Most
  <1>4. lb \in Nat /\ rb \in Nat
    BY <1>1, <1>2, <1>3 DEF Most
  <1>5. /\ lw \in Nat /\ lw <= lb /\ (left.shown => lw >= Least(left.min, lb)) /\ (~left.shown => lw = 0)
        /\ rw \in Nat /\ rw <= rb /\ (right.shown => rw >= Least(right.min, rb)) /\ (~right.shown => rw = 0)
    BY <1>4, ClampedBounds
  <1>6. AroundCenter(interior, left, center, right)
          = [left |-> At(0, lw), center |-> At(start, cw), right |-> At(interior - rw, rw)]
    BY DEF AroundCenter
  <1>7. /\ lw > 0 => left.shown /\ lw + Spacing <= start
        /\ rw > 0 => right.shown /\ start + cw + Spacing <= interior - rw
        /\ lw <= start /\ start + cw <= interior - rw
    <2> HIDE DEF cw, start, lw, rw
    <2> QED BY <1>1, <1>2, <1>3, <1>5 DEF Most
  <1>8. /\ cw > center.min /\ left.shown => lw >= left.min
        /\ cw > center.min /\ right.shown => rw >= right.min
    <2>1. cw > center.min => start >= need
      <3>1. need \in Nat
        BY <1>2 DEF Most
      <3> HIDE DEF cw, start, need
      <3> QED BY <1>1, <1>2, <1>3, <3>1
    <2>2. need >= left.min + Gap(left) /\ need >= right.min + Gap(right) /\ need \in Nat
      BY <1>2 DEF Most
    <2>3. Gap(left) \in Nat /\ Gap(right) \in Nat
      BY <1>2
    <2> HIDE DEF cw, start, need, lw, rw
    <2>4. cw > center.min => lb >= left.min /\ rb >= right.min
      BY <1>1, <1>2, <1>3, <2>1, <2>2, <2>3 DEF Most
    <2> HIDE DEF lb, rb
    <2> QED BY <1>2, <1>4, <1>5, <2>4 DEF Least
  <1> HIDE DEF cw, start, lb, rb, lw, rw, need
  <1> QED BY <1>1, <1>2, <1>3, <1>5, <1>6, <1>7, <1>8 DEF Fit, At, Strip

\* So does what is laid out without one.
LEMMA LinearFits ==
    ASSUME LayoutAssumption, NEW interior \in Nat, NEW left \in Section, NEW right \in Section
    PROVE  LET a == Linear(interior, left, right)
           IN  a \in [left : Strip, center : Strip, right : Strip] /\ Fit(a, interior)
  <1>1. /\ left.min \in Nat /\ right.min \in Nat /\ left.natural \in Nat /\ right.natural \in Nat
        /\ left.shown \in BOOLEAN /\ right.shown \in BOOLEAN /\ Spacing \in Nat
    BY DEF LayoutAssumption, Section
  <1>2. /\ ClampWidth(interior, left.min, left.natural) \in 0..interior
        /\ ClampWidth(interior, right.min, right.natural) \in 0..interior
    <2>1. \A side \in {left, right} : /\ ClampWidth(interior, side.min, side.natural) \in Nat
                                       /\ ClampWidth(interior, side.min, side.natural) <= Most(interior, 0)
      <3>1. interior \in Int
        OBVIOUS
      <3> QED BY ONLY <1>1, <3>1, ClampBounds
    <2> QED BY <2>1 DEF Most
  <1> DEFINE a == Linear(interior, left, right)
  <1>3. PICK lw \in Int, rw \in Int :
            /\ a = [left |-> At(0, lw), center |-> Nowhere, right |-> At(interior - rw, rw)]
            /\ lw \in 0..interior /\ rw \in 0..interior
            /\ lw > 0 /\ rw > 0 => lw + Spacing <= interior - rw
    <2>1. CASE left.shown /\ right.shown
      <3> DEFINE available == Most(interior - Spacing, 0)
                 fits == left.natural + right.natural <= available
                 rw == IF fits THEN right.natural ELSE Least(right.natural, available)
                 lw == IF fits THEN left.natural ELSE Most(available - rw, 0)
      <3>1. a = [left |-> At(0, lw), center |-> Nowhere, right |-> At(interior - rw, rw)]
        BY <2>1 DEF Linear
      <3>2. available \in Nat /\ (available > 0 => available + Spacing = interior) /\ available <= interior
        BY <1>1 DEF Most
      <3>3. lw \in Nat /\ rw \in Nat /\ lw + rw <= available
        <4> HIDE DEF available
        <4> QED BY <1>1, <3>2 DEF Least, Most
      <3> HIDE DEF available, fits, lw, rw, a
      <3> QED BY <1>1, <3>1, <3>2, <3>3
    <2>2. CASE ~left.shown /\ right.shown
      BY <1>1, <1>2, <2>2 DEF Linear
    <2>3. CASE left.shown /\ ~right.shown
      BY <1>1, <1>2, <2>3 DEF Linear
    <2>4. CASE ~left.shown /\ ~right.shown
      BY <1>1, <2>4 DEF Linear
    <2> QED BY <1>1, <2>1, <2>2, <2>3, <2>4
  <1> HIDE DEF a
  <1> QED BY <1>1, <1>3 DEF Fit, At, Nowhere, Strip, a

\* What is proved is inductive as it stands, given the types.
Safe == TypeOK /\ SectionsFit /\ QuietIsCurrent

LEMMA SafeInit == ASSUME LayoutAssumption, Init PROVE Safe
  <1>1. Absent \in Section /\ Nowhere \in Strip
    BY DEF Absent, Section, Nowhere, At, Strip
  <1>2. PICK width \in Widths : world = [interior |-> width, left |-> Absent, center |-> Absent, right |-> Absent,
                                         moves |-> 0]
    BY DEF Init
  <1>3. width \in Nat
    BY DEF LayoutAssumption
  <1>4. panel = [at |-> [left |-> Nowhere, center |-> Nowhere, right |-> Nowhere], interior |-> 0] /\ wire = TRUE
    BY DEF Init
  <1>5. TypeOK
    BY <1>1, <1>2, <1>3, <1>4 DEF TypeOK
  <1>6. SectionsFit
    BY <1>4 DEF SectionsFit, Fit, Nowhere, At
  <1> QED BY <1>4, <1>5, <1>6 DEF Safe, QuietIsCurrent

\* A change of any section or of the monitor leaves everything where it is until the next
\* frame; an allocation puts it where the lemmas say.
LEMMA SafeNext == ASSUME LayoutAssumption, Safe, [Next]_vars PROVE Safe'
  <1>1. /\ world.interior \in Nat /\ world.left \in Section /\ world.center \in Section /\ world.right \in Section
        /\ world.moves \in Nat /\ wire \in BOOLEAN
        /\ panel \in [at : [left : Strip, center : Strip, right : Strip], interior : Nat]
        /\ world \in [interior : Nat, left : Section, center : Section, right : Section, moves : Nat]
    BY DEF Safe, TypeOK
  <1>2. ASSUME NEW w \in [interior : Nat, left : Section, center : Section, right : Section, moves : Nat],
               Changes(w)
        PROVE  Safe'
    <2>1. panel' = panel /\ wire' = TRUE /\ world' = [w EXCEPT !.moves = w.moves + 1]
      BY <1>2 DEF Changes
    <2>2. TypeOK'
      BY <1>1, <1>2, <2>1 DEF TypeOK
    <2>3. SectionsFit'
      BY <2>1 DEF Safe, SectionsFit
    <2> QED BY <2>1, <2>2, <2>3 DEF Safe, QuietIsCurrent
  <1>3. CASE Resize
    <2>1. PICK section \in Sections, size \in Sizes :
            Changes([world EXCEPT ![section] = [shown |-> TRUE, min |-> size.min, natural |-> size.natural]])
      BY <1>3 DEF Resize
    <2>2. [shown |-> TRUE, min |-> size.min, natural |-> size.natural] \in Section
      BY DEF LayoutAssumption, Section
    <2> DEFINE w == [world EXCEPT ![section] = [shown |-> TRUE, min |-> size.min, natural |-> size.natural]]
    <2>3. w \in [interior : Nat, left : Section, center : Section, right : Section, moves : Nat]
      <3>1. section = "left" \/ section = "center" \/ section = "right"
        BY DEF Sections
      <3> QED BY <1>1, <2>2, <3>1
    <2> QED BY <1>2, <2>1, <2>3
  <1>4. CASE Hide
    <2>1. PICK section \in Sections : Changes([world EXCEPT ![section] = Absent])
      BY <1>4 DEF Hide
    <2> DEFINE w == [world EXCEPT ![section] = Absent]
    <2>2. w \in [interior : Nat, left : Section, center : Section, right : Section, moves : Nat]
      <3>1. Absent \in Section
        BY DEF Absent, Section
      <3>2. section = "left" \/ section = "center" \/ section = "right"
        BY DEF Sections
      <3> QED BY <1>1, <3>1, <3>2
    <2> QED BY <1>2, <2>1, <2>2
  <1>5. CASE Monitor
    <2>1. PICK width \in Widths : Changes([world EXCEPT !.interior = width])
      BY <1>5 DEF Monitor
    <2>2. [world EXCEPT !.interior = width]
            \in [interior : Nat, left : Section, center : Section, right : Section, moves : Nat]
      <3>1. width \in Nat
        BY DEF LayoutAssumption
      <3> QED BY <1>1, <3>1
    <2> QED BY <1>2, <2>1, <2>2
  <1>6. CASE Allocate
    <2>1. /\ panel' = [at |-> Allocation(world), interior |-> world.interior]
          /\ world' = world /\ wire' = FALSE
      BY <1>6 DEF Allocate
    <2>2. /\ Allocation(world) \in [left : Strip, center : Strip, right : Strip]
          /\ Fit(Allocation(world), world.interior)
          /\ Shared(world, Allocation(world))
      <3>1. CASE world.center.shown
        BY <1>1, <3>1, AroundCenterFits DEF Allocation, Shared
      <3>2. CASE ~world.center.shown
        BY <1>1, <3>2, LinearFits DEF Allocation, Shared
      <3> QED BY <3>1, <3>2
    <2>3. TypeOK'
      BY <1>1, <2>1, <2>2 DEF TypeOK
    <2>4. SectionsFit'
      BY <2>1, <2>2 DEF SectionsFit
    <2>5. QuietIsCurrent'
      BY <2>1, <2>2 DEF QuietIsCurrent
    <2> QED BY <2>3, <2>4, <2>5 DEF Safe
  <1>7. CASE UNCHANGED vars
    <2>1. panel' = panel /\ world' = world /\ wire' = wire
      BY <1>7 DEF vars
    <2> QED BY <2>1 DEF Safe, TypeOK, SectionsFit, QuietIsCurrent
  <1> QED BY <1>3, <1>4, <1>5, <1>6, <1>7 DEF Next, Turn

\* Whatever the sections ask for, and however wide the monitor is: they are in the bar, in
\* order and apart, whatever comes and goes before the next frame.
THEOREM BarFits == ASSUME LayoutAssumption PROVE Spec => []SectionsFit
  <1>1. Safe => SectionsFit
    BY DEF Safe
  <1> QED BY SafeInit, SafeNext, <1>1, PTL DEF Spec

\* And once a frame was drawn the center has its minimum, and more only where both sides
\* have theirs.
THEOREM BarIsShared == ASSUME LayoutAssumption PROVE Spec => []QuietIsCurrent
  <1>1. Safe => QuietIsCurrent
    BY DEF Safe
  <1> QED BY SafeInit, SafeNext, <1>1, PTL DEF Spec
=================================================================================

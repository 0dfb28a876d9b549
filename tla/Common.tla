-------------------------------- MODULE Common --------------------------------
(***************************************************************************)
(* What several services of topbar-services have in common: when to ask    *)
(* again (refresh.rs), and who moved a level (change.rs).                  *)
(***************************************************************************)
EXTENDS Integers, Sequences

Lowest(S) == CHOOSE x \in S : \A y \in S : x <= y
Highest(S) == CHOOSE x \in S : \A y \in S : y <= x

-----------------------------------------------------------------------------
(* Everything that polls.  Durations are whole seconds; 0 stands for "no   *)
(* backoff yet".  The jitter of a success is left out: it moves a          *)
(* deadline, not an order.                                                 *)

BackoffStart == 60

AtMost(a, b) == IF a < b THEN a ELSE b
AtLeast(a, b) == IF a < b THEN b ELSE a

\* The backoff a failure hands out: a minute, then doubling up to the interval,
\* which is never cut below a minute.
Failed(interval, backoff) ==
    AtMost(IF backoff = 0 THEN BackoffStart ELSE 2 * backoff,
           AtLeast(interval, BackoffStart))

\* A success forgets the ladder.
Succeeded == 0

-----------------------------------------------------------------------------
(* What the panel asked for, kept until a reading explains itself by it:   *)
(* the volume and the backlight each have echoes of their own.  Values are *)
(* far enough apart that TOLERANCE joins no two of them, and CAPACITY is   *)
(* never reached: a source has one echo per field.                         *)

\* shows_osd
ShowsOsd(source) == source # "ui"

\* Echoes::record: one per source and field, the newest last.
Record(echoes, field, value, source) ==
    Append(SelectSeq(echoes, LAMBDA e : e.field # field \/ e.source # source),
           [field |-> field, value |-> value, source |-> source])

\* Echoes::attribute: the oldest that fits, which is used up.
Matching(echoes, field, value) ==
    {i \in DOMAIN echoes : echoes[i].field = field /\ echoes[i].value = value}
Attribute(echoes, field, value) ==
    LET found == Matching(echoes, field, value)
        oldest == CHOOSE i \in found : \A j \in found : i <= j
    IN
    IF found = {} THEN [source |-> "external", echoes |-> echoes]
    ELSE [source |-> echoes[oldest].source,
          echoes |-> SubSeq(echoes, 1, oldest - 1) \o SubSeq(echoes, oldest + 1, Len(echoes))]
=============================================================================

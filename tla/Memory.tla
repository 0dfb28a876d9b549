------------------------------- MODULE Memory -------------------------------
(***************************************************************************)
(* What the state store promises to the services that hand it edits: the   *)
(* document on disk is the one it was before with the edits of this run    *)
(* applied in the order they were handed in, up to some point.  It never   *)
(* goes back, never skips an edit, never changes a section nobody edited,  *)
(* and a run that ends loses at most the edits not yet saved.              *)
(***************************************************************************)
EXTENDS Integers, Sequences

CONSTANTS
    Document,       \* what a state file may hold
    Edit,           \* what a service may ask to be remembered
    Fresh,          \* the document of a panel that never saved
    Apply(_, _)     \* a document with a sequence of edits on top

VARIABLES
    disk,       \* the document a new run would start from
    pending     \* the edits of this run that are not in it yet, oldest first

memory == <<disk, pending>>

Init == disk \in Document /\ pending = << >>

Remember(edit) ==
    /\ pending' = Append(pending, edit)
    /\ UNCHANGED disk

Save(n) ==
    /\ disk' = Apply(disk, SubSeq(pending, 1, n))
    /\ pending' = SubSeq(pending, n + 1, Len(pending))

Lose ==
    /\ pending' = << >>
    /\ UNCHANGED disk

(* Before anything was ever saved, a start may find what the panel saved    *)
(* under its former name.                                                  *)
Adopt(doc) ==
    /\ disk = Fresh
    /\ pending = << >>
    /\ disk' = doc
    /\ UNCHANGED pending

Next ==
    \/ \E edit \in Edit : Remember(edit)
    \/ \E n \in 1..Len(pending) : Save(n)
    \/ Lose
    \/ \E doc \in Document : Adopt(doc)

Spec == Init /\ [][Next]_memory

=============================================================================

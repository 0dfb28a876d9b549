-------------------------------- MODULE Notmuch --------------------------------
(***************************************************************************)
(* The mail count (topbar-services/src/notmuch/task.rs): a cheap count on  *)
(* every tick, and a list of conversations only when the count says that   *)
(* the database moved.  Mail arrives between the two commands as well.     *)
(*                                                                         *)
(* The database is its identity, a revision and what is in it; a rebuilt   *)
(* one has a new identity and counts its revisions from the start again.   *)
(***************************************************************************)
EXTENDS Naturals

CONSTANTS
    MailBound,   \* bounds how often the database changes
    AskBound     \* bounds the reloads and the requests to count now

ConstantsOK == MailBound \in Nat \ {0} /\ AskBound \in Nat

VARIABLES
    db,          \* uuid, revision, whether there is unread mail; and its age
    step,        \* "idle", or what the loop waits for: "count" or "search"
    counted,     \* what the count in progress found
    listed,      \* the stamp the list was taken at, Never if there is none
    list,        \* the age of the database the list shows, 0 if it is empty
    shown,       \* the published count: available, unread, and its age
    asked

vars == <<db, step, counted, listed, list, shown, asked>>

Stamp(database) == <<database.uuid, database.revision>>
Never == <<0, 0>>

\* `age` orders the database's contents across rebuilds; the code has no such thing.
Init ==
    /\ db \in [uuid : {1}, revision : {1}, unread : BOOLEAN, age : {1}]
    /\ step = "idle"
    /\ counted = db
    /\ listed = Never /\ list = 0
    /\ shown = [available |-> FALSE, unread |-> FALSE, age |-> 0]
    /\ asked = 0

-----------------------------------------------------------------------------
(* The database.                                                           *)

Mail ==
    /\ db.age < MailBound
    /\ \E unread \in BOOLEAN :
        db' = [db EXCEPT !.revision = @ + 1, !.unread = unread, !.age = @ + 1]
    /\ UNCHANGED <<step, counted, listed, list, shown, asked>>

Reindex ==
    /\ db.age < MailBound
    /\ \E unread \in BOOLEAN :
        db' = [uuid |-> db.uuid + 1, revision |-> 1, unread |-> unread, age |-> db.age + 1]
    /\ UNCHANGED <<step, counted, listed, list, shown, asked>>

-----------------------------------------------------------------------------
(* check() and relist().                                                   *)

Check ==
    /\ step = "idle"
    /\ step' = "count"
    /\ UNCHANGED <<db, counted, listed, list, shown, asked>>

\* A count that fails hides the widget, and forgets the list.
CountFails ==
    /\ step = "count"
    /\ step' = "idle"
    /\ listed' = Never /\ list' = 0
    /\ shown' = [available |-> FALSE, unread |-> FALSE, age |-> 0]
    /\ UNCHANGED <<db, counted, asked>>

Publish(found) == shown' = [available |-> TRUE, unread |-> found.unread, age |-> found.age]

\* Mutant: the revision alone says that nothing moved.
Counted_RevisionOnly ==
    /\ step = "count"
    /\ counted' = db
    /\ IF listed[2] = db.revision
       THEN step' = "idle" /\ Publish(db) /\ UNCHANGED <<listed, list>>
       ELSE IF ~db.unread
       THEN step' = "idle" /\ listed' = Stamp(db) /\ list' = 0 /\ Publish(db)
       ELSE step' = "search" /\ UNCHANGED <<listed, list, shown>>
    /\ UNCHANGED <<db, asked>>

\* Nothing moved: the list stands.  Nothing unread: it is empty.  Else it is read.
Counted ==
    /\ step = "count"
    /\ counted' = db
    /\ IF listed = Stamp(db)
       THEN step' = "idle" /\ Publish(db) /\ UNCHANGED <<listed, list>>
       ELSE IF ~db.unread
       THEN step' = "idle" /\ listed' = Stamp(db) /\ list' = 0 /\ Publish(db)
       ELSE step' = "search" /\ UNCHANGED <<listed, list, shown>>
    /\ UNCHANGED <<db, asked>>

\* The list is of the database as it is now, and is stamped with the count's.
Searched(ok) ==
    /\ step = "search"
    /\ step' = "idle"
    /\ listed' = IF ok THEN Stamp(counted) ELSE Never
    /\ list' = IF ok /\ db.unread THEN db.age ELSE 0
    /\ Publish(counted)
    /\ UNCHANGED <<db, counted, asked>>

\* A changed section starts the count over; nothing was listed by the new one.
\* The snapshot stays until the first count.
Configure ==
    /\ step = "idle" /\ asked < AskBound
    /\ asked' = asked + 1
    /\ listed' = Never
    /\ UNCHANGED <<db, step, counted, list, shown>>

Next ==
    \/ Mail \/ Reindex
    \/ Check \/ CountFails \/ Counted
    \/ \E ok \in BOOLEAN : Searched(ok)
    \/ Configure

Spec == Init /\ [][Next]_vars

-----------------------------------------------------------------------------
(* Properties.                                                             *)

\* Every variable has its type; a count that is not available is no count.
TypeOK ==
    /\ {db, counted} \subseteq
        [uuid : 1..MailBound, revision : 1..MailBound, unread : BOOLEAN, age : 1..MailBound]
    /\ step \in {"idle", "count", "search"}
    /\ listed \in (0..MailBound) \X (0..MailBound) /\ list \in 0..MailBound
    /\ shown \in [available : {TRUE}, unread : BOOLEAN, age : 1..MailBound]
                 \cup {[available |-> FALSE, unread |-> FALSE, age |-> 0]}
    /\ asked \in 0..AskBound

\* A list that is taken for good is never older than the count beside it, through
\* mail that arrives between the two commands and databases that are rebuilt.
ListIsNotOlder ==
    step = "idle" /\ shown.available /\ listed # Never /\ list # 0 => list >= shown.age

\* An empty list under a count is one the next check reads again: it was stamped
\* with a database that has moved since, or not stamped at all.
EmptyIsReread ==
    step = "idle" /\ shown.unread /\ list = 0 => listed # Stamp(db)
=============================================================================

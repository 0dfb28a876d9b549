------------------------- MODULE NotificationRestart -------------------------
(***************************************************************************)
(* The notification daemon across restarts of the panel: what it hands to  *)
(* the state store reaches the disk some time later, the process may end   *)
(* in between, and the next one starts from the disk.                      *)
(*                                                                         *)
(* The store is its promise (module Memory), seen from one section.  A     *)
(* save of an older document is the save of the latest one at an earlier   *)
(* moment, and the daemon never reads the disk, so saving the latest       *)
(* document at any time is every save there is.                            *)
(***************************************************************************)
EXTENDS Notifications

VARIABLE disk       \* the notifications section of the state file

allVars == <<vars, disk>>

RestartInit ==
    /\ Init
    /\ disk = daemon.saved

DaemonStep == Next /\ UNCHANGED disk

Save ==
    /\ disk' = daemon.saved
    /\ UNCHANGED vars

(* The process ends and the next one restores; a loop is never resumed. *)
Restart ==
    /\ daemon' = Restore(disk)
    /\ loop' = NoLoop
    /\ UNCHANGED disk

RestartNext == DaemonStep \/ Save \/ Restart

RestartSpec == RestartInit /\ [][RestartNext]_allVars

-----------------------------------------------------------------------------
FiledAs(d, id) == [app |-> d.records[id].app, critical |-> d.records[id].critical]

\* Nothing the user could see in the history is forgotten once the document is
\* saved: a restart between commands restores the Do Not Disturb flag and every
\* entry, in the same order and for the same application.
RestartForgetsNothing ==
    Idle /\ disk = daemon.saved =>
        LET after == Restore(disk)
        IN /\ after.dnd = daemon.dnd
           /\ \A id \in Range(daemon.history) :
                 id \in Range(after.history) /\ FiledAs(after, id) = FiledAs(daemon, id)
           /\ \A i, j \in DOMAIN daemon.history : i < j =>
                 \E k, l \in DOMAIN after.history :
                    /\ k < l
                    /\ after.history[k] = daemon.history[i]
                    /\ after.history[l] = daemon.history[j]

\* An id the restart brought back is handed to nobody else: however old the saved
\* counter is, it is past every restored entry.
RestoredKeepTheirIds ==
    [][ daemon'.next # daemon.next => daemon'.reply \notin DOMAIN daemon.records ]_allVars

-----------------------------------------------------------------------------
(* What the source says and the code does not keep. *)

\* task.rs in restore: "Never hand out an id the last run already used"; the new
\* counter is not behind the old one, at least when all it handed over was saved.
CounterSurvives ==
    [][ Restart /\ disk = daemon.saved => daemon'.next >= daemon.next ]_allVars

\* task.rs in notify: a replacement that has become ineligible for the history
\* "must not leave the old entry behind".
RestartBringsNothingBack ==
    Idle /\ disk = daemon.saved => Range(Restore(disk).history) \subseteq Range(daemon.history)

=============================================================================

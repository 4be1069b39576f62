----------------------------- MODULE JobLifecycle -----------------------------
(***************************************************************************)
(* What the queue promises of a job's status, whoever touches the table:   *)
(* rows are created PENDING or SCHEDULED, every later change is a pair of  *)
(* the transition table, and two rows never occupy one idempotency key.    *)
(* Bulk updates move several rows in one step.                             *)
(***************************************************************************)
EXTENDS JobStates

CONSTANTS Job, KeyOf

VARIABLE status

KeysDistinct(s) ==
  \A i, j \in Job : i # j /\ KeyOf[i] = KeyOf[j] =>
    ~(s[i] \in Indexed /\ s[j] \in Indexed)

Init == status = [j \in Job |-> "NONE"]

Move(j) ==
  \/ status'[j] = status[j]
  \/ status[j] = "NONE" /\ status'[j] \in {"PENDING", "SCHEDULED"}
  \/ <<status[j], status'[j]>> \in Transition

Next ==
  /\ status' \in [Job -> Status \cup {"NONE"}]
  /\ \A j \in Job : Move(j)
  /\ KeysDistinct(status')

Spec == Init /\ [][Next]_status
=============================================================================

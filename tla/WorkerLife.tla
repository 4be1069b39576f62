------------------------------ MODULE WorkerLife ------------------------------
(***************************************************************************)
(* What the daemon's queue worker promises to both of its surroundings,    *)
(* the job table and the process it runs in: one job at a time, and once   *)
(* it has been told to stop it claims nothing and begins no send, while    *)
(* what it is sending is answered or lost with the process.                *)
(***************************************************************************)
VARIABLES
  place,  \* "away", "idle", "holding" a claimed job, "sending" it
  told    \* it has been told to stop

vars == <<place, told>>

Init == place = "away" /\ ~told

Start == place = "away" /\ place' = "idle" /\ UNCHANGED told

Take == place = "idle" /\ ~told /\ place' = "holding" /\ UNCHANGED told

(* Stopped while it paces, or the job may not be sent.                     *)
PutBack == place = "holding" /\ place' = "idle" /\ UNCHANGED told

Send == place = "holding" /\ ~told /\ place' = "sending" /\ UNCHANGED told

(* After an authentication error it tells itself to stop.                  *)
Answer == place = "sending" /\ place' = "idle" /\ told' \in {told, TRUE}

Tell == place # "away" /\ told' = TRUE /\ UNCHANGED place

(* Told to stop and idle, by an exception, or with its process.            *)
Leave == place # "away" /\ place' = "away" /\ told' = FALSE

Next == Start \/ Take \/ PutBack \/ Send \/ Answer \/ Tell \/ Leave

Spec == Init /\ [][Next]_vars
=============================================================================

------------------------------ MODULE JobStates ------------------------------
(***************************************************************************)
(* The vocabulary of the queue: the states of a job, the table of legal    *)
(* transitions, the states the partial unique index covers, the classes of *)
(* delivery errors and the decision the worker takes on each.              *)
(***************************************************************************)
EXTENDS Integers

(* States from which the table lets a job be cancelled before delivery.    *)
Unsent == {"PENDING", "SCHEDULED", "RETRY", "WAITING_RATE_LIMIT"}

Status == Unsent \cup {"PROCESSING", "SENT", "FAILED", "CANCELLED",
                       "REVIEW_REQUIRED", "DRY_RUN"}

(* A row that carries one of these statuses occupies its idempotency key.  *)
Indexed == Unsent \cup {"PROCESSING", "SENT", "DRY_RUN"}

(* The table behind assertJobTransition, as a relation.                    *)
Transition ==
       {"SCHEDULED"} \X {"PENDING", "CANCELLED"}
  \cup {"PENDING", "RETRY", "WAITING_RATE_LIMIT"} \X {"PROCESSING", "CANCELLED"}
  \cup {"PROCESSING"} \X {"SENT", "DRY_RUN", "RETRY", "WAITING_RATE_LIMIT",
                          "FAILED", "REVIEW_REQUIRED"}
  \cup {"FAILED"} \X {"RETRY", "CANCELLED"}
  \cup {"REVIEW_REQUIRED"} \X {"RETRY", "SENT", "FAILED", "CANCELLED"}

-----------------------------------------------------------------------------
AuthErrors == {"AUTH_REQUIRED", "LOGGED_OUT"}

TransientErrors == {"TEMPORARY_NETWORK", "CONNECTION_CLOSED",
                    "SESSION_ERROR", "UNKNOWN_TRANSIENT"}

DestinationErrors == {"PERMISSION_ERROR", "DESTINATION_ERROR"}

ErrorClass == AuthErrors \cup TransientErrors \cup DestinationErrors
  \cup {"RATE_LIMITED", "INVALID_PAYLOAD", "MEDIA_ERROR", "UNKNOWN_PERMANENT"}

(* What the error classifier and the payload builder can raise while a     *)
(* live job is being sent.                                                 *)
WireErrors == ErrorClass \ {"AUTH_REQUIRED", "SESSION_ERROR", "UNKNOWN_PERMANENT"}

(* Errors that leave open whether WhatsApp took the message: a time-out, a *)
(* closed or revoked connection, an answer without an identifier, or a     *)
(* local write that failed after the answer.                               *)
AmbiguousErrors == {"TEMPORARY_NETWORK", "CONNECTION_CLOSED",
                    "UNKNOWN_TRANSIENT", "LOGGED_OUT"}

Bug_DecideRetry(errorClass, attempt, maxAttempts) ==
  CASE errorClass \in AuthErrors -> "pause-auth"
    [] errorClass \notin AuthErrors /\ attempt > maxAttempts -> "fail"
    [] errorClass = "RATE_LIMITED" /\ attempt <= maxAttempts -> "rate-limit"
    [] errorClass \in TransientErrors /\ attempt <= maxAttempts -> "retry"
    [] OTHER -> "fail"

(* decideRetry: an authentication error is put back whatever the budget;   *)
(* every other error first has to fit the budget.                          *)
DecideRetry(errorClass, attempt, maxAttempts) ==
  CASE errorClass \in AuthErrors -> "pause-auth"
    [] errorClass \notin AuthErrors /\ attempt >= maxAttempts -> "fail"
    [] errorClass = "RATE_LIMITED" /\ attempt < maxAttempts -> "rate-limit"
    [] errorClass \in TransientErrors /\ attempt < maxAttempts -> "retry"
    [] OTHER -> "fail"
=============================================================================

------------------------------ MODULE ServiceLife ------------------------------
(***************************************************************************)
(* What the life of one daemon promises to its operator and to the service *)
(* manager, whatever its connection, its worker and its signals do:        *)
(* messages are sent only while it serves over a session that is there,    *)
(* nothing is started once it ends, the last send is over before the       *)
(* session is given up, and the session before the process is gone.  One   *)
(* whose clean-up fails is stranded: it keeps what it holds and sends      *)
(* nothing.                                                                *)
(***************************************************************************)
VARIABLES
  life,     \* "starting", "serving", "ending", "closed" (no session again),
            \* "stranded", "gone"
  session,  \* a WhatsApp socket is there
  sending   \* a send is in flight

vars == <<life, session, sending>>

Init == life = "starting" /\ ~session /\ ~sending

(* Sockets come and go until the process is closing.                       *)
Session ==
  /\ life \in {"starting", "serving", "ending", "stranded"}
  /\ session' \in BOOLEAN
  /\ UNCHANGED <<life, sending>>

Serve == life = "starting" /\ life' = "serving" /\ UNCHANGED <<session, sending>>

BeginSend ==
  /\ life = "serving" /\ session /\ ~sending
  /\ sending' = TRUE
  /\ UNCHANGED <<life, session>>

(* The answer to a send may be the reason to end.                          *)
EndSend ==
  /\ sending /\ sending' = FALSE
  /\ life' \in {life} \cup (IF life = "serving" THEN {"ending"} ELSE {})
  /\ UNCHANGED session

(* A start that fails may lose its session in the same step.               *)
End ==
  /\ life \in {"starting", "serving"}
  /\ life' = "ending" /\ session' \in {session, FALSE}
  /\ UNCHANGED sending

Close ==
  /\ life = "ending" /\ ~sending
  /\ life' = "closed" /\ session' = FALSE
  /\ UNCHANGED sending

Strand ==
  /\ life \in {"starting", "serving", "ending", "closed"} /\ ~sending
  /\ life' = "stranded"
  /\ UNCHANGED <<session, sending>>

Exit ==
  /\ life \in {"closed", "stranded", "ending"} /\ ~session /\ ~sending
  /\ life' = "gone"
  /\ UNCHANGED <<session, sending>>

Next ==
  \/ Session \/ Serve \/ BeginSend \/ EndSend \/ End \/ Close \/ Strand \/ Exit

Spec == Init /\ [][Next]_vars
=============================================================================

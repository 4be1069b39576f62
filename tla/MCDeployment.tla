------------------------------ MODULE MCDeployment ------------------------------
(***************************************************************************)
(* Deployment on a small instance.  Processes start all alike, so they may *)
(* be permuted.                                                            *)
(***************************************************************************)
EXTENDS Deployment, TLC

Alike == Permutations(Process)
=============================================================================

------------------------------ MODULE MCDelivery ------------------------------
(* Instances of Delivery for TLC: two jobs to one group.                   *)
EXTENDS Delivery, TLC

CONSTANTS a, b, g

OneGroup == [j \in Job |-> g]
SameKey == [j \in Job |-> g]
OwnKey == [j \in Job |-> j]

(* Sound where all jobs have one key, one destination and one mode.        *)
Symmetry == Permutations(Job)
=============================================================================

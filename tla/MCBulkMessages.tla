---------------------------- MODULE MCBulkMessages ----------------------------
(* Two groups, an alias, two group sets; groups and sets are alike.        *)
EXTENDS BulkMessages

Alike == Permutations(Group) \cup Permutations(SetName)

(* Bound: while a bulk command enqueues, and once it is over, the commands *)
(* beside it are whole ones; followed step by step they would write        *)
(* nothing else.                                                           *)
OneFollowed ==
  \/ \A e \in Editor : edit[e] = Idle
  \/ \A c \in Caller : command[c].pc \in {"new", "reading"}
=============================================================================

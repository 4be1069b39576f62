---------------------------- MODULE MCMediaStaging ----------------------------
(* The commands do the same work on files of their own.                    *)
EXTENDS MediaStaging, TLC

Alike == Permutations(Client)
=============================================================================

--------------------------- MODULE MCSelfController ---------------------------
(***************************************************************************)
(* A forwarded video and a /forward that replies to it, each of which may  *)
(* come by either JID of the account, and another command.  A message of   *)
(* somebody else, a forwarded text that looks like a command and a         *)
(* forwarded audio are accepted by nothing, so none is listed.             *)
(***************************************************************************)
EXTENDS SelfController, TLC

CONSTANTS t1, t2

Text(id, jid, forwarded, quotes) ==
  [id |-> id, jid |-> jid, mine |-> TRUE, forwarded |-> forwarded, content |-> "text",
   command |-> TRUE, forward |-> quotes # "none", quotes |-> quotes]

Video(jid) == [Text("video", jid, TRUE, "none") EXCEPT !.command = FALSE, !.content = "media"]

Messages ==
  {Video(jid) : jid \in {"pn", "lid"}}
    \cup {Text("forward", jid, FALSE, "video") : jid \in {"pn", "lid"}}
    \cup {Text("status", "pn", FALSE, "none")}

Slots == {t1, t2}
Symmetry == Permutations(Slots)
=============================================================================

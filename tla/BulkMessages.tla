------------------------------ MODULE BulkMessages ------------------------------
(***************************************************************************)
(* One text to many groups: the targets of sendmulti, sendall and sendset, *)
(* or of the forward commands, are resolved and then enqueued one by one   *)
(* while commands change the directory, jobs end, and other commands send  *)
(* the same text.  Each caller gives one command, without --force.         *)
(***************************************************************************)
EXTENDS GroupDirectory

CONSTANT Caller  \* the bulk commands

VARIABLES
  command,  \* each caller: how far it is, its targets left and its counts
  rows      \* each caller: the groups of its batch's job rows

vars == <<directoryVars, command, rows>>

Count == 0 .. MaxInputs + Cardinality(Group)

Batch == [pc : {"new", "reading", "aborted", "enqueuing", "done", "gone"},
          set : SetName \cup {None}, id : 0 .. MaxSets, left : Seq(Group),
          requested : Count, queued : Count, duplicateJobs : Count,
          duplicateTargets : Count, failed : Count, skipped : Count]

TypeOK ==
  /\ DirectoryTypeOK
  /\ rows \in [Caller -> SUBSET Group]
  /\ command \in [Caller -> Batch] /\ \A c \in Caller : IsInjective(command[c].left)

Init ==
  /\ DirectoryInit
  /\ command = [c \in Caller |->
       [pc |-> "new", set |-> None, id |-> 0, left |-> <<>>,
        requested |-> 0, queued |-> 0, duplicateJobs |-> 0,
        duplicateTargets |-> 0, failed |-> 0, skipped |-> 0]]
  /\ rows = [c \in Caller |-> {}]

-----------------------------------------------------------------------------
(* TargetResolver, with requireAllowed.                                    *)

Eligible(name) == Lookup(name) \in allowed

Bug_Take(found, name) ==
  IF ~Eligible(name) THEN [found EXCEPT !.issues = @ + 1]
  ELSE [found EXCEPT !.destinations = Append(@, Lookup(name))]

Take(found, name) ==
  IF ~Eligible(name) THEN [found EXCEPT !.issues = @ + 1]
  ELSE IF Lookup(name) \in ToSet(found.destinations)
  THEN [found EXCEPT !.duplicates = @ + 1]
  ELSE [found EXCEPT !.destinations = Append(@, Lookup(name))]

Nothing == [destinations |-> <<>>, issues |-> 0, duplicates |-> 0]

(* found[i] is what the loop has found after i inputs.                     *)
ResolveTargets(inputs) ==
  LET found[i \in 0 .. Len(inputs)] ==
        IF i = 0 THEN Nothing ELSE Take(found[i - 1], inputs[i])
  IN found[Len(inputs)]

-----------------------------------------------------------------------------
(* The command resolves its targets and records the batch.                 *)
Begin(c, found, requested, skipped) ==
  command' = [command EXCEPT ![c] =
    [@ EXCEPT !.pc = "enqueuing", !.left = found.destinations, !.requested = requested,
              !.duplicateTargets = found.duplicates, !.skipped = skipped]]

Give(c) == command[c].pc = "new" /\ UNCHANGED <<directoryVars, rows>>

Abort(c) == command' = [command EXCEPT ![c].pc = "aborted"]

(* One invalid target aborts the whole command.                            *)
Valid(found) == found.issues = 0

SendMulti(c) ==
  /\ Give(c)
  /\ \E inputs \in Inputs :
       LET found == ResolveTargets(inputs) IN
       IF Valid(found) THEN Begin(c, found, Len(inputs), 0) ELSE Abort(c)

SendAll(c) ==
  /\ Give(c)
  /\ IF allowed = {} THEN Abort(c)
     ELSE \E list \in SetToSeqs(allowed) :
            Begin(c, [Nothing EXCEPT !.destinations = list],
                  Cardinality(Group), Cardinality(Group \ allowed))

(* members: the set is found by its name, and its rows are read by its id. *)
FindSet(c) ==
  /\ Give(c)
  /\ \E s \in SetName :
       IF sets[s] = 0 THEN Abort(c)
       ELSE command' = [command EXCEPT ![c].pc = "reading", ![c].set = s, ![c].id = sets[s]]

SendSet(c) ==
  /\ command[c].pc = "reading"
  /\ \E list \in SetToSeqs(members[command[c].id]) :
       LET found == ResolveTargets(list) IN
       IF found.destinations = <<>> THEN Abort(c)
       ELSE Begin(c, found, Len(list), found.issues)
  /\ UNCHANGED <<directoryVars, rows>>

(* A usage error, or the batch row cannot be written: nothing is queued.   *)
Refuse(c) == Give(c) /\ Abort(c)

(* BulkMessageService.enqueue: one destination.                            *)
Bug_Counted(c, n) ==
  [command EXCEPT ![c].left = Tail(@), ![c][n] = IF n = "failed" THEN @ ELSE @ + 1]

Counted(c, n) == [command EXCEPT ![c].left = Tail(@), ![c][n] = @ + 1]

Enqueuing(c) == command[c].pc = "enqueuing" /\ command[c].left # <<>>

Queue(c) ==
  LET g == Head(command[c].left) IN
  /\ Enqueuing(c) /\ g \in allowed /\ g \notin active
  /\ command' = Counted(c, "queued")
  /\ active' = active \cup {g}
  /\ rows' = [rows EXCEPT ![c] = @ \cup {g}]
  /\ UNCHANGED <<allowed, alias, sets, lastId, members, edit>>

Duplicate(c) ==
  LET g == Head(command[c].left) IN
  /\ Enqueuing(c) /\ g \in allowed /\ g \in active
  /\ command' = Counted(c, "duplicateJobs")
  /\ UNCHANGED <<directoryVars, rows>>

(* The group was denied meanwhile, or the database fails.                  *)
Fail(c) ==
  /\ Enqueuing(c)
  /\ command' = Counted(c, "failed")
  /\ UNCHANGED <<directoryVars, rows>>

Finish(c) ==
  /\ command[c].pc = "enqueuing" /\ command[c].left = <<>>
  /\ command' = [command EXCEPT ![c].pc = "done"]
  /\ UNCHANGED <<directoryVars, rows>>

Crash(c) ==
  /\ command[c].pc = "enqueuing"
  /\ command' = [command EXCEPT ![c].pc = "gone"]
  /\ UNCHANGED <<directoryVars, rows>>

-----------------------------------------------------------------------------
Next ==
  \/ \E c \in Caller :
       \/ SendMulti(c) \/ SendAll(c) \/ FindSet(c) \/ SendSet(c) \/ Refuse(c)
       \/ Queue(c) \/ Duplicate(c) \/ Fail(c) \/ Finish(c) \/ Crash(c)
  \/ DirectoryNext /\ UNCHANGED <<command, rows>>

Spec == Init /\ [][Next]_vars

-----------------------------------------------------------------------------
(* Properties.                                                             *)

(* resolveTargets keeps the first mention of every eligible group in       *)
(* order, and counts every other input once, as an issue or a duplicate.   *)
(* It reads the directory alone: TLC tries it before commands begin, on    *)
(* lists one longer than a command's.                                      *)
ResolvesAsDefined ==
  (\A c \in Caller : command[c].pc = "new") =>
  \A inputs \in SeqOf(Name, MaxInputs + 1) :
    LET found == ResolveTargets(inputs)
        good == {i \in DOMAIN inputs : Eligible(inputs[i])}
        first == {i \in good : \A j \in good : j < i => Lookup(inputs[j]) # Lookup(inputs[i])}
    IN /\ Len(found.destinations) = Cardinality(first)
       /\ \A i \in first :
            found.destinations[Cardinality({j \in first : j <= i})] = Lookup(inputs[i])
       /\ found.issues = Len(inputs) - Cardinality(good)
       /\ found.duplicates = Cardinality(good) - Cardinality(first)

(* Every target that was asked for is still to come or is reported once,   *)
(* as queued, duplicate, failed or skipped, whatever changes meanwhile; so  *)
(* a sendmulti that was not aborted left no invalid target out.            *)
Accounted ==
  \A c \in Caller : command[c].pc # "aborted" =>
    command[c].requested =
      Len(command[c].left) + command[c].queued + command[c].duplicateJobs
      + command[c].duplicateTargets + command[c].failed + command[c].skipped

(* A batch sends to a group at most once, even when its first job fails or *)
(* is cancelled and the key is free again before the batch ends.           *)
OncePerGroup ==
  \A c \in Caller :
    /\ rows[c] \cap ToSet(command[c].left) = {}
    /\ Cardinality(rows[c]) = command[c].queued

(* sendset sends to members of the set it was asked for: in the moment its *)
(* rows are read, although the name was looked up before and the set may   *)
(* have been deleted, and other sets created, in between.                  *)
SendsToItsMembers ==
  [][\A c \in Caller : command[c].pc = "reading" /\ command'[c].pc = "enqueuing" =>
       LET s == command[c].set IN
       sets[s] # 0 /\ ToSet(command'[c].left) \subseteq members[sets[s]]]_vars
=============================================================================

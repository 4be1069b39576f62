---------------------------- MODULE GroupDirectory ----------------------------
(***************************************************************************)
(* The groups that may be sent to, their aliases and the group sets.  The  *)
(* commands of the daemon and of the CLI processes change them: a command  *)
(* looks names up in reads of their own and then writes in one immediate   *)
(* transaction, so the commands of other processes come in between.        *)
(***************************************************************************)
EXTENDS Naturals, FiniteSets, SequencesExt

CONSTANTS
  Group,      \* the discovered groups; none is ever removed
  Alias,      \* what groups may be called by
  SetName,    \* the names of group sets
  Editor,     \* the commands that are followed step by step
  None,       \* no alias, no group
  MaxInputs,  \* bound: targets listed in a command
  MaxSets     \* bound: group sets ever created

ASSUME DirectoryAssumption ==
  /\ None \notin Group \cup Alias /\ Group \cap Alias = {}
  /\ IsFiniteSet(Group) /\ MaxInputs \in Nat /\ MaxSets \in Nat

VARIABLES
  allowed,  \* the groups with enabled and can_send
  active,   \* the groups with an active job of the text being sent
  alias,    \* each group's alias, or None
  sets,     \* each name's group_sets.id, or 0
  lastId,   \* the last id AUTOINCREMENT gave out
  members,  \* each id's group_set_members rows
  edit      \* each editor: what it does and what it has looked up

directoryVars == <<allowed, active, alias, sets, lastId, members, edit>>

Name == Group \cup Alias
Inputs == SeqOf(Name, MaxInputs) \ {<<>>}

Doing(op, set, called, todo, found) ==
  [op |-> op, set |-> set, alias |-> called, todo |-> todo, found |-> found,
   duplicates |-> 0, asked |-> Len(todo)]

Idle == Doing("idle", None, None, <<>>, <<>>)

Work == [op : {"idle", "allow", "deny", "alias", "add", "remove"},
         set : SetName \cup {None}, alias : Alias \cup {None},
         todo : Seq(Name), found : Seq(Group),
         duplicates : 0 .. MaxInputs, asked : 0 .. MaxInputs]

(* UNIQUE and the foreign key: an alias names one group, a set's name has  *)
(* rows of its own, and no member row outlives its set.                    *)
Unambiguous ==
  /\ \A g, h \in Group : g # h /\ alias[g] # None => alias[g] # alias[h]
  /\ \A s, t \in SetName : s # t /\ sets[s] # 0 => sets[s] # sets[t]
  /\ \A i \in 1 .. MaxSets : members[i] # {} => \E s \in SetName : sets[s] = i

DirectoryTypeOK ==
  /\ allowed \subseteq Group /\ active \subseteq Group
  /\ alias \in [Group -> Alias \cup {None}]
  /\ sets \in [SetName -> 0 .. lastId] /\ lastId \in 0 .. MaxSets
  /\ members \in [1 .. MaxSets -> SUBSET Group]
  /\ edit \in [Editor -> Work] /\ \A e \in Editor : IsInjective(edit[e].found)
  /\ Unambiguous

DirectoryInit ==
  /\ allowed = {} /\ active = {}
  /\ alias = [g \in Group |-> None]
  /\ sets = [s \in SetName |-> 0] /\ lastId = 0
  /\ members = [i \in 1 .. MaxSets |-> {}]
  /\ edit = [e \in Editor |-> Idle]

-----------------------------------------------------------------------------
(* DestinationRepository.resolve: a JID, or an alias.                      *)
Lookup(name) ==
  IF name \in Group THEN name
  ELSE LET called == {g \in Group : alias[g] = name}
       IN IF called = {} THEN None ELSE CHOOSE g \in called : TRUE

Starts(e, work) == edit[e].op = "idle" /\ edit' = [edit EXCEPT ![e] = work]
Ends(e) == edit' = [edit EXCEPT ![e] = Idle]
Subject(e) == edit[e].found[1]

(* groups allow, deny, alias and unalias resolve their reference first.    *)
AskEnabled(e) ==
  /\ \E name \in Name, op \in {"allow", "deny"} :
       /\ Lookup(name) # None
       /\ Starts(e, Doing(op, None, None, <<>>, <<Lookup(name)>>))
  /\ UNCHANGED <<allowed, active, alias, sets, lastId, members>>

AskAlias(e) ==
  /\ \E name \in Name, a \in Alias \cup {None} :
       /\ Lookup(name) # None
       /\ Starts(e, Doing("alias", None, a, <<>>, <<Lookup(name)>>))
  /\ UNCHANGED <<allowed, active, alias, sets, lastId, members>>

(* A denial cancels the group's unsent jobs; one in flight stays active.   *)
Denied(g) == allowed' = allowed \ {g} /\ active' \in {active, active \ {g}}

WriteEnabled(e) ==
  /\ \/ edit[e].op = "allow" /\ allowed' = allowed \cup {Subject(e)} /\ UNCHANGED active
     \/ edit[e].op = "deny" /\ Denied(Subject(e))
  /\ Ends(e) /\ UNCHANGED <<alias, sets, lastId, members>>

(* destinations.alias is UNIQUE: the update of a taken alias throws.       *)
Taken(g, a) == a # None /\ \E h \in Group \ {g} : alias[h] = a

WriteAlias(e) ==
  /\ edit[e].op = "alias"
  /\ alias' = IF Taken(Subject(e), edit[e].alias) THEN alias
              ELSE [alias EXCEPT ![Subject(e)] = edit[e].alias]
  /\ Ends(e) /\ UNCHANGED <<allowed, active, sets, lastId, members>>

(* synchronize: what WhatsApp says of can_send, and unsent jobs of groups  *)
(* that cannot be sent to are cancelled.                                   *)
Synchronized(now) ==
  /\ allowed' = now
  /\ \E cancelled \in SUBSET (Group \ now) : active' = active \ cancelled

(* groups import-local sets can_send again, and then names the group.      *)
ImportLocal(e) ==
  /\ \E g \in Group :
       /\ Synchronized(allowed) \/ Synchronized(allowed \cup {g})
       /\ \/ UNCHANGED edit
          \/ \E a \in Alias : Starts(e, Doing("alias", None, a, <<>>, <<g>>))
  /\ UNCHANGED <<alias, sets, lastId, members>>

-----------------------------------------------------------------------------
(* groupset create, delete, add and remove.                                *)

Bug_NextId == Max({0} \cup {sets[s] : s \in SetName}) + 1

(* AUTOINCREMENT: an id is never given out twice.                          *)
NextId == lastId + 1

Create(s) ==
  /\ sets[s] = 0 /\ NextId <= MaxSets
  /\ sets' = [sets EXCEPT ![s] = NextId]
  /\ lastId' = IF NextId > lastId THEN NextId ELSE lastId
  /\ UNCHANGED <<allowed, active, alias, members, edit>>

Bug_Cascade(id) == members

(* ON DELETE CASCADE takes the members with the set.                       *)
Cascade(id) == [members EXCEPT ![id] = {}]

Delete(s) ==
  /\ sets[s] # 0
  /\ sets' = [sets EXCEPT ![s] = 0]
  /\ members' = Cascade(sets[s])
  /\ UNCHANGED <<allowed, active, alias, lastId, edit>>

AskChange(e) ==
  /\ \E s \in SetName, op \in {"add", "remove"}, inputs \in Inputs :
       /\ sets[s] # 0
       /\ Starts(e, Doing(op, s, None, inputs, <<>>))
  /\ UNCHANGED <<allowed, active, alias, sets, lastId, members>>

Bug_Unresolved(e) == edit' = [edit EXCEPT ![e].todo = Tail(@)]

(* An unknown target aborts the change.                                    *)
Unresolved(e) == Ends(e)

(* Each target is a read of its own; a group named twice counts once.      *)
LookUpNext(e) ==
  /\ edit[e].todo # <<>>
  /\ LET g == Lookup(Head(edit[e].todo)) IN
     \/ g = None /\ Unresolved(e)
     \/ /\ g \in ToSet(edit[e].found)
        /\ edit' = [edit EXCEPT ![e].todo = Tail(@), ![e].duplicates = @ + 1]
     \/ /\ g # None /\ g \notin ToSet(edit[e].found)
        /\ edit' = [edit EXCEPT ![e].todo = Tail(@), ![e].found = Append(@, g)]
  /\ UNCHANGED <<allowed, active, alias, sets, lastId, members>>

(* The transaction finds the set again by its name.                        *)
WriteMembers(e) ==
  /\ edit[e].op \in {"add", "remove"} /\ edit[e].todo = <<>>
  /\ LET id == sets[edit[e].set]
         jids == ToSet(edit[e].found)
     IN \/ id = 0 /\ UNCHANGED members
        \/ id # 0 /\ edit[e].op = "add" /\ members' = [members EXCEPT ![id] = @ \cup jids]
        \/ id # 0 /\ edit[e].op = "remove" /\ members' = [members EXCEPT ![id] = @ \ jids]
  /\ Ends(e) /\ UNCHANGED <<allowed, active, alias, sets, lastId>>

(* A command killed between its reads and its write leaves nothing.        *)
EditorCrash(e) ==
  /\ edit[e].op # "idle" /\ Ends(e)
  /\ UNCHANGED <<allowed, active, alias, sets, lastId, members>>

-----------------------------------------------------------------------------
(* Whole commands of processes that are not followed step by step.         *)
Allow(g) ==
  /\ allowed' = allowed \cup {g}
  /\ UNCHANGED <<active, alias, sets, lastId, members, edit>>

Refresh ==
  /\ \E now \in SUBSET Group : Synchronized(now)
  /\ UNCHANGED <<alias, sets, lastId, members, edit>>

Deny(g) == Denied(g) /\ UNCHANGED <<alias, sets, lastId, members, edit>>

Rename(g) ==
  /\ \E a \in Alias \cup {None} : ~Taken(g, a) /\ alias' = [alias EXCEPT ![g] = a]
  /\ UNCHANGED <<allowed, active, sets, lastId, members, edit>>

(* A job of the text is queued by another command.                         *)
Enter(g) ==
  /\ g \in allowed /\ active' = active \cup {g}
  /\ UNCHANGED <<allowed, alias, sets, lastId, members, edit>>

(* A job fails or is cancelled, and its key is free again.                 *)
Leave(g) ==
  /\ g \in active /\ active' = active \ {g}
  /\ UNCHANGED <<allowed, alias, sets, lastId, members, edit>>

DirectoryNext ==
  \/ \E e \in Editor :
       \/ AskEnabled(e) \/ WriteEnabled(e) \/ AskAlias(e) \/ WriteAlias(e) \/ ImportLocal(e)
       \/ AskChange(e) \/ LookUpNext(e) \/ WriteMembers(e) \/ EditorCrash(e)
  \/ Refresh
  \/ \E s \in SetName : Create(s) \/ Delete(s)
  \/ \E g \in Group : Allow(g) \/ Deny(g) \/ Rename(g) \/ Enter(g) \/ Leave(g)

-----------------------------------------------------------------------------
(* Properties.                                                             *)

(* setup-guide: one invalid target and nothing of the change is applied.   *)
(* Members come and go with a deletion of their set, or by a change whose  *)
(* every target was found, and which gains or loses all of them at once.   *)
ChangeIsWhole ==
  [][\A i \in 1 .. MaxSets : members'[i] # members[i] =>
       \/ \E s \in SetName : sets[s] = i /\ sets'[s] = 0
       \/ \E e \in Editor :
            LET jids == ToSet(edit[e].found) IN
            /\ edit[e].asked = Len(edit[e].found) + edit[e].duplicates
            /\ members'[i] = IF edit[e].op = "add" THEN members[i] \cup jids
                             ELSE members[i] \ jids]_directoryVars
=============================================================================

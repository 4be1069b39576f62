-------------------------- MODULE SelfControllerProofs --------------------------
(***************************************************************************)
(* A controller command is executed at most once, for every set of         *)
(* messages and any number of events handled side by side, over            *)
(* redeliveries and restarts.                                              *)
(***************************************************************************)
EXTENDS SelfController, TLAPS

(* The parts of TypeOK that the argument uses.                             *)
TasksType ==
  tasks \in [Task -> [rest : Seq(Message), stage : {"next", "executing", "replying"}]]

RanType == ran \in [Id -> Nat] /\ processed \subseteq Id

(* A task past its first stage has marked the message at its head.         *)
Held ==
  \A t \in Task : tasks[t].stage # "next" =>
    tasks[t].rest # <<>> /\ Current(t).id \in processed

(* Whatever ran was marked, and ran once.                                  *)
Once == \A i \in Id : ran[i] \in {0, 1} /\ (ran[i] = 1 => i \in processed)

(* What is being executed has not run yet, and in no second task: the row  *)
(* of controller_messages is taken before the execution begins.            *)
Sole ==
  /\ \A t \in Task : tasks[t].stage = "executing" => ran[Current(t).id] = 0
  /\ \A t, u \in Task :
       tasks[t].stage = "executing" /\ tasks[u].stage = "executing" /\ t # u
         => Current(t).id # Current(u).id

IInv == TasksType /\ RanType /\ Held /\ Once /\ Sole

(* Every message has its id among the ids, and its key among the keys.     *)
LEMMA IdOf == \A m \in Message : m.id \in Id /\ KeyOf(m) \in Key
  BY DEF Id, Key, KeyOf

(* The head of a task is a message.                                        *)
LEMMA CurrentType ==
  ASSUME TasksType, NEW t \in Task, tasks[t].rest # <<>>
  PROVE  Current(t) \in Message /\ Current(t).id \in Id
<1>1. tasks[t].rest \in Seq(Message)
  BY DEF TasksType
<1>2. Current(t) \in Message
  BY <1>1 DEF Current
<1> QED
  BY <1>2, IdOf

(* An event is a nonempty sequence of messages.                            *)
LEMMA BatchType == \A batch \in Batch : batch \in Seq(Message)
<1>1. \A m \in Message : <<m>> \in Seq(Message)
  OBVIOUS
<1>2. \A m, n \in Message : <<m, n>> \in Seq(Message)
  OBVIOUS
<1>3. \A b \in Message \X Message : b = <<b[1], b[2]>> /\ b[1] \in Message /\ b[2] \in Message
  OBVIOUS
<1>4. \A b \in Message \X Message : b \in Seq(Message)
  BY <1>2, <1>3
<1> QED
  BY <1>1, <1>4 DEF Batch

(* No task and no command yet.                                             *)
LEMMA InitInvariant == Init => IInv
  BY DEF Init, IInv, TasksType, RanType, Held, Once, Sole, Idle

(* Steps that leave the tasks and the table alone.                         *)
LEMMA Unchanged ==
  ASSUME IInv, UNCHANGED <<tasks, processed, ran>>
  PROVE  IInv'
  BY DEF IInv, TasksType, RanType, Held, Once, Sole, Current

(* A new event takes an idle task, whose stage stays "next".               *)
LEMMA DeliverStep ==
  ASSUME IInv, NEW t \in Task, NEW batch \in Batch, Deliver(t, batch)
  PROVE  IInv'
<1>1. batch \in Seq(Message)
  BY BatchType
<1>2. UNCHANGED <<processed, ran>>
  BY DEF Deliver
<1>3. tasks' = [tasks EXCEPT ![t].rest = batch] /\ tasks[t].stage = "next"
  BY DEF Deliver, Idle
<1>4. TasksType'
  BY <1>1, <1>3 DEF IInv, TasksType
<1>5. \A u \in Task : /\ tasks'[u].stage = tasks[u].stage
                      /\ tasks[u].stage # "next" => tasks'[u] = tasks[u]
  BY <1>3 DEF IInv, TasksType
<1> QED
  BY <1>2, <1>4, <1>5 DEF IInv, RanType, Held, Once, Sole, Current

(* A task that drops its head is at "next" again; the others stay.         *)
LEMMA PassedStep ==
  ASSUME IInv, NEW t \in Task, tasks[t].rest # <<>>, tasks' = Passed(t),
         UNCHANGED <<processed, ran>>
  PROVE  IInv'
<1>1. tasks[t].rest \in Seq(Message) /\ Tail(tasks[t].rest) \in Seq(Message)
  BY DEF IInv, TasksType
<1>2. TasksType'
  BY <1>1 DEF IInv, TasksType, Passed
<1>3. \A u \in Task : tasks'[u].stage # "next" => tasks'[u] = tasks[u]
  BY DEF IInv, TasksType, Passed
<1> QED
  BY <1>2, <1>3 DEF IInv, RanType, Held, Once, Sole, Current

(* Only a message that was not marked is accepted, so it has not run and   *)
(* no other task executes it.                                              *)
LEMMA AcceptStep ==
  ASSUME IInv, NEW t \in Task, Accept(t)
  PROVE  IInv'
<1> DEFINE m == Current(t)
           s == IF Usable(m) THEN "executing" ELSE "replying"
<1>1. /\ m.id \notin processed
      /\ processed' = processed \cup {m.id}
      /\ tasks[t].rest # <<>> /\ tasks[t].stage = "next"
      /\ tasks' = [tasks EXCEPT ![t].stage = s]
      /\ UNCHANGED ran
  BY DEF Accept, Acceptable, Fresh, Marked
<1>2. m.id \in Id
  BY <1>1, CurrentType DEF IInv
<1>3. s \in {"executing", "replying"}
  OBVIOUS
<1> HIDE DEF s
<1>4. TasksType'
  BY <1>1, <1>3 DEF IInv, TasksType
<1>5. \A u \in Task : /\ tasks'[u].rest = tasks[u].rest
                      /\ u # t => tasks'[u].stage = tasks[u].stage
  BY <1>1 DEF IInv, TasksType
<1>6. \A u \in Task : Current(u)' = Current(u)
  BY <1>5 DEF Current
<1>7. Held'
  BY <1>1, <1>5, <1>6 DEF IInv, Held
<1>8. ran[m.id] = 0
  BY <1>1, <1>2 DEF IInv, Once
<1>9. Sole'
  BY <1>1, <1>5, <1>6, <1>8 DEF IInv, Held, Sole
<1>10. RanType' /\ Once'
  BY <1>1, <1>2 DEF IInv, RanType, Once
<1> QED
  BY <1>4, <1>7, <1>9, <1>10 DEF IInv

(* An execution ends: its command has run now, and nothing else executes   *)
(* it.                                                                     *)
LEMMA ExecuteStep ==
  ASSUME IInv, NEW t \in Task, Execute(t)
  PROVE  IInv'
<1> DEFINE id == Current(t).id
<1>1. /\ tasks[t].stage = "executing"
      /\ tasks' = [tasks EXCEPT ![t].stage = "replying"]
      /\ ran' = [ran EXCEPT ![id] = @ + 1] \/ UNCHANGED ran
      /\ UNCHANGED processed
  BY DEF Execute, table
<1>2. id \in processed /\ id \in Id /\ ran[id] = 0
  BY <1>1, CurrentType DEF IInv, Held, Sole
<1>3. TasksType'
  BY <1>1 DEF IInv, TasksType
<1>4. \A u \in Task : /\ tasks'[u].rest = tasks[u].rest
                      /\ tasks'[u].stage = "executing" => u # t /\ tasks[u].stage = "executing"
                      /\ tasks'[u].stage # "next" => tasks[u].stage # "next"
  BY <1>1 DEF IInv, TasksType
<1>5. \A u \in Task : Current(u)' = Current(u)
  BY <1>4 DEF Current
<1>6. RanType' /\ Once'
  BY <1>1, <1>2 DEF IInv, RanType, Once
<1>7. \A i \in Id \ {id} : ran'[i] = ran[i]
  BY <1>1, <1>2 DEF IInv, RanType
<1>8. \A u \in Task : tasks'[u].stage = "executing" => Current(u).id \in Id \ {id}
  BY <1>1, <1>4, CurrentType DEF IInv, Held, Sole
<1>9. Held'
  BY <1>1, <1>4, <1>5 DEF IInv, Held
<1>10. Sole'
  BY <1>4, <1>5, <1>7, <1>8 DEF IInv, Sole
<1> QED
  BY <1>3, <1>6, <1>9, <1>10 DEF IInv

(* The end of the daemon drops every task and keeps the table.             *)
LEMMA EndStep ==
  ASSUME IInv, End
  PROVE  IInv'
<1>1. tasks' = [t \in Task |-> Idle] /\ UNCHANGED <<processed, ran>>
  BY DEF End, table
<1> QED
  BY <1>1 DEF IInv, TasksType, RanType, Held, Once, Sole, Idle

(* The inductive invariant holds in every reachable state.                 *)
THEOREM Invariant == Spec => []IInv
<1>1. ASSUME IInv, [Next]_vars PROVE IInv'
  <2>1. CASE Start \/ Attach \/ Detach \/ UNCHANGED vars
    BY <1>1, <2>1, Unchanged DEF Start, Attach, Detach, AfterDetach, vars, table, history
  <2>2. CASE End
    BY <1>1, <2>2, EndStep
  <2>3. ASSUME NEW t \in Task, NEW batch \in Batch, Deliver(t, batch) PROVE IInv'
    BY <1>1, <2>3, DeliverStep
  <2>4. ASSUME NEW t \in Task, Accept(t) PROVE IInv'
    BY <1>1, <2>4, AcceptStep
  <2>5. ASSUME NEW t \in Task, Skip(t) PROVE IInv'
    BY <1>1, <2>5, PassedStep DEF Skip, table, history
  <2>6. ASSUME NEW t \in Task, Execute(t) PROVE IInv'
    BY <1>1, <2>6, ExecuteStep
  <2>7. ASSUME NEW t \in Task, Reply(t) PROVE IInv'
    <3>1. tasks[t].rest # <<>>
      BY <1>1, <2>7 DEF Reply, IInv, Held
    <3> QED
      BY <1>1, <2>7, <3>1, PassedStep DEF Reply, table, history
  <2>8. CASE \E m \in Message : Expire(m)
    BY <1>1, <2>8, Unchanged DEF Expire, history
  <2> QED
    BY <1>1, <2>1, <2>2, <2>3, <2>4, <2>5, <2>6, <2>7, <2>8 DEF Next
<1> QED
  BY InitInvariant, <1>1, PTL DEF Spec

(* README: a command is accepted only if it has not been processed before, *)
(* and processed IDs are persistent: no command is executed twice.         *)
THEOREM ExecutedAtMostOnce == Spec => []AtMostOnce
<1>1. IInv => AtMostOnce
  BY DEF IInv, Once, AtMostOnce
<1> QED
  BY <1>1, Invariant, PTL

-----------------------------------------------------------------------------
(* What becomes of a command, and of a source.                             *)

RestType ==
  /\ up \in BOOLEAN /\ attached \in BOOLEAN
  /\ historical \subseteq Id
  /\ sources \in [Key -> Storage]
  /\ failed \subseteq Id /\ refused \subseteq Message /\ cut \subseteq Id
  /\ delivered \subseteq Message

(* A source that has arrived is stored, alive or not.                      *)
Kept == \A s \in delivered : sources[KeyOf(s)] # "absent"

FullInv == IInv /\ RestType /\ Kept /\ MarkedIsAccounted

LEMMA ExecutingType ==
  ASSUME IInv
  PROVE  Executing \subseteq Id
BY CurrentType DEF IInv, Held, Executing

(* The fields of a task that is changed, and the other tasks.              *)
LEMMA RestTyped ==
  ASSUME IInv, RestType, [Next]_vars
  PROVE  RestType'
<1> USE DEF RestType, table, history
<1>1. CASE Start \/ Attach \/ Detach \/ UNCHANGED vars
  BY <1>1, IdOf DEF Start, Attach, Detach, vars
<1>2. CASE End
  BY <1>2, ExecutingType DEF End
<1>3. ASSUME NEW t \in Task, NEW batch \in Batch, Deliver(t, batch) PROVE RestType'
  <2>1. Stored(batch) \in [Key -> Storage]
    BY DEF Stored, Storage
  <2> QED BY <1>3, <2>1 DEF Deliver
<1>4. ASSUME NEW t \in Task, Accept(t) PROVE RestType'
  <2>1. Current(t) \in Message
    BY <1>4, CurrentType DEF Accept, IInv
  <2> QED BY <1>4, <2>1 DEF Accept
<1>5. ASSUME NEW t \in Task, Skip(t) \/ Reply(t) PROVE RestType'
  BY <1>5 DEF Skip, Reply
<1>6. ASSUME NEW t \in Task, Execute(t) PROVE RestType'
  <2>1. Current(t).id \in Id
    BY <1>6, CurrentType DEF Execute, IInv, Held
  <2> QED BY <1>6, <2>1 DEF Execute
<1>7. ASSUME NEW m \in Message, Expire(m) PROVE RestType'
  BY <1>7 DEF Expire, Storage
<1> QED BY <1>1, <1>2, <1>3, <1>4, <1>5, <1>6, <1>7 DEF Next

(* The table of sources never loses one, nor revives one.                  *)
LEMMA SourcesLast ==
  ASSUME RestType, [Next]_vars
  PROVE  /\ \A k \in Key : sources[k] # "absent" => sources'[k] # "absent"
         /\ \A k \in Key : sources[k] = "expired" => sources'[k] = "expired"
<1>1. CASE UNCHANGED sources
  BY <1>1
<1>2. ASSUME NEW t \in Task, NEW batch \in Batch, Deliver(t, batch)
      PROVE  \A k \in Key : sources[k] # "absent" => sources'[k] = sources[k]
  BY <1>2 DEF Deliver, Stored, RestType
<1>3. ASSUME NEW m \in Message, Expire(m)
      PROVE  \A k \in Key : sources'[k] = sources[k] \/ sources'[k] = "expired"
  BY <1>3 DEF Expire, RestType
<1> QED BY <1>1, <1>2, <1>3 DEF Next, Start, Attach, Detach, End, Accept, Skip, Execute, Reply, vars,
           table

LEMMA KeptStays ==
  ASSUME RestType, Kept, [Next]_vars
  PROVE  Kept'
<1>1. \A k \in Key : sources[k] # "absent" => sources'[k] # "absent"
  BY SourcesLast
<1>2. \A s \in delivered : KeyOf(s) \in Key
  BY IdOf DEF RestType
<1>3. ASSUME UNCHANGED delivered PROVE Kept'
  BY <1>3, <1>1, <1>2 DEF Kept
<1>4. ASSUME NEW t \in Task, NEW batch \in Batch, Deliver(t, batch) PROVE Kept'
  <2>1. delivered' = delivered \cup {m \in Message : Storable(m) /\ m \in Range(batch)}
    BY <1>4 DEF Deliver
  <2>2. ASSUME NEW m \in Message, Storable(m), m \in Range(batch) PROVE sources'[KeyOf(m)] # "absent"
    <3>1. KeyOf(m) \in Key /\ sources' = Stored(batch)
      BY <1>4, IdOf DEF Deliver
    <3> QED BY <2>2, <3>1 DEF Stored
  <2>3. \A s \in delivered : sources'[KeyOf(s)] # "absent"
    BY <1>1, <1>2 DEF Kept
  <2> QED BY <2>1, <2>2, <2>3 DEF Kept
<1> QED BY <1>3, <1>4 DEF Next, Start, Attach, Detach, End, Accept, Skip, Execute, Reply, Expire,
           vars, history

(* What is being executed stays so, but for the task that moves on.        *)
LEMMA StillExecuting ==
  ASSUME TasksType, NEW t \in Task, tasks[t].stage # "executing",
         \A u \in Task \ {t} : tasks'[u] = tasks[u]
  PROVE  Executing \subseteq Executing'
BY DEF Executing, Current

LEMMA AccountKept ==
  ASSUME IInv, MarkedIsAccounted, [Next]_vars
  PROVE  MarkedIsAccounted'
<1> USE DEF MarkedIsAccounted, table, history
<1>1. CASE Start \/ Attach \/ Detach \/ (\E m \in Message : Expire(m)) \/ UNCHANGED vars
  BY <1>1 DEF Start, Attach, Detach, AfterDetach, Expire, vars, Executing, Current
<1>2. CASE End
  BY <1>2 DEF End
<1>3. ASSUME NEW t \in Task, NEW batch \in Batch, Deliver(t, batch) PROVE MarkedIsAccounted'
  <2>1. Executing \subseteq Executing'
    BY <1>3, StillExecuting DEF Deliver, Idle, IInv, TasksType
  <2> QED BY <1>3, <2>1 DEF Deliver
<1>4. ASSUME NEW t \in Task, Accept(t) PROVE MarkedIsAccounted'
  <2>1. Executing \subseteq Executing'
    BY <1>4, StillExecuting DEF Accept, IInv, TasksType
  <2>2. Usable(Current(t)) => Current(t).id \in Executing'
    <3>1. Usable(Current(t)) => tasks'[t].stage = "executing" /\ tasks'[t].rest = tasks[t].rest
      BY <1>4 DEF Accept, IInv, TasksType
    <3> QED BY <3>1 DEF Executing, Current
  <2> QED BY <1>4, <2>1, <2>2 DEF Accept, Marked
<1>5. ASSUME NEW t \in Task, Skip(t) \/ Reply(t) PROVE MarkedIsAccounted'
  <2>1. Executing \subseteq Executing'
    BY <1>5, StillExecuting DEF Skip, Reply, Passed, IInv, TasksType
  <2> QED BY <1>5, <2>1 DEF Skip, Reply
<1>6. ASSUME NEW t \in Task, Execute(t) PROVE MarkedIsAccounted'
  <2> DEFINE id == Current(t).id
  <2>1. id \in Id
    BY <1>6, CurrentType DEF Execute, IInv, Held
  <2>2. \A i \in Executing : i = id \/ i \in Executing'
    BY <1>6 DEF Execute, IInv, TasksType, Executing, Current
  <2>3. \A i \in processed : ran[i] > 0 => ran'[i] > 0
    BY <1>6, <2>1 DEF Execute, IInv, RanType
  <2>4. ran'[id] > 0 \/ id \in failed'
    BY <1>6, <2>1 DEF Execute, IInv, RanType
  <2>5. processed' = processed /\ failed \subseteq failed' /\ UNCHANGED <<refused, cut>>
    BY <1>6 DEF Execute
  <2> HIDE DEF id
  <2> QED BY <2>2, <2>3, <2>4, <2>5
<1> QED BY <1>1, <1>2, <1>3, <1>4, <1>5, <1>6 DEF Next

LEMMA FullInvariant == Spec => []FullInv
<1>1. Init => FullInv
  BY InitInvariant DEF Init, FullInv, RestType, Kept, MarkedIsAccounted, Storage
<1>2. FullInv /\ IInv' /\ [Next]_vars => FullInv'
  BY RestTyped, KeptStays, AccountKept DEF FullInv
<1> QED BY <1>1, <1>2, Invariant, PTL DEF Spec

(* Every variable keeps its type; a task past its first stage has marked   *)
(* the command it works on (self-controller.ts handleUpsert).              *)
THEOREM TypeCorrect == Spec => []TypeOK
<1>1. FullInv => TypeOK
  BY DEF FullInv, IInv, RestType, TasksType, RanType, Held, Current, TypeOK
<1> QED BY <1>1, FullInvariant, PTL

(* A command that was marked processed is never lost silently: it ran,     *)
(* threw, lacked its source, is being handled or was cut off by the end of *)
(* the daemon (self-controller.ts:137).                                    *)
THEOREM AccountsForMarked == Spec => []MarkedIsAccounted
<1>1. FullInv => MarkedIsAccounted
  BY DEF FullInv
<1> QED BY <1>1, FullInvariant, PTL

(* A /forward is refused only when the source that came by its own JID has *)
(* expired or has not arrived, and no redelivery by that JID revives an    *)
(* expired source (self-controller.ts stores the sources of an event       *)
(* before its first command, and keeps each by JID and id).                *)
THEOREM RefusesForCause == Spec => RefusedForCause
<1> DEFINE Cause ==
      /\ \A m \in refused' \ refused, s \in delivered :
           KeyOf(s) = Quoted(m) => sources[KeyOf(s)] = "expired"
      /\ \A k \in Key : sources[k] = "expired" => sources'[k] = "expired"
<1>1. ASSUME FullInv, [Next]_vars PROVE Cause
  <2>1. \A k \in Key : sources[k] = "expired" => sources'[k] = "expired"
    <3>1. RestType
      BY <1>1 DEF FullInv
    <3> QED BY <1>1, <3>1, SourcesLast
  <2>2. ASSUME NEW m \in refused' \ refused, NEW s \in delivered, KeyOf(s) = Quoted(m)
        PROVE  sources[KeyOf(s)] = "expired"
    <3>1. PICK t \in Task : Accept(t)
      BY <1>1, <2>2 DEF Next, Start, Attach, Detach, End, Deliver, Skip, Execute, Reply, Expire,
         vars, history
    <3>2. m = Current(t) /\ ~Usable(m)
      BY <2>2, <3>1 DEF Accept
    <3>3. KeyOf(s) \in Key /\ sources[KeyOf(s)] \in Storage /\ sources[KeyOf(s)] # "absent"
      BY <1>1, IdOf DEF FullInv, RestType, Kept
    <3> QED BY <2>2, <3>2, <3>3 DEF Usable, Storage
  <2> QED BY <2>1, <2>2
<1> QED BY <1>1, FullInvariant, PTL DEF Spec, RefusedForCause
=============================================================================

----------------------------- MODULE ServiceProofs -----------------------------
(***************************************************************************)
(* Theorems about the processes of an installation, for every number of    *)
(* processes and of migrations: first the lock file by itself, then that   *)
(* they use the lock as ProcessLock says and the schema as SchemaLife      *)
(* promises.                                                               *)
(***************************************************************************)
EXTENDS Service, TLAPS

(* A process that is starting has no file yet, and has read none of its own. *)
Virgin ==
  \A p \in Process : pc[p] \in {"unborn", "open", "read", "check", "stat", "remove"} =>
    /\ file # Absent => file.by # p
    /\ seen[p] # p
    /\ pc[p] = "unborn" => tries[p] = 0

(* What an acquiring process that has met nobody finds and leaves.         *)
Alone(p) ==
  /\ pc[p] = "open" /\ tries[p] # 0 => file = Absent
  /\ pc[p] \in {"read", "check", "stat", "remove"} => tries[p] = 0
  /\ pc[p] = "stat" => file = Absent \/ ~file.written
  /\ pc[p] = "write" => file # Absent /\ file.by = p

Undisturbed == \A p \in Process : ~company[p] => Alone(p)

(* What the others can be while p holds a lock that it acquired alone: each *)
(* finds its file, and its PID alive.                                      *)
KeptBy(p) ==
  /\ file # Absent /\ file.by = p /\ file.written
  /\ \A q \in Process \ {p} :
       /\ pc[q] \in {"unborn", "open", "read", "check", "refused", "gone"}
       /\ pc[q] = "check" => seen[q] = p

Kept == \A p \in Process : Holding(p) /\ ~company[p] => KeptBy(p)

LockInv == TypeOK /\ Virgin /\ Undisturbed /\ Kept /\ RefusalJustified

LEMMA NewFile ==
  \A p \in Process : [by |-> p, written |-> FALSE, old |-> FALSE] \in File
BY DEF File

-----------------------------------------------------------------------------
(* What a step of one process is.                                          *)
Step(p) == Start(p) \/ Acquire(p) \/ Release(p) \/ RemoveOwn(p) \/ Kill(p)

LEMMA NextSteps == Next => (Age \/ \E p \in Process : Step(p)) /\ Remember
BY DEF Next, Step

(* A step of p leaves the variables of the others alone.                   *)
LEMMA StepIsLocal ==
  ASSUME TypeOK, NEW p \in Process, Step(p), NEW q \in Process \ {p}
  PROVE  pc'[q] = pc[q] /\ tries'[q] = tries[q] /\ seen'[q] = seen[q]
BY DEF TypeOK, Step, Start, Acquire, Open, Write, WriteFails, Read, Check, Stat, Remove,
       Release, RemoveOwn, Kill, Goto, Return, TryAgain, Attempts

LEMMA TypeKept ==
  ASSUME LockAssumption, TypeOK, Next
  PROVE  TypeOK'
<1>1. company' \in [Process -> BOOLEAN]
  BY DEF TypeOK, Next, Remember, Meets
<1>2. CASE Age
  BY <1>1, <1>2 DEF TypeOK, Age, File
<1>3. ASSUME NEW p \in Process, Step(p)
      PROVE  TypeOK'
  <2>1. CASE Start(p) \/ Kill(p) \/ Release(p) \/ RemoveOwn(p)
    BY <1>1, <2>1 DEF TypeOK, Start, Kill, Release, RemoveOwn, Goto, Return
  <2>2. CASE Open(p)
    <3>1. file' \in File \cup {Absent}
      BY <2>2, NewFile DEF TypeOK, Open
    <3>2. pc' = [pc EXCEPT ![p] = "write"] \/ pc' = [pc EXCEPT ![p] = "read"]
      BY <2>2 DEF Open, Goto
    <3>3. \A q \in Process : pc'[q] = "check" => seen'[q] \in Process
      BY <2>2, <3>2 DEF TypeOK, Open
    <3> QED BY <1>1, <2>2, <3>1, <3>2, <3>3 DEF TypeOK, Open
  <2>7. CASE Write(p)
    <3>1. file' \in File \cup {Absent}
      BY <2>7 DEF TypeOK, Write, File
    <3>2. pc'[p] = "held" /\ pc' = [pc EXCEPT ![p] = "held"]
      BY <2>7 DEF TypeOK, Write, Return, Goto
    <3> QED BY <1>1, <2>7, <3>1, <3>2 DEF TypeOK, Write, Return
  <2>8. CASE WriteFails(p)
    BY <1>1, <2>8 DEF TypeOK, WriteFails, Goto, Return
  <2>3. CASE Read(p)
    BY <1>1, <2>3 DEF TypeOK, Read, Readable, Goto, File
  <2>4. CASE Check(p)
    BY <1>1, <2>4 DEF TypeOK, Check, Goto, Return
  <2>5. CASE Stat(p)
    BY <1>1, <2>5 DEF TypeOK, Stat, TryAgain, Attempts, Goto, Return
  <2>6. CASE Remove(p)
    BY <1>1, <2>6 DEF TypeOK, Remove, TryAgain, Attempts, Goto, Return
  <2> QED BY <1>3, <2>1, <2>2, <2>3, <2>4, <2>5, <2>6, <2>7, <2>8 DEF Step, Acquire
<1> QED BY <1>2, <1>3, NextSteps

(* Remember, for one process that is still there.                          *)
LEMMA Remembered ==
  ASSUME Remember, NEW p \in Process, ~company'[p], pc'[p] # "gone"
  PROVE  ~company[p] /\ ~Meets(p)
BY DEF Remember

(* A process that acquires alone is not disturbed by a step of another.    *)
LEMMA NobodyElse ==
  ASSUME TypeOK, Next, NEW p \in Process, Acquiring(p), pc'[p] # "gone", ~company'[p]
  PROVE  /\ ~company[p] /\ ~Meets(p)
         /\ \A q \in Process \ {p} : ~Alive(q)
         /\ \/ Acquire(p)
            \/ file' = file /\ pc'[p] = pc[p] /\ tries'[p] = tries[p] /\ seen'[p] = seen[p]
<1>1. ~company[p] /\ ~Meets(p)
  BY Remembered DEF Next
<1>2. \A q \in Process \ {p} : ~Alive(q)
  BY <1>1 DEF Meets
<1>3. ~Age
  BY DEF Age
<1>4. ASSUME NEW q \in Process, Step(q)
      PROVE  \/ Acquire(p)
             \/ file' = file /\ pc'[p] = pc[p] /\ tries'[p] = tries[p] /\ seen'[p] = seen[p]
  <2>1. CASE q = p
    <3>1. ~Start(p) /\ ~Release(p) /\ ~RemoveOwn(p)
      BY DEF Acquiring, Start, Release, RemoveOwn
    <3>2. ~Kill(p)
      BY DEF Kill, Return, Goto, TypeOK
    <3> QED BY <1>4, <2>1, <3>1, <3>2 DEF Step
  <2>2. CASE q # p
    <3>1. Start(q)
      BY <1>2, <1>4, <2>2 DEF Step, Acquire, Alive, Acquiring, Holding, Open, Write, WriteFails,
            Read, Check, Stat, Remove, Release, RemoveOwn, Kill
    <3>2. file' = file
      BY <3>1 DEF Start
    <3> QED BY <1>4, <2>2, <3>2, StepIsLocal
  <2> QED BY <2>1, <2>2
<1> QED BY <1>1, <1>2, <1>3, <1>4, NextSteps

-----------------------------------------------------------------------------
LEMMA VirginKept ==
  ASSUME LockAssumption, TypeOK, Virgin, Next
  PROVE  Virgin'
<1> DEFINE Early == {"unborn", "open", "read", "check", "stat", "remove"}
<1>1. CASE Age
  BY <1>1 DEF Age, Virgin, TypeOK, File
<1>2. ASSUME NEW p \in Process, Step(p), NEW q \in Process, pc'[q] \in Early
      PROVE  /\ file' # Absent => file'.by # q
             /\ seen'[q] # q
             /\ pc'[q] = "unborn" => tries'[q] = 0
  <2>1. file' # Absent => file'.by # q
    <3>1. pc[q] \in Early
      BY <1>2, StepIsLocal DEF TypeOK, Step, Start, Acquire, Open, Write, WriteFails, Read, Check,
            Stat, Remove, Release, RemoveOwn, Kill, Goto, Return, TryAgain, Attempts
    <3>2. CASE Open(p)
      BY <1>2, <3>1, <3>2 DEF Open, Virgin, Goto, TypeOK
    <3>3. CASE Write(p)
      BY <1>2, <3>1, <3>3 DEF Write, Virgin, Return, Goto, TypeOK, File
    <3>4. CASE ~Open(p) /\ ~Write(p)
      <4>1. file' = file \/ file' = Absent
        BY <1>2, <3>4 DEF Step, Start, Acquire, WriteFails, Read, Check, Stat, Remove, Release,
              RemoveOwn, Kill
      <4> QED BY <3>1, <4>1 DEF Virgin
    <3> QED BY <3>2, <3>3, <3>4
  <2>2. seen'[q] # q
    <3>1. pc[q] \in Early
      BY <1>2, StepIsLocal DEF TypeOK, Step, Start, Acquire, Open, Write, WriteFails, Read, Check,
            Stat, Remove, Release, RemoveOwn, Kill, Goto, Return, TryAgain, Attempts
    <3>2. seen[q] # q /\ (file # Absent => file.by # q)
      BY <3>1 DEF Virgin
    <3>3. CASE p # q
      BY <1>2, <3>2, <3>3, StepIsLocal
    <3>4. CASE p = q
      BY <1>2, <3>1, <3>2, <3>4 DEF TypeOK, LockAssumption, Step, Start, Acquire, Open, Write,
            WriteFails, Read, Check, Stat, Remove, Release, RemoveOwn, Kill, Goto, Return,
            TryAgain, Attempts
    <3> QED BY <3>3, <3>4
  <2>3. ASSUME pc'[q] = "unborn"
        PROVE  tries'[q] = 0
    <3>1. p # q
      BY <1>2, <2>3 DEF TypeOK, Step, Start, Acquire, Open, Write, WriteFails, Read, Check,
            Stat, Remove, Release, RemoveOwn, Kill, Goto, Return, TryAgain, Attempts
    <3> QED BY <1>2, <2>3, <3>1, StepIsLocal DEF Virgin
  <2> QED BY <2>1, <2>2, <2>3
<1> QED BY <1>1, <1>2, NextSteps DEF Virgin

(* Alone, a second round of the loop finds no file and is the last.        *)
LEMMA UndisturbedKept ==
  ASSUME LockAssumption, TypeOK, Virgin, Undisturbed, Next
  PROVE  Undisturbed'
<1> SUFFICES ASSUME NEW p \in Process, ~company'[p] PROVE Alone(p)'
  BY DEF Undisturbed
<1>1. CASE ~Acquiring(p)'
  BY <1>1 DEF Alone, Acquiring
<1>2. CASE Acquiring(p)' /\ ~Acquiring(p)
  <2>1. ~Age
    BY <1>2 DEF Age, Acquiring
  <2>2. PICK q \in Process : Step(q)
    BY <2>1, NextSteps
  <2>3. q = p
    BY <1>2, <2>2, StepIsLocal DEF Acquiring
  <2>4. Start(p)
    BY <1>2, <2>2, <2>3 DEF Step, Acquire, Acquiring, Open, Write, WriteFails, Read, Check, Stat,
          Remove, Release, RemoveOwn, Kill, Return, Goto, TypeOK
  <2> QED
    BY <2>4 DEF Start, Alone, Goto, TypeOK, Virgin
<1>3. CASE Acquiring(p)' /\ Acquiring(p)
  <2>1. pc'[p] # "gone"
    BY <1>3 DEF Acquiring
  <2>2. /\ ~company[p]
        /\ \/ Acquire(p)
           \/ file' = file /\ pc'[p] = pc[p] /\ tries'[p] = tries[p] /\ seen'[p] = seen[p]
    BY <1>3, <2>1, NobodyElse
  <2>3. Alone(p)
    BY <2>2 DEF Undisturbed
  <2>4. CASE Acquire(p)
    <3>1. CASE Open(p)
      <4>1. CASE file = Absent
        <5>1. file' = [by |-> p, written |-> FALSE, old |-> FALSE] /\ pc'[p] = "write"
          BY <3>1, <4>1 DEF TypeOK, Open, Goto
        <5>2. file' # Absent
          BY <5>1, NewFile DEF LockAssumption
        <5> QED BY <5>1, <5>2 DEF Alone
      <4>2. CASE file # Absent
        BY <2>3, <3>1, <4>2 DEF TypeOK, Alone, Open, Goto
      <4> QED BY <4>1, <4>2
    <3>2. CASE Write(p) \/ WriteFails(p)
      BY <1>3, <3>2 DEF TypeOK, Acquiring, Write, WriteFails, Goto, Return
    <3>3. CASE Read(p)
      BY <2>3, <3>3 DEF TypeOK, Alone, Read, Readable, Goto
    <3>4. CASE Check(p)
      BY <1>3, <2>3, <3>4 DEF TypeOK, Alone, Acquiring, Check, Goto, Return
    <3>5. CASE Stat(p)
      BY <1>3, <2>3, <3>5
      DEF TypeOK, Alone, Acquiring, Stat, TryAgain, Attempts, Goto, Return
    <3>6. CASE Remove(p)
      BY <1>3, <2>3, <3>6
      DEF TypeOK, Alone, Acquiring, Remove, TryAgain, Attempts, Goto, Return
    <3> QED BY <2>4, <3>1, <3>2, <3>3, <3>4, <3>5, <3>6 DEF Acquire
  <2>5. CASE file' = file /\ pc'[p] = pc[p] /\ tries'[p] = tries[p]
    BY <2>3, <2>5 DEF Alone
  <2> QED BY <2>2, <2>4, <2>5
<1> QED BY <1>1, <1>2, <1>3

LEMMA KeptKept ==
  ASSUME LockAssumption, TypeOK, Undisturbed, Kept, Next
  PROVE  Kept'
<1> SUFFICES ASSUME NEW p \in Process, Holding(p)', ~company'[p] PROVE KeptBy(p)'
  BY DEF Kept
<1>0. pc'[p] # "gone"
  BY DEF Holding
<1>1. ~company[p]
  BY <1>0, Remembered DEF Next
<1>2. CASE ~Holding(p)
  <2>1. ~Age
    BY <1>2 DEF Age, Holding
  <2>2. PICK q \in Process : Step(q)
    BY <2>1, NextSteps
  <2>3. q = p
    BY <1>2, <2>2, StepIsLocal DEF Holding
  <2>4. Write(p)
    BY <1>2, <2>2, <2>3 DEF Step, Acquire, Holding, Start, Open, WriteFails, Read, Check, Stat,
          Remove, Release, RemoveOwn, Kill, Return, Goto, TryAgain, TypeOK
  <2>5. Acquiring(p)
    BY <2>4 DEF Write, Acquiring
  <2>6. \A r \in Process \ {p} : ~Alive(r)
    BY <1>0, <2>5, NobodyElse
  <2>7. file # Absent /\ file.by = p
    BY <1>1, <2>4 DEF Undisturbed, Alone, Write
  <2>8. file' # Absent /\ file'.by = p /\ file'.written
    BY <2>4, <2>7 DEF Write, TypeOK, File, LockAssumption
  <2>9. \A r \in Process \ {p} : pc'[r] \in {"unborn", "refused", "gone"}
    BY <2>2, <2>3, <2>6, StepIsLocal DEF TypeOK, Alive, Acquiring, Holding
  <2> QED BY <2>8, <2>9 DEF KeptBy
<1>3. CASE Holding(p)
  <2>1. KeptBy(p)
    BY <1>1, <1>3 DEF Kept
  <2>2. CASE Age
    BY <2>1, <2>2 DEF Age, KeptBy, TypeOK, File, LockAssumption
  <2>3. ASSUME NEW q \in Process, Step(q)
        PROVE  KeptBy(p)'
    <3>1. CASE q = p
      <4>1. Release(p)
        BY <1>0, <1>3, <2>3, <3>1 DEF Holding, Step, Acquire, Start, Open, Write, WriteFails, Read,
              Check, Stat, Remove, RemoveOwn, Kill, Return, Goto, TypeOK
      <4>2. file' = file
        BY <4>1 DEF Release
      <4> QED BY <2>1, <2>3, <3>1, <4>2, StepIsLocal DEF KeptBy
    <3>2. CASE q # p
      <4>1. /\ pc[q] \in {"unborn", "open", "read", "check", "refused", "gone"}
            /\ pc[q] = "check" => seen[q] = p
        BY <2>1, <3>2 DEF KeptBy
      <4>2. Start(q) \/ Open(q) \/ Read(q) \/ Check(q) \/ Kill(q)
        BY <2>3, <4>1 DEF Step, Acquire, Write, WriteFails, Stat, Remove, Release, RemoveOwn
      <4>3. file' = file
        BY <2>1, <4>2 DEF KeptBy, Start, Open, Read, Check, Kill
      <4>4. /\ pc'[q] \in {"unborn", "open", "read", "check", "refused", "gone"}
            /\ pc'[q] = "check" => seen'[q] = p
        <5>1. CASE Start(q) \/ Open(q) \/ Kill(q)
          BY <2>1, <5>1 DEF KeptBy, Start, Open, Kill, Return, Goto, TypeOK
        <5>2. CASE Read(q)
          BY <2>1, <5>2 DEF KeptBy, Read, Readable, Goto, TypeOK
        <5>3. CASE Check(q)
          <6>1. SeenAlive(q)
            BY <1>3, <4>1, <5>3 DEF Check, SeenAlive, Alive, LockAssumption
          <6> QED BY <5>3, <6>1 DEF Check, Return, Goto, TypeOK
        <5> QED BY <4>2, <5>1, <5>2, <5>3
      <4> QED BY <2>1, <2>3, <4>3, <4>4, StepIsLocal DEF KeptBy
    <3> QED BY <3>1, <3>2
  <2> QED BY <2>2, <2>3, NextSteps
<1> QED BY <1>2, <1>3

(* Who is refused saw another PID alive, or a young file of another, or    *)
(* ran out of rounds because others came between.                          *)
LEMMA RefusalKept ==
  ASSUME LockAssumption, TypeOK, Virgin, Undisturbed, RefusalJustified, Next
  PROVE  RefusalJustified'
<1> SUFFICES ASSUME NEW p \in Process, pc'[p] = "refused", ~company'[p] PROVE FALSE
  BY DEF RefusalJustified, TypeOK
<1>1. ~company[p] /\ ~Meets(p)
  BY Remembered DEF Next
<1>2. pc[p] # "refused"
  BY <1>1 DEF RefusalJustified
<1>3. ~Age
  BY <1>2 DEF Age
<1>4. PICK q \in Process : Step(q)
  BY <1>3, NextSteps
<1>5. q = p
  BY <1>2, <1>4, StepIsLocal
<1>6. Check(p) \/ Stat(p) \/ Remove(p)
  BY <1>2, <1>4, <1>5 DEF Step, Start, Acquire, Open, Write, WriteFails, Read, Release, RemoveOwn,
        Kill, Return, Goto, TypeOK
<1>7. Acquiring(p) /\ Alone(p) /\ tries[p] = 0
  BY <1>1, <1>6 DEF Check, Stat, Remove, Acquiring, Undisturbed, Alone
<1>8. \A r \in Process \ {p} : ~Alive(r)
  BY <1>1, <1>7 DEF Meets
<1>9. CASE Check(p)
  <2>1. SeenAlive(p)
    BY <1>9 DEF Check, Goto, TypeOK
  <2>2. seen[p] \in Process \ {p}
    BY <1>9 DEF Check, Virgin, TypeOK
  <2> QED BY <1>8, <2>1, <2>2 DEF SeenAlive
<1>10. CASE Stat(p)
  <2>1. Young
    BY <1>7, <1>10 DEF Stat, TryAgain, Attempts, Goto, TypeOK
  <2>2. file.by # p /\ ~file.written
    BY <1>7, <1>10, <2>1 DEF Young, Stat, Alone, Virgin
  <2> QED BY <1>1, <1>7, <2>1, <2>2 DEF Meets, Young
<1>11. CASE Remove(p)
  BY <1>7, <1>11 DEF Remove, TryAgain, Attempts, Goto, TypeOK
<1> QED BY <1>6, <1>9, <1>10, <1>11

-----------------------------------------------------------------------------
LEMMA InitHolds == ASSUME LockAssumption, Init PROVE LockInv
BY DEF LockAssumption, Init, LockInv, TypeOK, Virgin, Undisturbed, Alone, Kept, Holding,
       RefusalJustified

LEMMA InvKept == ASSUME LockAssumption, LockInv, [Next]_vars PROVE LockInv'
<1>1. CASE Next
  BY <1>1, TypeKept, VirginKept, UndisturbedKept, KeptKept, RefusalKept DEF LockInv
<1>2. CASE UNCHANGED vars
  BY <1>2 DEF vars, LockInv, TypeOK, Virgin, Undisturbed, Alone, Kept, KeptBy, Holding,
              RefusalJustified
<1> QED BY <1>1, <1>2

LEMMA Invariant == Spec => []LockInv
BY LockAssumption, InitHolds, InvKept, PTL DEF Spec

(* A process that starts alone is not refused, whatever crashes left       *)
(* behind (process-lock.ts:56).                                            *)
THEOREM RefusedForCause == Spec => []RefusalJustified
BY Invariant, PTL DEF LockInv

(* A lock that was acquired alone stays as long as its holder, whoever     *)
(* starts later and whatever is left of others (process-lock.ts:60).       *)
THEOREM KeepsLock == Spec => []AloneKeepsLock
<1>1. LockInv => AloneKeepsLock
  BY DEF LockInv, Kept, KeptBy, Holding, AloneKeepsLock
<1> QED BY <1>1, Invariant, PTL

-----------------------------------------------------------------------------
Entries == [kind : Kinds, stage : Stages, code : 0 .. Latest, applied : 0 .. Latest,
            raced : BOOLEAN]

(* What a process knows of the schema.                                     *)
Informed(p) ==
  /\ process[p].applied <= recorded
  /\ At(p, "migrating") =>
       /\ process[p].applied < process[p].code
       /\ process[p].raced \/ process[p].applied = recorded
  /\ p \in Working => process[p].code <= recorded
  /\ At(p, "locking") => process[p].kind \in {"daemon", "connecting"}
  /\ At(p, "connected") => IsA(p, "connecting")

SchemaInv ==
  /\ recorded \in 0 .. Latest /\ tables = recorded
  /\ process \in [Process -> Entries]
  /\ \A p \in Process : Informed(p)

-----------------------------------------------------------------------------
LEMMA IdleIsEntry ==
  ASSUME LatestAssumption, NEW s \in Stages
  PROVE  Idle(s) \in Entries /\ Idle(s).stage = s /\ Idle(s).code = 0 /\ Idle(s).applied = 0
BY DEF LatestAssumption, Idle, Entries, Kinds

(* Moving a process on keeps the other fields, or forgets them.            *)
LEMMA Staged ==
  ASSUME LatestAssumption, process \in [Process -> Entries], NEW p \in Process, NEW s \in Stages,
         Stage(p, s)
  PROVE  /\ process' \in [Process -> Entries]
         /\ \A q \in Process \ {p} : process'[q] = process[q]
         /\ process'[p].stage = s
         /\ \/ /\ s \notin {"ended", "broke", "crashed"}
               /\ process'[p] = [process[p] EXCEPT !.stage = s]
            \/ /\ s \in {"ended", "broke", "crashed"}
               /\ process'[p].code = 0 /\ process'[p].applied = 0
<1>1. CASE s \in {"ended", "broke", "crashed"}
  <2>1. process' = [process EXCEPT ![p] = Idle(s)]
    BY <1>1 DEF Stage
  <2> QED BY <1>1, <2>1, IdleIsEntry
<1>2. CASE s \notin {"ended", "broke", "crashed"}
  <2>1. process' = [process EXCEPT ![p] = [process[p] EXCEPT !.stage = s]]
    BY <1>2 DEF Stage
  <2>2. [process[p] EXCEPT !.stage = s] \in Entries /\ [process[p] EXCEPT !.stage = s].stage = s
    BY DEF Entries
  <2> QED BY <1>2, <2>1, <2>2
<1> QED BY <1>1, <1>2

(* A step that leaves the schema alone keeps what the others know.         *)
LEMMA OthersInformed ==
  ASSUME SchemaInv, UNCHANGED schema, NEW q \in Process, process'[q] = process[q]
  PROVE  Informed(q)'
BY DEF SchemaInv, schema, Informed, At, IsA, Working

(* What SchemaLife allows a step to do.                                    *)
Lives == Schema!Next \/ UNCHANGED Schema!vars

(* A step of p alone, which leaves the schema as it is: p starts or ends   *)
(* its work, or goes on with what it does.                                 *)
LEMMA OneMoves ==
  ASSUME LatestAssumption, SchemaInv, UNCHANGED schema, NEW p \in Process,
         process' \in [Process -> Entries], Informed(p)',
         \A q \in Process \ {p} : process'[q] = process[q],
         p \in Working => \/ process'[p].code = process[p].code
                          \/ process'[p].code = 0 /\ p \notin Working',
         p \notin Working /\ p \in Working' => process'[p].code = process[p].code
  PROVE  SchemaInv' /\ Lives
<1>1. SchemaInv'
  BY OthersInformed DEF SchemaInv, schema
<1>2. \A q \in Process \ {p} : q \in Working' <=> q \in Working
  BY DEF Working, At, IsA
<1>3. Working \subseteq Process /\ Working' \subseteq Process
  BY DEF Working
<1> DEFINE needs == [q \in Process |-> process[q].code]
<1>4. /\ needs \in [Process -> Nat] /\ needs' \in [Process -> Nat]
      /\ \A q \in Process \ {p} : needs'[q] = needs[q]
      /\ needs[p] = process[p].code /\ needs'[p] = process'[p].code
  BY DEF SchemaInv, Entries, LatestAssumption
<1>5. recorded' = recorded
  BY DEF schema
<1>6. CASE p \notin Working /\ p \notin Working'
  <2>1. Working' = Working
    BY <1>2, <1>3, <1>6
  <2> HIDE DEF needs
  <2>2. Schema!Begin(p)
    BY <1>4, <1>5, <1>6, <2>1 DEF Schema!Begin, needs
  <2> QED BY <1>1, <2>2 DEF Lives, Schema!Next
<1>7. CASE p \in Working /\ p \in Working'
  <2>1. Working' = Working
    BY <1>2, <1>3, <1>7
  <2>2. needs' = needs
    BY <1>4, <1>7
  <2> QED BY <1>1, <1>5, <2>1, <2>2 DEF Lives, Schema!vars
<1>8. CASE p \in Working /\ p \notin Working'
  <2>1. Working' = Working \ {p}
    BY <1>2, <1>3, <1>8
  <2>2. needs' = needs \/ needs' = [needs EXCEPT ![p] = 0]
    BY <1>4, <1>8
  <2>3. Schema!StopWork(p)
    BY <1>5, <1>8, <2>1, <2>2 DEF Schema!StopWork
  <2> QED BY <1>1, <2>3 DEF Lives, Schema!Next
<1>9. CASE p \notin Working /\ p \in Working'
  <2>1. Working' = Working \cup {p}
    BY <1>2, <1>3, <1>9
  <2>2. needs' = needs
    BY <1>4, <1>9
  <2>3. needs[p] <= recorded
    BY <1>4, <1>5, <1>9 DEF Informed
  <2>4. Schema!StartWork(p)
    BY <1>5, <1>9, <2>1, <2>2, <2>3 DEF Schema!StartWork
  <2> QED BY <1>1, <2>4 DEF Lives, Schema!Next
<1> QED BY <1>6, <1>7, <1>8, <1>9

LEMMA NothingMoves ==
  ASSUME SchemaInv, UNCHANGED <<schema, process>>
  PROVE  SchemaInv' /\ Lives
BY DEF SchemaInv, schema, Informed, Working, At, IsA, Lives, Schema!vars

-----------------------------------------------------------------------------
(* The actions of Service.                                                 *)

LEMMA LaunchLives ==
  ASSUME LatestAssumption, SchemaInv, NEW p \in Process, NEW k \in Kinds,
         NEW v \in 1 .. Latest, NEW b \in BOOLEAN, Launch(p, k, v, b)
  PROVE  SchemaInv' /\ Lives
<1> DEFINE s == IF k = "daemon" THEN "locking" ELSE "opening"
           new == IF b THEN Idle("broke") ELSE [Idle(s) EXCEPT !.kind = k, !.code = v]
<1>1. process' = [process EXCEPT ![p] = new] /\ UNCHANGED schema /\ At(p, "unborn")
  BY DEF Launch
<1>2. /\ new \in Entries /\ new.applied = 0
      /\ new.stage \in {"broke", "locking", "opening"}
      /\ new.stage = "locking" => new.kind = "daemon"
  <2>1. CASE b
    BY <2>1, IdleIsEntry DEF Stages
  <2>2. CASE ~b
    <3>1. new = [kind |-> k, stage |-> s, code |-> v, applied |-> 0, raced |-> FALSE]
      BY <2>2 DEF Idle
    <3>2. v \in 0 .. Latest /\ 0 \in 0 .. Latest
      BY DEF LatestAssumption
    <3> QED BY <2>2, <3>1, <3>2 DEF Entries, Stages
  <2> QED BY <2>1, <2>2
<1> HIDE DEF new
<1>3. /\ process' \in [Process -> Entries] /\ process'[p] = new
      /\ \A q \in Process \ {p} : process'[q] = process[q]
  BY <1>1, <1>2 DEF SchemaInv
<1>4. p \notin Working /\ p \notin Working'
  BY <1>1, <1>2, <1>3 DEF Working, At, IsA
<1>5. Informed(p)'
  BY <1>1, <1>2, <1>3, <1>4 DEF Informed, At, IsA, schema, SchemaInv
<1> QED BY <1>1, <1>3, <1>4, <1>5, OneMoves

(* A process moves on without a look at the schema: it stays in Working,   *)
(* leaves it, or was never there.                                          *)
LEMMA StageLives ==
  ASSUME LatestAssumption, SchemaInv, UNCHANGED schema, NEW p \in Process, NEW s \in Stages,
         Stage(p, s), s \notin {"migrating", "working"},
         s = "locking" => process[p].kind \in {"daemon", "connecting"},
         s = "connected" => IsA(p, "connecting"),
         s \in {"connected", "locking"} /\ IsA(p, "connecting") => p \in Working
  PROVE  SchemaInv' /\ Lives
<1>1. process \in [Process -> Entries]
  BY DEF SchemaInv
<1>2. /\ process' \in [Process -> Entries]
      /\ \A q \in Process \ {p} : process'[q] = process[q]
      /\ process'[p].stage = s
      /\ \/ /\ s \notin {"ended", "broke", "crashed"}
            /\ process'[p] = [process[p] EXCEPT !.stage = s]
         \/ /\ s \in {"ended", "broke", "crashed"}
            /\ process'[p].code = 0 /\ process'[p].applied = 0
  BY <1>1, Staged
<1>3. \/ /\ s \notin {"ended", "broke", "crashed"}
         /\ process'[p].code = process[p].code /\ process'[p].kind = process[p].kind
         /\ process'[p].applied = process[p].applied
      \/ s \in {"ended", "broke", "crashed"} /\ process'[p].code = 0 /\ process'[p].applied = 0
  BY <1>1, <1>2 DEF Entries
<1>4. s \in {"ended", "broke", "crashed"} => p \notin Working'
  BY <1>2 DEF Working, At, IsA
<1>5. p \in Working' => p \in Working /\ process'[p].code = process[p].code
  BY <1>2, <1>3, <1>4 DEF Working, At, IsA
<1>6. Informed(p)'
  BY <1>2, <1>3, <1>5 DEF Informed, SchemaInv, At, IsA, schema, LatestAssumption
<1> QED BY <1>2, <1>3, <1>4, <1>5, <1>6, OneMoves

(* p knows of n applied migrations, all of them or, if another process has *)
(* migrated since it read the list, some.                                  *)
LEMMA MigratedIs ==
  ASSUME LatestAssumption, SchemaInv, NEW p \in Process, NEW n \in 0 .. Latest
  PROVE  /\ Migrated(p, n) \in Entries
         /\ Migrated(p, n).applied = n
         /\ Migrated(p, n).code = process[p].code
         /\ Migrated(p, n).kind = process[p].kind
         /\ Migrated(p, n).raced = process[p].raced
         /\ Migrated(p, n).stage = IF n < process[p].code THEN "migrating" ELSE "working"
<1> DEFINE s == IF n < process[p].code THEN "migrating" ELSE "working"
<1>1. process[p] \in Entries
  BY DEF SchemaInv
<1>2. s \in Stages
  BY DEF Stages
<1>3. Migrated(p, n) = [process[p] EXCEPT !.applied = n, !.stage = s]
  BY DEF Migrated
<1> HIDE DEF s
<1>4. /\ Migrated(p, n) \in Entries /\ Migrated(p, n).applied = n /\ Migrated(p, n).stage = s
      /\ Migrated(p, n).code = process[p].code /\ Migrated(p, n).kind = process[p].kind
      /\ Migrated(p, n).raced = process[p].raced
  BY <1>1, <1>2, <1>3 DEF Entries
<1> QED BY <1>4 DEF s

LEMMA OpenLives ==
  ASSUME LatestAssumption, SchemaInv, NEW p \in Process, OpenDatabase(p)
  PROVE  SchemaInv' /\ Lives
<1>1. /\ recorded \in 0 .. Latest /\ UNCHANGED schema
      /\ process' = [process EXCEPT ![p] = Migrated(p, recorded)]
      /\ At(p, "opening")
  BY DEF OpenDatabase, SchemaInv
<1>2. /\ Migrated(p, recorded) \in Entries
      /\ Migrated(p, recorded).applied = recorded
      /\ Migrated(p, recorded).code = process[p].code
      /\ Migrated(p, recorded).stage =
           IF recorded < process[p].code THEN "migrating" ELSE "working"
  BY <1>1, MigratedIs
<1>3. /\ process' \in [Process -> Entries] /\ process'[p] = Migrated(p, recorded)
      /\ \A q \in Process \ {p} : process'[q] = process[q]
  BY <1>1, <1>2 DEF SchemaInv
<1>4. process'[p].code = process[p].code /\ process[p].code \in 0 .. Latest
  BY <1>2, <1>3 DEF SchemaInv, Entries
<1>5. Informed(p)'
  BY <1>1, <1>2, <1>3, <1>4 DEF Informed, At, IsA, Working, schema, LatestAssumption
<1> QED BY <1>1, <1>3, <1>4, <1>5, OneMoves

LEMMA MigrateLives ==
  ASSUME LatestAssumption, SchemaInv, NEW p \in Process, MigrateNext(p)
  PROVE  SchemaInv' /\ Lives
<1> DEFINE v == process[p].applied + 1
<1>1. At(p, "migrating") /\ process \in [Process -> Entries] /\ recorded \in 0 .. Latest
  BY DEF MigrateNext, SchemaInv
<1>2. CASE Exists(v)
  <2>1. UNCHANGED schema /\ ContextFails(p)
    BY <1>2 DEF MigrateNext
  <2>2. PICK s \in {"failing", "broke"} : Stage(p, s)
    BY <2>1 DEF ContextFails
  <2> QED BY <2>1, <2>2, StageLives DEF Stages
<1>3. CASE ~Exists(v)
  <2>1. /\ process[p].applied \in 0 .. Latest /\ process[p].code \in 0 .. Latest
        /\ process[p].applied <= recorded /\ process[p].applied < process[p].code
    BY <1>1 DEF SchemaInv, Informed, Entries
  <2>2. v = recorded + 1 /\ v \in 0 .. Latest /\ v <= process[p].code
    BY <1>1, <1>3, <2>1 DEF Exists, SchemaInv, LatestAssumption
  <2>3. /\ tables' = v /\ recorded' = v
        /\ process' = [q \in Process |->
             IF q = p THEN Migrated(p, v)
             ELSE [process[q] EXCEPT !.raced = process[q].raced \/ At(q, "migrating")]]
    BY <1>3 DEF MigrateNext, Commit
  <2>4. /\ Migrated(p, v) \in Entries
        /\ Migrated(p, v).applied = v
        /\ Migrated(p, v).code = process[p].code
        /\ Migrated(p, v).kind = process[p].kind
        /\ Migrated(p, v).stage = IF v < process[p].code THEN "migrating" ELSE "working"
    BY <2>2, MigratedIs
  <2> DEFINE moved(q) == [process[q] EXCEPT !.raced = process[q].raced \/ At(q, "migrating")]
  <2>5. ASSUME NEW q \in Process \ {p}
        PROVE  /\ moved(q) \in Entries
               /\ moved(q).stage = process[q].stage /\ moved(q).kind = process[q].kind
               /\ moved(q).code = process[q].code /\ moved(q).applied = process[q].applied
               /\ At(q, "migrating") => moved(q).raced
    BY <1>1 DEF Entries, At
  <2>6. process'[p] = Migrated(p, v) /\ \A q \in Process \ {p} : process'[q] = moved(q)
    BY <2>3
  <2>7. process' \in [Process -> Entries]
    BY <2>3, <2>4, <2>5
  <2> HIDE DEF moved
  <2>8. /\ \A q \in Process : process'[q].code = process[q].code
        /\ \A q \in Process \ {p} : q \in Working' <=> q \in Working
        /\ p \notin Working /\ (p \in Working' <=> v = process[p].code)
    BY <1>1, <2>1, <2>2, <2>4, <2>5, <2>6 DEF Working, At, IsA
  <2>9. SchemaInv'
    <3>1. Informed(p)'
      BY <2>1, <2>2, <2>3, <2>4, <2>6, <2>8 DEF Informed, At, IsA, LatestAssumption
    <3>2. ASSUME NEW q \in Process \ {p} PROVE Informed(q)'
      <4>1. Informed(q) /\ process[q] \in Entries
        BY <1>1 DEF SchemaInv
      <4> QED BY <1>1, <2>2, <2>3, <2>5, <2>6, <2>8, <4>1 DEF Informed, At, IsA, Entries
    <3> QED BY <2>2, <2>3, <2>7, <3>1, <3>2 DEF SchemaInv
  <2> DEFINE needs == [q \in Process |-> process[q].code]
  <2>10. needs' = needs /\ needs[p] = process[p].code
    BY <2>8
  <2>11. Working \subseteq Process /\ Working' \subseteq Process
    BY DEF Working
  <2>12. CASE v < process[p].code
    <3>1. Working' = Working
      BY <2>2, <2>8, <2>11, <2>12
    <3>2. Schema!Migrate
      BY <2>2, <2>3, <2>10, <3>1 DEF Schema!Migrate
    <3> QED BY <2>9, <3>2 DEF Lives, Schema!Next
  <2>13. CASE v = process[p].code
    <3>1. Working' = Working \cup {p}
      BY <2>8, <2>11, <2>13
    <3>2. Schema!MigrateAndStart(p)
      BY <2>2, <2>3, <2>8, <2>10, <2>13, <3>1 DEF Schema!MigrateAndStart
    <3> QED BY <2>9, <3>2 DEF Lives, Schema!Next
  <2> QED BY <2>1, <2>2, <2>12, <2>13
<1> QED BY <1>2, <1>3

LEMMA TakeLockLives ==
  ASSUME LatestAssumption, SchemaInv, NEW p \in Process, TakeLock(p)
  PROVE  SchemaInv' /\ Lives
<1>1. At(p, "locking") /\ process[p].kind \in {"daemon", "connecting"} /\ UNCHANGED schema
  BY DEF TakeLock, SchemaInv, Informed
<1>2. IsA(p, "connecting") => p \in Working
  BY <1>1 DEF Working
<1>3. PICK s \in {"opening", "connected", "broke", "crashed", "locking"} :
        Stage(p, s) /\ (s = "connected" => ~IsA(p, "daemon"))
  BY DEF TakeLock
<1> QED BY <1>1, <1>2, <1>3, StageLives DEF Stages, IsA

LEMMA WorkLives ==
  ASSUME LatestAssumption, SchemaInv, NEW p \in Process,
         Serve(p) \/ PlainWork(p) \/ ConnectingWork(p)
  PROVE  SchemaInv' /\ Lives
<1>1. CASE Serve(p)
  <2>1. PICK s \in {"leaving", "failing"} : Stage(p, s)
    BY <1>1 DEF Serve
  <2> QED BY <1>1, <2>1, StageLives DEF Serve, Stages
<1>2. CASE PlainWork(p)
  <2>1. PICK s \in {"ended", "broke"} : Stage(p, s)
    BY <1>2 DEF PlainWork
  <2> QED BY <1>2, <2>1, StageLives DEF PlainWork, Stages
<1>3. CASE ConnectingWork(p)
  <2>1. p \in Working
    BY <1>3 DEF ConnectingWork, Working
  <2> QED BY <1>3, <2>1, StageLives DEF ConnectingWork, Stages, IsA
<1> QED BY <1>1, <1>2, <1>3

LEMMA EndLives ==
  ASSUME LatestAssumption, SchemaInv, NEW p \in Process, LetGo(p) \/ Killed(p)
  PROVE  SchemaInv' /\ Lives
<1>1. CASE LetGo(p)
  <2>1. UNCHANGED process \/ Stage(p, "ended") \/ Stage(p, "broke")
    BY <1>1 DEF LetGo
  <2> QED BY <1>1, <2>1, StageLives, NothingMoves DEF LetGo, Stages
<1>2. CASE Killed(p)
  BY <1>2, StageLives DEF Killed, Stages
<1> QED BY <1>1, <1>2

-----------------------------------------------------------------------------
LEMMA ServiceLives ==
  ASSUME LatestAssumption, SchemaInv, [ServiceNext]_serviceVars
  PROVE  SchemaInv' /\ Lives
<1>1. CASE \E p \in Process : ProcessStep(p)
  BY <1>1, OpenLives, MigrateLives, TakeLockLives, WorkLives, EndLives DEF ProcessStep
<1>2. CASE \E p \in Process, k \in Kinds, v \in 1 .. Latest, b \in BOOLEAN : Launch(p, k, v, b)
  BY <1>2, LaunchLives
<1>3. CASE FileAges \/ UNCHANGED serviceVars
  BY <1>3, NothingMoves DEF FileAges, serviceVars
<1> QED BY <1>1, <1>2, <1>3 DEF ServiceNext

LEMMA ServiceStarts ==
  ASSUME LatestAssumption, ServiceInit
  PROVE  SchemaInv /\ Schema!Init
<1>1. process = [p \in Process |-> Idle("unborn")]
  BY DEF ServiceInit
<1>2. Idle("unborn") \in Entries /\ Idle("unborn").stage = "unborn" /\ Idle("unborn").applied = 0
  BY IdleIsEntry DEF Stages
<1>3. recorded \in 0 .. Latest /\ tables = recorded
  BY DEF ServiceInit
<1>4. SchemaInv
  BY <1>1, <1>2, <1>3 DEF SchemaInv, Informed, At, IsA, Working, LatestAssumption
<1>5. Working = {}
  BY <1>1, <1>2 DEF Working, At
<1>6. [p \in Process |-> process[p].code] \in [Process -> Nat]
  BY <1>4 DEF SchemaInv, Entries, LatestAssumption
<1> QED BY <1>3, <1>4, <1>5, <1>6 DEF Schema!Init, LatestAssumption

LEMMA SchemaInvariant == ServiceSpec => []SchemaInv
<1>1. ServiceInit => SchemaInv
  BY LatestAssumption, ServiceStarts
<1>2. SchemaInv /\ [ServiceNext]_serviceVars => SchemaInv'
  BY LatestAssumption, ServiceLives
<1> QED BY <1>1, <1>2, PTL DEF ServiceSpec

(* The schema grows by one migration at a time, and no process works on    *)
(* one that is older than its code (database.ts:55).                       *)
THEOREM SchemaImplemented == ServiceSpec => ImplementsSchemaLife
<1>1. ServiceInit => Schema!Init
  BY LatestAssumption, ServiceStarts
<1>2. SchemaInv /\ [ServiceNext]_serviceVars => [Schema!Next]_(Schema!vars)
  BY LatestAssumption, ServiceLives DEF Lives
<1> QED BY <1>1, <1>2, SchemaInvariant, PTL DEF ServiceSpec, ImplementsSchemaLife, Schema!Spec

(* A start that was interrupted never makes a later migration fail: only   *)
(* another process that migrates beside it does (database.ts:55).          *)
THEOREM MigratesAlone == ServiceSpec => []MigrationFailsForCause
<1>1. SchemaInv => MigrationFailsForCause
  BY DEF SchemaInv, Informed, MigrationFailsForCause, Exists, Entries, LatestAssumption
<1> QED BY <1>1, SchemaInvariant, PTL

-----------------------------------------------------------------------------
(* The lock, as the processes use it.                                      *)

LEMMA ServiceLocks == [ServiceNext]_serviceVars => [Next]_vars
<1>1. ASSUME NEW p \in Process, ProcessStep(p) PROVE [Next]_vars
  <2>1. CASE OpenDatabase(p) \/ MigrateNext(p) \/ Serve(p) \/ PlainWork(p)
    BY <2>1 DEF OpenDatabase, MigrateNext, Serve, PlainWork
  <2>2. CASE TakeLock(p)
    BY <2>2 DEF TakeLock, Next
  <2>3. CASE ConnectingWork(p)
    BY <2>3 DEF ConnectingWork, Next
  <2>4. CASE LetGo(p)
    BY <2>4 DEF LetGo, Next
  <2>5. CASE Killed(p)
    BY <2>5 DEF Killed, Next
  <2> QED BY <1>1, <2>1, <2>2, <2>3, <2>4, <2>5 DEF ProcessStep
<1>2. ASSUME NEW p \in Process, NEW k \in Kinds, NEW v \in 1 .. Latest, NEW b \in BOOLEAN,
             Launch(p, k, v, b)
      PROVE  [Next]_vars
  BY <1>2 DEF Launch, Next
<1>3. CASE FileAges
  BY <1>3 DEF FileAges, Next
<1>4. CASE UNCHANGED serviceVars
  BY <1>4 DEF serviceVars
<1> QED BY <1>1, <1>2, <1>3, <1>4 DEF ServiceNext

(* The processes of an installation use the lock file as ProcessLock says. *)
LEMMA LockImplemented == ServiceSpec => Spec
<1>1. ServiceInit => Init
  BY DEF ServiceInit
<1> QED BY <1>1, ServiceLocks, PTL DEF ServiceSpec, Spec

(* Where a process is in its life and where it is with the lock.           *)
Matches(p) ==
  /\ At(p, "unborn") \/ (IsA(p, "plain") /\ Running(p)) => pc[p] = "unborn"
  /\ IsA(p, "connecting") /\ process[p].stage \in {"opening", "migrating", "working"} =>
       pc[p] = "unborn"
  /\ At(p, "locking") => Acquiring(p)
  /\ IsA(p, "daemon") /\ process[p].stage \in {"opening", "migrating", "working"} => pc[p] = "held"
  /\ process[p].stage \in {"connected", "leaving", "failing"} => Holding(p)
  /\ process[p].stage \in {"ended", "broke"} /\ file # Absent => file.by # p

(* A file is its holder's own, or was left empty or behind.                *)
Written == file # Absent /\ ~file.written => pc[file.by] \in {"write", "gone"}

LEMMA WrittenKept ==
  ASSUME LockAssumption, LockInv, Written, [Next]_vars
  PROVE  Written'
<1>1. TypeOK /\ Virgin
  BY DEF LockInv
<1>2. CASE UNCHANGED vars
  BY <1>2 DEF vars, Written
<1>3. CASE Age
  BY <1>1, <1>3 DEF Age, Written, TypeOK, File, LockAssumption
<1>4. ASSUME NEW p \in Process, Step(p) PROVE Written'
  <2>1. \A q \in Process \ {p} : pc'[q] = pc[q]
    BY <1>1, <1>4, StepIsLocal
  <2>2. CASE Open(p)
    <3>1. CASE file = Absent
      BY <1>1, <2>2, <3>1 DEF Open, Goto, Written, TypeOK
    <3>2. CASE file # Absent
      <4>1. file' = file /\ file.by # p /\ file.by \in Process
        BY <1>1, <2>2, <3>2 DEF Open, Virgin, TypeOK, File
      <4> QED BY <2>1, <4>1 DEF Written
    <3> QED BY <3>1, <3>2
  <2>3. CASE Write(p)
    BY <1>1, <2>1, <2>3 DEF Write, Written, TypeOK, File, LockAssumption
  <2>4. CASE ~Open(p) /\ ~Write(p)
    <3>1. file' = file \/ file' = Absent
      BY <1>4, <2>4 DEF Step, Start, Acquire, WriteFails, Read, Check, Stat, Remove, Release,
            RemoveOwn, Kill
    <3>2. CASE file' = file /\ file # Absent /\ ~file.written
      <4>1. pc[p] \in {"write", "gone"} => pc'[p] \in {"write", "gone"}
        BY <1>1, <1>4, <2>4 DEF TypeOK, Step, Start, Acquire, WriteFails, Read, Check, Stat,
              Remove, Release, RemoveOwn, Kill, Return, Goto
      <4>2. file.by \in Process
        BY <1>1, <3>2 DEF TypeOK, File
      <4> QED BY <2>1, <3>2, <4>1, <4>2 DEF Written
    <3> QED BY <3>1, <3>2 DEF Written
  <2> QED BY <2>2, <2>3, <2>4
<1> QED BY <1>2, <1>3, <1>4, NextSteps

(* A step of p with the lock leaves every other process where it was.      *)
LEMMA OtherMatches ==
  ASSUME LockAssumption, LockInv, NEW p \in Process, Step(p) \/ UNCHANGED vars,
         NEW q \in Process \ {p}, Matches(q),
         process'[q].stage = process[q].stage, process'[q].kind = process[q].kind
  PROVE  Matches(q)'
<1>1. pc'[q] = pc[q]
  BY StepIsLocal DEF LockInv, vars
<1>2. (file # Absent => file.by # q) => (file' # Absent => file'.by # q)
  <2>1. CASE UNCHANGED vars
    BY <2>1 DEF vars
  <2>2. CASE Open(p)
    BY <2>2 DEF Open
  <2>3. CASE Write(p)
    BY <2>3 DEF Write, LockInv, TypeOK, File, LockAssumption
  <2>4. CASE Step(p) /\ ~Open(p) /\ ~Write(p)
    <3>1. file' = file \/ file' = Absent
      BY <2>4 DEF Step, Start, Acquire, WriteFails, Read, Check, Stat, Remove, Release,
            RemoveOwn, Kill
    <3> QED BY <3>1
  <2> QED BY <2>1, <2>2, <2>3, <2>4
<1> QED BY <1>1, <1>2 DEF Matches, At, IsA, Running, Acquiring, Holding

LockedInv == SchemaInv /\ LockInv /\ Written /\ \A p \in Process : Matches(p)

(* What a step of p does to the lock and to the place of p.                *)
LEMMA PlacesKept ==
  ASSUME LockAssumption, LatestAssumption, LockedInv, NEW p \in Process,
         Step(p) \/ UNCHANGED vars,
         \A q \in Process \ {p} :
           process'[q].stage = process[q].stage /\ process'[q].kind = process[q].kind,
         Matches(p)'
  PROVE  \A q \in Process : Matches(q)'
BY OtherMatches DEF LockedInv

LEMMA ContextMatches ==
  ASSUME LockAssumption, LatestAssumption, LockedInv, NEW p \in Process,
         OpenDatabase(p) \/ MigrateNext(p)
  PROVE  \A q \in Process : Matches(q)'
<1>1. UNCHANGED vars /\ process \in [Process -> Entries] /\ recorded \in 0 .. Latest
  BY DEF OpenDatabase, MigrateNext, LockedInv, SchemaInv
<1>2. Matches(p) /\ Virgin
  BY DEF LockedInv, LockInv
<1>3. ASSUME NEW n \in 0 .. Latest, process'[p] = Migrated(p, n),
             process[p].stage \in {"opening", "migrating"}
      PROVE  Matches(p)'
  BY <1>1, <1>2, <1>3, MigratedIs
  DEF LockedInv, vars, Matches, At, IsA, Running, Acquiring, Holding
<1>4. CASE OpenDatabase(p)
  <2>1. process' = [process EXCEPT ![p] = Migrated(p, recorded)] /\ At(p, "opening")
    BY <1>4 DEF OpenDatabase
  <2>2. Matches(p)'
    BY <1>1, <1>3, <2>1 DEF At
  <2> QED BY <1>1, <2>1, <2>2, PlacesKept
<1> DEFINE v == process[p].applied + 1
<1>5. CASE MigrateNext(p) /\ Exists(v)
  <2>1. At(p, "migrating")
    BY <1>5 DEF MigrateNext
  <2> DEFINE s == IF IsA(p, "daemon") THEN "failing" ELSE "broke"
  <2>2. Stage(p, s) /\ s \in Stages
    BY <1>5 DEF MigrateNext, ContextFails, Stages
  <2>3. /\ \A q \in Process \ {p} : process'[q] = process[q]
        /\ process'[p].stage = s
        /\ s = "failing" => process'[p] = [process[p] EXCEPT !.stage = s]
    BY <1>1, <2>2, Staged
  <2>4. CASE s = "failing"
    <3>1. pc[p] = "held" /\ process'[p].kind = "daemon"
      BY <1>1, <1>2, <2>1, <2>3, <2>4 DEF Matches, At, IsA, Entries
    <3>2. Matches(p)'
      BY <1>1, <2>3, <2>4, <3>1 DEF vars, Matches, At, IsA, Running, Acquiring, Holding
    <3> QED BY <1>1, <2>3, <3>2, PlacesKept
  <2>5. CASE s = "broke"
    <3>1. pc[p] = "unborn"
      BY <1>1, <1>2, <2>1, <2>5 DEF Matches, At, IsA, Running, Entries, Kinds
    <3>2. file # Absent => file.by # p
      BY <1>2, <3>1 DEF Virgin
    <3>3. Matches(p)'
      BY <1>1, <2>3, <2>5, <3>1, <3>2 DEF vars, Matches, At, IsA, Running, Acquiring, Holding
    <3> QED BY <1>1, <2>3, <3>3, PlacesKept
  <2> QED BY <2>4, <2>5
<1>6. CASE MigrateNext(p) /\ ~Exists(v)
  <2>1. At(p, "migrating")
    BY <1>6 DEF MigrateNext
  <2>2. v \in 0 .. Latest
    BY <2>1 DEF LockedInv, SchemaInv, Informed, Entries, LatestAssumption
  <2>3. process' = [q \in Process |->
             IF q = p THEN Migrated(p, v)
             ELSE [process[q] EXCEPT !.raced = process[q].raced \/ At(q, "migrating")]]
    BY <1>6 DEF MigrateNext
  <2>4. Matches(p)'
    BY <1>3, <2>1, <2>2, <2>3 DEF At
  <2>5. \A q \in Process \ {p} :
          process'[q].stage = process[q].stage /\ process'[q].kind = process[q].kind
    BY <1>1, <2>3 DEF Entries
  <2> QED BY <1>1, <2>4, <2>5, PlacesKept
<1> QED BY <1>4, <1>5, <1>6

LEMMA LaunchMatches ==
  ASSUME LockAssumption, LatestAssumption, LockedInv, NEW p \in Process, NEW k \in Kinds,
         NEW v \in 1 .. Latest, NEW b \in BOOLEAN, Launch(p, k, v, b)
  PROVE  \A q \in Process : Matches(q)'
<1> DEFINE s == IF k = "daemon" THEN "locking" ELSE "opening"
           new == IF b THEN Idle("broke") ELSE [Idle(s) EXCEPT !.kind = k, !.code = v]
<1>1. process' = [process EXCEPT ![p] = new] /\ process \in [Process -> Entries]
  BY DEF Launch, LockedInv, SchemaInv
<1>2. process'[p] = new /\ \A q \in Process \ {p} : process'[q] = process[q]
  BY <1>1
<1>3. /\ b => new.stage = "broke" /\ new.kind = "plain"
      /\ ~b => new.stage = s /\ new.kind = k
  BY DEF Idle
<1> HIDE DEF new
<1>4. pc[p] = "unborn" /\ Virgin /\ TypeOK
  BY DEF LockedInv, LockInv, Matches, Launch
<1>5. file # Absent => file.by # p
  BY <1>4 DEF Virgin
<1>6. CASE k = "daemon" /\ ~b
  <2>1. Start(p) /\ pc'[p] = "open"
    BY <1>4, <1>6 DEF Launch, Start, Goto, TypeOK
  <2>2. Matches(p)'
    BY <1>2, <1>3, <1>6, <2>1 DEF Matches, At, IsA, Running, Acquiring, Holding
  <2> QED BY <1>2, <2>1, <2>2, PlacesKept DEF Step
<1>7. CASE ~(k = "daemon" /\ ~b)
  <2>1. UNCHANGED vars
    BY <1>7 DEF Launch
  <2>2. Matches(p)'
    BY <1>2, <1>3, <1>4, <1>5, <1>7, <2>1
    DEF Matches, At, IsA, Running, Acquiring, Holding, Kinds, vars
  <2> QED BY <1>2, <2>1, <2>2, PlacesKept
<1> QED BY <1>6, <1>7

(* acquire is what the stage follows.                                      *)
LEMMA TakeLockMatches ==
  ASSUME LockAssumption, LatestAssumption, LockedInv, NEW p \in Process, TakeLock(p)
  PROVE  \A q \in Process : Matches(q)'
<1>1. /\ At(p, "locking") /\ Acquire(p) /\ Step(p) /\ Acquiring(p)
      /\ process \in [Process -> Entries]
      /\ process[p].kind \in {"daemon", "connecting"} /\ TypeOK /\ Virgin
  BY DEF TakeLock, LockedInv, LockInv, Step, Matches, SchemaInv, Informed
<1>2. pc'[p] \in {"open", "write", "read", "check", "stat", "remove", "held", "refused", "gone"}
  BY <1>1 DEF TypeOK, Acquire, Open, Write, WriteFails, Read, Check, Stat, Remove, Return, Goto,
              TryAgain
<1> DEFINE s == CASE pc'[p] = "held" -> IF IsA(p, "daemon") THEN "opening" ELSE "connected"
                  [] pc'[p] = "refused" -> "broke"
                  [] pc'[p] = "gone" -> "crashed"
                  [] OTHER -> "locking"
<1>3. Stage(p, s) /\ s \in Stages
  BY DEF TakeLock, Stages
<1>4. /\ \A q \in Process \ {p} : process'[q] = process[q]
      /\ process'[p].stage = s
      /\ s \notin {"broke", "crashed"} => process'[p] = [process[p] EXCEPT !.stage = s]
  BY <1>1, <1>3, Staged
<1>5. s \notin {"broke", "crashed"} => process'[p].kind = process[p].kind
  BY <1>1, <1>4 DEF Entries
<1>6. Matches(p)'
  <2>1. CASE pc'[p] = "held"
    BY <1>1, <1>4, <1>5, <2>1 DEF Matches, At, IsA, Running, Acquiring, Holding
  <2>2. CASE pc'[p] = "refused"
    <3>1. file' = file \/ file' = Absent
      BY <1>1, <2>2 DEF TypeOK, Acquire, Open, Write, WriteFails, Read, Check, Stat, Remove,
            Return, Goto
    <3>2. pc[p] \in {"open", "read", "check", "stat", "remove"}
      BY <1>1, <2>2 DEF TypeOK, Acquire, Open, Write, WriteFails, Read, Check, Stat, Remove,
            Return, Goto
    <3>3. file' # Absent => file'.by # p
      BY <1>1, <3>1, <3>2 DEF Virgin
    <3> QED BY <1>4, <2>2, <3>3 DEF Matches, At, IsA, Running
  <2>3. CASE pc'[p] = "gone"
    BY <1>4, <2>3 DEF Matches, At, IsA, Running
  <2>4. CASE pc'[p] \in {"open", "write", "read", "check", "stat", "remove"}
    BY <1>1, <1>4, <1>5, <2>4 DEF Matches, At, IsA, Running, Acquiring
  <2> QED BY <1>2, <2>1, <2>2, <2>3, <2>4
<1> QED BY <1>1, <1>4, <1>6, PlacesKept

LEMMA WorkMatches ==
  ASSUME LockAssumption, LatestAssumption, LockedInv, NEW p \in Process,
         Serve(p) \/ PlainWork(p) \/ ConnectingWork(p)
  PROVE  \A q \in Process : Matches(q)'
<1>1. Matches(p) /\ Virgin /\ TypeOK /\ process \in [Process -> Entries]
  BY DEF LockedInv, LockInv, SchemaInv
<1>2. CASE Serve(p)
  <2>1. PICK s \in {"leaving", "failing"} : Stage(p, s)
    BY <1>2 DEF Serve
  <2>2. /\ \A q \in Process \ {p} : process'[q] = process[q]
        /\ process'[p] = [process[p] EXCEPT !.stage = s] /\ process'[p].stage = s
    BY <1>1, <2>1, Staged DEF Stages
  <2>3. process'[p].kind = "daemon" /\ pc[p] = "held" /\ UNCHANGED vars
    BY <1>1, <1>2, <2>2 DEF Serve, Entries, IsA, At, Matches
  <2>4. Matches(p)'
    BY <2>2, <2>3 DEF Matches, At, IsA, Running, Acquiring, Holding, vars
  <2> QED BY <2>2, <2>3, <2>4, PlacesKept
<1>3. CASE PlainWork(p)
  <2>1. PICK s \in {"ended", "broke"} : Stage(p, s)
    BY <1>3 DEF PlainWork
  <2>2. process'[p].stage = s /\ \A q \in Process \ {p} : process'[q] = process[q]
    BY <1>1, <2>1, Staged DEF Stages
  <2>3. pc[p] = "unborn" /\ UNCHANGED vars
    BY <1>1, <1>3 DEF PlainWork, Matches, At, Running
  <2>4. Matches(p)'
    BY <1>1, <2>2, <2>3 DEF Matches, At, IsA, Running, vars, Virgin
  <2> QED BY <2>2, <2>3, <2>4, PlacesKept
<1>4. CASE ConnectingWork(p)
  <2>1. Stage(p, "locking") /\ Start(p) /\ IsA(p, "connecting")
    BY <1>4 DEF ConnectingWork
  <2>2. /\ \A q \in Process \ {p} : process'[q] = process[q]
        /\ process'[p] = [process[p] EXCEPT !.stage = "locking"]
        /\ process'[p].stage = "locking"
    BY <1>1, <2>1, Staged DEF Stages
  <2>3. process'[p].kind = "connecting" /\ pc'[p] = "open"
    BY <1>1, <2>1, <2>2 DEF Entries, IsA, Start, Goto, TypeOK
  <2>4. Matches(p)'
    BY <2>2, <2>3 DEF Matches, At, IsA, Running, Acquiring
  <2> QED BY <2>1, <2>2, <2>4, PlacesKept DEF Step
<1> QED BY <1>2, <1>3, <1>4

LEMMA EndMatches ==
  ASSUME LockAssumption, LatestAssumption, LockedInv, NEW p \in Process, LetGo(p) \/ Killed(p)
  PROVE  \A q \in Process : Matches(q)'
<1>1. /\ Matches(p) /\ Virgin /\ TypeOK /\ Written /\ process \in [Process -> Entries]
      /\ SchemaInv
  BY DEF LockedInv, LockInv, SchemaInv
<1>2. CASE LetGo(p)
  <2>1. Release(p) \/ RemoveOwn(p)
    BY <1>2 DEF LetGo
  <2>2. CASE pc'[p] # "gone"
    <3>1. UNCHANGED process /\ pc'[p] = "releasing"
      BY <1>1, <1>2, <2>1, <2>2 DEF LetGo, Release, RemoveOwn, Goto, TypeOK
    <3>2. process[p].stage \in {"connected", "leaving", "failing"}
      BY <1>2 DEF LetGo
    <3>3. ~IsA(p, "plain")
      BY <1>1, <3>2 DEF Matches, At, IsA, Running, Holding
    <3>4. Matches(p)'
      BY <3>1, <3>2, <3>3 DEF Matches, At, IsA, Running, Acquiring, Holding
    <3> QED BY <2>1, <3>1, <3>4, PlacesKept DEF Step
  <2>3. CASE pc'[p] = "gone"
    <3>1. PICK s \in {"ended", "broke"} : Stage(p, s)
      BY <1>2, <2>3 DEF LetGo
    <3>2. process'[p].stage = s /\ \A q \in Process \ {p} : process'[q] = process[q]
      BY <1>1, <3>1, Staged DEF Stages
    <3>3. file' # Absent => file'.by # p
      BY <1>1, <2>1, <2>3 DEF Release, RemoveOwn, Goto, Written, TypeOK
    <3>4. Matches(p)'
      BY <3>2, <3>3 DEF Matches, At, IsA, Running
    <3> QED BY <2>1, <3>2, <3>4, PlacesKept DEF Step
  <2> QED BY <2>2, <2>3
<1>3. CASE Killed(p)
  <2>1. Stage(p, "crashed") /\ (Step(p) \/ UNCHANGED vars)
    BY <1>3 DEF Killed, Step
  <2>2. process'[p].stage = "crashed" /\ \A q \in Process \ {p} : process'[q] = process[q]
    BY <1>1, <2>1, Staged DEF Stages
  <2>3. Matches(p)'
    BY <2>2 DEF Matches, At, IsA, Running
  <2> QED BY <2>1, <2>2, <2>3, PlacesKept
<1> QED BY <1>2, <1>3

LEMMA LockedKept ==
  ASSUME LockAssumption, LatestAssumption, LockedInv, [ServiceNext]_serviceVars
  PROVE  LockedInv'
<1>1. SchemaInv'
  BY ServiceLives DEF LockedInv
<1>2. LockInv' /\ Written'
  BY ServiceLocks, InvKept, WrittenKept DEF LockedInv
<1>3. \A p \in Process : Matches(p)'
  <2>1. CASE \E p \in Process : ProcessStep(p)
    BY <2>1, ContextMatches, TakeLockMatches, WorkMatches, EndMatches DEF ProcessStep
  <2>2. CASE \E p \in Process, k \in Kinds, v \in 1 .. Latest, b \in BOOLEAN :
               Launch(p, k, v, b)
    BY <2>2, LaunchMatches
  <2>3. CASE FileAges
    <3>1. file' # Absent => file # Absent /\ file'.by = file.by
      BY <2>3 DEF FileAges, Age, LockedInv, LockInv, TypeOK, File
    <3> QED
      BY <2>3, <3>1
      DEF FileAges, Age, LockedInv, Matches, At, IsA, Running, Acquiring, Holding
  <2>4. CASE UNCHANGED serviceVars
    BY <2>4
    DEF serviceVars, vars, LockedInv, Matches, At, IsA, Running, Acquiring, Holding
  <2> QED BY <2>1, <2>2, <2>3, <2>4 DEF ServiceNext
<1> QED BY <1>1, <1>2, <1>3 DEF LockedInv

LEMMA LockedStarts ==
  ASSUME LockAssumption, LatestAssumption, ServiceInit
  PROVE  LockedInv
<1>1. SchemaInv /\ LockInv
  BY ServiceStarts, InitHolds DEF ServiceInit
<1>2. Idle("unborn").stage = "unborn" /\ Idle("unborn").kind = "plain"
  BY DEF Idle
<1> QED
  BY <1>1, <1>2 DEF LockedInv, ServiceInit, Init, Written, Matches, At, IsA, Running

(* A process that is still there, or crashed, is the only one whose lock   *)
(* file may be left: a daemon whose database cannot be opened removes its  *)
(* own (daemon.ts:26).                                                     *)
THEOREM OnlyCrashes == ServiceSpec => []OnlyCrashLeavesLock
<1>1. LockedInv => OnlyCrashLeavesLock
  <2> SUFFICES ASSUME LockedInv, file # Absent
               PROVE  Running(file.by) \/ At(file.by, "crashed")
    BY DEF OnlyCrashLeavesLock
  <2>1. file.by \in Process /\ Virgin /\ Matches(file.by) /\ process[file.by].stage \in Stages
    BY DEF LockedInv, LockInv, TypeOK, File, SchemaInv, Entries
  <2>2. pc[file.by] # "unborn"
    BY <2>1 DEF Virgin
  <2> QED BY <2>1, <2>2 DEF Matches, At, Running, Stages
<1>2. ServiceInit => LockedInv
  BY LockAssumption, LatestAssumption, LockedStarts
<1>3. LockedInv /\ [ServiceNext]_serviceVars => LockedInv'
  BY LockAssumption, LatestAssumption, LockedKept
<1> QED BY <1>1, <1>2, <1>3, PTL DEF ServiceSpec
=============================================================================

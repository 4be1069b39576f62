------------------------------ MODULE MediaProofs ------------------------------
(***************************************************************************)
(* Theorems about the staging of media, for every number of commands,      *)
(* contents and extensions: what a job needs of the table and of the       *)
(* directory is there, whatever other commands fail or are killed.         *)
(***************************************************************************)
EXTENDS MediaStaging, TLAPS

Label ==
  {"new", "hashed", "copying", "copied", "staged", "recorded", "removing", "done", "failed"}

MediaType ==
  /\ pc \in [Client -> Label]
  /\ source \in [Client -> Content] /\ extension \in [Client -> Extension]
  /\ hash \in [Client -> Content \cup {None}] /\ temporary \in [Client -> Content \cup {None}]
  /\ created \in [Client -> BOOLEAN]
  /\ disk \in [Path -> Content \cup {None}]
  /\ job \in [Client -> {"none", "unsent", "settled"}]
  /\ exposed \subseteq Client /\ torn \subseteq Client

(* What a command holds, by how far it is.                                 *)
Progress(c) ==
  /\ pc[c] = "new" => temporary[c] = None /\ c \notin torn
  /\ pc[c] # "new" => hash[c] \in Content
  /\ pc[c] = "copied" => temporary[c] # None
  /\ job[c] # "none" => pc[c] = "done" /\ hash[c] \in asset

(* A command that copies something else than it hashed is torn.            *)
Honest(c) ==
  /\ pc[c] \in {"hashed", "copying"} /\ source[c] # hash[c] => c \in torn
  /\ temporary[c] \notin {None, hash[c]} => c \in torn

(* The file on which a command or a job relies.                            *)
Backed(c) ==
  pc[c] \in {"staged", "recorded"} \/ job[c] = "unsent" =>
    c \in exposed \/ disk[Target(c)] # None

(* A clean-up has checked that no job has the content; one that has its    *)
(* path now was created beside the clean-up.                               *)
Guarded(c) ==
  job[c] # "none" =>
    \A d \in Client \ {c} : pc[d] = "removing" /\ Target(d) = Target(c) => c \in exposed

(* A file that does not hold what its name says was staged by a torn one.  *)
Named(p) == disk[p] \notin {None, p[1]} => \E d \in torn : Target(d) = p

MediaInv ==
  /\ MediaType
  /\ \A c \in Client : Progress(c) /\ Honest(c) /\ Backed(c) /\ Guarded(c)
  /\ \A p \in Path : Named(p)

-----------------------------------------------------------------------------
Stages(c) == Hash(c) \/ Look(c) \/ Copy(c) \/ Rename(c) \/ CopyFails(c)
Enqueues(c) == Upsert(c) \/ UpsertFails(c) \/ Create(c) \/ Duplicate(c) \/ CreateFails(c) \/ Unlink(c)
Outside(c) == Settle(c) \/ Kill(c) \/ Edit(c)

Step(c) == Stages(c) \/ Enqueues(c) \/ Outside(c)

Remember ==
  /\ torn' = torn \cup {c \in Client : pc[c] \in {"hashed", "copying"} /\ source'[c] # source[c]}
  /\ exposed' = exposed \cup {c \in Client : Running(c) /\ CleaningBeside(c)}

LEMMA NextIsStep == Next => Remember /\ \E c \in Client : Step(c)
BY DEF Next, Remember, Step, Stages, Enqueues, Outside

LEMMA StartInv == Init => MediaInv
BY DEF Init, MediaInv, MediaType, Label, Progress, Honest, Backed, Guarded, Named

LEMMA TypeKept ==
  ASSUME MediaType, Remember, NEW c \in Client, Step(c)
  PROVE  MediaType'
<1> USE DEF MediaType, Label, Goto
<1>1. exposed' \subseteq Client /\ torn' \subseteq Client
  BY DEF Remember
<1>2. CASE Hash(c) \/ Look(c) \/ Copy(c)
  BY <1>1, <1>2 DEF Hash, Look, Copy
<1>3. CASE CopyFails(c)
  <2>1. GoesOn(c) \in BOOLEAN
    BY DEF GoesOn
  <2> QED BY <1>1, <1>3, <2>1 DEF CopyFails
<1>4. CASE Rename(c)
  BY <1>1, <1>4 DEF Rename
<1>5. CASE Enqueues(c)
  BY <1>1, <1>5 DEF Enqueues, Upsert, UpsertFails, Create, Duplicate, CreateFails, Unlink
<1>6. CASE Outside(c)
  BY <1>1, <1>6 DEF Outside, Settle, Kill, Edit
<1> QED BY <1>2, <1>3, <1>4, <1>5, <1>6 DEF Step, Stages

(* A step of c leaves the others alone, and a command that has begun keeps *)
(* its path.                                                               *)
LEMMA StepIsLocal ==
  ASSUME MediaType, NEW c \in Client, Step(c)
  PROVE  /\ \A d \in Client \ {c} :
              /\ pc'[d] = pc[d] /\ source'[d] = source[d] /\ hash'[d] = hash[d]
              /\ temporary'[d] = temporary[d] /\ job'[d] = job[d]
         /\ extension' = extension
         /\ \A d \in Client : pc[d] # "new" => hash'[d] = hash[d] /\ pc'[d] # "new"
BY DEF MediaType, Step, Stages, Enqueues, Outside, Hash, Look, Copy, Rename, CopyFails, Upsert,
   UpsertFails, Create, Duplicate, CreateFails, Unlink, Settle, Kill, Edit, Goto, Running

LEMMA ProgressKept ==
  ASSUME MediaAssumption, MediaInv, Remember, NEW c \in Client, Step(c), NEW d \in Client
  PROVE  Progress(d)'
<1>1. MediaType /\ Progress(c) /\ Progress(d)
  BY DEF MediaInv
<1>2. /\ d \in torn' => d \in torn \/ pc[d] # "new"
      /\ pc[d] # "new" => pc'[d] # "new"
  BY <1>1, StepIsLocal DEF Remember
<1>3. job[d] # "none" /\ hash[d] \in asset => hash[d] \in asset'
  BY <1>1 DEF Step, Stages, Enqueues, Outside, Hash, Look, Copy, Rename, CopyFails, Upsert,
     UpsertFails, Create, Duplicate, CreateFails, Removable, Unlink, Settle, Kill, Edit
<1>4. CASE d # c
  BY <1>1, <1>2, <1>3, <1>4, StepIsLocal DEF Progress
<1>5. CASE d = c
  <2> USE DEF MediaType, Progress, Goto, Running
  <2>1. CASE Stages(c)
    BY <1>1, <1>2, <1>3, <1>5, <2>1 DEF MediaAssumption, Stages, Hash, Look, Copy, Rename, CopyFails
  <2>2. CASE Enqueues(c)
    BY <1>1, <1>2, <1>3, <1>5, <2>2 DEF Enqueues, Upsert, UpsertFails, Create, Duplicate,
       CreateFails, Unlink
  <2>3. CASE Outside(c)
    BY <1>1, <1>2, <1>3, <1>5, <2>3 DEF Outside, Settle, Kill, Edit
  <2> QED BY <2>1, <2>2, <2>3 DEF Step
<1> QED BY <1>4, <1>5

LEMMA HonestKept ==
  ASSUME MediaInv, Remember, NEW c \in Client, Step(c), NEW d \in Client
  PROVE  Honest(d)'
<1>1. MediaType /\ Progress(d) /\ Honest(d) /\ torn \subseteq torn'
  BY DEF MediaInv, Remember
<1>2. CASE d # c
  BY <1>1, <1>2, StepIsLocal DEF Honest
<1>3. CASE d = c
  <2> USE DEF MediaType, Honest, Goto
  <2>1. CASE Stages(c)
    BY <1>1, <1>3, <2>1 DEF Progress, Stages, Hash, Look, Copy, Rename, CopyFails
  <2>2. CASE Enqueues(c)
    BY <1>1, <1>3, <2>2 DEF Enqueues, Upsert, UpsertFails, Create, Duplicate, CreateFails, Unlink
  <2>3. CASE Settle(c) \/ Kill(c)
    BY <1>1, <1>3, <2>3 DEF Settle, Kill
  <2>4. CASE Edit(c)
    <3>1. pc[c] \in {"hashed", "copying"} /\ source'[c] # source[c] => c \in torn'
      BY DEF Remember
    <3> QED BY <1>1, <1>3, <2>4, <3>1 DEF Edit
  <2> QED BY <2>1, <2>2, <2>3, <2>4 DEF Step, Outside
<1> QED BY <1>2, <1>3

(* Files appear by Rename and go by Unlink only.                           *)
LEMMA DiskChanges ==
  ASSUME MediaAssumption, MediaInv, NEW c \in Client, Step(c), NEW p \in Path
  PROVE  \/ disk'[p] = disk[p]
         \/ Rename(c) /\ p = Target(c) /\ disk'[p] = temporary[c] /\ temporary[c] # None
         \/ Unlink(c) /\ p = Target(c) /\ disk'[p] = None
<1>1. MediaType /\ Progress(c)
  BY DEF MediaInv
<1>2. CASE Rename(c)
  BY <1>1, <1>2 DEF Rename, MediaType, Progress
<1>3. CASE Unlink(c)
  BY <1>1, <1>3 DEF Unlink, MediaType
<1>4. CASE ~Rename(c) /\ ~Unlink(c)
  BY <1>4 DEF Step, Stages, Enqueues, Outside, Hash, Look, Copy, CopyFails, Upsert, UpsertFails,
     Create, Duplicate, CreateFails, Settle, Kill, Edit
<1> QED BY <1>2, <1>3, <1>4

(* The path of a command that has begun.                                   *)
LEMMA TargetStays ==
  ASSUME MediaInv, NEW c \in Client, Step(c), NEW d \in Client, pc[d] # "new"
  PROVE  Target(d)' = Target(d) /\ Target(d) \in Path /\ Target(d)[1] = hash[d]
<1>1. MediaType /\ Progress(d)
  BY DEF MediaInv
<1>2. hash'[d] = hash[d] /\ extension' = extension
  BY <1>1, StepIsLocal
<1> QED BY <1>1, <1>2 DEF Target, Path, MediaType, Progress

LEMMA NamedKept ==
  ASSUME MediaAssumption, MediaInv, Remember, NEW c \in Client, Step(c), NEW p \in Path
  PROVE  Named(p)'
<1>1. /\ MediaType /\ Progress(c) /\ Honest(c) /\ Named(p) /\ torn \subseteq torn'
      /\ \A d \in Client : d \in torn => pc[d] # "new"
  BY DEF MediaInv, Remember, Progress
<1>2. ASSUME NEW d \in torn, Target(d) = p PROVE d \in torn' /\ Target(d)' = p
  BY <1>1, <1>2, TargetStays DEF MediaType
<1>3. CASE disk'[p] = disk[p]
  BY <1>1, <1>2, <1>3 DEF Named
<1>4. CASE Rename(c) /\ p = Target(c) /\ disk'[p] = temporary[c]
  <2>1. pc[c] # "new"
    BY <1>4 DEF Rename
  <2>2. Target(c)' = p /\ p[1] = hash[c]
    BY <1>4, <2>1, TargetStays
  <2>3. temporary[c] \notin {None, hash[c]} => c \in torn'
    BY <1>1 DEF Honest
  <2> QED BY <1>4, <2>2, <2>3 DEF Named
<1>5. CASE disk'[p] = None
  BY <1>5 DEF Named
<1> QED BY <1>3, <1>4, <1>5, DiskChanges

(* Whoever runs while another command cleans up its path is exposed.       *)
LEMMA Exposes ==
  ASSUME Remember, NEW c \in Client, NEW d \in Client \ {c}, Running(c), Target(d) = Target(c),
         "removing" \in {pc[d], pc'[d]}
  PROVE  c \in exposed'
BY DEF Remember, CleaningBeside

LEMMA GuardedKept ==
  ASSUME MediaInv, Remember, NEW c \in Client, Step(c), NEW d \in Client
  PROVE  Guarded(d)'
<1> SUFFICES ASSUME job'[d] # "none", NEW e \in Client \ {d}, pc'[e] = "removing",
                    Target(e)' = Target(d)'
             PROVE  d \in exposed'
  BY DEF Guarded
<1>1. /\ MediaType /\ Guarded(d) /\ Progress(d) /\ exposed \subseteq exposed'
  BY DEF MediaInv, Remember
<1>0. /\ pc[d] # "new" /\ pc[e] # "new"
      /\ Target(e) = Target(d) /\ hash[e] = hash[d]
  <2>1. pc[d] # "new" /\ pc[e] # "new"
    BY <1>1 DEF MediaType, Progress, Step, Stages, Enqueues, Outside, Hash, Look, Copy, Rename,
       CopyFails, Upsert, UpsertFails, Create, Duplicate, CreateFails, Unlink, Settle, Kill, Edit,
       Goto
  <2>2. Target(e) = Target(d) /\ Target(e)[1] = hash[e] /\ Target(d)[1] = hash[d]
    BY <2>1, TargetStays
  <2> QED BY <2>1, <2>2
<1>2. CASE job[d] = "none"
  <2>1. Create(d)
    BY <1>1, <1>2 DEF MediaType, Step, Stages, Enqueues, Outside, Hash, Look, Copy, Rename,
       CopyFails, Upsert, UpsertFails, Create, Duplicate, CreateFails, Unlink, Settle, Kill, Edit
  <2>2. Running(d)
    BY <2>1 DEF Create, Running
  <2> QED BY <1>0, <2>2, Exposes
<1>3. CASE job[d] # "none"
  <2>2. CASE pc[e] = "removing"
    BY <1>0, <1>1, <1>3, <2>2 DEF Guarded
  <2>3. CASE pc[e] # "removing"
    <3>1. e = c
      BY <1>1, <2>3, StepIsLocal
    <3>2. CreateFails(c) /\ Removable(c)
      BY <1>1, <2>3, <3>1 DEF MediaType, Step, Stages, Enqueues, Outside, Hash, Look, Copy, Rename,
         CopyFails, Upsert, UpsertFails, Create, Duplicate, CreateFails, Unlink, Settle, Kill,
         Edit, Goto
    <3>3. hash[d] # hash[c]
      BY <1>3, <3>2 DEF Removable
    <3> QED BY <1>0, <3>1, <3>3
  <2> QED BY <2>2, <2>3
<1> QED BY <1>2, <1>3

LEMMA BackedKept ==
  ASSUME MediaAssumption, MediaInv, Remember, NEW c \in Client, Step(c), NEW d \in Client
  PROVE  Backed(d)'
<1> SUFFICES ASSUME pc'[d] \in {"staged", "recorded"} \/ job'[d] = "unsent", d \notin exposed'
             PROVE  (disk[Target(d)])' # None
  BY DEF Backed
<1>1. MediaType /\ Backed(d) /\ Progress(d) /\ Progress(c) /\ Guarded(d) /\ exposed \subseteq exposed'
  BY DEF MediaInv, Remember
<1>2. pc[d] # "new"
  BY <1>1 DEF MediaType, Progress, Step, Stages, Enqueues, Outside, Hash, Look, Copy, Rename,
     CopyFails, Upsert, UpsertFails, Create, Duplicate, CreateFails, Unlink, Settle, Kill, Edit,
     Goto, Running
<1>3. Target(d)' = Target(d) /\ Target(d) \in Path /\ Target(d)[1] = hash[d]
  BY <1>2, TargetStays
<1>4. CASE pc[d] \in {"staged", "recorded"} \/ job[d] = "unsent"
  <2>1. disk[Target(d)] # None
    BY <1>1, <1>4 DEF Backed
  <2>2. ASSUME Unlink(c), Target(d) = Target(c) PROVE FALSE
    <3>1. pc[c] = "removing" /\ c # d
      BY <1>1, <1>4, <2>2 DEF Unlink, Progress
    <3>3. CASE Running(d)
      BY <2>2, <3>1, <3>3, Exposes
    <3>4. CASE ~Running(d)
      BY <1>1, <1>4, <2>2, <3>1, <3>4 DEF Guarded, Running
    <3> QED BY <3>3, <3>4
  <2> QED BY <1>3, <2>1, <2>2, DiskChanges
<1>5. CASE pc[d] \notin {"staged", "recorded"} /\ job[d] # "unsent"
  <2>1. d = c /\ (Look(c) \/ Rename(c) \/ CopyFails(c))
    BY <1>1, <1>5 DEF MediaType, Step, Stages, Enqueues, Outside, Hash, Look, Copy, Rename,
       CopyFails, Upsert, UpsertFails, Create, Duplicate, CreateFails, Unlink, Settle, Kill, Edit,
       Goto
  <2>2. CASE Rename(c)
    BY <1>1, <1>3, <2>1, <2>2 DEF Rename, MediaType, Progress
  <2>3. CASE Look(c)
    BY <1>1, <1>3, <1>5, <2>1, <2>3 DEF Look, MediaType, Goto
  <2>4. CASE CopyFails(c)
    BY <1>1, <1>3, <1>5, <2>1, <2>4 DEF CopyFails, GoesOn, MediaType, Goto
  <2> QED BY <2>1, <2>2, <2>3, <2>4
<1> QED BY <1>4, <1>5

LEMMA MediaInvariant == Spec => []MediaInv
<1>1. MediaInv /\ Next => MediaInv'
  <2> SUFFICES ASSUME MediaInv, Next PROVE MediaInv'
    OBVIOUS
  <2>1. PICK c \in Client : Step(c)
    BY NextIsStep
  <2>2. Remember
    BY NextIsStep
  <2>3. MediaType'
    BY <2>1, <2>2, TypeKept DEF MediaInv
  <2>4. \A d \in Client : Progress(d)' /\ Honest(d)' /\ Backed(d)' /\ Guarded(d)'
    BY <2>1, <2>2, MediaAssumption, ProgressKept, HonestKept, BackedKept, GuardedKept
  <2>5. \A p \in Path : Named(p)'
    BY <2>1, <2>2, MediaAssumption, NamedKept
  <2> QED BY <2>3, <2>4, <2>5 DEF MediaInv, Path
<1>2. MediaInv /\ UNCHANGED vars => MediaInv'
  BY DEF vars, MediaInv, MediaType, Progress, Honest, Backed, Guarded, Named, Target
<1> QED BY StartInv, <1>1, <1>2, PTL DEF Spec

(* README: media is copied to managed storage before the job is created.   *)
(* A job has its asset row, and an unsent job its file, unless its command *)
(* ran beside a clean-up of its path; and the file holds what its name is the hash of, *)
(* unless a source was written to between hash and copy                    *)
(* (media-staging.ts, message-service.ts:177).                             *)
THEOREM HasMedia == Spec => []JobHasMedia
<1>1. MediaInv => JobHasMedia
  <2> SUFFICES ASSUME MediaInv, NEW c \in Client
               PROVE  /\ job[c] # "none" => hash[c] \in asset
                      /\ job[c] = "unsent" /\ c \notin exposed => disk[Target(c)] # None
                      /\ job[c] = "unsent" /\ disk[Target(c)] \notin {None, hash[c]} =>
                           \E d \in torn : Target(d) = Target(c)
    BY DEF JobHasMedia
  <2>1. MediaType /\ Progress(c) /\ Backed(c)
    BY DEF MediaInv
  <2>2. job[c] = "unsent" => Target(c) \in Path /\ Target(c)[1] = hash[c]
    BY <2>1 DEF MediaType, Progress, Target, Path
  <2>3. job[c] = "unsent" => Named(Target(c))
    BY <2>2 DEF MediaInv
  <2> QED BY <2>1, <2>2, <2>3 DEF Progress, Backed, Named
<1> QED BY <1>1, MediaInvariant, PTL
=============================================================================

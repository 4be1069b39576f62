------------------------------ MODULE ProcessLock ------------------------------
(***************************************************************************)
(* The PID lock file that the daemon and the connecting CLI commands take. *)
(* Every file operation and every kill(pid, 0) is a step, since processes  *)
(* run side by side.  A process creates the file at most once, so its      *)
(* creator also identifies an inode.                                       *)
(*                                                                         *)
(* PIDs are assumed not to be reused.  The code has nothing against reuse: *)
(* the file also says when its writer started, which acquire never looks   *)
(* at, so a PID that was handed out again, say after a reboot, counts as   *)
(* the holder and keeps everybody out for as long as its process lives.    *)
(***************************************************************************)
EXTENDS Naturals, FiniteSets

CONSTANTS
  Process,   \* the processes that are started, each once
  Absent,    \* no lock file, and no PID read
  Together,  \* bound: how many processes are alive at once
  Failures   \* TRUE: processes may be killed, and the write may fail

File == [by : Process, written : BOOLEAN, old : BOOLEAN]

ASSUME LockAssumption ==
  /\ Absent \notin Process \cup File
  /\ Together \in Nat \ {0} /\ Failures \in BOOLEAN

VARIABLES
  file,     \* what the path names: a file, or Absent
  pc,       \* where each process is
  tries,    \* attempt of acquire's loop
  seen,     \* the PID that readExisting found, or Absent
  company   \* history: while p acquired, it met another process, or a young
            \* file that nobody has written

vars == <<file, pc, tries, seen, company>>

Acquiring(p) == pc[p] \in {"open", "write", "read", "check", "stat", "remove"}
Holding(p) == pc[p] \in {"held", "releasing"}
Alive(p) == Acquiring(p) \/ Holding(p)

TypeOK ==
  /\ file \in File \cup {Absent}
  /\ pc \in [Process -> {"unborn", "open", "write", "read", "check", "stat",
                         "remove", "held", "releasing", "refused", "gone"}]
  /\ tries \in [Process -> 0 .. 2]
  /\ seen \in [Process -> Process \cup {Absent}]
  /\ company \in [Process -> BOOLEAN]
  /\ \A p \in Process : pc[p] = "check" => seen[p] \in Process

Init ==
  /\ file = Absent
  /\ pc = [p \in Process |-> "unborn"]
  /\ tries = [p \in Process |-> 0]
  /\ seen = [p \in Process |-> Absent]
  /\ company = [p \in Process |-> FALSE]

-----------------------------------------------------------------------------
Goto(p, l) == pc' = [pc EXCEPT ![p] = l]

(* acquire returns or throws, and its local variables are gone.            *)
Return(p, l) ==
  /\ Goto(p, l)
  /\ tries' = [tries EXCEPT ![p] = 0] /\ seen' = [seen EXCEPT ![p] = Absent]

Start(p) ==
  /\ pc[p] = "unborn"
  /\ Cardinality({q \in Process : Alive(q)}) < Together
  /\ Goto(p, "open")
  /\ UNCHANGED <<file, tries, seen>>

(* open(path, 'wx').                                                       *)
Open(p) ==
  /\ pc[p] = "open"
  /\ IF file = Absent
     THEN /\ file' = [by |-> p, written |-> FALSE, old |-> FALSE]
          /\ Goto(p, "write")
     ELSE Goto(p, "read") /\ UNCHANGED file
  /\ UNCHANGED <<tries, seen>>

(* The write goes to the inode that was opened, named by the path or not.  *)
Write(p) ==
  /\ pc[p] = "write"
  /\ file' = IF file # Absent /\ file.by = p THEN [file EXCEPT !.written = TRUE]
             ELSE file
  /\ Return(p, "held")

(* acquire throws, and leaves the file empty.                              *)
WriteFails(p) ==
  /\ Failures /\ pc[p] = "write"
  /\ Return(p, "gone")
  /\ UNCHANGED file

(* readExisting finds a PID.                                               *)
Readable == file # Absent /\ file.written

Read(p) ==
  /\ pc[p] = "read"
  /\ seen' = [seen EXCEPT ![p] = IF file # Absent /\ file.written THEN file.by
                                 ELSE Absent]
  /\ Goto(p, IF Readable THEN "check" ELSE "stat")
  /\ UNCHANGED <<file, tries>>

(* A process one may not signal counts as dead.                            *)
Bug_SeenAlive(p) == FALSE

(* isProcessAlive, on the PID that was read, if it is its writer's still.  *)
SeenAlive(p) == seen[p] # Absent /\ Alive(seen[p])

Check(p) ==
  /\ pc[p] = "check"
  /\ IF SeenAlive(p) THEN Return(p, "refused")
     ELSE Goto(p, "remove") /\ UNCHANGED <<tries, seen>>
  /\ UNCHANGED file

Bug_Attempts == 1

Attempts == 2

(* The loop's next round, or its end.                                      *)
TryAgain(p) ==
  IF tries[p] + 1 < Attempts
  THEN tries' = [tries EXCEPT ![p] = @ + 1] /\ Goto(p, "open") /\ UNCHANGED seen
  ELSE Return(p, "refused")

(* Younger than 30 s: its writer may still be at work.                     *)
Young == file # Absent /\ ~file.old

(* An unreadable file: gone meanwhile, young, or left behind.              *)
Stat(p) ==
  /\ pc[p] = "stat"
  /\ IF file = Absent THEN TryAgain(p)
     ELSE IF Young THEN Return(p, "refused")
     ELSE Goto(p, "remove") /\ UNCHANGED <<tries, seen>>
  /\ UNCHANGED file

(* rm(path), whatever the path names by now.                               *)
Remove(p) ==
  /\ pc[p] = "remove"
  /\ file' = Absent
  /\ TryAgain(p)

(* release: only one's own PID is removed.                                 *)
Release(p) ==
  /\ pc[p] = "held"
  /\ Goto(p, IF file # Absent /\ file.written /\ file.by = p THEN "releasing"
             ELSE "gone")
  /\ UNCHANGED <<file, tries, seen>>

RemoveOwn(p) ==
  /\ pc[p] = "releasing"
  /\ file' = Absent
  /\ Goto(p, "gone")
  /\ UNCHANGED <<tries, seen>>

Kill(p) ==
  /\ Failures /\ Alive(p)
  /\ Return(p, "gone")
  /\ UNCHANGED file

(* 30 s pass.  acquire is synchronous, so it is over much sooner.          *)
Age ==
  /\ file # Absent /\ ~file.old
  /\ \A p \in Process : ~Acquiring(p)
  /\ file' = [file EXCEPT !.old = TRUE]
  /\ UNCHANGED <<pc, tries, seen>>

Meets(p) ==
  /\ Acquiring(p)
  /\ \/ \E q \in Process \ {p} : Alive(q)
     \/ file # Absent /\ file.by # p /\ ~file.written /\ ~file.old

Acquire(p) ==
  Open(p) \/ Write(p) \/ WriteFails(p) \/ Read(p) \/ Check(p) \/ Stat(p) \/ Remove(p)

Remember == company' = [p \in Process |-> pc'[p] # "gone" /\ (company[p] \/ Meets(p))]

Next ==
  /\ \/ \E p \in Process :
          Start(p) \/ Acquire(p) \/ Release(p) \/ RemoveOwn(p) \/ Kill(p)
     \/ Age
  /\ Remember

Spec == Init /\ [][Next]_vars

-----------------------------------------------------------------------------
(* Properties.                                                             *)

(* As long as no PID is reused, and whatever crashes left behind, a        *)
(* process that starts alone gets the lock: it is refused only if it met   *)
(* another process of the program, or an empty file too young to be given  *)
(* up (process-lock.ts:47).                                                *)
RefusalJustified == \A p \in Process : pc[p] = "refused" => company[p]

(* A process that acquired the lock without meeting another keeps its file *)
(* for as long as it lives, whoever starts later: what it would have to    *)
(* meet is a process that is about to remove the file of a dead holder.    *)
AloneKeepsLock ==
  \A p \in Process : pc[p] = "held" /\ ~company[p] => file # Absent /\ file.by = p

(* What the documentation says, contradicted by what the code does.        *)

(* README: the lock is not deleted while its process is alive.  What makes *)
(* the lock exclusive, since there is one path.                            *)
LiveLockStays ==
  \A p \in Process : pc[p] = "held" => file # Absent /\ file.by = p
=============================================================================

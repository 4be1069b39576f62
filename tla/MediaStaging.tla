------------------------------ MODULE MediaStaging ------------------------------
(***************************************************************************)
(* Enqueueing a media file: the commands that stage it by content hash,    *)
(* record the asset and create the job, side by side on one directory and  *)
(* one database.  A step ends wherever another process can come between:   *)
(* at an await, a file operation or a transaction.                         *)
(***************************************************************************)
EXTENDS Naturals, FiniteSets

CONSTANTS
  Client,     \* the enqueueing commands, each staging one file
  Content,    \* what a file may hold; also stands for its hash
  Extension,  \* file extensions, part of the staged path
  None,       \* no file, no row, nothing read yet
  Together,   \* bound: how many commands run at once
  Faults      \* which of "copy", "database" and "edit" may happen

ASSUME MediaAssumption ==
  /\ None \notin Content
  /\ Together \in Nat \ {0}
  /\ Faults \subseteq {"copy", "database", "edit"}

Path == Content \X Extension

VARIABLES
  pc,         \* where each command is
  source,     \* what the file it was given holds
  extension,  \* the extension of that file
  hash,       \* staged.hash
  temporary,  \* what its temporary file holds
  created,    \* staged.created
  disk,       \* what each staged path holds
  asset,      \* media_assets: hash -> a row, or not
  job,        \* its job: "none", "unsent" or "settled"
  exposed,    \* history: commands that ran while another one's clean-up of
              \* the same staged path was between the asset row and the file
  torn        \* history: commands whose source changed after it was hashed and
              \* before it was copied

vars == <<pc, source, extension, hash, temporary, created, disk, asset, job, exposed, torn>>

Bug_Target(c) == <<CHOOSE x \in Content : TRUE, extension[c]>>

Target(c) == <<hash[c], extension[c]>>
Running(c) == pc[c] \notin {"new", "done", "failed"}

Init ==
  /\ pc = [c \in Client |-> "new"]
  /\ source \in [Client -> Content]
  /\ extension \in [Client -> Extension]
  /\ hash = [c \in Client |-> None]
  /\ temporary = [c \in Client |-> None]
  /\ created = [c \in Client |-> FALSE]
  /\ disk = [p \in Path |-> None]
  /\ asset = {}
  /\ job = [c \in Client |-> "none"]
  /\ exposed = {} /\ torn = {}

-----------------------------------------------------------------------------
Goto(c, l) == pc' = [pc EXCEPT ![c] = l]

(* MediaStager.stage.                                                      *)
Hash(c) ==
  /\ pc[c] = "new"
  /\ Cardinality({d \in Client : Running(d)}) < Together
  /\ hash' = [hash EXCEPT ![c] = source[c]]
  /\ Goto(c, "hashed")
  /\ UNCHANGED <<source, extension, temporary, created, disk, asset, job>>

Look(c) ==
  /\ pc[c] = "hashed"
  /\ Goto(c, IF disk[Target(c)] # None THEN "staged" ELSE "copying")
  /\ UNCHANGED <<source, extension, hash, temporary, created, disk, asset, job>>

Copy(c) ==
  /\ pc[c] = "copying"
  /\ temporary' = [temporary EXCEPT ![c] = source[c]]
  /\ Goto(c, "copied")
  /\ UNCHANGED <<source, extension, hash, created, disk, asset, job>>

Rename(c) ==
  /\ pc[c] = "copied"
  /\ disk' = [disk EXCEPT ![Target(c)] = temporary[c]]
  /\ temporary' = [temporary EXCEPT ![c] = None]
  /\ created' = [created EXCEPT ![c] = TRUE]
  /\ Goto(c, "staged")
  /\ UNCHANGED <<source, extension, hash, asset, job>>

Bug_GoesOn(c) == TRUE

(* A copy that failed is forgiven when another command has staged the same *)
(* content meanwhile.                                                      *)
GoesOn(c) == disk[Target(c)] # None

CopyFails(c) ==
  /\ "copy" \in Faults
  /\ pc[c] \in {"copying", "copied"}
  /\ temporary' = [temporary EXCEPT ![c] = None]
  /\ created' = [created EXCEPT ![c] = GoesOn(c)]
  /\ Goto(c, IF GoesOn(c) THEN "staged" ELSE "failed")
  /\ UNCHANGED <<source, extension, hash, disk, asset, job>>

-----------------------------------------------------------------------------
(* MessageService.enqueue, from the staged file on.                        *)
Upsert(c) ==
  /\ pc[c] = "staged"
  /\ asset' = asset \cup {hash[c]}
  /\ Goto(c, "recorded")
  /\ UNCHANGED <<source, extension, hash, temporary, created, disk, job>>

UpsertFails(c) ==
  /\ "database" \in Faults
  /\ pc[c] = "staged"
  /\ Goto(c, "failed")
  /\ UNCHANGED <<source, extension, hash, temporary, created, disk, asset, job>>

(* The row's foreign key holds: media_hash names an asset.                 *)
Create(c) ==
  /\ pc[c] = "recorded" /\ hash[c] \in asset
  /\ job' = [job EXCEPT ![c] = "unsent"]
  /\ Goto(c, "done")
  /\ UNCHANGED <<source, extension, hash, temporary, created, disk, asset>>

Duplicate(c) ==
  /\ pc[c] = "recorded"
  /\ \E d \in Client \ {c} : job[d] # "none" /\ hash[d] = hash[c]
  /\ Goto(c, "done")
  /\ UNCHANGED <<source, extension, hash, temporary, created, disk, asset, job>>

Bug_Removable(c) == hash[c] \in asset

(* removeIfUnreferenced, for a file this command believes it created.      *)
Removable(c) ==
  /\ created[c]
  /\ hash[c] \in asset
  /\ \A d \in Client : job[d] # "none" => hash[d] # hash[c]

CreateFails(c) ==
  /\ pc[c] = "recorded"
  /\ "database" \in Faults \/ hash[c] \notin asset
  /\ IF Removable(c)
     THEN Goto(c, "removing") /\ asset' = asset \ {hash[c]}
     ELSE Goto(c, "failed") /\ UNCHANGED asset
  /\ UNCHANGED <<source, extension, hash, temporary, created, disk, job>>

Unlink(c) ==
  /\ pc[c] = "removing"
  /\ disk' = [disk EXCEPT ![Target(c)] = None]
  /\ Goto(c, "failed")
  /\ UNCHANGED <<source, extension, hash, temporary, created, asset, job>>

-----------------------------------------------------------------------------
(* The surroundings: the worker settles a job, a command is killed, the    *)
(* operator writes to the file being sent.                                 *)
Settle(c) ==
  /\ job[c] = "unsent"
  /\ job' = [job EXCEPT ![c] = "settled"]
  /\ UNCHANGED <<pc, source, extension, hash, temporary, created, disk, asset>>

Kill(c) ==
  /\ Running(c)
  /\ Goto(c, "failed")
  /\ UNCHANGED <<source, extension, hash, temporary, created, disk, asset, job>>

Edit(c) ==
  /\ "edit" \in Faults
  /\ \E x \in Content : source' = [source EXCEPT ![c] = x]
  /\ UNCHANGED <<pc, extension, hash, temporary, created, disk, asset, job>>

(* A clean-up of c's path is between its two steps, before or after the    *)
(* step.                                                                   *)
CleaningBeside(c) ==
  \E d \in Client \ {c} : Target(d) = Target(c) /\ "removing" \in {pc[d], pc'[d]}

Next ==
  /\ \E c \in Client :
       \/ Hash(c) \/ Look(c) \/ Copy(c) \/ Rename(c) \/ CopyFails(c)
       \/ Upsert(c) \/ UpsertFails(c) \/ Create(c) \/ Duplicate(c)
       \/ CreateFails(c) \/ Unlink(c)
       \/ Settle(c) \/ Kill(c) \/ Edit(c)
  /\ torn' = torn \cup {c \in Client : pc[c] \in {"hashed", "copying"} /\ source'[c] # source[c]}
  /\ exposed' = exposed \cup {c \in Client : Running(c) /\ CleaningBeside(c)}

Spec == Init /\ [][Next]_vars

-----------------------------------------------------------------------------
(* Properties.                                                             *)

(* README: media is copied to managed storage before the job is created,   *)
(* and source files may then be moved or deleted.  A job's asset row is    *)
(* there, and the staged file of an unsent job, whatever other commands    *)
(* fail or are killed, unless its command ran beside the clean-up of a     *)
(* failed command that had staged the same path (which may delete the file *)
(* on which it has come to rely).  And the file holds what its name is the hash of,    *)
(* unless the source of a command that staged it was written to between    *)
(* the two passes over it: the code trusts the name, so that whoever       *)
(* stages the same content later sends the damaged file.                   *)
JobHasMedia ==
  \A c \in Client :
    /\ job[c] # "none" => hash[c] \in asset
    /\ job[c] = "unsent" /\ c \notin exposed => disk[Target(c)] # None
    /\ job[c] = "unsent" /\ disk[Target(c)] \notin {None, hash[c]} =>
         \E d \in torn : Target(d) = Target(c)
=============================================================================

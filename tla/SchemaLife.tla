------------------------------- MODULE SchemaLife -------------------------------
(***************************************************************************)
(* What the database promises about its schema, whoever opens it and       *)
(* whatever interrupts a start: it only grows, by one migration at a time, *)
(* and nobody works on a schema that is older than its code.               *)
(***************************************************************************)
EXTENDS Naturals

CONSTANT Process

VARIABLES
  version,  \* of the schema
  needs,    \* the version the code of each process was written for
  working   \* the processes that work on the database

vars == <<version, needs, working>>

Init == version \in Nat /\ needs \in [Process -> Nat] /\ working = {}

Migrate == version' = version + 1 /\ UNCHANGED <<needs, working>>

(* A process starts, or ends before it works.                              *)
Begin(p) ==
  /\ p \notin working
  /\ needs' \in [Process -> Nat]
  /\ \A q \in Process \ {p} : needs'[q] = needs[q]
  /\ UNCHANGED <<version, working>>

StartWork(p) ==
  /\ p \notin working /\ needs[p] <= version
  /\ working' = working \cup {p}
  /\ UNCHANGED <<version, needs>>

StopWork(p) ==
  /\ p \in working
  /\ working' = working \ {p}
  /\ needs' = [needs EXCEPT ![p] = 0] \/ UNCHANGED needs
  /\ UNCHANGED version

(* The last migration a process needs is its own.                          *)
MigrateAndStart(p) ==
  /\ p \notin working /\ needs[p] = version + 1
  /\ version' = version + 1
  /\ working' = working \cup {p}
  /\ UNCHANGED needs

Next ==
  \/ Migrate
  \/ \E p \in Process : Begin(p) \/ StartWork(p) \/ StopWork(p) \/ MigrateAndStart(p)

Spec == Init /\ [][Next]_vars
=============================================================================

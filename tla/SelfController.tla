----------------------------- MODULE SelfController -----------------------------
(***************************************************************************)
(* The Message Yourself controller: events of messages.upsert, each handled *)
(* by a task of its own that awaits between messages; commands that are     *)
(* marked processed before they run; forwarded messages that are stored as  *)
(* sources.  WhatsApp may deliver a message again, in any event, to any     *)
(* later daemon.  Events that are not a plain notify change nothing and are *)
(* left out; so is the wording of replies.                                  *)
(***************************************************************************)
EXTENDS Naturals, Sequences, Functions

CONSTANTS
  Message,  \* records: id, jid (the self chat is known by more than one JID),
            \* mine (from and to the account itself), forwarded, content
            \* ("text", "media" or "other"), command (a text that starts with
            \* /), forward (a /forward command), quotes (the id replied to)
  Task      \* bound: as many events are handled at once

Id == {m.id : m \in Message}

(* forwardSourceKey: a source is kept under the JID it came by and its id,  *)
(* and a reply looks for it under the JID the reply came by.  The same     *)
(* message under the other JID is another source.                          *)
Key == {<<m.jid, m.id>> : m \in Message}
KeyOf(m) == <<m.jid, m.id>>
Quoted(m) == <<m.jid, m.quotes>>

Storage == {"absent", "live", "expired"}

VARIABLES
  up,         \* a daemon runs
  attached,   \* the controller listens on the live socket
  historical, \* commands sent more than 30 s before this daemon started
  tasks,      \* handleUpsert in progress: the messages left (none: idle) and
              \* the stage of the first
  processed,  \* controller_messages, by id whatever the JID
  sources,    \* forward_sources: how each key is stored
  ran,        \* history: how often each command was executed
  failed,     \* history: commands whose execution threw
  refused,    \* history: /forward commands without a usable source
  cut,        \* history: commands a daemon's end has interrupted
  delivered   \* history: forwarded messages that have arrived in an event

table == <<processed, sources>>
history == <<ran, failed, refused, cut, delivered>>
vars == <<up, attached, historical, tasks, table, history>>

Idle == [rest |-> <<>>, stage |-> "next"]

TypeOK ==
  /\ up \in BOOLEAN /\ attached \in BOOLEAN
  /\ historical \subseteq Id
  /\ tasks \in [Task -> [rest : Seq(Message), stage : {"next", "executing", "replying"}]]
  /\ \A t \in Task : tasks[t].stage # "next" =>
       tasks[t].rest # <<>> /\ Head(tasks[t].rest).id \in processed
  /\ processed \subseteq Id
  /\ sources \in [Key -> Storage]
  /\ ran \in [Id -> Nat]
  /\ failed \subseteq Id /\ refused \subseteq Message /\ cut \subseteq Id
  /\ delivered \subseteq Message

Init ==
  /\ up = FALSE /\ attached = FALSE
  /\ historical = {}
  /\ tasks = [t \in Task |-> Idle]
  /\ processed = {}
  /\ sources = [k \in Key |-> "absent"]
  /\ ran = [i \in Id |-> 0]
  /\ failed = {} /\ refused = {} /\ cut = {} /\ delivered = {}

-----------------------------------------------------------------------------
(* The daemon and its socket.                                              *)
Start ==
  /\ ~up /\ up' = TRUE
  /\ \E old \in SUBSET {m.id : m \in {n \in Message : n.command}} : historical' = historical \cup old
  /\ UNCHANGED <<attached, tasks, table, history>>

Attach ==
  /\ up /\ ~attached /\ attached' = TRUE
  /\ UNCHANGED <<up, historical, tasks, table, history>>

Bug_AfterDetach == [t \in Task |-> Idle]

(* Only the listener goes; what it has started goes on.                    *)
AfterDetach == tasks

Detach ==
  /\ attached /\ attached' = FALSE
  /\ tasks' = AfterDetach
  /\ UNCHANGED <<up, historical, table, history>>

Current(t) == Head(tasks[t].rest)

Executing == {Current(t).id : t \in {u \in Task : tasks[u].stage = "executing"}}

(* A crash, or a stop, which closes the database under what still runs.    *)
End ==
  /\ up /\ up' = FALSE
  /\ attached' = FALSE
  /\ cut' = cut \cup Executing
  /\ tasks' = [t \in Task |-> Idle]
  /\ UNCHANGED <<historical, table, ran, failed, refused, delivered>>

-----------------------------------------------------------------------------
(* handleUpsert.                                                           *)
(* A forwarded audio or sticker is no source.                              *)
Storable(m) == m.mine /\ m.forwarded /\ m.content # "other"

Bug_Stored(batch) ==
  [k \in Key |-> IF Storable(Head(batch)) /\ KeyOf(Head(batch)) = k /\ sources[k] = "absent"
                 THEN "live" ELSE sources[k]]

Bug_Refreshed(batch) ==
  [k \in Key |-> IF \E m \in Range(batch) : Storable(m) /\ KeyOf(m) = k
                 THEN "live" ELSE sources[k]]

(* Every source of the event is stored before its first command is looked  *)
(* at; one that is stored already keeps its expiry.                        *)
Stored(batch) ==
  [k \in Key |-> IF /\ sources[k] = "absent"
                    /\ \E m \in Range(batch) : Storable(m) /\ KeyOf(m) = k
                 THEN "live" ELSE sources[k]]

Deliver(t, batch) ==
  /\ attached /\ tasks[t] = Idle
  /\ sources' = Stored(batch)
  /\ tasks' = [tasks EXCEPT ![t].rest = batch]
  /\ delivered' = delivered \cup {m \in Message : Storable(m) /\ m \in Range(batch)}
  /\ UNCHANGED <<up, attached, historical, processed, ran, failed, refused, cut>>

Authorized(m) == m.mine /\ ~m.forwarded /\ m.id \notin historical

Bug_Fresh(m) == m.id \notin Executing

(* markProcessed inserts the row.                                          *)
Fresh(m) == m.id \notin processed

Acceptable(m) == Authorized(m) /\ attached /\ m.command /\ Fresh(m)

(* The task is done with its first message.                                *)
Passed(t) == [tasks EXCEPT ![t] = [rest |-> Tail(@.rest), stage |-> "next"]]

Usable(m) == ~m.forward \/ (Quoted(m) \in Key /\ sources[Quoted(m)] = "live")

Bug_Marked(m) == processed

(* The command is marked before it runs.                                   *)
Marked(m) == processed \cup {m.id}

Accept(t) ==
  LET m == Current(t) IN
  /\ tasks[t].rest # <<>> /\ tasks[t].stage = "next"
  /\ Acceptable(m)
  /\ processed' = Marked(m)
  /\ tasks' = [tasks EXCEPT ![t].stage = IF Usable(m) THEN "executing" ELSE "replying"]
  /\ refused' = IF Usable(m) THEN refused ELSE refused \cup {m}
  /\ UNCHANGED <<up, attached, historical, sources, ran, failed, cut, delivered>>

Skip(t) ==
  /\ tasks[t].rest # <<>> /\ tasks[t].stage = "next"
  /\ ~Acceptable(Current(t))
  /\ tasks' = Passed(t)
  /\ UNCHANGED <<up, attached, historical, table, history>>

Execute(t) ==
  LET id == Current(t).id IN
  /\ tasks[t].stage = "executing"
  /\ tasks' = [tasks EXCEPT ![t].stage = "replying"]
  /\ \/ ran' = [ran EXCEPT ![id] = @ + 1] /\ UNCHANGED failed
     \/ failed' = failed \cup {id} /\ UNCHANGED ran
  /\ UNCHANGED <<up, attached, historical, table, refused, cut, delivered>>

(* The reply was sent on the socket the command came by, or could not be.  *)
Reply(t) ==
  /\ tasks[t].stage = "replying"
  /\ tasks' = Passed(t)
  /\ UNCHANGED <<up, attached, historical, table, history>>

(* 24 hours after receipt.                                                 *)
Expire(m) ==
  /\ m.content = "media" /\ sources[KeyOf(m)] = "live"
  /\ sources' = [sources EXCEPT ![KeyOf(m)] = "expired"]
  /\ UNCHANGED <<up, attached, historical, tasks, processed, history>>

Batch == {<<m>> : m \in Message} \cup (Message \X Message)

Next ==
  \/ Start \/ Attach \/ Detach \/ End
  \/ \E t \in Task :
       \/ \E batch \in Batch : Deliver(t, batch)
       \/ Accept(t) \/ Skip(t) \/ Execute(t) \/ Reply(t)
  \/ \E m \in Message : Expire(m)

Spec == Init /\ [][Next]_vars

-----------------------------------------------------------------------------
(* Properties.                                                             *)

(* README: processed IDs are persistent.  Redelivered by any event, by     *)
(* either JID, to any daemon, while it runs or after, a command is executed *)
(* at most once.                                                           *)
AtMostOnce == \A i \in Id : ran[i] <= 1

(* A command that was marked is not lost silently: it ran, threw, lacked   *)
(* its source, is still being handled, or was cut off by the daemon's end. *)
MarkedIsAccounted ==
  \A i \in processed :
    ran[i] > 0 \/ i \in failed \cup {m.id : m \in refused} \cup cut \cup Executing

(* A /forward finds the source that came by its own JID for as long as     *)
(* that lives and no longer.  It is refused only when that source has      *)
(* expired, or has not arrived: neither later in the same event nor in a   *)
(* task that still runs does it come too late.  And a source that is       *)
(* delivered again by the same JID does not come back to life.  (By the    *)
(* other JID it is a source of its own, which a /forward does not find     *)
(* from here and whose 24 hours begin when it comes.)                      *)
RefusedForCause ==
  [][/\ \A m \in refused' \ refused, s \in delivered :
          KeyOf(s) = Quoted(m) => sources[KeyOf(s)] = "expired"
     /\ \A k \in Key : sources[k] = "expired" => sources'[k] = "expired"]_vars
=============================================================================

----------------------------- MODULE UserEvents ------------------------------
(***************************************************************************)
(* Events between the services.  Requests of auth-service insert a user    *)
(* and then publish USER_CREATED; the consumer loop of core-service        *)
(* (initialize/kafka.go) keeps users_projection, and those of              *)
(* audit_consumer.go store the events of the other topics.  A loop calls   *)
(* ReadMessage, which commits the offset of a message before it returns    *)
(* it.  The process of core-service stops, loses what it was handling and  *)
(* resumes from the committed offsets.                                     *)
(***************************************************************************)
EXTENDS Integers, Sequences, FiniteSets

CONSTANTS
  Users,
  NoUser,
  Procs,        \* registrations served at the same time
  AuditTopics,  \* the topics that core-service publishes and audits
  Partitions,   \* of every topic; messages have no key
  MaxEvents,    \* bound: events on a partition of an audited topic
  NoRecord,     \* a loop that is in ReadMessage handles no record
  Faults        \* which of "auth", "kafka", "db", "stop" may happen

UserTopic == "user.events"
Topics == {UserTopic} \cup AuditTopics
Queues == Topics \X Partitions
\* The record at offset i of queue q (counting from 1) is <<q, i>>.
Records == Queues \X (Nat \ {0})

ASSUME UserEventsAssumption ==
  /\ NoUser \notin Users
  /\ UserTopic \notin AuditTopics
  /\ NoRecord \notin Records
  /\ MaxEvents \in Nat
  /\ Faults \subseteq {"auth", "kafka", "db", "stop"}

VARIABLES
  users,        \* auth-service, table users
  req,          \* its requests
  log,          \* Kafka: queue -> the messages appended to it
  committed,    \* Kafka: queue -> offset committed by its consumer group
  running,      \* whether the process of core-service runs
  position,     \* its readers: queue -> offset of the last message fetched
  handling,     \* its loops: topic -> the record handed to the handler
  projection,   \* core-service, table users_projection: user -> row
  audit,        \* core-service, table audit_log: the records stored
  unsent,       \* history: users whose event never reached Kafka
  dropped       \* history: records that were lost after Kafka had them

auth == <<users, req, unsent>>
reader == <<running, position, handling>>
tables == <<projection, audit>>
vars == <<auth, log, committed, reader, tables, dropped>>

-----------------------------------------------------------------------------
(* Publishing. *)

Event(type, user) == [type |-> type, user |-> user]
Created(u) == Event("USER_CREATED", u)
Imported == Event("USERS_IMPORTED", NoUser)
Activity == Event("ACTIVITY", NoUser)     \* any event of an audited topic

Messages == [type : {"USER_CREATED", "USER_UPDATED", "USER_DELETED"}, user : Users]
              \cup {Imported, Activity}

\* WriteMessages may fail, and its retries may append a message twice.
Copies == IF "kafka" \in Faults THEN 0..2 ELSE {1}

\* The writer balances keyless messages over the partitions.
Send(t, message, copies) ==
  \E k \in Partitions :
    log' = [log EXCEPT ![<<t, k>>] = @ \o [i \in 1..copies |-> message]]

-----------------------------------------------------------------------------
(* auth-service: Register, called for POST /register, POST /users and by the
   workers of an import. *)

Idle == [pc |-> "idle", user |-> NoUser]

Begin(p) ==
  /\ req[p].pc = "idle"
  /\ \E u \in Users : req' = [req EXCEPT ![p] = [pc |-> "insert", user |-> u]]
  /\ UNCHANGED <<users, unsent, log, committed, reader, tables, dropped>>

MutErrorIgnored == "publish"
AfterFailure == "idle"

\* The email is unique, and the INSERT may fail with or without its effect.
Insert(p) ==
  LET u == req[p].user IN
  /\ req[p].pc = "insert"
  /\ \/ /\ u \notin users
        /\ users' = users \cup {u}
        /\ \/ req' = [req EXCEPT ![p].pc = "publish"] /\ UNCHANGED unsent
           \/ /\ "auth" \in Faults
              /\ req' = [req EXCEPT ![p] = Idle]
              /\ unsent' = unsent \cup {u}
     \/ /\ u \in users \/ "auth" \in Faults
        /\ req' = [req EXCEPT ![p] = IF AfterFailure = "idle" THEN Idle
                                     ELSE [pc |-> AfterFailure, user |-> u]]
        /\ UNCHANGED <<users, unsent>>
  /\ UNCHANGED <<log, committed, reader, tables, dropped>>

\* The error of a publication is only logged.
Publish(p) ==
  LET u == req[p].user IN
  /\ req[p].pc = "publish"
  /\ \E copies \in Copies :
       /\ Send(UserTopic, Created(u), copies)
       /\ unsent' = IF copies = 0 THEN unsent \cup {u} ELSE unsent
  /\ req' = [req EXCEPT ![p] = Idle]
  /\ UNCHANGED <<users, committed, reader, tables, dropped>>

\* The process dies between the INSERT and the publication.
Crash(p) ==
  /\ "auth" \in Faults
  /\ req[p].pc = "publish"
  /\ req' = [req EXCEPT ![p] = Idle]
  /\ unsent' = unsent \cup {req[p].user}
  /\ UNCHANGED <<users, log, committed, reader, tables, dropped>>

\* The summary of an import; one is enough to see what the consumer makes of it.
PublishSummary ==
  /\ \A k \in Partitions : \A i \in DOMAIN log[<<UserTopic, k>>] :
       log[<<UserTopic, k>>][i] # Imported
  /\ Send(UserTopic, Imported, 1)
  /\ UNCHANGED <<auth, committed, reader, tables, dropped>>

-----------------------------------------------------------------------------
(* core-service. *)

\* A request that changed a team or an asset publishes its event.  (Repeated
\* events are records like any other.)
PublishActivity(t) ==
  /\ running
  /\ \A k \in Partitions : Len(log[<<t, k>>]) < MaxEvents
  /\ Send(t, Activity, 1)
  /\ UNCHANGED <<auth, committed, reader, tables, dropped>>

MutLastOffset(q) == Len(log[q])
FirstOffset(q) == 0

\* Where the reader of a group starts on a queue.
Resume(q) == IF committed[q] = 0 THEN FirstOffset(q) ELSE committed[q]

Start ==
  /\ ~running
  /\ running' = TRUE
  /\ position' = [q \in Queues |-> Resume(q)]
  /\ UNCHANGED <<auth, log, committed, handling, tables, dropped>>

\* Crash or shutdown: the statement of a handler that runs is cancelled.
Stop ==
  /\ "stop" \in Faults
  /\ running
  /\ running' = FALSE
  /\ handling' = [t \in Topics |-> NoRecord]
  /\ dropped' = dropped \cup {handling[t] : t \in {s \in Topics : handling[s] # NoRecord}}
  /\ UNCHANGED <<auth, log, committed, position, tables>>

Fetchable(t) == {q \in Queues : q[1] = t /\ position[q] < Len(log[q])}

MutFetchOnly(q) == committed[q]
MutOneTooFar(q) == position[q] + 2
OffsetToCommit(q) == position[q] + 1

MutFromStart(q) == FirstOffset(q)
\* A message whose commit failed is not fetched again before a restart.
PositionAfterError(q) == position[q] + 1

\* ReadMessage fetches a message and commits its offset; if the commit fails
\* the message is not returned and the loop goes on to the next.
ReadMessage(t) ==
  /\ running
  /\ handling[t] = NoRecord
  /\ \E q \in Fetchable(t) :
       LET record == <<q, position[q] + 1>>
           commit == [committed EXCEPT ![q] = OffsetToCommit(q)]
       IN
       \/ /\ committed' = commit
          /\ position' = [position EXCEPT ![q] = @ + 1]
          /\ handling' = [handling EXCEPT ![t] = record]
          /\ UNCHANGED dropped
       \/ /\ "kafka" \in Faults
          /\ committed' \in {committed, commit}
          /\ position' = [position EXCEPT ![q] = PositionAfterError(q)]
          /\ dropped' = dropped \cup {record}
          /\ UNCHANGED handling
  /\ UNCHANGED <<auth, log, running, tables>>

\* The rows that handleUserEvent leaves for a message.
Projected(m) ==
  CASE m.type \in {"USER_CREATED", "USER_UPDATED"} -> [projection EXCEPT ![m.user] = "active"]
    [] m.type = "USER_DELETED" ->
         [projection EXCEPT ![m.user] = IF @ = "absent" THEN @ ELSE "deleted"]
    [] OTHER -> projection

\* The error of a handler's statement is only logged.
HandleUserEvent ==
  LET r == handling[UserTopic] IN
  /\ r # NoRecord
  /\ \/ projection' = Projected(log[r[1]][r[2]]) /\ UNCHANGED dropped
     \/ "db" \in Faults /\ dropped' = dropped \cup {r} /\ UNCHANGED projection
  /\ handling' = [handling EXCEPT ![UserTopic] = NoRecord]
  /\ UNCHANGED <<auth, log, committed, running, position, audit>>

InsertAuditLog(t) ==
  LET r == handling[t] IN
  /\ r # NoRecord
  /\ \/ audit' = Append(audit, r) /\ UNCHANGED dropped
     \/ "db" \in Faults /\ dropped' = dropped \cup {r} /\ UNCHANGED audit
  /\ handling' = [handling EXCEPT ![t] = NoRecord]
  /\ UNCHANGED <<auth, log, committed, running, position, projection>>

-----------------------------------------------------------------------------
(* The specification. *)

Init ==
  /\ users = {} /\ unsent = {}
  /\ req = [p \in Procs |-> Idle]
  /\ log = [q \in Queues |-> <<>>]
  /\ committed = [q \in Queues |-> 0]
  /\ running = FALSE
  /\ position = [q \in Queues |-> 0]
  /\ handling = [t \in Topics |-> NoRecord]
  /\ projection = [u \in Users |-> "absent"]
  /\ audit = <<>>
  /\ dropped = {}

Register(p) == Insert(p) \/ Publish(p)
Handle(t) == IF t = UserTopic THEN HandleUserEvent ELSE InsertAuditLog(t)
Consume(t) == ReadMessage(t) \/ Handle(t)

Next ==
  \/ \E p \in Procs : Begin(p) \/ Register(p) \/ Crash(p)
  \/ PublishSummary
  \/ \E t \in AuditTopics : PublishActivity(t)
  \/ Start
  \/ Stop
  \/ \E t \in Topics : Consume(t)

Spec == Init /\ [][Next]_vars

\* The loops run on while the process does, and ReadMessage returns; nobody
\* has to register or to start core-service.
FairSpec == Spec /\ \A t \in Topics : WF_vars(Consume(t))

-----------------------------------------------------------------------------
(* Properties. *)

\* Types, and how far offsets go: no group commits what was not appended, and
\* a reader is never behind its group.
TypeOK ==
  /\ users \subseteq Users /\ unsent \subseteq users
  /\ req \in [Procs -> [pc : {"idle", "insert", "publish"}, user : Users \cup {NoUser}]]
  /\ log \in [Queues -> Seq(Messages)]
  /\ running \in BOOLEAN
  /\ committed \in [Queues -> Nat] /\ position \in [Queues -> Nat]
  /\ \A q \in Queues : committed[q] <= Len(log[q]) /\ position[q] <= Len(log[q])
  /\ running => \A q \in Queues : committed[q] <= position[q]
  /\ handling \in [Topics -> Records \cup {NoRecord}]
  /\ projection \in [Users -> {"absent", "active", "deleted"}]
  /\ audit \in Seq(Records)
  /\ dropped \subseteq Records

\* core-service knows only registered users, and no step of the event path
\* loses one it knows: with its crashes, redeliveries and duplicates, the path
\* implements Directory (user/service.go:97-111, kafka.go:48-56).
Dir == INSTANCE Directory
         WITH registered <- users, known <- {u \in Users : projection[u] # "absent"}
DirectorySpec == Dir!Spec

\* A record is stored at most once whatever stops and restarts, because its
\* offset is committed first; INSERT INTO audit_log would not notice a
\* repetition (audit_consumer.go:31, 51).
NoDoubleRow == \A i, j \in DOMAIN audit : audit[i] = audit[j] => i = j

Publishing(u) == \E p \in Procs : req[p] = [pc |-> "publish", user |-> u]

\* The record is still to be fetched, now or after a restart, or is handled.
Pending(q, i) == i > committed[q] \/ \E t \in Topics : handling[t] = <<q, i>>

\* A registered user is missing from the projection only while the event is on
\* its way, or because it was lost in one of these ways: auth-service crashed
\* or Kafka refused it (then nothing sends it again, a second registration
\* being refused), or the loop committed its offset and then crashed, failed
\* to upsert or got no answer to the commit (user/service.go:84, kafka.go:28).
LossAccounted ==
  \A u \in users : projection[u] = "absent" =>
    \/ Publishing(u)
    \/ u \in unsent
    \/ \E q \in Queues : \E i \in DOMAIN log[q] :
         log[q][i] = Created(u) /\ (Pending(q, i) \/ <<q, i>> \in dropped)

Drained == \A q \in Queues : position[q] = Len(log[q])

\* While core-service keeps running its loops get past every message, one that
\* cannot be committed or stored included: an error never blocks a topic
\* (kafka.go:29-35, audit_consumer.go:32-39, 55).
NeverStuck == <>[]running => <>[]Drained

\* "core-service can recover missed user events after downtime": of the users
\* announced before, whoever is not in the projection when core-service is down
\* is in a message that it will fetch again.
RecoversMissed ==
  ~running =>
    \A k \in Partitions : \A i \in DOMAIN log[<<UserTopic, k>>] :
      LET m == log[<<UserTopic, k>>][i] IN
      m.type = "USER_CREATED" => projection[m.user] # "absent" \/ i > committed[<<UserTopic, k>>]
=============================================================================

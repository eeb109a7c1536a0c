-------------------------- MODULE UserEventsProofs ---------------------------
(***************************************************************************)
(* What UserEvents promises for any number of users, requests, topics and  *)
(* partitions, with any faults.                                            *)
(***************************************************************************)
EXTENDS UserEvents, SequenceTheorems, TLAPS

(* The inductive invariant.  What the properties say of the tables rests on what
   is between them: the requests, the log and the loops. *)

\* A request announces only a user it has inserted.
RequestsRegister ==
  \A p \in Procs : /\ req[p].pc # "idle" => req[p].user \in Users
                   /\ req[p].pc = "publish" => req[p].user \in users

\* Every user named in the log is registered; audited topics name nobody.
LogNamesRegistered ==
  \A q \in Queues : \A i \in 1..Len(log[q]) :
    log[q][i].user # NoUser => log[q][i].user \in users /\ q[1] = UserTopic

\* A loop handles a committed record of its topic that is not stored yet.
Handles(t) ==
  \E q \in Queues : \E i \in 1..committed[q] :
    /\ handling[t] = <<q, i>> /\ q[1] = t /\ running
    /\ \A n \in 1..Len(audit) : audit[n] # <<q, i>>

HandledIsCommitted == \A t \in Topics : handling[t] # NoRecord => Handles(t)

\* Every stored record was committed first.
StoredIsCommitted ==
  \A n \in 1..Len(audit) : \E q \in Queues : \E i \in 1..committed[q] : audit[n] = <<q, i>>

\* A record that the reader passed without committing it is lost.
SkippedIsDropped ==
  running => \A q \in Queues : \A i \in (committed[q] + 1)..position[q] : <<q, i>> \in dropped

IInv ==
  /\ TypeOK /\ RequestsRegister /\ LogNamesRegistered /\ HandledIsCommitted
  /\ StoredIsCommitted /\ SkippedIsDropped /\ NoDoubleRow /\ LossAccounted

ReqType == [Procs -> [pc : {"idle", "insert", "publish"}, user : Users \cup {NoUser}]]

-----------------------------------------------------------------------------
(* The log only grows. *)

\* What a publication does to the log.
LEMMA SendAppends ==
  ASSUME TypeOK, NEW t \in Topics, NEW m \in Messages, NEW n \in 0..2, Send(t, m, n)
  PROVE  /\ log' \in [Queues -> Seq(Messages)]
         /\ \A q \in Queues : Len(log[q]) <= Len(log'[q])
         /\ \A q \in Queues : \A i \in 1..Len(log[q]) : log'[q][i] = log[q][i]
         /\ \A q \in Queues : \A i \in 1..Len(log'[q]) :
              i <= Len(log[q]) \/ (q[1] = t /\ log'[q][i] = m)
         /\ n # 0 => \E q \in Queues : /\ Len(log[q]) < Len(log'[q])
                                       /\ log'[q][Len(log[q]) + 1] = m
<1> DEFINE copies == [i \in 1..n |-> m]
<1>1. PICK k \in Partitions : log' = [log EXCEPT ![<<t, k>>] = @ \o copies]
  BY DEF Send
<1> DEFINE r == <<t, k>>
<1>2. r \in Queues /\ r[1] = t
  BY DEF Queues
<1>3. log \in [Queues -> Seq(Messages)]
  BY DEF TypeOK
<1>4. copies \in Seq(Messages) /\ Len(copies) = n /\ \A i \in 1..n : copies[i] = m
  OBVIOUS
<1> HIDE DEF copies, r
<1>5. /\ log[r] \o copies \in Seq(Messages)
      /\ Len(log[r] \o copies) = Len(log[r]) + n
      /\ \A i \in 1..(Len(log[r]) + n) :
           (log[r] \o copies)[i] = IF i <= Len(log[r]) THEN log[r][i] ELSE copies[i - Len(log[r])]
  <2>1. log[r] \in Seq(Messages)
    BY <1>2, <1>3
  <2> QED
    BY <2>1, <1>4, ConcatProperties
<1>6. log' = [log EXCEPT ![r] = log[r] \o copies]
  BY <1>1 DEF r
<1>7. log'[r] = log[r] \o copies /\ \A q \in Queues \ {r} : log'[q] = log[q]
  BY <1>2, <1>3, <1>6
<1>8. \A q \in Queues : Len(log[q]) \in Nat
  BY <1>3, LenProperties
<1>9. log' \in [Queues -> Seq(Messages)]
  BY <1>2, <1>3, <1>5, <1>6
<1>10. \A q \in Queues : Len(log[q]) <= Len(log'[q])
  BY <1>2, <1>5, <1>7, <1>8
<1>11. \A q \in Queues : \A i \in 1..Len(log[q]) : log'[q][i] = log[q][i]
  <2> SUFFICES ASSUME NEW q \in Queues, NEW i \in 1..Len(log[q]) PROVE log'[q][i] = log[q][i]
    OBVIOUS
  <2>1. CASE q = r
    BY <2>1, <1>2, <1>5, <1>7, <1>8
  <2> QED
    BY <2>1, <1>7
<1>12. ASSUME NEW q \in Queues, NEW i \in 1..Len(log'[q]), ~(i <= Len(log[q]))
       PROVE  q[1] = t /\ log'[q][i] = m
  <2>1. q = r
    BY <1>7, <1>8, <1>12
  <2>2. log'[q][i] = copies[i - Len(log[r])] /\ i - Len(log[r]) \in 1..n
    BY <2>1, <1>2, <1>5, <1>7, <1>8, <1>12
  <2> QED
    BY <2>1, <2>2, <1>2, <1>4
<1>13. ASSUME n # 0
       PROVE  Len(log[r]) < Len(log'[r]) /\ log'[r][Len(log[r]) + 1] = m
  <2>1. Len(log[r]) \in Nat /\ n \in 1..2
    BY <1>2, <1>8, <1>13
  <2>2. Len(log'[r]) = Len(log[r]) + n
    BY <1>5, <1>7
  <2>3. log'[r][Len(log[r]) + 1] = copies[(Len(log[r]) + 1) - Len(log[r])]
    BY <2>1, <1>5, <1>7
  <2> QED
    BY <2>1, <2>2, <2>3, <1>4
<1> QED
  BY <1>2, <1>9, <1>10, <1>11, <1>12, <1>13

-----------------------------------------------------------------------------
(* The steps of auth-service. *)

\* A step that leaves Kafka and core-service alone preserves the invariant when
\* it accounts for every user it inserts or stops announcing.
LEMMA AuthStep ==
  ASSUME IInv, UNCHANGED <<log, committed, reader, tables, dropped>>,
         users \subseteq users', users' \subseteq Users,
         unsent \subseteq unsent', unsent' \subseteq users',
         req' \in ReqType, RequestsRegister',
         \A u \in users' : (u \in users => Publishing(u)) => Publishing(u)' \/ u \in unsent'
  PROVE  IInv'
<1> USE DEF reader, tables
<1>1. TypeOK'
  BY DEF IInv, TypeOK, ReqType
<1>2. LogNamesRegistered' /\ HandledIsCommitted' /\ StoredIsCommitted' /\ SkippedIsDropped'
  BY DEF IInv, LogNamesRegistered, HandledIsCommitted, Handles, StoredIsCommitted,
         SkippedIsDropped
<1>3. NoDoubleRow'
  BY DEF IInv, NoDoubleRow
<1>4. LossAccounted'
  <2> SUFFICES ASSUME NEW u \in users', projection'[u] = "absent",
                      ~Publishing(u)', u \notin unsent'
               PROVE  \E q \in Queues : \E i \in DOMAIN log'[q] :
                        log'[q][i] = Created(u) /\ (Pending(q, i)' \/ <<q, i>> \in dropped')
    BY DEF LossAccounted
  <2>1. u \in users /\ ~Publishing(u) /\ u \notin unsent
    OBVIOUS
  <2>2. PICK q \in Queues : \E i \in DOMAIN log[q] :
          log[q][i] = Created(u) /\ (Pending(q, i) \/ <<q, i>> \in dropped)
    BY <2>1 DEF IInv, LossAccounted
  <2> QED
    BY <2>2 DEF Pending
<1> QED
  BY <1>1, <1>2, <1>3, <1>4 DEF IInv

LEMMA BeginStep ==
  ASSUME IInv, NEW p \in Procs, Begin(p)
  PROVE  IInv'
<1>1. PICK u \in Users : req' = [req EXCEPT ![p] = [pc |-> "insert", user |-> u]]
  BY DEF Begin
<1>2. req \in ReqType
  BY DEF IInv, TypeOK, ReqType
<1>3. req' \in ReqType /\ req'[p] = [pc |-> "insert", user |-> u]
      /\ \A r \in Procs \ {p} : req'[r] = req[r]
  BY <1>1, <1>2 DEF ReqType
<1>4. RequestsRegister'
  BY <1>3 DEF Begin, auth, IInv, RequestsRegister
<1>5. \A v \in Users : Publishing(v) => Publishing(v)'
  BY <1>3 DEF Begin, Publishing
<1>6. users \subseteq Users /\ unsent \subseteq users
  BY DEF IInv, TypeOK
<1> QED
  BY <1>3, <1>4, <1>5, <1>6, AuthStep DEF Begin

LEMMA InsertStep ==
  ASSUME IInv, NEW p \in Procs, Insert(p)
  PROVE  IInv'
<1> DEFINE u == req[p].user
<1>1. req \in ReqType /\ users \subseteq Users /\ unsent \subseteq users
  BY DEF IInv, TypeOK, ReqType
<1>2. u \in Users /\ req[p] = [pc |-> "insert", user |-> u]
  BY <1>1 DEF Insert, IInv, RequestsRegister, ReqType
<1>3. UNCHANGED <<log, committed, reader, tables, dropped>>
  BY DEF Insert
<1>4. req' \in ReqType /\ \A r \in Procs \ {p} : req'[r] = req[r]
  BY <1>1, <1>2 DEF Insert, ReqType, Idle, AfterFailure
<1>5. /\ users \subseteq users' /\ users' \subseteq Users
      /\ unsent \subseteq unsent' /\ unsent' \subseteq users'
  BY <1>1, <1>2 DEF Insert
<1>6. RequestsRegister'
  <2> SUFFICES ASSUME NEW r \in Procs
               PROVE  /\ req'[r].pc # "idle" => req'[r].user \in Users
                      /\ req'[r].pc = "publish" => req'[r].user \in users'
    BY DEF RequestsRegister
  <2>1. CASE r = p
    BY <2>1, <1>1, <1>2 DEF Insert, Idle, AfterFailure, ReqType
  <2> QED
    BY <2>1, <1>4, <1>5 DEF IInv, RequestsRegister
<1>7. ASSUME NEW v \in users', v \in users => Publishing(v)
      PROVE  Publishing(v)' \/ v \in unsent'
  <2>1. CASE v \in users
    <3>1. PICK r \in Procs : req[r] = [pc |-> "publish", user |-> v]
      BY <2>1, <1>7 DEF Publishing
    <3>2. r # p
      BY <3>1, <1>2
    <3> QED
      BY <3>1, <3>2, <1>4 DEF Publishing
  <2>2. CASE v \notin users
    <3>1. v = u /\ (req' = [req EXCEPT ![p].pc = "publish"] \/ v \in unsent')
      BY <2>2 DEF Insert
    <3>2. ASSUME req' = [req EXCEPT ![p].pc = "publish"]
          PROVE  req'[p] = [pc |-> "publish", user |-> v]
      BY <3>1, <3>2, <1>1, <1>2 DEF ReqType
    <3> QED
      BY <3>1, <3>2 DEF Publishing
  <2> QED
    BY <2>1, <2>2
<1> QED
  BY <1>3, <1>4, <1>5, <1>6, <1>7, AuthStep

LEMMA CrashStep ==
  ASSUME IInv, NEW p \in Procs, Crash(p)
  PROVE  IInv'
<1>1. req \in ReqType /\ users \subseteq Users /\ unsent \subseteq users
  BY DEF IInv, TypeOK, ReqType
<1>2. req[p].user \in users
  BY DEF Crash, IInv, RequestsRegister
<1>3. req' \in ReqType /\ req'[p] = Idle /\ \A r \in Procs \ {p} : req'[r] = req[r]
  BY <1>1 DEF Crash, ReqType, Idle
<1>4. users' = users /\ unsent' = unsent \cup {req[p].user}
      /\ UNCHANGED <<log, committed, reader, tables, dropped>>
  BY DEF Crash
<1>5. RequestsRegister'
  BY <1>3, <1>4 DEF IInv, RequestsRegister, Idle
<1>6. \A v \in Users : Publishing(v) => Publishing(v)' \/ v \in unsent'
  BY <1>3, <1>4 DEF Publishing
<1> QED
  BY <1>1, <1>2, <1>3, <1>4, <1>5, <1>6, AuthStep

-----------------------------------------------------------------------------
(* The steps that publish. *)

\* A step that appends a message preserves the invariant when the message names
\* a registered user or nobody, and whoever is no longer being announced is in
\* the message or known to be unsent.
LEMMA SendStep ==
  ASSUME IInv, NEW t \in Topics, NEW m \in Messages, NEW n \in 0..2, Send(t, m, n),
         m.user # NoUser => m.user \in users /\ t = UserTopic,
         UNCHANGED <<users, committed, reader, tables, dropped>>,
         unsent \subseteq unsent', unsent' \subseteq users, req' \in ReqType,
         RequestsRegister',
         \A u \in users : Publishing(u) =>
           Publishing(u)' \/ u \in unsent' \/ (n # 0 /\ m = Created(u))
  PROVE  IInv'
<1> USE DEF reader, tables
<1>1. /\ log' \in [Queues -> Seq(Messages)]
      /\ \A q \in Queues : Len(log[q]) <= Len(log'[q])
      /\ \A q \in Queues : \A i \in 1..Len(log[q]) : log'[q][i] = log[q][i]
      /\ \A q \in Queues : \A i \in 1..Len(log'[q]) :
           i <= Len(log[q]) \/ (q[1] = t /\ log'[q][i] = m)
      /\ n # 0 => \E q \in Queues : /\ Len(log[q]) < Len(log'[q])
                                    /\ log'[q][Len(log[q]) + 1] = m
  BY SendAppends DEF IInv
<1>2. TypeOK
  BY DEF IInv
<1>3. \A q \in Queues : /\ Len(log[q]) \in Nat /\ Len(log'[q]) \in Nat
                        /\ DOMAIN log[q] = 1..Len(log[q]) /\ DOMAIN log'[q] = 1..Len(log'[q])
                        /\ committed[q] \in Nat /\ position[q] \in Nat
                        /\ committed[q] <= Len(log[q]) /\ position[q] <= Len(log[q])
  BY <1>1, <1>2, LenProperties DEF TypeOK
<1>4. TypeOK'
  <2>1. \A q \in Queues : committed'[q] <= Len(log'[q]) /\ position'[q] <= Len(log'[q])
    BY <1>1, <1>3
  <2> QED
    BY <1>1, <1>2, <2>1 DEF TypeOK, ReqType
<1>5. LogNamesRegistered'
  <2> SUFFICES ASSUME NEW q \in Queues, NEW i \in 1..Len(log'[q]), log'[q][i].user # NoUser
               PROVE  log'[q][i].user \in users' /\ q[1] = UserTopic
    BY DEF LogNamesRegistered
  <2>1. CASE i <= Len(log[q])
    <3>1. i \in 1..Len(log[q])
      BY <2>1, <1>3
    <3> QED
      BY <3>1, <1>1 DEF IInv, LogNamesRegistered
  <2>2. CASE q[1] = t /\ log'[q][i] = m
    BY <2>2
  <2> QED
    BY <2>1, <2>2, <1>1
<1>6. HandledIsCommitted' /\ StoredIsCommitted' /\ SkippedIsDropped'
  BY DEF IInv, HandledIsCommitted, Handles, StoredIsCommitted, SkippedIsDropped
<1>7. NoDoubleRow'
  BY DEF IInv, NoDoubleRow
<1>8. LossAccounted'
  <2> SUFFICES ASSUME NEW u \in users', projection'[u] = "absent",
                      ~Publishing(u)', u \notin unsent'
               PROVE  \E q \in Queues : \E i \in DOMAIN log'[q] :
                        log'[q][i] = Created(u) /\ (Pending(q, i)' \/ <<q, i>> \in dropped')
    BY DEF LossAccounted
  <2>1. CASE Publishing(u)
    <3>1. PICK q \in Queues : /\ Len(log[q]) < Len(log'[q])
                              /\ log'[q][Len(log[q]) + 1] = Created(u)
      BY <2>1, <1>1
    <3>2. Len(log[q]) + 1 \in DOMAIN log'[q] /\ Len(log[q]) + 1 > committed'[q]
      BY <3>1, <1>3
    <3> QED
      BY <3>1, <3>2 DEF Pending
  <2>2. CASE ~Publishing(u)
    <3>0. PICK q \in Queues : \E i \in DOMAIN log[q] :
            log[q][i] = Created(u) /\ (Pending(q, i) \/ <<q, i>> \in dropped)
      BY <2>2 DEF IInv, LossAccounted
    <3>1. PICK i \in DOMAIN log[q] :
            log[q][i] = Created(u) /\ (Pending(q, i) \/ <<q, i>> \in dropped)
      BY <3>0
    <3>2. i \in DOMAIN log'[q] /\ log'[q][i] = Created(u)
      <4>1. i \in 1..Len(log[q]) /\ log'[q][i] = log[q][i]
        BY <1>1, <1>3
      <4>2. i \in 1..Len(log'[q])
        BY <4>1, <1>1, <1>3
      <4> QED
        BY <4>1, <4>2, <3>1, <1>3
    <3>3. Pending(q, i)' \/ <<q, i>> \in dropped'
      BY <3>1 DEF Pending
    <3> QED
      BY <3>2, <3>3
  <2> QED
    BY <2>1, <2>2
<1> QED
  BY <1>4, <1>5, <1>6, <1>7, <1>8 DEF IInv

LEMMA PublishStep ==
  ASSUME IInv, NEW p \in Procs, Publish(p)
  PROVE  IInv'
<1> DEFINE u == req[p].user
<1>1. PICK n \in Copies : /\ Send(UserTopic, Created(u), n)
                          /\ unsent' = IF n = 0 THEN unsent \cup {u} ELSE unsent
  BY DEF Publish
<1>2. n \in 0..2 /\ UserTopic \in Topics
  BY DEF Copies, Topics
<1>3. req \in ReqType /\ users \subseteq Users /\ unsent \subseteq users
  BY DEF IInv, TypeOK, ReqType
<1>4. u \in users
  BY DEF Publish, IInv, RequestsRegister
<1>5. Created(u) \in Messages /\ Created(u).user = u
  BY <1>3, <1>4 DEF Created, Event, Messages
<1>6. req' \in ReqType /\ req'[p] = Idle /\ \A r \in Procs \ {p} : req'[r] = req[r]
  BY <1>3 DEF Publish, ReqType, Idle
<1>7. UNCHANGED <<users, committed, reader, tables, dropped>>
  BY DEF Publish
<1>8. RequestsRegister'
  BY <1>6, <1>7 DEF IInv, RequestsRegister, Idle
<1>9. \A v \in users : Publishing(v) =>
        Publishing(v)' \/ v \in unsent' \/ (n # 0 /\ Created(u) = Created(v))
  BY <1>1, <1>6 DEF Publishing
<1>10. unsent \subseteq unsent' /\ unsent' \subseteq users
  BY <1>1, <1>3, <1>4
<1> HIDE DEF u
<1> QED
  BY <1>1, <1>2, <1>4, <1>5, <1>6, <1>7, <1>8, <1>9, <1>10, SendStep

\* The other publications name nobody.
LEMMA OtherSendStep ==
  ASSUME IInv, NEW t \in Topics, NEW m \in {Imported, Activity}, Send(t, m, 1),
         UNCHANGED <<auth, committed, reader, tables, dropped>>
  PROVE  IInv'
<1>1. m \in Messages /\ m.user = NoUser
  BY DEF Messages, Imported, Activity, Event
<1>2. req' \in ReqType /\ users \subseteq Users /\ unsent \subseteq users
  BY DEF IInv, TypeOK, ReqType, auth
<1>3. RequestsRegister' /\ \A u \in users : Publishing(u) => Publishing(u)'
  BY DEF IInv, RequestsRegister, Publishing, auth
<1>4. UNCHANGED <<users, unsent, committed, reader, tables, dropped>>
  BY DEF auth
<1> QED
  BY <1>1, <1>2, <1>3, <1>4, SendStep

-----------------------------------------------------------------------------
(* The steps of core-service. *)

LEMMA StartStep ==
  ASSUME IInv, Start
  PROVE  IInv'
<1> USE DEF auth, tables
<1>1. position' = [q \in Queues |-> Resume(q)] /\ running' = TRUE /\ ~running
      /\ UNCHANGED <<auth, log, committed, handling, tables, dropped>>
  BY DEF Start
<1>2. TypeOK
  BY DEF IInv
<1>3. \A q \in Queues : position'[q] = committed[q] /\ Resume(q) = committed[q]
  BY <1>1 DEF Resume, FirstOffset
<1>4. TypeOK'
  BY <1>1, <1>2, <1>3 DEF TypeOK
<1>5. \A t \in Topics : handling[t] = NoRecord
  BY <1>1 DEF IInv, HandledIsCommitted, Handles
<1>6. RequestsRegister' /\ LogNamesRegistered' /\ HandledIsCommitted' /\ StoredIsCommitted'
      /\ NoDoubleRow'
  BY <1>1, <1>5 DEF IInv, RequestsRegister, LogNamesRegistered, HandledIsCommitted,
                    StoredIsCommitted, NoDoubleRow
<1>7. SkippedIsDropped'
  <2> SUFFICES ASSUME NEW q \in Queues, NEW i \in (committed'[q] + 1)..position'[q] PROVE FALSE
    BY DEF SkippedIsDropped
  <2> QED
    BY <1>1, <1>2, <1>3 DEF TypeOK
<1>8. LossAccounted'
  BY <1>1 DEF IInv, LossAccounted, Publishing, Pending
<1> QED
  BY <1>4, <1>6, <1>7, <1>8 DEF IInv

LEMMA StopStep ==
  ASSUME IInv, Stop
  PROVE  IInv'
<1> USE DEF auth, tables
<1>1. /\ running' = FALSE /\ handling' = [t \in Topics |-> NoRecord]
      /\ dropped' = dropped \cup {handling[t] : t \in {s \in Topics : handling[s] # NoRecord}}
      /\ UNCHANGED <<auth, log, committed, position, tables>>
  BY DEF Stop
<1>2. TypeOK
  BY DEF IInv
<1>3. TypeOK'
  BY <1>1, <1>2 DEF TypeOK
<1>4. RequestsRegister' /\ LogNamesRegistered' /\ HandledIsCommitted' /\ StoredIsCommitted'
      /\ NoDoubleRow' /\ SkippedIsDropped'
  BY <1>1 DEF IInv, RequestsRegister, LogNamesRegistered, HandledIsCommitted,
              StoredIsCommitted, NoDoubleRow, SkippedIsDropped
<1>5. LossAccounted'
  <2> SUFFICES ASSUME NEW u \in users, projection[u] = "absent",
                      ~Publishing(u), u \notin unsent
               PROVE  \E q \in Queues : \E i \in DOMAIN log[q] :
                        log[q][i] = Created(u) /\ (Pending(q, i)' \/ <<q, i>> \in dropped')
    BY <1>1 DEF LossAccounted, Publishing
  <2>1. PICK q \in Queues : \E i \in DOMAIN log[q] :
          log[q][i] = Created(u) /\ (Pending(q, i) \/ <<q, i>> \in dropped)
    BY DEF IInv, LossAccounted
  <2>2. PICK i \in DOMAIN log[q] :
          log[q][i] = Created(u) /\ (Pending(q, i) \/ <<q, i>> \in dropped)
    BY <2>1
  <2>3. \A t \in Topics : handling[t] # NoRecord => handling[t] \in dropped'
    BY <1>1
  <2>4. <<q, i>> # NoRecord
    <3>1. i \in Nat \ {0}
      BY <1>2, LenProperties DEF TypeOK
    <3> QED
      BY <3>1, UserEventsAssumption DEF Records
  <2>5. Pending(q, i)' \/ <<q, i>> \in dropped'
    BY <1>1, <2>2, <2>3, <2>4 DEF Pending
  <2> QED
    BY <2>2, <2>5
<1> QED
  BY <1>3, <1>4, <1>5 DEF IInv

LEMMA ReadMessageStep ==
  ASSUME IInv, NEW t \in Topics, ReadMessage(t)
  PROVE  IInv'
<1> USE DEF auth, tables
<1>1. PICK q \in Fetchable(t) :
        LET record == <<q, position[q] + 1>>
            commit == [committed EXCEPT ![q] = OffsetToCommit(q)]
        IN
        \/ /\ committed' = commit
           /\ position' = [position EXCEPT ![q] = @ + 1]
           /\ handling' = [handling EXCEPT ![t] = record]
           /\ UNCHANGED dropped
        \/ /\ "kafka" \in Faults
           /\ committed' \in {committed, commit}
           /\ position' = [position EXCEPT ![q] = PositionAfterError(q)]
           /\ dropped' = dropped \cup {record}
           /\ UNCHANGED handling
  BY DEF ReadMessage
<1>2. running /\ handling[t] = NoRecord /\ UNCHANGED <<auth, log, running, tables>>
  BY DEF ReadMessage
<1>3. q \in Queues /\ q[1] = t /\ position[q] < Len(log[q])
  BY DEF Fetchable
<1> DEFINE next == position[q] + 1
           record == <<q, next>>
<1>4. TypeOK
  BY DEF IInv
<1>5. /\ \A r \in Queues : /\ Len(log[r]) \in Nat /\ DOMAIN log[r] = 1..Len(log[r])
                           /\ committed[r] \in Nat /\ position[r] \in Nat
                           /\ committed[r] <= position[r] /\ position[r] <= Len(log[r])
  BY <1>2, <1>4, LenProperties DEF TypeOK
<1>6. next \in Nat /\ next \in 1..Len(log[q]) /\ record \in Records
  BY <1>3, <1>5 DEF Records
<1>7. /\ position' = [position EXCEPT ![q] = next]
      /\ \/ committed' = [committed EXCEPT ![q] = next] /\ handling' = [handling EXCEPT ![t] = record]
            /\ dropped' = dropped
         \/ /\ committed' \in {committed, [committed EXCEPT ![q] = next]} /\ handling' = handling
            /\ dropped' = dropped \cup {record}
  BY <1>1 DEF OffsetToCommit, PositionAfterError
<1> HIDE DEF next, record
<1>8. /\ committed \in [Queues -> Nat] /\ position \in [Queues -> Nat]
      /\ handling \in [Topics -> Records \cup {NoRecord}] /\ dropped \subseteq Records
  BY <1>4 DEF TypeOK
<1>9. /\ committed' \in [Queues -> Nat] /\ position' \in [Queues -> Nat]
      /\ committed'[q] \in {committed[q], next} /\ position'[q] = next
      /\ \A r \in Queues \ {q} : committed'[r] = committed[r] /\ position'[r] = position[r]
  BY <1>3, <1>6, <1>7, <1>8
<1>10. /\ handling' \in [Topics -> Records \cup {NoRecord}] /\ dropped' \subseteq Records
       /\ \A s \in Topics \ {t} : handling'[s] = handling[s]
       /\ dropped \subseteq dropped'
  BY <1>6, <1>7, <1>8
<1>11. committed[q] < next /\ next = position[q] + 1
  BY <1>3, <1>5 DEF next
<1>12. \A r \in Queues : committed[r] <= committed'[r]
  BY <1>3, <1>5, <1>6, <1>9, <1>11
<1>13. TypeOK'
  <2>1. \A r \in Queues : /\ committed'[r] <= Len(log[r]) /\ position'[r] <= Len(log[r])
                          /\ committed'[r] <= position'[r]
    BY <1>3, <1>5, <1>6, <1>9, <1>11
  <2> QED
    BY <1>2, <1>4, <1>9, <1>10, <2>1 DEF TypeOK
<1>14. RequestsRegister' /\ LogNamesRegistered' /\ NoDoubleRow'
  BY <1>2 DEF IInv, RequestsRegister, LogNamesRegistered, NoDoubleRow
<1>15. StoredIsCommitted'
  <2> SUFFICES ASSUME NEW n \in 1..Len(audit)
               PROVE  \E r \in Queues : \E i \in 1..committed'[r] : audit[n] = <<r, i>>
    BY <1>2 DEF StoredIsCommitted
  <2>1. PICK r \in Queues : \E i \in 1..committed[r] : audit[n] = <<r, i>>
    BY DEF IInv, StoredIsCommitted
  <2> QED
    BY <2>1, <1>5, <1>9, <1>12
<1>16. \A n \in 1..Len(audit) : audit[n] # record
  <2> SUFFICES ASSUME NEW n \in 1..Len(audit), audit[n] = record PROVE FALSE
    OBVIOUS
  <2>1. PICK r \in Queues : \E i \in 1..committed[r] : audit[n] = <<r, i>>
    BY DEF IInv, StoredIsCommitted
  <2>2. PICK i \in 1..committed[r] : audit[n] = <<r, i>>
    BY <2>1
  <2>3. r = q /\ i = next
    BY <2>2 DEF record
  <2> QED
    BY <2>2, <2>3, <1>3, <1>5, <1>11
<1>17. HandledIsCommitted'
  <2> SUFFICES ASSUME NEW s \in Topics, handling'[s] # NoRecord PROVE Handles(s)'
    BY DEF HandledIsCommitted
  <2>1. CASE s = t
    <3>1. handling'[t] = record /\ committed'[q] = next
      BY <2>1, <1>2, <1>3, <1>6, <1>7, <1>8
    <3>2. next \in 1..committed'[q]
      BY <3>1, <1>6
    <3> QED
      BY <2>1, <3>1, <3>2, <1>2, <1>3, <1>16 DEF Handles, record
  <2>2. CASE s # t
    <3>1. Handles(s)
      BY <2>2, <1>10 DEF IInv, HandledIsCommitted
    <3>2. PICK r \in Queues : \E i \in 1..committed[r] :
             /\ handling[s] = <<r, i>> /\ r[1] = s /\ running
             /\ \A n \in 1..Len(audit) : audit[n] # <<r, i>>
      BY <3>1 DEF Handles
    <3>3. r # q
      BY <2>2, <3>2, <1>3
    <3> QED
      BY <2>2, <3>2, <3>3, <1>2, <1>9, <1>10 DEF Handles
  <2> QED
    BY <2>1, <2>2
<1>18. SkippedIsDropped'
  <2> SUFFICES ASSUME NEW r \in Queues, NEW i \in (committed'[r] + 1)..position'[r]
               PROVE  <<r, i>> \in dropped'
    BY DEF SkippedIsDropped
  <2>1. CASE r # q
    BY <2>1, <1>2, <1>9, <1>10 DEF IInv, SkippedIsDropped
  <2>2. CASE r = q
    <3>1. committed' [q] = committed[q] /\ record \in dropped'
      BY <2>2, <1>3, <1>6, <1>7, <1>8, <1>9
    <3>2. i = next \/ i \in (committed[q] + 1)..position[q]
      BY <2>2, <3>1, <1>3, <1>5, <1>9, <1>11
    <3> QED
      BY <2>2, <3>1, <3>2, <1>2, <1>3, <1>10 DEF IInv, SkippedIsDropped, record
  <2> QED
    BY <2>1, <2>2
<1>19. LossAccounted'
  <2> SUFFICES ASSUME NEW u \in users, projection[u] = "absent",
                      ~Publishing(u), u \notin unsent
               PROVE  \E r \in Queues : \E i \in DOMAIN log[r] :
                        log[r][i] = Created(u) /\ (Pending(r, i)' \/ <<r, i>> \in dropped')
    BY <1>2 DEF LossAccounted, Publishing
  <2>1. PICK r \in Queues : \E i \in DOMAIN log[r] :
          log[r][i] = Created(u) /\ (Pending(r, i) \/ <<r, i>> \in dropped)
    BY DEF IInv, LossAccounted
  <2>2. PICK i \in DOMAIN log[r] :
          log[r][i] = Created(u) /\ (Pending(r, i) \/ <<r, i>> \in dropped)
    BY <2>1
  <2>3. i \in 1..Len(log[r])
    BY <1>5
  <2>4. CASE <<r, i>> \in dropped
    BY <2>2, <2>4, <1>10
  <2>5. CASE \E s \in Topics : handling[s] = <<r, i>>
    <3>1. <<r, i>> \in Records /\ <<r, i>> # NoRecord
      BY <2>3, UserEventsAssumption DEF Records
    <3> QED
      BY <2>2, <2>5, <3>1, <1>2, <1>10 DEF Pending
  <2>6. CASE i > committed[r] /\ r # q
    BY <2>2, <2>6, <1>9 DEF Pending
  <2>7. CASE i > committed[r] /\ r = q
    <3>1. i > next \/ i = next \/ i \in (committed[q] + 1)..position[q]
      BY <2>3, <2>7, <1>3, <1>5, <1>11
    <3>2. CASE i > next
      BY <2>2, <2>3, <2>7, <3>2, <1>5, <1>6, <1>9 DEF Pending
    <3>3. CASE i = next
      BY <2>2, <2>7, <3>3, <1>7, <1>8 DEF Pending, record
    <3>4. CASE i \in (committed[q] + 1)..position[q]
      BY <2>2, <2>7, <3>4, <1>2, <1>3, <1>10 DEF IInv, SkippedIsDropped
    <3> QED
      BY <3>1, <3>2, <3>3, <3>4
  <2> QED
    BY <2>2, <2>4, <2>5, <2>6, <2>7 DEF Pending
<1> QED
  BY <1>13, <1>14, <1>15, <1>17, <1>18, <1>19 DEF IInv

\* What a loop handles is in the log, and nobody else handles it.
LEMMA HandledRecord ==
  ASSUME IInv, NEW t \in Topics, handling[t] # NoRecord
  PROVE  \E q \in Queues : \E i \in 1..committed[q] :
           /\ handling[t] = <<q, i>> /\ q[1] = t
           /\ i \in 1..Len(log[q]) /\ log[q][i] \in Messages
           /\ \A n \in 1..Len(audit) : audit[n] # <<q, i>>
           /\ \A s \in Topics \ {t} : handling[s] # handling[t]
<1>1. PICK q \in Queues : \E i \in 1..committed[q] :
        /\ handling[t] = <<q, i>> /\ q[1] = t /\ running
        /\ \A n \in 1..Len(audit) : audit[n] # <<q, i>>
  BY DEF IInv, HandledIsCommitted, Handles
<1>2. PICK i \in 1..committed[q] : /\ handling[t] = <<q, i>> /\ q[1] = t
                                   /\ \A n \in 1..Len(audit) : audit[n] # <<q, i>>
  BY <1>1
<1>3. committed[q] \in Nat /\ committed[q] <= Len(log[q]) /\ log[q] \in Seq(Messages)
  BY DEF IInv, TypeOK
<1>4. i \in 1..Len(log[q]) /\ log[q][i] \in Messages
  BY <1>3, LenProperties
<1>5. ASSUME NEW s \in Topics \ {t}, handling[s] = handling[t] PROVE FALSE
  <2>1. PICK r \in Queues : \E j \in 1..committed[r] : handling[s] = <<r, j>> /\ r[1] = s
    BY <1>5 DEF IInv, HandledIsCommitted, Handles
  <2> QED
    BY <2>1, <1>2, <1>5
<1> QED
  BY <1>2, <1>4, <1>5

\* A handler that ends leaves its record dropped, or with what it stands for
\* stored.
LEMMA HandlerEnds ==
  ASSUME IInv, NEW t \in Topics, handling[t] # NoRecord,
         handling' = [handling EXCEPT ![t] = NoRecord],
         UNCHANGED <<auth, log, committed, running, position>>,
         dropped \subseteq dropped',
         \A u \in Users : projection[u] # "absent" => projection'[u] # "absent",
         \/ handling[t] \in dropped'
         \/ \A q \in Queues : \A i \in DOMAIN log[q] :
              handling[t] = <<q, i>> /\ log[q][i].type = "USER_CREATED"
                => projection'[log[q][i].user] # "absent"
  PROVE  LossAccounted'
<1> SUFFICES ASSUME NEW u \in users, projection'[u] = "absent", ~Publishing(u), u \notin unsent
             PROVE  \E q \in Queues : \E i \in DOMAIN log[q] :
                      log[q][i] = Created(u) /\ (Pending(q, i)' \/ <<q, i>> \in dropped')
  BY DEF LossAccounted, Publishing, auth
<1>1. projection[u] = "absent"
  BY DEF IInv, TypeOK
<1>2. PICK q \in Queues : \E i \in DOMAIN log[q] :
        log[q][i] = Created(u) /\ (Pending(q, i) \/ <<q, i>> \in dropped)
  BY <1>1 DEF IInv, LossAccounted
<1>3. PICK i \in DOMAIN log[q] :
        log[q][i] = Created(u) /\ (Pending(q, i) \/ <<q, i>> \in dropped)
  BY <1>2
<1>4. log[q][i].type = "USER_CREATED" /\ log[q][i].user = u
  BY <1>3 DEF Created, Event
<1>5. CASE handling[t] = <<q, i>>
  BY <1>3, <1>4, <1>5
<1>6. CASE handling[t] # <<q, i>>
  <2>1. handling \in [Topics -> Records \cup {NoRecord}]
    BY DEF IInv, TypeOK
  <2>2. \A s \in Topics : handling[s] = <<q, i>> => handling'[s] = <<q, i>>
    BY <1>6, <2>1
  <2> QED
    BY <1>3, <2>2 DEF Pending
<1> QED
  BY <1>5, <1>6

LEMMA HandleUserEventStep ==
  ASSUME IInv, HandleUserEvent
  PROVE  /\ IInv'
         /\ projection' # projection =>
              \E u \in users : projection' = [projection EXCEPT ![u] = projection'[u]]
         /\ \A u \in Users : projection[u] # "absent" => projection'[u] # "absent"
<1> DEFINE t == UserTopic
<1>1. /\ t \in Topics /\ handling[t] # NoRecord
      /\ handling' = [handling EXCEPT ![t] = NoRecord]
      /\ UNCHANGED <<auth, log, committed, running, position, audit>>
  BY DEF HandleUserEvent, Topics
<1>2. PICK q \in Queues : \E i \in 1..committed[q] :
        /\ handling[t] = <<q, i>> /\ q[1] = t
        /\ i \in 1..Len(log[q]) /\ log[q][i] \in Messages
  BY <1>1, HandledRecord
<1>3. PICK i \in 1..committed[q] :
        /\ handling[t] = <<q, i>> /\ q[1] = t
        /\ i \in 1..Len(log[q]) /\ log[q][i] \in Messages
  BY <1>2
<1> DEFINE m == log[q][i]
<1>4. \/ projection' = Projected(m) /\ UNCHANGED dropped
      \/ dropped' = dropped \cup {handling[t]} /\ UNCHANGED projection
  BY <1>3 DEF HandleUserEvent
<1>5. TypeOK
  BY DEF IInv
<1>6. projection \in [Users -> {"absent", "active", "deleted"}]
  BY <1>5 DEF TypeOK
<1>7. m.type \in {"USER_CREATED", "USER_UPDATED", "USER_DELETED"} => m.user \in Users
  BY <1>3 DEF Messages, Imported, Activity, Event
<1>8. m.user \in Users => m.user \in users
  <2>1. m.user # NoUser => m.user \in users
    BY <1>3 DEF IInv, LogNamesRegistered
  <2> QED
    BY <2>1, UserEventsAssumption
<1> HIDE DEF m
<1>9. \/ projection' = projection
      \/ m.user \in users /\ m.user \in Users
         /\ \E v \in {"active", "deleted"} : projection' = [projection EXCEPT ![m.user] = v]
  <2>1. CASE m.type \in {"USER_CREATED", "USER_UPDATED"}
    BY <2>1, <1>4, <1>7, <1>8 DEF Projected
  <2>2. CASE m.type = "USER_DELETED"
    BY <2>2, <1>4, <1>6, <1>7, <1>8 DEF Projected
  <2>3. CASE m.type \notin {"USER_CREATED", "USER_UPDATED", "USER_DELETED"}
    BY <2>3, <1>4 DEF Projected
  <2> QED
    BY <2>1, <2>2, <2>3
<1>10. projection' \in [Users -> {"absent", "active", "deleted"}]
       /\ \A u \in Users : projection[u] # "absent" => projection'[u] # "absent"
  BY <1>6, <1>9
<1>11. dropped \subseteq dropped' /\ dropped' \subseteq Records
  <2>1. dropped \subseteq Records /\ handling[t] \in Records
    BY <1>1, <1>5 DEF TypeOK
  <2> QED
    BY <2>1, <1>4
<1>12. TypeOK'
  BY <1>1, <1>5, <1>10, <1>11 DEF TypeOK, auth
<1>13. RequestsRegister' /\ LogNamesRegistered' /\ StoredIsCommitted' /\ NoDoubleRow'
       /\ SkippedIsDropped'
  BY <1>1, <1>11 DEF IInv, RequestsRegister, LogNamesRegistered, StoredIsCommitted, NoDoubleRow,
              SkippedIsDropped, auth
<1>14. HandledIsCommitted'
  <2>1. handling \in [Topics -> Records \cup {NoRecord}]
    BY <1>5 DEF TypeOK
  <2> QED
    BY <2>1, <1>1 DEF IInv, HandledIsCommitted, Handles
<1>15. LossAccounted'
  <2>1. \/ handling[t] \in dropped'
        \/ projection' = Projected(m)
    BY <1>4
  <2>2. ASSUME projection' = Projected(m), NEW r \in Queues, NEW j \in DOMAIN log[r],
               handling[t] = <<r, j>>, log[r][j].type = "USER_CREATED"
        PROVE  projection'[log[r][j].user] # "absent"
    <3>1. m = log[r][j]
      BY <2>2, <1>3 DEF m
    <3> QED
      BY <2>2, <3>1, <1>6, <1>7 DEF Projected
  <2> QED
    BY <2>1, <2>2, <1>1, <1>10, <1>11, HandlerEnds
<1> QED
  BY <1>9, <1>6, <1>10, <1>12, <1>13, <1>14, <1>15 DEF IInv

LEMMA InsertAuditLogStep ==
  ASSUME IInv, NEW t \in AuditTopics, InsertAuditLog(t)
  PROVE  IInv'
<1>1. /\ t \in Topics /\ t # UserTopic /\ handling[t] # NoRecord
      /\ handling' = [handling EXCEPT ![t] = NoRecord]
      /\ UNCHANGED <<auth, log, committed, running, position, projection>>
      /\ \/ audit' = Append(audit, handling[t]) /\ UNCHANGED dropped
         \/ dropped' = dropped \cup {handling[t]} /\ UNCHANGED audit
  BY UserEventsAssumption DEF InsertAuditLog, Topics
<1>2. PICK q \in Queues : \E i \in 1..committed[q] :
        /\ handling[t] = <<q, i>> /\ q[1] = t
        /\ \A n \in 1..Len(audit) : audit[n] # <<q, i>>
        /\ \A s \in Topics \ {t} : handling[s] # handling[t]
  BY <1>1, HandledRecord
<1>3. PICK i \in 1..committed[q] :
        /\ handling[t] = <<q, i>> /\ q[1] = t
        /\ \A n \in 1..Len(audit) : audit[n] # <<q, i>>
        /\ \A s \in Topics \ {t} : handling[s] # handling[t]
  BY <1>2
<1>4. TypeOK
  BY DEF IInv
<1> DEFINE r == handling[t]
<1>5. /\ audit \in Seq(Records) /\ r \in Records /\ dropped \subseteq Records
      /\ handling \in [Topics -> Records \cup {NoRecord}]
  BY <1>1, <1>4 DEF TypeOK
<1> HIDE DEF r
<1>6. Len(audit) \in Nat /\ DOMAIN audit = 1..Len(audit)
  BY <1>5, LenProperties
<1>7. \/ audit' = audit
      \/ /\ Len(audit') = Len(audit) + 1 /\ audit'[Len(audit) + 1] = r
         /\ \A n \in 1..Len(audit) : audit'[n] = audit[n]
  BY <1>1, <1>5, AppendProperties DEF r
<1>8. audit' \in Seq(Records) /\ dropped' \subseteq Records /\ dropped \subseteq dropped'
  BY <1>1, <1>5, AppendProperties DEF r
<1>9. TypeOK'
  BY <1>1, <1>4, <1>8 DEF TypeOK, auth
<1>10. RequestsRegister' /\ LogNamesRegistered' /\ SkippedIsDropped'
  BY <1>1, <1>8 DEF IInv, RequestsRegister, LogNamesRegistered, SkippedIsDropped, auth
<1>11. StoredIsCommitted'
  <2> SUFFICES ASSUME NEW n \in 1..Len(audit')
               PROVE  \E s \in Queues : \E j \in 1..committed[s] : audit'[n] = <<s, j>>
    BY <1>1 DEF StoredIsCommitted
  <2>1. CASE n \in 1..Len(audit) /\ audit'[n] = audit[n]
    BY <2>1 DEF IInv, StoredIsCommitted
  <2>2. CASE audit'[n] = r
    BY <2>2, <1>3 DEF r
  <2> QED
    BY <2>1, <2>2, <1>6, <1>7
<1>12. NoDoubleRow'
  <2>1. DOMAIN audit' = 1..Len(audit')
    BY <1>8, LenProperties
  <2>2. \A n \in 1..Len(audit) : audit[n] # r
    BY <1>3 DEF r
  <2>3. \A j, k \in 1..Len(audit) : audit[j] = audit[k] => j = k
    BY <1>6 DEF IInv, NoDoubleRow
  <2>4. ASSUME NEW j \in 1..Len(audit'), NEW k \in 1..Len(audit'), audit'[j] = audit'[k]
        PROVE  j = k
    BY <2>2, <2>3, <2>4, <1>6, <1>7
  <2> QED
    BY <2>1, <2>4 DEF NoDoubleRow
<1>13. HandledIsCommitted'
  <2> SUFFICES ASSUME NEW s \in Topics, handling'[s] # NoRecord PROVE Handles(s)'
    BY DEF HandledIsCommitted
  <2>1. s # t /\ handling'[s] = handling[s]
    BY <1>1, <1>5
  <2>2. PICK v \in Queues : \E j \in 1..committed[v] :
          /\ handling[s] = <<v, j>> /\ v[1] = s /\ running
          /\ \A n \in 1..Len(audit) : audit[n] # <<v, j>>
    BY <2>1 DEF IInv, HandledIsCommitted, Handles
  <2>3. PICK j \in 1..committed[v] :
          /\ handling[s] = <<v, j>> /\ v[1] = s /\ running
          /\ \A n \in 1..Len(audit) : audit[n] # <<v, j>>
    BY <2>2
  <2>4. \A n \in 1..Len(audit') : audit'[n] # <<v, j>>
    <3> SUFFICES ASSUME NEW n \in 1..Len(audit') PROVE audit'[n] # <<v, j>>
      OBVIOUS
    <3>1. r # <<v, j>>
      BY <2>1, <2>3, <1>3 DEF r
    <3>2. audit'[n] = r \/ (n \in 1..Len(audit) /\ audit'[n] = audit[n])
      BY <1>6, <1>7
    <3> QED
      BY <3>1, <3>2, <2>3
  <2> QED
    BY <2>1, <2>3, <2>4, <1>1 DEF Handles
<1>14. LossAccounted'
  <2>1. ASSUME NEW s \in Queues, NEW j \in DOMAIN log[s], handling[t] = <<s, j>>
        PROVE  log[s][j].type # "USER_CREATED"
    <3>1. s = q /\ j = i
      BY <2>1, <1>3
    <3>2. log[q] \in Seq(Messages) /\ j \in 1..Len(log[q]) /\ log[q][j] \in Messages
      BY <2>1, <3>1, <1>4, LenProperties DEF TypeOK
    <3>3. log[q][j].user = NoUser
      BY <3>2, <1>1, <1>3 DEF IInv, LogNamesRegistered
    <3> QED
      BY <3>1, <3>2, <3>3, UserEventsAssumption DEF Messages, Imported, Activity, Event
  <2> QED
    BY <2>1, <1>1, <1>8, HandlerEnds
<1> QED
  BY <1>9, <1>10, <1>11, <1>12, <1>13, <1>14 DEF IInv

-----------------------------------------------------------------------------
(* The theorems. *)

\* The invariant holds at first.
LEMMA InitIInv == Init => IInv
<1> SUFFICES ASSUME Init PROVE IInv
  OBVIOUS
<1>1. \A q \in Queues : log[q] = <<>> /\ Len(log[q]) = 0 /\ committed[q] = 0 /\ position[q] = 0
  BY DEF Init
<1>2. TypeOK
  <2>1. <<>> \in Seq(Messages) /\ <<>> \in Seq(Records)
    OBVIOUS
  <2>2. /\ log \in [Queues -> Seq(Messages)] /\ audit \in Seq(Records)
        /\ committed \in [Queues -> Nat] /\ position \in [Queues -> Nat]
    BY <2>1 DEF Init
  <2>3. /\ req \in [Procs -> [pc : {"idle", "insert", "publish"}, user : Users \cup {NoUser}]]
        /\ handling \in [Topics -> Records \cup {NoRecord}]
        /\ projection \in [Users -> {"absent", "active", "deleted"}]
    BY DEF Init, Idle
  <2>4. /\ users \subseteq Users /\ unsent \subseteq users /\ dropped \subseteq Records
        /\ running \in BOOLEAN /\ ~running
    BY DEF Init
  <2>5. \A q \in Queues : committed[q] <= Len(log[q]) /\ position[q] <= Len(log[q])
    BY <1>1
  <2> QED
    BY <2>2, <2>3, <2>4, <2>5 DEF TypeOK
<1>3. RequestsRegister /\ LogNamesRegistered /\ HandledIsCommitted /\ StoredIsCommitted
      /\ SkippedIsDropped /\ NoDoubleRow /\ LossAccounted
  BY <1>1 DEF Init, Idle, RequestsRegister, LogNamesRegistered, HandledIsCommitted,
              StoredIsCommitted, SkippedIsDropped, NoDoubleRow, LossAccounted
<1> QED
  BY <1>2, <1>3 DEF IInv

\* Every step keeps it.
LEMMA NextIInv == IInv /\ [Next]_vars => IInv'
<1> SUFFICES ASSUME IInv, [Next]_vars PROVE IInv'
  OBVIOUS
<1>1. ASSUME NEW p \in Procs, Begin(p) \/ Register(p) \/ Crash(p) PROVE IInv'
  BY <1>1, BeginStep, InsertStep, PublishStep, CrashStep DEF Register
<1>2. CASE PublishSummary
  BY <1>2, OtherSendStep DEF PublishSummary, Topics
<1>3. ASSUME NEW t \in AuditTopics, PublishActivity(t) PROVE IInv'
  BY <1>3, OtherSendStep DEF PublishActivity, Topics
<1>4. CASE Start
  BY <1>4, StartStep
<1>5. CASE Stop
  BY <1>5, StopStep
<1>6. ASSUME NEW t \in Topics, Consume(t) PROVE IInv'
  BY <1>6, ReadMessageStep, HandleUserEventStep, InsertAuditLogStep DEF Consume, Handle, Topics
<1>7. CASE UNCHANGED vars
  <2>1. /\ UNCHANGED <<log, committed, reader, tables, dropped>>
        /\ users' = users /\ unsent' = unsent /\ req' = req
    BY <1>7 DEF vars, auth
  <2>2. req' \in ReqType /\ users \subseteq Users /\ unsent \subseteq users
    BY <2>1 DEF IInv, TypeOK, ReqType
  <2>3. RequestsRegister' /\ \A u \in users : Publishing(u) => Publishing(u)'
    BY <2>1 DEF IInv, RequestsRegister, Publishing
  <2> QED
    BY <2>1, <2>2, <2>3, AuthStep
<1> QED
  BY <1>1, <1>2, <1>3, <1>4, <1>5, <1>6, <1>7 DEF Next

\* The invariant holds throughout: between the INSERT of a user and its row in
\* the projection, each request, message and record in hand is accounted for.
THEOREM Invariance == Spec => []IInv
<1>1. Init => IInv
  BY InitIInv
<1>2. IInv /\ [Next]_vars => IInv'
  BY NextIInv
<1> QED
  BY <1>1, <1>2, PTL DEF Spec

\* Types, and no group's offset runs ahead of the log or of its reader.
THEOREM Typed == Spec => []TypeOK
<1>1. IInv => TypeOK
  BY DEF IInv
<1> QED
  BY <1>1, Invariance, PTL

\* Crashes and restarts store no record twice in the audit log.
THEOREM StoredOnce == Spec => []NoDoubleRow
<1>1. IInv => NoDoubleRow
  BY DEF IInv
<1> QED
  BY <1>1, Invariance, PTL

\* A registered user is missing from the projection only while the event is on
\* its way, or because it was lost in one of the ways named.
THEOREM LossesAccounted == Spec => []LossAccounted
<1>1. IInv => LossAccounted
  BY DEF IInv
<1> QED
  BY <1>1, Invariance, PTL

\* The event path implements Directory: core-service comes to know registered
\* users only, and forgets none.
THEOREM ImplementsDirectory == Spec => DirectorySpec
<1> DEFINE known == {u \in Users : projection[u] # "absent"}
<1>1. Init => Dir!Init
  BY DEF Init, Dir!Init
<1>2. IInv /\ [Next]_vars => [Dir!Next]_<<users, known>>
  <2> SUFFICES ASSUME IInv, [Next]_vars PROVE Dir!Next \/ UNCHANGED <<users, known>>
    OBVIOUS
  <2>1. CASE HandleUserEvent
    <3>1. users' = users
      BY <2>1 DEF HandleUserEvent, auth
    <3>2. /\ projection' # projection =>
               \E u \in users : projection' = [projection EXCEPT ![u] = projection'[u]]
          /\ \A u \in Users : projection[u] # "absent" => projection'[u] # "absent"
      BY <2>1, HandleUserEventStep
    <3>3. projection \in [Users -> {"absent", "active", "deleted"}] /\ users \subseteq Users
      BY DEF IInv, TypeOK
    <3>4. CASE projection' = projection
      BY <3>1, <3>4
    <3>5. CASE projection' # projection
      <4>1. PICK u \in users : projection' = [projection EXCEPT ![u] = projection'[u]]
        BY <3>2, <3>5
      <4>2. u \in Users /\ \A v \in Users \ {u} : projection'[v] = projection[v]
        BY <4>1, <3>3
      <4>3. CASE u \in known
        <5>1. known' = known
          BY <4>2, <4>3, <3>2
        <5> QED
          BY <5>1, <3>1
      <4>4. CASE u \notin known /\ projection'[u] # "absent"
        <5>1. known' = known \cup {u}
          BY <4>2, <4>4
        <5>2. Dir!Learn(u)
          BY <5>1, <3>1, <4>1, <4>4 DEF Dir!Learn
        <5> QED
          BY <5>2, <4>2 DEF Dir!Next
      <4>5. CASE u \notin known /\ projection'[u] = "absent"
        <5>1. known' = known
          BY <4>2, <4>5
        <5> QED
          BY <5>1, <3>1
      <4> QED
        BY <4>3, <4>4, <4>5
    <3> QED
      BY <3>4, <3>5
  <2>2. ASSUME NEW p \in Procs, Insert(p) PROVE Dir!Next \/ UNCHANGED <<users, known>>
    <3> DEFINE u == req[p].user
    <3>1. projection' = projection
      BY <2>2 DEF Insert, tables
    <3>2. u \in Users
      BY <2>2 DEF Insert, IInv, RequestsRegister
    <3>3. users' = users \/ (u \notin users /\ users' = users \cup {u})
      BY <2>2 DEF Insert
    <3>4. u \notin users /\ users' = users \cup {u} => Dir!Register(u)
      BY <3>1 DEF Dir!Register
    <3> QED
      BY <3>1, <3>2, <3>3, <3>4 DEF Dir!Next
  <2>3. CASE UNCHANGED <<users, projection>>
    BY <2>3
  <2>4. \/ HandleUserEvent \/ (\E p \in Procs : Insert(p)) \/ UNCHANGED <<users, projection>>
    BY DEF Next, vars, auth, tables, Begin, Register, Publish, Crash, PublishSummary,
           PublishActivity, Start, Stop, Consume, Handle, ReadMessage, InsertAuditLog
  <2> QED
    BY <2>1, <2>2, <2>3, <2>4
<1> QED
  BY <1>1, <1>2, Invariance, PTL DEF Spec, DirectorySpec, Dir!Spec
=============================================================================

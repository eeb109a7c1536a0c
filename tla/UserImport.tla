----------------------------- MODULE UserImport -----------------------------
(***************************************************************************)
(* The bulk import of auth-service: ImportFromCSV parses a file, hands its *)
(* rows to a pool of goroutines over one channel, collects their results   *)
(* from another and publishes a summary.  Each worker registers its rows,  *)
(* one INSERT and one event on user.events per row, through the Kafka      *)
(* producer that all of them share.  One step is one channel operation,    *)
(* one critical section of the producer or one external call.              *)
(***************************************************************************)
EXTENDS Integers, Sequences, FiniteSets

CONSTANTS
  N,          \* rows of the file
  Emails,
  EmailOf,    \* row -> email
  BadRows,    \* the sets of rows that may be malformed, {} for a clean file
  Requested,  \* the query parameter workers, 0 when absent
  Default,    \* WithWorkers (IMPORT_WORKERS)
  Outsiders,  \* emails that POST /users may register meanwhile
  Faults      \* which of "db", "kafka" may fail

Rows == 1..N
NoRow == 0
Main == 0

\* The size of the pool.
Asked == IF Requested <= 0 THEN Default ELSE Requested
Pool == IF Asked > N /\ N > 0 THEN N ELSE Asked
Workers == 1..Pool
Procs == Workers \cup {Main}

ASSUME UserImportAssumption ==
  /\ N \in Nat /\ Requested \in Int /\ Default \in Nat \ {0}
  /\ EmailOf \in [Rows -> Emails]
  /\ BadRows \subseteq SUBSET Rows
  /\ Outsiders \subseteq Emails
  /\ Faults \subseteq {"db", "kafka"}

VARIABLES
  users,      \* table users: registered emails
  jobs,       \* channel of rows
  results,    \* channel of <<row, succeeded>>
  pc,
  row,        \* what a worker registers; the next row the main goroutine pushes
  ok,         \* worker -> whether its row was registered
  summary,    \* the result being aggregated
  cancelled,  \* the client has gone
  registered, \* whether the producer's map holds a writer for user.events
  opened,     \* writers opened for user.events
  topic,      \* user.events: the events of this import in order
  malformed,  \* rows of the file with a wrong number of fields
  stored      \* history: rows whose INSERT took effect

channels == <<jobs, results>>
producer == <<registered, opened, topic>>
vars == <<users, channels, pc, row, ok, summary, cancelled, producer, malformed, stored>>

-----------------------------------------------------------------------------
At(p, label) == pc[p] = label
Goto(p, label) == pc' = [pc EXCEPT ![p] = label]

\* The channels hold a whole file.
MutUnbuffered == 1
JobsCap == N
ResultsCap == N

JobsClosed == pc[Main] \notin {"parse", "push"}

MutClosedWhenNoJobs == JobsClosed /\ jobs = <<>>
\* wg.Wait, then close(results).
ResultsClosed == \A w \in Workers : At(w, "exited")

-----------------------------------------------------------------------------
(* The goroutine that serves POST /import-users *)

\* parseCSV gives up on the first malformed row; otherwise the workers start.
Parse ==
  /\ At(Main, "parse")
  /\ \E bad \in BadRows :
       /\ malformed' = bad
       /\ pc' = [p \in Procs |-> CASE bad # {} /\ p = Main -> "refused"
                                   [] bad # {} /\ p # Main -> "exited"
                                   [] bad = {} /\ p = Main -> IF N = 0 THEN "collect" ELSE "push"
                                   [] OTHER -> "take"]
  /\ UNCHANGED <<users, channels, row, ok, summary, cancelled, producer, stored>>

MutOneTooMany(r) == r = N + 1
LastRow(r) == r = N

\* The channel is closed after the last row.
Push ==
  /\ At(Main, "push")
  /\ Len(jobs) < JobsCap
  /\ jobs' = Append(jobs, row[Main])
  /\ row' = [row EXCEPT ![Main] = @ + 1]
  /\ IF LastRow(row[Main]) THEN Goto(Main, "collect") ELSE UNCHANGED pc
  /\ UNCHANGED <<users, results, ok, summary, cancelled, producer, malformed, stored>>

\* The errors are sorted by row in the end: a set of rows stands for them.
Collect ==
  LET r == Head(results) IN
  /\ At(Main, "collect")
  /\ results # <<>>
  /\ results' = Tail(results)
  /\ summary' = IF r[2] THEN [summary EXCEPT !.succeeded = @ + 1]
                ELSE [summary EXCEPT !.failed = @ + 1, !.errors = @ \cup {r[1]}]
  /\ UNCHANGED <<users, jobs, pc, row, ok, cancelled, producer, malformed, stored>>

Collected ==
  /\ At(Main, "collect")
  /\ results = <<>> /\ ResultsClosed
  /\ Goto(Main, "lookup")
  /\ UNCHANGED <<users, channels, row, ok, summary, cancelled, producer, malformed, stored>>

-----------------------------------------------------------------------------
(* importWorker and Register *)

\* A worker that finds the request cancelled reports its row and quits.
Take(w) ==
  /\ At(w, "take")
  /\ jobs # <<>>
  /\ jobs' = Tail(jobs)
  /\ row' = [row EXCEPT ![w] = Head(jobs)]
  /\ ok' = [ok EXCEPT ![w] = FALSE]
  /\ Goto(w, IF cancelled THEN "quit" ELSE "insert")
  /\ UNCHANGED <<users, results, summary, cancelled, producer, malformed, stored>>

Exit(w) ==
  /\ At(w, "take")
  /\ jobs = <<>> /\ JobsClosed
  /\ Goto(w, "exited")
  /\ UNCHANGED <<users, channels, row, ok, summary, cancelled, producer, malformed, stored>>

\* A query fails when the request is cancelled or the database breaks; the
\* INSERT may have taken effect all the same.
MayFail == cancelled \/ "db" \in Faults

MutUnannounced == "report"
AfterInsert == "lookup"

Insert(w) ==
  LET email == EmailOf[row[w]] IN
  /\ At(w, "insert")
  /\ \/ /\ email \notin users
        /\ users' = users \cup {email}
        /\ stored' = stored \cup {row[w]}
        /\ \E acked \in IF MayFail THEN BOOLEAN ELSE {TRUE} :
             /\ ok' = [ok EXCEPT ![w] = acked]
             /\ Goto(w, IF acked THEN AfterInsert ELSE "report")
     \/ /\ email \in users \/ MayFail
        /\ Goto(w, "report")
        /\ UNCHANGED <<users, stored, ok>>
  /\ UNCHANGED <<channels, row, summary, cancelled, producer, malformed>>

Report(w) ==
  /\ pc[w] \in {"report", "quit"}
  /\ Len(results) < ResultsCap
  /\ results' = Append(results, <<row[w], ok[w]>>)
  /\ Goto(w, IF At(w, "quit") THEN "exited" ELSE "take")
  /\ UNCHANGED <<users, jobs, row, ok, summary, cancelled, producer, malformed, stored>>

-----------------------------------------------------------------------------
(* KafkaProducer.Publish, by a worker or by the main goroutine; the call is
   detached from the request's cancellation. *)

\* Under the read lock.
Lookup(p) ==
  /\ At(p, "lookup")
  /\ Goto(p, IF registered THEN "send" ELSE "open")
  /\ UNCHANGED <<users, channels, row, ok, summary, cancelled, producer, malformed, stored>>

MutNoSecondLook == FALSE
SecondLook == registered

\* Under the write lock: somebody else may have opened the writer meanwhile.
Open(p) ==
  /\ At(p, "open")
  /\ opened' = IF SecondLook THEN opened ELSE opened + 1
  /\ registered' = TRUE
  /\ Goto(p, "send")
  /\ UNCHANGED <<users, channels, row, ok, summary, cancelled, topic, malformed, stored>>

EventOf(p) == IF p = Main THEN <<"USERS_IMPORTED", summary.succeeded, summary.failed>>
              ELSE <<"USER_CREATED", row[p]>>

\* An error is only logged.
Send(p) ==
  /\ At(p, "send")
  /\ \E sent \in IF "kafka" \in Faults THEN BOOLEAN ELSE {TRUE} :
       topic' = IF sent THEN Append(topic, EventOf(p)) ELSE topic
  /\ Goto(p, IF p = Main THEN "returned" ELSE "report")
  /\ UNCHANGED <<users, channels, row, ok, summary, cancelled, registered, opened, malformed, stored>>

-----------------------------------------------------------------------------
(* The environment. *)

Cancel ==
  /\ ~cancelled /\ pc[Main] \notin {"refused", "returned"}
  /\ cancelled' = TRUE
  /\ UNCHANGED <<users, channels, pc, row, ok, summary, producer, malformed, stored>>

\* POST /users registers somebody who may be in the file as well.
RegisterElsewhere ==
  /\ \E e \in Outsiders \ users : users' = users \cup {e}
  /\ UNCHANGED <<channels, pc, row, ok, summary, cancelled, producer, malformed, stored>>

-----------------------------------------------------------------------------
(* The specification. *)

Init ==
  /\ users = {}
  /\ jobs = <<>> /\ results = <<>>
  /\ pc = [p \in Procs |-> IF p = Main THEN "parse" ELSE "start"]
  /\ row = [p \in Procs |-> IF p = Main THEN 1 ELSE NoRow]
  /\ ok = [w \in Workers |-> FALSE]
  /\ summary = [succeeded |-> 0, failed |-> 0, errors |-> {}]
  /\ cancelled = FALSE
  /\ registered = FALSE /\ opened = 0
  /\ topic = <<>>
  /\ malformed = {}
  /\ stored = {}

Serve == Parse \/ Push \/ Collect \/ Collected
importWorker(w) == Take(w) \/ Exit(w) \/ Insert(w) \/ Report(w)
Publish(p) == Lookup(p) \/ Open(p) \/ Send(p)

Next ==
  \/ Serve
  \/ \E w \in Workers : importWorker(w)
  \/ \E p \in Procs : Publish(p)
  \/ Cancel
  \/ RegisterElsewhere

Spec == Init /\ [][Next]_vars

\* The Go scheduler runs every goroutine, and every external call returns.
Fairness ==
  /\ WF_vars(Serve \/ Publish(Main))
  /\ \A w \in Workers : WF_vars(importWorker(w) \/ Publish(w))

FairSpec == Spec /\ Fairness

-----------------------------------------------------------------------------
(* Properties. *)

Labels == {"start", "parse", "push", "collect", "lookup", "open", "send", "returned",
           "refused", "take", "insert", "report", "quit", "exited"}

Aggregated == pc[Main] \in {"lookup", "open", "send", "returned"}

\* Types of the table, the channels, the goroutines, the summary and the topic;
\* the producer's map holds a writer as soon as one was opened.
TypeOK ==
  /\ users \subseteq Emails
  /\ jobs \in Seq(Rows) /\ results \in Seq(Rows \X BOOLEAN)
  /\ pc \in [Procs -> Labels]
  /\ row \in [Procs -> 0..N + 1]
  /\ ok \in [Workers -> BOOLEAN]
  /\ summary \in [succeeded : 0..N, failed : 0..N, errors : SUBSET Rows]
  /\ cancelled \in BOOLEAN
  /\ opened \in Nat /\ registered = (opened > 0)
  /\ topic \in Seq({"USER_CREATED"} \X Rows \cup {"USERS_IMPORTED"} \X (0..N) \X (0..N))
  /\ malformed \in BadRows \cup {{}} /\ stored \subseteq Rows

\* The summary is exact about what is in the database: a user the import
\* stored is either counted as a success or its row is among the errors (the
\* answer of the INSERT was lost), no row is reported twice, and unless the
\* client went away every row is reported.  A file refused for a malformed row
\* leaves no user behind (service.go:144-147, 174-185, 222-224, 247-266).
SummaryIsExact ==
  /\ pc[Main] = "refused" => stored = {}
  /\ Aggregated =>
       /\ summary.succeeded = Cardinality(stored \ summary.errors)
       /\ summary.failed = Cardinality(summary.errors)
       /\ ~cancelled => summary.succeeded + summary.failed = N

Announced == {topic[i][2] : i \in {j \in DOMAIN topic : topic[j][1] = "USER_CREATED"}}

\* When Kafka takes every event, the users counted as successes are those
\* announced, each once, and all of them before USERS_IMPORTED is
\* (service.go:105, 191).
AnnouncedBeforeSummary ==
  \A i \in DOMAIN topic : topic[i][1] = "USERS_IMPORTED" =>
    /\ i = Len(topic)
    /\ Announced = stored \ summary.errors
    /\ Len(topic) = Cardinality(Announced) + 1

\* Nobody ever waits to send on a channel, however many workers quit or lag
\* behind: every row is in one place at a time, and each channel has room for
\* all of them (service.go:155-156, 165, 263).
NobodyBlocks ==
  /\ At(Main, "push") => Len(jobs) < JobsCap
  /\ \A w \in Workers : pc[w] \in {"report", "quit"} => Len(results) < ResultsCap

\* However the goroutines race to publish first, one writer is opened for the
\* topic; another would never be closed (kafka_producer.go:30-45).
OneWriter == opened <= 1

\* The import always ends: nobody waits for ever on a channel, not even the
\* pushing goroutine after every worker has quit (service.go:155-172).
EventuallyReturns == <>(pc[Main] \in {"refused", "returned"})
=============================================================================

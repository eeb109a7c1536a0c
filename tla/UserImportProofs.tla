-------------------------- MODULE UserImportProofs ---------------------------
(***************************************************************************)
(* What UserImport promises for a file of any length and a pool of any     *)
(* size, with any faults.                                                  *)
(***************************************************************************)
EXTENDS UserImport, FiniteSetTheorems, SequenceTheorems, TLAPS

(* The inductive invariant: a row that was pushed is in one place, a channel, a
   worker or the summary, so the rows pushed bound what the channels hold. *)

Held == {"insert", "lookup", "open", "send", "report", "quit"}
Holders == {w \in Workers : pc[w] \in Held}

Placed == Len(jobs) + Cardinality(Holders) + Len(results) + summary.succeeded + summary.failed

RowsPlaced == Placed = row[Main] - 1

\* Where the goroutines can be, and what they hold there.
Places ==
  /\ pc[Main] \in {"parse", "push", "collect", "lookup", "open", "send", "returned", "refused"}
  /\ row[Main] \in 1..N + 1
  /\ At(Main, "push") => row[Main] <= N
  /\ At(Main, "parse") => row[Main] = 1 /\ \A w \in Workers : At(w, "start")
  /\ \A w \in Workers : /\ pc[w] \in Held \cup {"start", "take", "exited"}
                        /\ pc[w] \in Held => row[w] \in Rows

IInv == TypeOK /\ Places /\ RowsPlaced /\ OneWriter

-----------------------------------------------------------------------------
(* Lemmas. *)

\* The pool is finite, and the main goroutine is not in it.
LEMMA PoolFacts ==
  /\ Pool \in Nat /\ IsFiniteSet(Workers) /\ Main \notin Workers /\ Workers \subseteq Procs
  /\ Main \in Procs
<1>1. Pool \in Nat
  BY UserImportAssumption DEF Pool, Asked
<1> QED
  BY <1>1, FS_Interval DEF Workers, Procs, Main

\* The terms of the sum are natural numbers.
LEMMA Terms ==
  ASSUME TypeOK
  PROVE  /\ IsFiniteSet(Holders) /\ Cardinality(Holders) \in Nat
         /\ Len(jobs) \in Nat /\ Len(results) \in Nat
         /\ summary.succeeded \in Nat /\ summary.failed \in Nat /\ N \in Nat
         /\ jobs # <<>> => Len(jobs) > 0
         /\ results # <<>> => Len(results) > 0
<1>1. Holders \subseteq Workers
  BY DEF Holders
<1>2. IsFiniteSet(Holders) /\ Cardinality(Holders) \in Nat
  BY <1>1, PoolFacts, FS_Subset, FS_CardinalityType
<1>3. /\ Len(jobs) \in Nat /\ Len(results) \in Nat
      /\ jobs # <<>> => Len(jobs) > 0
      /\ results # <<>> => Len(results) > 0
  BY LenProperties, EmptySeq DEF TypeOK
<1> QED
  BY <1>2, <1>3, UserImportAssumption DEF TypeOK

\* What a move of one worker does to the number of holders.
LEMMA HoldersChange ==
  ASSUME TypeOK, NEW w \in Workers, \A q \in Workers \ {w} : pc'[q] = pc[q]
  PROVE  Cardinality(Holders') = Cardinality(Holders)
                                   + (IF pc'[w] \in Held THEN 1 ELSE 0)
                                   - (IF pc[w] \in Held THEN 1 ELSE 0)
<1> DEFINE A == Holders
           B == Holders'
<1>1. IsFiniteSet(A) /\ Cardinality(A) \in Nat
  BY Terms
<1>2. CASE pc'[w] \in Held /\ pc[w] \notin Held
  <2>1. B = A \cup {w} /\ w \notin A
    BY <1>2 DEF Holders
  <2> HIDE DEF A, B
  <2>2. Cardinality(B) = Cardinality(A) + 1
    BY <2>1, <1>1, FS_AddElement
  <2> QED
    BY <2>2, <1>1, <1>2 DEF A, B
<1>3. CASE pc'[w] \notin Held /\ pc[w] \in Held
  <2>1. B = A \ {w} /\ w \in A
    BY <1>3 DEF Holders
  <2> HIDE DEF A, B
  <2>2. Cardinality(B) = Cardinality(A) - 1
    BY <2>1, <1>1, FS_RemoveElement
  <2> QED
    BY <2>2, <1>1, <1>3 DEF A, B
<1>4. CASE pc'[w] \in Held <=> pc[w] \in Held
  <2>1. B = A
    BY <1>4 DEF Holders
  <2> QED
    BY <2>1, <1>1, <1>4
<1> QED
  BY <1>2, <1>3, <1>4

\* A step moves one goroutine.
LEMMA GotoMoves ==
  ASSUME TypeOK, NEW p \in Procs, NEW label \in Labels, Goto(p, label)
  PROVE  /\ pc' \in [Procs -> Labels] /\ pc'[p] = label
         /\ \A q \in Procs \ {p} : pc'[q] = pc[q]
  BY DEF TypeOK, Goto

-----------------------------------------------------------------------------
(* The steps of the main goroutine. *)

LEMMA ParseStep ==
  ASSUME IInv, Parse
  PROVE  IInv'
<1>1. TypeOK /\ Places /\ RowsPlaced /\ At(Main, "parse")
  BY DEF IInv, Parse
<1>2. PICK bad \in BadRows :
        /\ malformed' = bad
        /\ pc' = [p \in Procs |-> CASE bad # {} /\ p = Main -> "refused"
                                    [] bad # {} /\ p # Main -> "exited"
                                    [] bad = {} /\ p = Main -> IF N = 0 THEN "collect" ELSE "push"
                                    [] OTHER -> "take"]
  BY DEF Parse
<1>3. UNCHANGED <<users, channels, row, ok, summary, cancelled, producer, stored>>
  BY DEF Parse
<1>4. /\ pc'[Main] \in {"refused", "collect", "push"}
      /\ pc'[Main] = "push" => N # 0
      /\ \A w \in Workers : pc'[w] \in {"exited", "take"}
  BY <1>2, PoolFacts
<1>5. pc' \in [Procs -> Labels]
  BY <1>2 DEF Labels
<1>6. TypeOK'
  BY <1>1, <1>2, <1>3, <1>5 DEF TypeOK, channels, producer
<1>7. Places'
  <2>1. row' = row /\ row[Main] = 1 /\ N \in Nat
    BY <1>1, <1>3, UserImportAssumption DEF Places
  <2> QED
    BY <1>4, <2>1 DEF Places, At, Held
<1>8. Holders' = {} /\ Holders = {}
  BY <1>1, <1>4 DEF Holders, Places, At, Held
<1>9. RowsPlaced'
  BY <1>1, <1>3, <1>8 DEF RowsPlaced, Placed, channels
<1>10. OneWriter'
  BY <1>3 DEF IInv, OneWriter, producer
<1> QED
  BY <1>6, <1>7, <1>9, <1>10 DEF IInv

LEMMA PushStep ==
  ASSUME IInv, Push
  PROVE  IInv'
<1>1. TypeOK /\ Places /\ RowsPlaced /\ At(Main, "push") /\ row[Main] \in Rows /\ N \in Nat
  BY UserImportAssumption DEF IInv, Push, Places, Rows
<1>2. /\ jobs' = Append(jobs, row[Main]) /\ row' = [row EXCEPT ![Main] = @ + 1]
      /\ pc' = IF LastRow(row[Main]) THEN [pc EXCEPT ![Main] = "collect"] ELSE pc
      /\ UNCHANGED <<users, results, ok, summary, cancelled, producer, malformed, stored>>
  BY DEF Push, Goto
<1>3. jobs' \in Seq(Rows) /\ Len(jobs') = Len(jobs) + 1
  BY <1>1, <1>2, AppendProperties DEF TypeOK
<1>4. row' \in [Procs -> 0..N + 1] /\ row'[Main] = row[Main] + 1
      /\ \A w \in Workers : row'[w] = row[w]
  BY <1>1, <1>2, PoolFacts DEF TypeOK, Rows
<1>5. /\ pc' \in [Procs -> Labels] /\ \A w \in Workers : pc'[w] = pc[w]
      /\ pc'[Main] = IF row[Main] = N THEN "collect" ELSE "push"
  BY <1>1, <1>2, PoolFacts DEF TypeOK, Labels, LastRow, At
<1>6. TypeOK'
  BY <1>1, <1>2, <1>3, <1>4, <1>5 DEF TypeOK, producer
<1>7. Places'
  BY <1>1, <1>4, <1>5 DEF Places, At, Rows
<1>8. Holders' = Holders /\ Cardinality(Holders)' = Cardinality(Holders)
  BY <1>5 DEF Holders
<1>9. RowsPlaced'
  <2>1. results' = results /\ summary' = summary
    BY <1>2
  <2>2. Placed' = Placed + 1
    BY <1>1, <1>3, <1>8, <2>1, Terms DEF Placed
  <2>3. row'[Main] - 1 = (row[Main] - 1) + 1
    BY <1>1, <1>4 DEF Rows
  <2> QED
    BY <1>1, <2>2, <2>3 DEF RowsPlaced
<1>10. OneWriter'
  BY <1>2 DEF IInv, OneWriter, producer
<1> QED
  BY <1>6, <1>7, <1>9, <1>10 DEF IInv

LEMMA CollectStep ==
  ASSUME IInv, Collect
  PROVE  IInv'
<1> DEFINE r == Head(results)
<1>1. TypeOK /\ Places /\ RowsPlaced /\ results # <<>>
  BY DEF IInv, Collect
<1>2. /\ results' = Tail(results)
      /\ summary' = IF r[2] THEN [summary EXCEPT !.succeeded = @ + 1]
                    ELSE [summary EXCEPT !.failed = @ + 1, !.errors = @ \cup {r[1]}]
      /\ UNCHANGED <<users, jobs, pc, row, ok, cancelled, producer, malformed, stored>>
  BY DEF Collect
<1>3. r \in Rows \X BOOLEAN /\ results' \in Seq(Rows \X BOOLEAN) /\ Len(results') = Len(results) - 1
  BY <1>1, <1>2, HeadTailProperties DEF TypeOK
<1>4. summary \in [succeeded : 0..N, failed : 0..N, errors : SUBSET Rows]
  BY <1>1 DEF TypeOK
<1>5. /\ \/ /\ summary'.succeeded = summary.succeeded + 1 /\ summary'.failed = summary.failed
            /\ summary'.errors = summary.errors
         \/ /\ summary'.succeeded = summary.succeeded /\ summary'.failed = summary.failed + 1
            /\ summary'.errors = summary.errors \cup {r[1]}
      /\ summary' = [succeeded |-> summary'.succeeded, failed |-> summary'.failed,
                     errors |-> summary'.errors]
  BY <1>2, <1>4
<1>6. summary.succeeded + summary.failed < N
  <2>1. Len(results) > 0 /\ row[Main] - 1 <= N /\ row[Main] - 1 \in Int
    BY <1>1, Terms DEF Places
  <2> QED
    BY <1>1, <2>1, Terms DEF RowsPlaced, Placed
<1>7. summary' \in [succeeded : 0..N, failed : 0..N, errors : SUBSET Rows]
  BY <1>3, <1>4, <1>5, <1>6, UserImportAssumption
<1>8. TypeOK'
  BY <1>1, <1>2, <1>3, <1>7 DEF TypeOK, producer
<1>9. Places'
  BY <1>1, <1>2 DEF Places, At
<1>10. RowsPlaced'
  <2>1. Holders' = Holders /\ Cardinality(Holders)' = Cardinality(Holders)
    BY <1>2 DEF Holders
  <2>2. row' = row /\ jobs' = jobs
    BY <1>2
  <2>3. Placed' = Placed
    <3>1. summary'.succeeded + summary'.failed = summary.succeeded + summary.failed + 1
          /\ summary'.succeeded \in Int /\ summary'.failed \in Int
      BY <1>1, <1>5, Terms
    <3>2. Len(results') = Len(results) - 1
      BY <1>3
    <3>3. Len(jobs') = Len(jobs)
      BY <2>2
    <3> DEFINE c == Cardinality(Holders)
               f == summary.succeeded + summary.failed
    <3>4. Placed = Len(jobs) + c + Len(results) + f
      BY <1>1, Terms DEF Placed
    <3>5. Placed' = Len(jobs') + c + Len(results') + summary'.succeeded + summary'.failed
      BY <2>1 DEF Placed
    <3>6. c \in Nat /\ f \in Nat /\ Len(jobs) \in Nat /\ Len(results) \in Nat
      BY <1>1, Terms
    <3> HIDE DEF c, f
    <3>7. summary'.succeeded + summary'.failed = f + 1
      BY <3>1 DEF f
    <3> QED
      BY <3>1, <3>2, <3>3, <3>4, <3>5, <3>6, <3>7
  <2> QED
    BY <1>1, <2>2, <2>3 DEF RowsPlaced
<1>11. OneWriter'
  BY <1>2 DEF IInv, OneWriter, producer
<1> QED
  BY <1>8, <1>9, <1>10, <1>11 DEF IInv

-----------------------------------------------------------------------------
(* The steps of the workers. *)

\* A step of a worker that leaves the main goroutine and the summary alone and opens
\* no second writer preserves the invariant when it moves the row that it takes or reports.
LEMMA WorkerMoves ==
  ASSUME IInv, NEW w \in Workers, TypeOK', summary' = summary, OneWriter',
         pc[w] # "start",
         pc'[w] \in Held \cup {"take", "exited"}, pc'[w] \in Held => row'[w] \in Rows,
         \A q \in Procs \ {w} : pc'[q] = pc[q] /\ row'[q] = row[q],
         Len(jobs') + Len(results') + (IF pc'[w] \in Held THEN 1 ELSE 0)
           = Len(jobs) + Len(results) + (IF pc[w] \in Held THEN 1 ELSE 0)
  PROVE  IInv'
<1>1. TypeOK /\ Places /\ RowsPlaced
  BY DEF IInv
<1>2. Main \in Procs \ {w} /\ Workers \ {w} \subseteq Procs \ {w}
  BY PoolFacts
<1>3. Places'
  BY <1>1, <1>2 DEF Places, At
<1>4. RowsPlaced'
  <2>1. Cardinality(Holders)' = Cardinality(Holders) + (IF pc'[w] \in Held THEN 1 ELSE 0)
                                  - (IF pc[w] \in Held THEN 1 ELSE 0)
    BY <1>1, <1>2, HoldersChange
  <2>2. Len(jobs') \in Nat /\ Len(results') \in Nat
    BY LenProperties DEF TypeOK
  <2>3. Placed' = Placed
    <3> DEFINE c == Cardinality(Holders)
               d == Cardinality(Holders)'
               held == IF pc[w] \in Held THEN 1 ELSE 0
               held2 == IF pc'[w] \in Held THEN 1 ELSE 0
               f == summary.succeeded + summary.failed
    <3>1. Placed = Len(jobs) + c + Len(results) + f
      BY <1>1, Terms DEF Placed
    <3>2. c \in Nat /\ f \in Nat /\ Len(jobs) \in Nat /\ Len(results) \in Nat
          /\ held \in {0, 1} /\ held2 \in {0, 1}
      BY <1>1, Terms
    <3>3. d = c + held2 - held
          /\ Len(jobs') + Len(results') + held2 = Len(jobs) + Len(results) + held
      BY <2>1
    <3>4. d \in Int
      BY <3>2, <3>3
    <3>5. Placed' = Len(jobs') + d + Len(results') + f
      BY <1>1, <2>2, <3>4, Terms DEF Placed
    <3> HIDE DEF c, d, f, held, held2
    <3> QED
      BY <2>2, <3>1, <3>2, <3>3, <3>4, <3>5
  <2>4. row'[Main] = row[Main]
    BY <1>2
  <2> QED
    BY <1>1, <2>3, <2>4 DEF RowsPlaced
<1> QED
  BY <1>3, <1>4 DEF IInv

LEMMA TakeStep ==
  ASSUME IInv, NEW w \in Workers, Take(w)
  PROVE  IInv'
<1>1. TypeOK /\ jobs # <<>> /\ pc[w] = "take" /\ w \in Procs
  BY PoolFacts DEF IInv, Take, At
<1>2. /\ jobs' = Tail(jobs) /\ row' = [row EXCEPT ![w] = Head(jobs)]
      /\ ok' = [ok EXCEPT ![w] = FALSE]
      /\ UNCHANGED <<users, results, summary, cancelled, producer, malformed, stored>>
  BY DEF Take
<1>3. PICK label \in {"quit", "insert"} : Goto(w, label)
  BY DEF Take
<1>4. Head(jobs) \in Rows /\ jobs' \in Seq(Rows) /\ Len(jobs') = Len(jobs) - 1
  BY <1>1, <1>2, HeadTailProperties DEF TypeOK
<1>5. /\ pc' \in [Procs -> Labels] /\ pc'[w] = label
      /\ \A q \in Procs \ {w} : pc'[q] = pc[q]
  BY <1>1, <1>3, GotoMoves DEF Labels
<1>6. row' \in [Procs -> 0..N + 1] /\ row'[w] \in Rows /\ \A q \in Procs \ {w} : row'[q] = row[q]
  BY <1>1, <1>2, <1>4, UserImportAssumption DEF TypeOK, Rows
<1>7. TypeOK'
  BY <1>1, <1>2, <1>4, <1>5, <1>6 DEF TypeOK, producer
<1>8. UNCHANGED <<results, summary>> /\ OneWriter'
  BY <1>2 DEF producer, IInv, OneWriter
<1>9. Len(jobs') + Len(results') + 1 = Len(jobs) + Len(results)
  BY <1>1, <1>4, <1>8, Terms
<1>10. label \in Held /\ "take" \notin Held
  BY DEF Held
<1>11. Len(jobs') + Len(results') + (IF pc'[w] \in Held THEN 1 ELSE 0)
         = Len(jobs) + Len(results) + (IF pc[w] \in Held THEN 1 ELSE 0)
  BY <1>1, <1>5, <1>9, <1>10, Terms
<1> QED
  BY <1>1, <1>5, <1>6, <1>7, <1>8, <1>10, <1>11, WorkerMoves

LEMMA ExitStep ==
  ASSUME IInv, NEW w \in Workers, Exit(w)
  PROVE  IInv'
<1>1. TypeOK /\ pc[w] = "take" /\ w \in Procs
  BY PoolFacts DEF IInv, Exit, At
<1>2. UNCHANGED <<users, jobs, results, row, ok, summary, cancelled, producer, malformed, stored>>
  BY DEF Exit, channels
<1>3. /\ pc' \in [Procs -> Labels] /\ pc'[w] = "exited"
      /\ \A q \in Procs \ {w} : pc'[q] = pc[q]
  BY <1>1, GotoMoves DEF Exit, Labels
<1>4. TypeOK'
  BY <1>1, <1>2, <1>3 DEF TypeOK, producer
<1>5. "exited" \notin Held /\ "take" \notin Held
  BY DEF Held
<1>6. UNCHANGED <<jobs, results, row, summary>> /\ OneWriter'
  BY <1>2 DEF producer, IInv, OneWriter
<1> QED
  BY <1>1, <1>3, <1>4, <1>5, <1>6, WorkerMoves

LEMMA InsertStep ==
  ASSUME IInv, NEW w \in Workers, Insert(w)
  PROVE  IInv'
<1>1. TypeOK /\ pc[w] = "insert" /\ w \in Procs /\ row[w] \in Rows
  BY PoolFacts DEF IInv, Insert, At, Places, Held
<1>2. /\ UNCHANGED <<jobs, results, row, summary, cancelled, producer, malformed>>
      /\ users' \subseteq Emails /\ stored' \subseteq Rows
      /\ ok' \in [Workers -> BOOLEAN]
  <2>1. UNCHANGED <<jobs, results, row, summary, cancelled, producer, malformed>>
    BY DEF Insert, channels
  <2>2. EmailOf[row[w]] \in Emails
    BY <1>1, UserImportAssumption
  <2>3. users' \in {users, users \cup {EmailOf[row[w]]}} /\ stored' \in {stored, stored \cup {row[w]}}
    BY DEF Insert
  <2>4. ok' = ok \/ \E acked \in BOOLEAN : ok' = [ok EXCEPT ![w] = acked]
    BY DEF Insert
  <2>5. ok' \in [Workers -> BOOLEAN]
    BY <1>1, <2>4 DEF TypeOK
  <2>6. users \subseteq Emails /\ stored \subseteq Rows
    BY <1>1 DEF TypeOK
  <2> QED
    BY <1>1, <2>1, <2>2, <2>3, <2>5, <2>6
<1>3. PICK label \in {"lookup", "report"} : Goto(w, label)
  BY DEF Insert, AfterInsert
<1>4. /\ pc' \in [Procs -> Labels] /\ pc'[w] = label
      /\ \A q \in Procs \ {w} : pc'[q] = pc[q]
  BY <1>1, <1>3, GotoMoves DEF Labels
<1>5. TypeOK'
  BY <1>1, <1>2, <1>4 DEF TypeOK, producer
<1>6. label \in Held /\ "insert" \in Held
  BY DEF Held
<1>7. UNCHANGED <<jobs, results, row, summary>> /\ OneWriter'
  BY <1>2 DEF producer, IInv, OneWriter
<1> QED
  BY <1>1, <1>4, <1>5, <1>6, <1>7, WorkerMoves

LEMMA ReportStep ==
  ASSUME IInv, NEW w \in Workers, Report(w)
  PROVE  IInv'
<1>1. TypeOK /\ pc[w] \in {"report", "quit"} /\ pc[w] \in Held /\ w \in Procs /\ row[w] \in Rows
  BY PoolFacts DEF IInv, Report, Places, Held
<1>2. /\ results' = Append(results, <<row[w], ok[w]>>)
      /\ UNCHANGED <<users, jobs, row, ok, summary, cancelled, producer, malformed, stored>>
  BY DEF Report
<1>3. PICK label \in {"exited", "take"} : Goto(w, label)
  BY DEF Report
<1>4. results' \in Seq(Rows \X BOOLEAN) /\ Len(results') = Len(results) + 1
  <2>1. <<row[w], ok[w]>> \in Rows \X BOOLEAN
    BY <1>1 DEF TypeOK
  <2> QED
    BY <2>1, <1>1, <1>2, AppendProperties DEF TypeOK
<1>5. /\ pc' \in [Procs -> Labels] /\ pc'[w] = label
      /\ \A q \in Procs \ {w} : pc'[q] = pc[q]
  BY <1>1, <1>3, GotoMoves DEF Labels
<1>6. TypeOK'
  BY <1>1, <1>2, <1>4, <1>5 DEF TypeOK, producer
<1>7. UNCHANGED <<jobs, row, summary>> /\ OneWriter'
  BY <1>2 DEF producer, IInv, OneWriter
<1>8. label \notin Held
  BY DEF Held
<1>9. Len(jobs') + Len(results') + (IF pc'[w] \in Held THEN 1 ELSE 0)
         = Len(jobs) + Len(results) + (IF pc[w] \in Held THEN 1 ELSE 0)
  BY <1>1, <1>4, <1>5, <1>7, <1>8, Terms
<1> QED
  BY <1>1, <1>5, <1>6, <1>7, <1>8, <1>9, WorkerMoves

-----------------------------------------------------------------------------
(* The steps of whoever publishes. *)

\* Once every result is collected the main goroutine only publishes and returns.
LEMMA MainMoves ==
  ASSUME IInv, TypeOK', OneWriter', UNCHANGED <<jobs, results, row, summary>>,
         pc'[Main] \in {"lookup", "open", "send", "returned"},
         \A q \in Procs \ {Main} : pc'[q] = pc[q]
  PROVE  IInv'
<1>1. Places /\ RowsPlaced
  BY DEF IInv
<1>2. \A w \in Workers : pc'[w] = pc[w]
  BY PoolFacts
<1>3. Places'
  BY <1>1, <1>2 DEF Places, At
<1>4. Holders' = Holders /\ Cardinality(Holders)' = Cardinality(Holders)
  BY <1>2 DEF Holders
<1>5. RowsPlaced'
  BY <1>1, <1>4 DEF RowsPlaced, Placed
<1> QED
  BY <1>3, <1>5 DEF IInv

LEMMA CollectedStep ==
  ASSUME IInv, Collected
  PROVE  IInv'
<1>1. TypeOK /\ Main \in Procs
  BY PoolFacts DEF IInv
<1>2. UNCHANGED <<users, jobs, results, row, ok, summary, cancelled, producer, malformed, stored>>
  BY DEF Collected, channels
<1>3. /\ pc' \in [Procs -> Labels] /\ pc'[Main] = "lookup"
      /\ \A q \in Procs \ {Main} : pc'[q] = pc[q]
  BY <1>1, GotoMoves DEF Collected, Labels
<1>4. TypeOK'
  BY <1>1, <1>2, <1>3 DEF TypeOK, producer
<1>5. OneWriter'
  BY <1>2 DEF IInv, OneWriter, producer
<1> QED
  BY <1>2, <1>3, <1>4, <1>5, MainMoves

\* Whoever moves from one publishing step to the next keeps what it holds.
LEMMA PublisherMoves ==
  ASSUME IInv, NEW p \in Procs, NEW label \in Labels, TypeOK', OneWriter',
         UNCHANGED <<jobs, results, row, summary>>, Goto(p, label),
         pc[p] \in {"lookup", "open", "send"},
         label \in IF p = Main THEN {"open", "send", "returned"} ELSE {"open", "send", "report"}
  PROVE  IInv'
<1>1. /\ TypeOK /\ Places /\ pc'[p] = label
      /\ \A q \in Procs \ {p} : pc'[q] = pc[q]
  BY GotoMoves DEF IInv
<1>2. CASE p = Main
  BY <1>1, <1>2, MainMoves
<1>3. CASE p # Main
  <2>1. p \in Workers /\ pc[p] \in Held /\ pc'[p] \in Held /\ pc[p] # "start"
    BY <1>1, <1>3 DEF Procs, Held
  <2>2. row'[p] \in Rows
    BY <1>1, <2>1 DEF Places
  <2>3. Len(jobs') + Len(results') + (IF pc'[p] \in Held THEN 1 ELSE 0)
          = Len(jobs) + Len(results) + (IF pc[p] \in Held THEN 1 ELSE 0)
    BY <2>1
  <2> QED
    BY <1>1, <2>1, <2>2, <2>3, WorkerMoves
<1> QED
  BY <1>2, <1>3

LEMMA LookupStep ==
  ASSUME IInv, NEW p \in Procs, Lookup(p)
  PROVE  IInv'
<1>1. TypeOK /\ pc[p] = "lookup"
  BY DEF IInv, Lookup, At
<1>2. UNCHANGED <<users, jobs, results, row, ok, summary, cancelled, producer, malformed, stored>>
  BY DEF Lookup, channels
<1>3. PICK label \in {"send", "open"} : Goto(p, label)
  BY DEF Lookup
<1>4. label \in Labels /\ pc' \in [Procs -> Labels]
  BY <1>1, <1>3, GotoMoves DEF Labels
<1>5. TypeOK'
  BY <1>1, <1>2, <1>4 DEF TypeOK, producer
<1>6. OneWriter'
  BY <1>2 DEF IInv, OneWriter, producer
<1> QED
  BY <1>1, <1>2, <1>3, <1>4, <1>5, <1>6, PublisherMoves

\* The second look is why one writer is opened: the map holds one exactly when
\* one was opened, whatever the goroutine saw before it took the lock.
LEMMA OpenStep ==
  ASSUME IInv, NEW p \in Procs, Open(p)
  PROVE  IInv'
<1>1. TypeOK /\ OneWriter /\ pc[p] = "open"
  BY DEF IInv, Open, At
<1>2. /\ UNCHANGED <<users, jobs, results, row, ok, summary, cancelled, topic, malformed, stored>>
      /\ opened' = (IF registered THEN opened ELSE opened + 1) /\ registered' = TRUE
      /\ Goto(p, "send")
  BY DEF Open, channels, SecondLook
<1>3. "send" \in Labels /\ pc' \in [Procs -> Labels]
  BY <1>1, <1>2, GotoMoves DEF Labels
<1>4. opened' \in Nat /\ opened' > 0 /\ opened' <= 1
  <2>1. opened \in Nat /\ opened <= 1
    BY <1>1 DEF TypeOK, OneWriter
  <2>2. registered = (opened > 0)
    BY <1>1 DEF TypeOK
  <2>3. CASE registered
    <3>1. opened' = opened /\ opened > 0
      BY <1>2, <2>2, <2>3, Zenon
    <3> QED
      BY <2>1, <3>1
  <2>4. CASE ~registered
    <3>1. opened' = opened + 1 /\ ~(opened > 0)
      BY <1>2, <2>2, <2>4, Zenon
    <3> QED
      BY <2>1, <3>1
  <2> QED
    BY <2>3, <2>4
<1>5. registered' = (opened' > 0)
  BY <1>2, <1>4
<1>6. TypeOK'
  BY <1>1, <1>2, <1>3, <1>4, <1>5 DEF TypeOK
<1>7. OneWriter'
  BY <1>4 DEF OneWriter
<1> QED
  BY <1>1, <1>2, <1>3, <1>6, <1>7, PublisherMoves

LEMMA SendStep ==
  ASSUME IInv, NEW p \in Procs, Send(p)
  PROVE  IInv'
<1> DEFINE Events == {"USER_CREATED"} \X Rows \cup {"USERS_IMPORTED"} \X (0..N) \X (0..N)
<1>1. TypeOK /\ Places /\ pc[p] = "send"
  BY DEF IInv, Send, At
<1>2. UNCHANGED <<users, jobs, results, row, ok, summary, cancelled, registered, opened,
                  malformed, stored>>
  BY DEF Send, channels
<1>3. EventOf(p) \in Events
  <2>1. CASE p = Main
    BY <1>1, <2>1 DEF EventOf, TypeOK
  <2>2. CASE p # Main
    <3>1. row[p] \in Rows
      BY <1>1, <2>2 DEF Places, Held, Procs
    <3> QED
      BY <2>2, <3>1 DEF EventOf
  <2> QED
    BY <2>1, <2>2
<1>4. topic' = topic \/ topic' = Append(topic, EventOf(p))
  BY DEF Send
<1>5. topic' \in Seq(Events)
  <2>1. topic \in Seq(Events)
    BY <1>1 DEF TypeOK
  <2> HIDE DEF Events
  <2> QED
    BY <1>3, <1>4, <2>1, AppendProperties
<1>6. PICK label \in {"returned", "report"} :
        /\ Goto(p, label)
        /\ label = IF p = Main THEN "returned" ELSE "report"
  BY DEF Send
<1>7. label \in Labels /\ pc' \in [Procs -> Labels]
  BY <1>1, <1>6, GotoMoves DEF Labels
<1>8. TypeOK'
  BY <1>1, <1>2, <1>5, <1>7 DEF TypeOK
<1>9. OneWriter'
  BY <1>2 DEF IInv, OneWriter
<1> QED
  BY <1>1, <1>2, <1>6, <1>7, <1>8, <1>9, PublisherMoves

-----------------------------------------------------------------------------
(* The invariant. *)

\* Steps of the client and of other requests do not touch the pool.
LEMMA OutsideStep ==
  ASSUME IInv, Cancel \/ RegisterElsewhere \/ UNCHANGED vars
  PROVE  IInv'
<1>1. /\ UNCHANGED <<jobs, results, pc, row, ok, summary, registered, opened, topic, malformed,
                     stored>>
      /\ users' \subseteq users \cup Outsiders /\ cancelled' \in {cancelled, TRUE}
  BY DEF Cancel, RegisterElsewhere, vars, channels, producer
<1>2. TypeOK'
  <2>1. TypeOK /\ Outsiders \subseteq Emails
    BY UserImportAssumption DEF IInv
  <2> QED
    BY <1>1, <2>1 DEF TypeOK
<1>3. Places' /\ OneWriter'
  BY <1>1 DEF IInv, Places, OneWriter, At
<1>4. RowsPlaced'
  <2>1. Holders' = Holders /\ Cardinality(Holders)' = Cardinality(Holders)
    BY <1>1 DEF Holders
  <2> QED
    BY <1>1, <2>1 DEF IInv, RowsPlaced, Placed
<1> QED
  BY <1>2, <1>3, <1>4 DEF IInv

\* The invariant holds at first.
LEMMA InitIInv == Init => IInv
<1> SUFFICES ASSUME Init PROVE IInv
  OBVIOUS
<1>1. N \in Nat
  BY UserImportAssumption
<1>2. pc[Main] = "parse" /\ row[Main] = 1 /\ \A w \in Workers : pc[w] = "start"
  BY PoolFacts DEF Init
<1>3. /\ pc \in [Procs -> Labels] /\ row \in [Procs -> 0..N + 1]
      /\ summary \in [succeeded : 0..N, failed : 0..N, errors : SUBSET Rows]
  BY <1>1 DEF Init, Labels, NoRow
<1>4. TypeOK
  <2>1. users \subseteq Emails /\ ok \in [Workers -> BOOLEAN] /\ cancelled \in BOOLEAN
        /\ malformed \in BadRows \cup {{}} /\ stored \subseteq Rows
    BY DEF Init
  <2>2. jobs \in Seq(Rows) /\ results \in Seq(Rows \X BOOLEAN)
        /\ topic \in Seq({"USER_CREATED"} \X Rows \cup {"USERS_IMPORTED"} \X (0..N) \X (0..N))
    BY DEF Init
  <2>3. opened \in Nat /\ registered = (opened > 0)
    <3>1. opened = 0
      BY DEF Init
    <3>2. (opened > 0) = FALSE
      BY <3>1
    <3>3. registered = (opened > 0)
      BY <3>2, Zenon DEF Init
    <3> QED
      BY <3>1, <3>3
  <2> QED
    BY <1>3, <2>1, <2>2, <2>3 DEF TypeOK
<1>5. Places
  BY <1>1, <1>2 DEF Places, At, Held
<1>6. RowsPlaced
  <2>1. Holders = {}
    BY <1>2 DEF Holders, Held
  <2>2. Cardinality(Holders) = 0
    BY <2>1, FS_EmptySet
  <2>3. Len(jobs) = 0 /\ Len(results) = 0 /\ summary.succeeded = 0 /\ summary.failed = 0
    BY DEF Init
  <2> QED
    BY <1>2, <2>2, <2>3 DEF RowsPlaced, Placed
<1>7. OneWriter
  BY DEF Init, OneWriter
<1> QED
  BY <1>4, <1>5, <1>6, <1>7 DEF IInv

\* Every step keeps it.
LEMMA NextIInv == IInv /\ [Next]_vars => IInv'
<1> SUFFICES ASSUME IInv, [Next]_vars PROVE IInv'
  OBVIOUS
<1>1. CASE Serve
  BY <1>1, ParseStep, PushStep, CollectStep, CollectedStep DEF Serve
<1>2. CASE \E w \in Workers : importWorker(w)
  BY <1>2, TakeStep, ExitStep, InsertStep, ReportStep DEF importWorker
<1>3. CASE \E p \in Procs : Publish(p)
  BY <1>3, LookupStep, OpenStep, SendStep DEF Publish
<1>4. CASE Cancel \/ RegisterElsewhere \/ UNCHANGED vars
  BY <1>4, OutsideStep
<1> QED
  BY <1>1, <1>2, <1>3, <1>4 DEF Next

\* In every reachable state each row pushed is in one place.
THEOREM Invariance == Spec => []IInv
<1> QED
  BY InitIInv, NextIInv, PTL DEF Spec

\* Type correctness.
THEOREM Typed == Spec => []TypeOK
<1>1. IInv => TypeOK
  BY DEF IInv
<1> QED
  BY <1>1, Invariance, PTL

\* At most one writer is opened for the topic (kafka_producer.go:30-45).
THEOREM OneWriterOnly == Spec => []OneWriter
<1>1. IInv => OneWriter
  BY DEF IInv
<1> QED
  BY <1>1, Invariance, PTL

\* No goroutine waits to send on a channel, for a file of any length and a pool
\* of any size (service.go:155-156, 165, 263).
THEOREM NeverBlocked == Spec => []NobodyBlocks
<1>1. ASSUME IInv PROVE NobodyBlocks
  <2>1. TypeOK /\ Places /\ RowsPlaced
    BY <1>1 DEF IInv
  <2>2. row[Main] \in Int /\ row[Main] <= N + 1
    BY <2>1, UserImportAssumption DEF Places
  <2>3. Len(jobs) + Cardinality(Holders) + Len(results) <= row[Main] - 1
    BY <2>1, <2>2, Terms DEF RowsPlaced, Placed
  <2>4. ASSUME At(Main, "push") PROVE Len(jobs) < JobsCap
    <3>1. row[Main] <= N
      BY <2>1, <2>4 DEF Places
    <3> QED
      BY <2>1, <2>2, <2>3, <3>1, Terms DEF JobsCap
  <2>5. ASSUME NEW w \in Workers, pc[w] \in {"report", "quit"} PROVE Len(results) < ResultsCap
    <3>1. w \in Holders
      BY <2>5 DEF Holders, Held
    <3>2. Cardinality(Holders) # 0
      BY <2>1, <3>1, Terms, FS_EmptySet
    <3> QED
      BY <2>1, <2>2, <2>3, <3>2, Terms DEF ResultsCap
  <2> QED
    BY <2>4, <2>5 DEF NobodyBlocks
<1> QED
  BY <1>1, Invariance, PTL
=============================================================================

-------------------------- MODULE UserImportSummary --------------------------
(***************************************************************************)
(* The summary of an import agrees with the table, and the events with the *)
(* summary, for a file of any length and a pool of any size.               *)
(***************************************************************************)
EXTENDS UserImportProofs

(* The inductive invariant: a row that was pushed is in one place, and the
   successes counted are the stored rows that are in none any more. *)

Elements(s) == {s[i] : i \in 1..Len(s)}
Keys(s) == {s[i][1] : i \in 1..Len(s)}

Queued == Elements(jobs)
Reported == Keys(results)
HeldRows == {row[w] : w \in Holders}

Distinct(s) == \A i, j \in 1..Len(s) : s[i] = s[j] => i = j
DistinctKeys(s) == \A i, j \in 1..Len(s) : s[i][1] = s[j][1] => i = j

\* No row is in two places, nor twice in one.
Apart ==
  /\ Distinct(jobs) /\ DistinctKeys(results)
  /\ \A v, w \in Holders : row[v] = row[w] => v = w
  /\ \A r \in Queued : r \notin Reported /\ r \notin HeldRows /\ r \notin summary.errors /\ r \notin stored
  /\ \A r \in Reported : r \notin HeldRows /\ r \notin summary.errors
  /\ \A r \in HeldRows : r \notin summary.errors
  /\ \A r \in Queued \cup Reported \cup HeldRows \cup summary.errors \cup stored : r < row[Main]

\* A success is reported of stored rows only.
Truthful ==
  /\ \A i \in 1..Len(results) : results[i][2] => results[i][1] \in stored
  /\ \A w \in Holders : ok[w] => row[w] \in stored

\* The rows counted as successes.
Counted == {r \in stored : r \notin summary.errors /\ r \notin Reported /\ r \notin HeldRows}

Counts ==
  /\ summary.succeeded = Cardinality(Counted)
  /\ summary.failed = Cardinality(summary.errors)

\* Workers go away when nothing is left to do, or the client has gone.
Ends ==
  /\ \A w \in Workers : pc[w] = "exited" => cancelled \/ (jobs = <<>> /\ JobsClosed)
  /\ \A w \in Workers : pc[w] = "quit" => cancelled
  /\ pc[Main] \in {"lookup", "open", "send", "returned", "refused"} =>
       results = <<>> /\ \A w \in Workers : pc[w] = "exited"
  /\ pc[Main] \in {"collect", "lookup", "open", "send", "returned"} => row[Main] = N + 1
  /\ pc[Main] = "refused" => stored = {}

SInv == Apart /\ Truthful /\ Counts /\ Ends

-----------------------------------------------------------------------------
(* Sequences without repetition. *)

\* Without its head, a sequence has the other elements.
LEMMA TailLeaves ==
  ASSUME NEW S, NEW s \in Seq(S), s # <<>>, Distinct(s)
  PROVE  /\ Distinct(Tail(s)) /\ Head(s) \in Elements(s)
         /\ Elements(Tail(s)) = Elements(s) \ {Head(s)}
<1>1. /\ Tail(s) \in Seq(S) /\ Len(Tail(s)) = Len(s) - 1 /\ Len(s) \in Nat /\ Len(s) > 0
      /\ Head(s) = s[1] /\ \A i \in 1..Len(Tail(s)) : Tail(s)[i] = s[i + 1]
  BY HeadTailProperties, LenProperties, EmptySeq
<1> DEFINE t == Tail(s)
<1> HIDE DEF t
<1>2. \A i \in 1..Len(t) : t[i] = s[i + 1] /\ i + 1 \in 1..Len(s) /\ i + 1 # 1
  BY <1>1 DEF t
<1>3. \A j \in 1..Len(s) : j # 1 => j - 1 \in 1..Len(t) /\ t[j - 1] = s[j]
  BY <1>1, <1>2 DEF t
<1>4. Distinct(t)
  BY <1>1, <1>2 DEF Distinct, t
<1>5. Head(s) \in Elements(s)
  BY <1>1 DEF Elements
<1>6. Elements(t) = Elements(s) \ {Head(s)}
  <2>1. ASSUME NEW i \in 1..Len(t) PROVE t[i] \in Elements(s) /\ t[i] # Head(s)
    BY <1>1, <1>2 DEF Elements, Distinct
  <2>2. ASSUME NEW j \in 1..Len(s), s[j] # Head(s) PROVE s[j] \in Elements(t)
    BY <1>1, <1>3, <2>2 DEF Elements
  <2> QED
    BY <2>1, <2>2 DEF Elements
<1> QED
  BY <1>4, <1>5, <1>6 DEF t

\* The same of a sequence of pairs and their first components.
LEMMA TailLeavesKeys ==
  ASSUME NEW S, NEW s \in Seq(S), s # <<>>, DistinctKeys(s)
  PROVE  /\ DistinctKeys(Tail(s)) /\ Head(s)[1] \in Keys(s)
         /\ Keys(Tail(s)) = Keys(s) \ {Head(s)[1]}
         /\ Head(s) = s[1] /\ 1 \in 1..Len(s)
         /\ \A i \in 1..Len(Tail(s)) : i + 1 \in 1..Len(s) /\ Tail(s)[i] = s[i + 1]
<1>1. /\ Tail(s) \in Seq(S) /\ Len(Tail(s)) = Len(s) - 1 /\ Len(s) \in Nat /\ Len(s) > 0
      /\ Head(s) = s[1] /\ \A i \in 1..Len(Tail(s)) : Tail(s)[i] = s[i + 1]
  BY HeadTailProperties, LenProperties, EmptySeq
<1> DEFINE t == Tail(s)
<1> HIDE DEF t
<1>2. \A i \in 1..Len(t) : t[i] = s[i + 1] /\ i + 1 \in 1..Len(s) /\ i + 1 # 1
  BY <1>1 DEF t
<1>3. \A j \in 1..Len(s) : j # 1 => j - 1 \in 1..Len(t) /\ t[j - 1] = s[j]
  BY <1>1, <1>2 DEF t
<1>4. DistinctKeys(t)
  BY <1>1, <1>2 DEF DistinctKeys, t
<1>5. Head(s)[1] \in Keys(s)
  BY <1>1 DEF Keys
<1>6. Keys(t) = Keys(s) \ {Head(s)[1]}
  BY <1>1, <1>2, <1>3 DEF Keys, DistinctKeys
<1> QED
  BY <1>1, <1>2, <1>4, <1>5, <1>6 DEF t

\* A sequence with one more element; it stays free of repetitions if that was new.
LEMMA AppendAdds ==
  ASSUME NEW S, NEW s \in Seq(S), NEW e \in S
  PROVE  /\ Elements(Append(s, e)) = Elements(s) \cup {e}
         /\ Distinct(s) /\ e \notin Elements(s) => Distinct(Append(s, e))
<1> DEFINE t == Append(s, e)
<1>1. /\ Len(t) = Len(s) + 1 /\ Len(s) \in Nat /\ t[Len(s) + 1] = e
      /\ \A i \in 1..Len(s) : t[i] = s[i] /\ i \in 1..Len(t)
  BY AppendProperties, LenProperties
<1> HIDE DEF t
<1>2. \A i \in 1..Len(t) : i \in 1..Len(s) \/ i = Len(s) + 1
  BY <1>1
<1>3. Elements(t) = Elements(s) \cup {e}
  BY <1>1, <1>2 DEF Elements
<1>4. Distinct(s) /\ e \notin Elements(s) => Distinct(t)
  BY <1>1, <1>2 DEF Distinct, Elements
<1> QED
  BY <1>3, <1>4 DEF t

\* The same of a sequence of pairs and their first components.
LEMMA AppendAddsKey ==
  ASSUME NEW S, NEW s \in Seq(S), NEW e \in S
  PROVE  /\ Keys(Append(s, e)) = Keys(s) \cup {e[1]}
         /\ DistinctKeys(s) /\ e[1] \notin Keys(s) => DistinctKeys(Append(s, e))
         /\ \A i \in 1..Len(Append(s, e)) :
              (i \in 1..Len(s) /\ Append(s, e)[i] = s[i]) \/ Append(s, e)[i] = e
<1> DEFINE t == Append(s, e)
<1>1. /\ Len(t) = Len(s) + 1 /\ Len(s) \in Nat /\ t[Len(s) + 1] = e
      /\ \A i \in 1..Len(s) : t[i] = s[i] /\ i \in 1..Len(t)
  BY AppendProperties, LenProperties
<1> HIDE DEF t
<1>2. \A i \in 1..Len(t) : i \in 1..Len(s) \/ i = Len(s) + 1
  BY <1>1
<1>3. Keys(t) = Keys(s) \cup {e[1]}
  BY <1>1, <1>2 DEF Keys
<1>4. DistinctKeys(s) /\ e[1] \notin Keys(s) => DistinctKeys(t)
  BY <1>1, <1>2 DEF DistinctKeys, Keys
<1> QED
  BY <1>1, <1>2, <1>3, <1>4 DEF t

-----------------------------------------------------------------------------
(* Steps that move no row. *)

Placing == <<jobs, results, row, ok, summary, stored>>

\* A step that moves no row keeps the accounting.
LEMMA RowsStand ==
  ASSUME SInv, UNCHANGED Placing, Holders' = Holders
  PROVE  Apart' /\ Truthful' /\ Counts'
<1>1. /\ jobs' = jobs /\ results' = results /\ row' = row /\ ok' = ok /\ summary' = summary
      /\ stored' = stored
  BY DEF Placing
<1>2. Queued' = Queued /\ Reported' = Reported /\ HeldRows' = HeldRows
  BY <1>1 DEF Queued, Reported, HeldRows, Elements, Keys
<1>3. Apart'
  BY <1>1, <1>2 DEF SInv, Apart, Distinct, DistinctKeys
<1>4. Truthful'
  BY <1>1 DEF SInv, Truthful
<1>5. Counts'
  BY <1>1, <1>2 DEF SInv, Counts, Counted
<1> QED
  BY <1>3, <1>4, <1>5

\* A step of the main goroutine from one call to another.
LEMMA MainStands ==
  ASSUME SInv, UNCHANGED <<Placing, cancelled>>, \A w \in Workers : pc'[w] = pc[w],
         JobsClosed => JobsClosed',
         pc'[Main] \in {"lookup", "open", "send", "returned"},
         results = <<>>, \A w \in Workers : pc[w] = "exited",
         pc[Main] \in {"collect", "lookup", "open", "send", "returned"}
  PROVE  SInv'
<1>1. /\ jobs' = jobs /\ results' = results /\ row' = row /\ ok' = ok /\ summary' = summary
      /\ stored' = stored /\ cancelled' = cancelled /\ UNCHANGED Placing
  BY DEF Placing
<1>2. Holders' = Holders
  BY DEF Holders
<1>3. Ends'
  BY <1>1 DEF SInv, Ends
<1> QED
  BY <1>1, <1>2, <1>3, RowsStand DEF SInv

\* A step of a worker that holds on to its row.
LEMMA WorkerStands ==
  ASSUME SInv, IInv, UNCHANGED <<Placing, cancelled>>, NEW w \in Workers,
         \A q \in Procs \ {w} : pc'[q] = pc[q], pc[w] \in Held, pc'[w] \in Held \ {"quit"}
  PROVE  SInv'
<1>1. /\ jobs' = jobs /\ results' = results /\ row' = row /\ ok' = ok /\ summary' = summary
      /\ stored' = stored /\ cancelled' = cancelled /\ UNCHANGED Placing
  BY DEF Placing
<1>2. Main \in Procs \ {w} /\ Workers \ {w} \subseteq Procs \ {w} /\ "exited" \notin Held
  BY PoolFacts DEF Held
<1>3. Holders' = Holders
  BY <1>2 DEF Holders
<1>4. pc'[Main] = pc[Main] /\ \A v \in Workers : pc'[v] = "exited" <=> pc[v] = "exited"
  BY <1>2
<1>5. \A v \in Workers : pc'[v] = "quit" => pc[v] = "quit"
  BY <1>2
<1>6. Ends'
  BY <1>1, <1>4, <1>5 DEF SInv, Ends, JobsClosed
<1> QED
  BY <1>1, <1>3, <1>6, RowsStand DEF SInv

\* Before Parse nothing has been pushed, and a refused file stores nothing.
LEMMA ParseKeeps ==
  ASSUME SInv, IInv, Parse
  PROVE  SInv'
<1>1. TypeOK /\ Places /\ RowsPlaced /\ At(Main, "parse")
  BY DEF IInv, Parse
<1>2. PICK bad \in BadRows :
        /\ malformed' = bad
        /\ pc' = [p \in Procs |-> CASE bad # {} /\ p = Main -> "refused"
                                    [] bad # {} /\ p # Main -> "exited"
                                    [] bad = {} /\ p = Main -> IF N = 0 THEN "collect" ELSE "push"
                                    [] OTHER -> "take"]
  BY DEF Parse
<1>3. UNCHANGED <<Placing, cancelled>> /\ jobs' = jobs /\ results' = results /\ row' = row
      /\ stored' = stored
  BY DEF Parse, Placing, channels
<1>4. row[Main] = 1 /\ \A w \in Workers : pc[w] = "start"
  BY <1>1 DEF Places, At
<1>5. Holders' = {} /\ Holders = {}
  BY <1>2, <1>4, PoolFacts DEF Holders, Held
<1>6. jobs = <<>> /\ results = <<>> /\ stored = {}
  <2>1. Placed = 0
    BY <1>1, <1>4 DEF RowsPlaced
  <2>2. Len(jobs) = 0 /\ Len(results) = 0
    BY <1>1, <2>1, Terms DEF Placed
  <2>3. \A r \in stored : r < 1 /\ r \in Rows
    BY <1>1, <1>4 DEF SInv, Apart, TypeOK
  <2> QED
    BY <1>1, <2>2, <2>3, Terms, UserImportAssumption DEF Rows
<1>7. Ends'
  <2>1. CASE bad # {}
    <3>1. pc'[Main] = "refused" /\ \A w \in Workers : pc'[w] = "exited"
      BY <1>2, <2>1, PoolFacts
    <3> QED
      BY <1>3, <1>6, <3>1 DEF Ends, JobsClosed
  <2>2. CASE bad = {}
    <3>1. /\ pc'[Main] = IF N = 0 THEN "collect" ELSE "push"
          /\ \A w \in Workers : pc'[w] = "take"
      BY <1>2, <2>2, PoolFacts
    <3>2. pc'[Main] = "collect" => row'[Main] = N + 1
      BY <1>3, <1>4, <3>1
    <3> QED
      BY <3>1, <3>2 DEF Ends
  <2> QED
    BY <2>1, <2>2
<1> QED
  BY <1>3, <1>5, <1>7, RowsStand DEF SInv

\* The results channel is closed once every worker has gone.
LEMMA CollectedKeeps ==
  ASSUME SInv, IInv, Collected
  PROVE  SInv'
<1>1. /\ pc[Main] = "collect" /\ results = <<>> /\ (\A w \in Workers : pc[w] = "exited")
      /\ UNCHANGED <<Placing, cancelled>>
  BY DEF Collected, At, ResultsClosed, Placing, channels
<1>2. pc'[Main] = "lookup" /\ \A w \in Workers : pc'[w] = pc[w]
  BY PoolFacts DEF Collected, Goto, IInv, TypeOK
<1> QED
  BY <1>1, <1>2, MainStands DEF JobsClosed

\* Whoever publishes holds its row meanwhile.
LEMMA PublishKeeps ==
  ASSUME SInv, IInv, NEW p \in Procs, Publish(p)
  PROVE  SInv'
<1>1. UNCHANGED <<Placing, cancelled>>
  BY DEF Publish, Lookup, Open, Send, Placing, channels, producer
<1>2. pc[p] \in {"lookup", "open", "send"}
  BY DEF Publish, Lookup, Open, Send, At
<1>3. /\ \A q \in Procs \ {p} : pc'[q] = pc[q]
      /\ pc'[p] \in (IF p = Main THEN {"open", "send", "returned"} ELSE {"open", "send", "report"})
  BY DEF Publish, Lookup, Open, Send, Goto, IInv, TypeOK
<1>4. CASE p = Main
  <2>1. \A w \in Workers : pc'[w] = pc[w]
    BY <1>3, <1>4, PoolFacts
  <2>2. results = <<>> /\ \A w \in Workers : pc[w] = "exited"
    BY <1>2, <1>4 DEF SInv, Ends
  <2> QED
    BY <1>1, <1>2, <1>3, <1>4, <2>1, <2>2, MainStands DEF JobsClosed
<1>5. CASE p # Main
  <2>1. p \in Workers /\ pc[p] \in Held /\ pc'[p] \in Held \ {"quit"}
    BY <1>2, <1>3, <1>5 DEF Held, Procs
  <2> QED
    BY <1>1, <1>3, <2>1, WorkerStands
<1> QED
  BY <1>4, <1>5

\* Cancellations and registrations from outside move no row.
LEMMA OutsideKeeps ==
  ASSUME SInv, Cancel \/ RegisterElsewhere \/ UNCHANGED vars
  PROVE  SInv'
<1>1. UNCHANGED Placing /\ pc' = pc /\ (cancelled => cancelled')
  BY DEF Cancel, RegisterElsewhere, vars, Placing, channels
<1>2. Holders' = Holders
  BY <1>1 DEF Holders
<1>3. jobs' = jobs /\ results' = results /\ row' = row /\ stored' = stored
  BY <1>1 DEF Placing
<1>4. Ends'
  BY <1>1, <1>3 DEF SInv, Ends, JobsClosed
<1> QED
  BY <1>1, <1>2, <1>4, RowsStand DEF SInv

\* A worker goes away because no job is left.
LEMMA ExitKeeps ==
  ASSUME SInv, IInv, NEW w \in Workers, Exit(w)
  PROVE  SInv'
<1>1. /\ UNCHANGED <<Placing, cancelled>> /\ jobs = <<>> /\ JobsClosed /\ pc[w] = "take"
  BY DEF Exit, Placing, channels, At
<1>2. pc'[w] = "exited" /\ \A q \in Procs \ {w} : pc'[q] = pc[q]
  BY PoolFacts DEF Exit, Goto, IInv, TypeOK
<1>3. Main \in Procs \ {w} /\ Workers \ {w} \subseteq Procs \ {w}
  BY PoolFacts
<1>4. Holders' = Holders
  BY <1>1, <1>2, <1>3 DEF Holders, Held
<1>5. jobs' = jobs /\ results' = results /\ row' = row /\ stored' = stored /\ cancelled' = cancelled
  BY <1>1 DEF Placing
<1>6. pc'[Main] = pc[Main] /\ \A v \in Workers : pc'[v] = pc[v] \/ pc'[v] = "exited"
  BY <1>2, <1>3
<1>7. Ends'
  <2>1. \A v \in Workers : pc'[v] = "exited" => cancelled' \/ (jobs' = <<>> /\ JobsClosed')
    BY <1>1, <1>5, <1>6 DEF JobsClosed
  <2>2. \A v \in Workers : pc'[v] = "quit" => cancelled'
    BY <1>5, <1>6 DEF SInv, Ends
  <2>3. pc'[Main] \in {"lookup", "open", "send", "returned", "refused"} =>
          results' = <<>> /\ \A v \in Workers : pc'[v] = "exited"
    BY <1>5, <1>6 DEF SInv, Ends
  <2> QED
    BY <1>5, <1>6, <2>1, <2>2, <2>3 DEF SInv, Ends
<1> QED
  BY <1>1, <1>4, <1>7, RowsStand DEF SInv

-----------------------------------------------------------------------------
(* Steps that move a row. *)

\* The row pushed is a new one.
LEMMA PushKeeps ==
  ASSUME SInv, IInv, Push
  PROVE  SInv'
<1> DEFINE r == row[Main]
<1>1. TypeOK /\ Places /\ pc[Main] = "push" /\ r \in Rows /\ r \in Int /\ N \in Nat
  BY UserImportAssumption DEF IInv, Push, Places, Rows, At
<1>2. /\ jobs' = Append(jobs, r) /\ row' = [row EXCEPT ![Main] = @ + 1]
      /\ pc' = IF LastRow(r) THEN [pc EXCEPT ![Main] = "collect"] ELSE pc
      /\ results' = results /\ ok' = ok /\ summary' = summary /\ stored' = stored
      /\ cancelled' = cancelled
  BY DEF Push, Goto
<1>3. row'[Main] = r + 1 /\ \A w \in Workers : row'[w] = row[w]
  BY <1>1, <1>2, PoolFacts DEF TypeOK
<1>4. /\ \A w \in Workers : pc'[w] = pc[w]
      /\ pc'[Main] = IF r = N THEN "collect" ELSE "push"
  BY <1>1, <1>2, PoolFacts DEF TypeOK, LastRow
<1>5. Holders' = Holders /\ HeldRows' = HeldRows /\ Reported' = Reported
  BY <1>2, <1>3, <1>4 DEF Holders, HeldRows, Reported
<1>6. r \notin Queued /\ r \notin Reported /\ r \notin HeldRows /\ r \notin summary.errors /\ r \notin stored
  BY <1>1 DEF SInv, Apart
<1>7. Queued' = Queued \cup {r} /\ Distinct(jobs')
  BY <1>1, <1>2, <1>6, AppendAdds DEF TypeOK, Queued, SInv, Apart
<1>8. Apart'
  <2>1. Distinct(jobs') /\ DistinctKeys(results')
    BY <1>2, <1>7 DEF SInv, Apart
  <2>2. \A v, w \in Holders' : row'[v] = row'[w] => v = w
    BY <1>3, <1>5 DEF SInv, Apart, Holders
  <2>3. /\ \A q \in Queued' : q \notin Reported' /\ q \notin HeldRows' /\ q \notin summary'.errors
                               /\ q \notin stored'
        /\ \A q \in Reported' : q \notin HeldRows' /\ q \notin summary'.errors
        /\ \A q \in HeldRows' : q \notin summary'.errors
    BY <1>2, <1>5, <1>6, <1>7 DEF SInv, Apart
  <2>4. \A q \in Queued' \cup Reported' \cup HeldRows' \cup summary'.errors \cup stored' : q < row'[Main]
    <3>1. ASSUME NEW q \in Queued' \cup Reported' \cup HeldRows' \cup summary'.errors \cup stored'
          PROVE  q < r + 1
      <4>1. q = r \/ q \in Queued \cup Reported \cup HeldRows \cup summary.errors \cup stored
        BY <1>2, <1>5, <1>7
      <4>2. CASE q # r
        <5>1. q < r
          BY <4>1, <4>2 DEF SInv, Apart
        <5>2. q \in Rows
          <6>1. q \in Queued \/ q \in Reported \/ q \in HeldRows \/ q \in summary.errors \/ q \in stored
            BY <4>1, <4>2
          <6>2. q \in Queued => q \in Rows
            BY <1>1, ElementOfSeq DEF Queued, Elements, TypeOK
          <6>3. q \in Reported => q \in Rows
            <7>1. \A i \in 1..Len(results) : results[i] \in Rows \X BOOLEAN
              BY <1>1, ElementOfSeq DEF TypeOK
            <7> QED
              BY <7>1 DEF Reported, Keys
          <6>4. q \in HeldRows => q \in Rows
            BY <1>1 DEF HeldRows, Holders, Places
          <6> QED
            BY <1>1, <6>1, <6>2, <6>3, <6>4 DEF TypeOK
        <5> QED
          BY <1>1, <5>1, <5>2 DEF Rows
      <4> QED
        BY <1>1, <4>2
    <3> QED
      BY <1>3, <3>1
  <2> QED
    BY <2>1, <2>2, <2>3, <2>4 DEF Apart
<1>9. Truthful'
  BY <1>2, <1>3, <1>5 DEF SInv, Truthful, Holders
<1>10. Counts'
  BY <1>2, <1>5 DEF SInv, Counts, Counted
<1>11. Ends'
  <2>1. \A w \in Workers : pc'[w] = "exited" => cancelled'
    BY <1>1, <1>2, <1>4 DEF SInv, Ends, JobsClosed
  <2> QED
    BY <1>2, <1>3, <1>4, <2>1 DEF SInv, Ends
<1> QED
  BY <1>8, <1>9, <1>10, <1>11 DEF SInv

\* A result collected moves its row to the summary; only a stored row adds a success.
LEMMA CollectKeeps ==
  ASSUME SInv, IInv, Collect
  PROVE  SInv'
<1> DEFINE h == Head(results)
           r == h[1]
<1>1. TypeOK /\ results # <<>> /\ pc[Main] = "collect"
  BY DEF IInv, Collect, At
<1>2. /\ results' = Tail(results)
      /\ summary' = IF h[2] THEN [summary EXCEPT !.succeeded = @ + 1]
                    ELSE [summary EXCEPT !.failed = @ + 1, !.errors = @ \cup {r}]
      /\ jobs' = jobs /\ pc' = pc /\ row' = row /\ ok' = ok /\ stored' = stored
      /\ cancelled' = cancelled
  BY DEF Collect
<1>3. h \in Rows \X BOOLEAN /\ h[2] \in BOOLEAN /\ results \in Seq(Rows \X BOOLEAN)
  BY <1>1, HeadTailProperties DEF TypeOK
<1>4. /\ DistinctKeys(results') /\ r \in Reported /\ Reported' = Reported \ {r}
      /\ \A i \in 1..Len(results') : i + 1 \in 1..Len(results) /\ results'[i] = results[i + 1]
      /\ h = results[1] /\ 1 \in 1..Len(results)
  BY <1>1, <1>2, <1>3, TailLeavesKeys DEF Reported, SInv, Apart
<1>5. Holders' = Holders /\ HeldRows' = HeldRows /\ Queued' = Queued
  BY <1>2 DEF Holders, HeldRows, Queued
<1>6. /\ r \notin Queued /\ r \notin HeldRows /\ r \notin summary.errors /\ r < row[Main]
      /\ h[2] => r \in stored
  BY <1>4 DEF SInv, Apart, Truthful
<1>7. summary \in [succeeded : 0..N, failed : 0..N, errors : SUBSET Rows]
  BY <1>1 DEF TypeOK
<1> HIDE DEF r, h
<1>8. \/ /\ h[2] /\ summary'.succeeded = summary.succeeded + 1 /\ summary'.failed = summary.failed
         /\ summary'.errors = summary.errors
      \/ /\ ~h[2] /\ summary'.succeeded = summary.succeeded /\ summary'.failed = summary.failed + 1
         /\ summary'.errors = summary.errors \cup {r}
  BY <1>2, <1>3, <1>7
<1>9. Apart'
  <2>1. Distinct(jobs') /\ \A v, w \in Holders' : row'[v] = row'[w] => v = w
    BY <1>2, <1>5 DEF SInv, Apart
  <2>2. summary'.errors \subseteq summary.errors \cup {r}
    BY <1>8
  <2>3. /\ \A q \in Queued' : q \notin Reported' /\ q \notin HeldRows' /\ q \notin summary'.errors
                               /\ q \notin stored'
        /\ \A q \in Reported' : q \notin HeldRows' /\ q \notin summary'.errors
        /\ \A q \in HeldRows' : q \notin summary'.errors
        /\ \A q \in Queued' \cup Reported' \cup HeldRows' \cup summary'.errors \cup stored' : q < row'[Main]
    BY <1>2, <1>4, <1>5, <1>6, <2>2 DEF SInv, Apart
  <2> QED
    BY <1>4, <2>1, <2>3 DEF Apart
<1>10. Truthful'
  BY <1>2, <1>4, <1>5 DEF SInv, Truthful
<1>11. Counts'
  <2>1. Counted \subseteq stored /\ IsFiniteSet(Counted) /\ IsFiniteSet(summary.errors)
    <3>1. IsFiniteSet(Rows)
      BY UserImportAssumption, FS_Interval DEF Rows
    <3> QED
      BY <1>1, <1>7, <3>1, FS_Subset DEF Counted, TypeOK
  <2>2. CASE h[2]
    <3>1. summary'.errors = summary.errors /\ summary'.succeeded = summary.succeeded + 1
          /\ summary'.failed = summary.failed
      BY <1>8, <2>2
    <3>2. Counted' = Counted \cup {r} /\ r \notin Counted
      BY <1>2, <1>4, <1>5, <1>6, <2>2, <3>1 DEF Counted
    <3>3. Cardinality(Counted \cup {r}) = Cardinality(Counted) + 1
      BY <2>1, <3>2, FS_AddElement
    <3> QED
      BY <3>1, <3>2, <3>3 DEF SInv, Counts
  <2>3. CASE ~h[2]
    <3>1. summary'.errors = summary.errors \cup {r} /\ summary'.succeeded = summary.succeeded
          /\ summary'.failed = summary.failed + 1
      BY <1>8, <2>3
    <3>2. Counted' = Counted
      BY <1>2, <1>4, <1>5, <1>6, <3>1 DEF Counted
    <3>3. Cardinality(summary.errors \cup {r}) = Cardinality(summary.errors) + 1
      BY <1>6, <2>1, FS_AddElement
    <3> QED
      BY <3>1, <3>2, <3>3 DEF SInv, Counts
  <2> QED
    BY <1>3, <2>2, <2>3
<1>12. Ends'
  BY <1>1, <1>2 DEF SInv, Ends, JobsClosed
<1> QED
  BY <1>9, <1>10, <1>11, <1>12 DEF SInv

\* A row taken moves from the channel to the worker, and is not stored yet.
LEMMA TakeKeeps ==
  ASSUME SInv, IInv, NEW w \in Workers, Take(w)
  PROVE  SInv'
<1> DEFINE r == Head(jobs)
<1>1. TypeOK /\ jobs # <<>> /\ pc[w] = "take" /\ w \in Procs /\ w # Main
  BY PoolFacts DEF IInv, Take, At
<1>2. /\ jobs' = Tail(jobs) /\ row' = [row EXCEPT ![w] = r] /\ ok' = [ok EXCEPT ![w] = FALSE]
      /\ results' = results /\ summary' = summary /\ cancelled' = cancelled /\ stored' = stored
  BY DEF Take
<1>3. /\ pc'[w] = IF cancelled THEN "quit" ELSE "insert"
      /\ \A q \in Procs \ {w} : pc'[q] = pc[q]
  BY <1>1 DEF Take, Goto, TypeOK
<1>4. /\ row'[w] = r /\ (\A q \in Procs \ {w} : row'[q] = row[q])
      /\ ~ok'[w] /\ (\A v \in Workers \ {w} : ok'[v] = ok[v])
  BY <1>1, <1>2 DEF TypeOK
<1>5. Main \in Procs \ {w} /\ Workers \ {w} \subseteq Procs \ {w}
  BY PoolFacts
<1>6. w \notin Holders /\ Holders' = Holders \cup {w}
  BY <1>1, <1>3, <1>5 DEF Holders, Held
<1>7. HeldRows' = HeldRows \cup {r}
  <2>1. \A v \in Holders : v # w /\ row'[v] = row[v]
    BY <1>4, <1>5, <1>6 DEF Holders
  <2> QED
    BY <1>4, <1>6, <2>1 DEF HeldRows
<1>8. Distinct(jobs') /\ r \in Queued /\ Queued' = Queued \ {r}
  BY <1>1, <1>2, TailLeaves DEF TypeOK, Queued, SInv, Apart
<1>9. Reported' = Reported
  BY <1>2 DEF Reported
<1> HIDE DEF r
<1>10. r \notin Reported /\ r \notin HeldRows /\ r \notin summary.errors /\ r \notin stored /\ r < row[Main]
  BY <1>8 DEF SInv, Apart
<1>11. Apart'
  <2>1. \A v, u \in Holders' : row'[v] = row'[u] => v = u
    <3>1. \A v \in Holders : v \in Procs \ {w} /\ row'[v] = row[v] /\ row[v] # r
      BY <1>4, <1>5, <1>6, <1>10 DEF Holders, HeldRows
    <3> QED
      BY <1>4, <1>6, <3>1 DEF SInv, Apart
  <2>2. row'[Main] = row[Main]
    BY <1>4, <1>5
  <2>3. /\ \A q \in Queued' : q \notin Reported' /\ q \notin HeldRows' /\ q \notin summary'.errors
                               /\ q \notin stored'
        /\ \A q \in Reported' : q \notin HeldRows' /\ q \notin summary'.errors
        /\ \A q \in HeldRows' : q \notin summary'.errors
        /\ \A q \in Queued' \cup Reported' \cup HeldRows' \cup summary'.errors \cup stored' : q < row'[Main]
    BY <1>2, <1>7, <1>8, <1>9, <1>10, <2>2 DEF SInv, Apart
  <2>4. DistinctKeys(results')
    BY <1>2 DEF SInv, Apart
  <2> QED
    BY <1>8, <2>1, <2>3, <2>4 DEF Apart
<1>12. Truthful'
  <2>1. \A v \in Holders' : ok'[v] => row'[v] \in stored'
    BY <1>2, <1>4, <1>5, <1>6 DEF SInv, Truthful, Holders
  <2> QED
    BY <1>2, <2>1 DEF SInv, Truthful
<1>13. Counts'
  <2>1. Counted' = Counted
    BY <1>2, <1>7, <1>9, <1>10 DEF Counted
  <2> QED
    BY <1>2, <2>1 DEF SInv, Counts
<1>14. Ends'
  <2>1. pc'[Main] = pc[Main] /\ row'[Main] = row[Main]
    BY <1>3, <1>4, <1>5
  <2>2. ~(pc[Main] \in {"lookup", "open", "send", "returned", "refused"})
    BY <1>1 DEF SInv, Ends
  <2>3. \A v \in Workers : pc'[v] = "exited" => cancelled'
    BY <1>1, <1>2, <1>3, <1>5 DEF SInv, Ends
  <2>4. \A v \in Workers : pc'[v] = "quit" => cancelled'
    BY <1>2, <1>3, <1>5 DEF SInv, Ends
  <2> QED
    BY <2>1, <2>2, <2>3, <2>4 DEF SInv, Ends
<1> QED
  BY <1>11, <1>12, <1>13, <1>14 DEF SInv

\* The row stored is held, so it is not among the counted ones yet.
LEMMA InsertKeeps ==
  ASSUME SInv, IInv, NEW w \in Workers, Insert(w)
  PROVE  SInv'
<1>1. TypeOK /\ pc[w] = "insert" /\ w \in Procs /\ w # Main
  BY PoolFacts DEF IInv, Insert, At
<1>2. /\ jobs' = jobs /\ results' = results /\ row' = row /\ summary' = summary
      /\ cancelled' = cancelled
      /\ stored' = stored \/ stored' = stored \cup {row[w]}
  BY DEF Insert, channels
<1>3. pc'[w] \in {"lookup", "report"} /\ \A q \in Procs \ {w} : pc'[q] = pc[q]
  BY <1>1 DEF Insert, Goto, AfterInsert, TypeOK
<1>4. \/ ok' = ok /\ stored' = stored
      \/ row[w] \in stored' /\ \A v \in Workers \ {w} : ok'[v] = ok[v]
  BY <1>1 DEF Insert, TypeOK
<1>5. Main \in Procs \ {w} /\ Workers \ {w} \subseteq Procs \ {w}
  BY PoolFacts
<1>6. w \in Holders /\ Holders' = Holders
  BY <1>1, <1>3, <1>5 DEF Holders, Held
<1>7. HeldRows' = HeldRows /\ Queued' = Queued /\ Reported' = Reported /\ row[w] \in HeldRows
  BY <1>2, <1>6 DEF HeldRows, Queued, Reported
<1>8. Apart'
  BY <1>2, <1>6, <1>7 DEF SInv, Apart
<1>9. Truthful'
  <2>1. stored \subseteq stored'
    BY <1>2
  <2>2. \A v \in Holders' : ok'[v] => row'[v] \in stored'
    BY <1>2, <1>4, <1>6, <2>1 DEF SInv, Truthful, Holders
  <2> QED
    BY <1>2, <2>1, <2>2 DEF SInv, Truthful
<1>10. Counts'
  <2>1. Counted' = Counted
    BY <1>2, <1>7 DEF Counted
  <2> QED
    BY <1>2, <2>1 DEF SInv, Counts
<1>11. Ends'
  <2>1. pc'[Main] = pc[Main]
    BY <1>3, <1>5
  <2>2. ~(pc[Main] \in {"lookup", "open", "send", "returned", "refused"})
    BY <1>1 DEF SInv, Ends
  <2>3. \A v \in Workers : pc'[v] \in {"exited", "quit"} => pc'[v] = pc[v]
    BY <1>3, <1>5
  <2> QED
    BY <1>2, <2>1, <2>2, <2>3 DEF SInv, Ends, JobsClosed
<1> QED
  BY <1>8, <1>9, <1>10, <1>11 DEF SInv

\* A report moves a row from the worker to the channel.
LEMMA ReportKeeps ==
  ASSUME SInv, IInv, NEW w \in Workers, Report(w)
  PROVE  SInv'
<1> DEFINE r == row[w]
           e == <<r, ok[w]>>
<1>1. TypeOK /\ pc[w] \in {"report", "quit"} /\ w \in Procs /\ w # Main /\ r \in Rows
  BY PoolFacts DEF IInv, Report, Places, Held
<1>2. /\ results' = Append(results, e) /\ jobs' = jobs /\ row' = row /\ ok' = ok
      /\ summary' = summary /\ cancelled' = cancelled /\ stored' = stored
  BY DEF Report
<1>3. /\ pc'[w] = IF pc[w] = "quit" THEN "exited" ELSE "take"
      /\ \A q \in Procs \ {w} : pc'[q] = pc[q]
  BY <1>1 DEF Report, Goto, At, TypeOK
<1>4. Main \in Procs \ {w} /\ Workers \ {w} \subseteq Procs \ {w}
  BY PoolFacts
<1>5. w \in Holders /\ Holders' = Holders \ {w}
  BY <1>1, <1>3, <1>4 DEF Holders, Held
<1>6. r \in HeldRows /\ HeldRows' = HeldRows \ {r}
  BY <1>2, <1>5 DEF HeldRows, SInv, Apart
<1>7. r \notin Queued /\ r \notin Reported /\ r \notin summary.errors /\ r < row[Main]
  BY <1>6 DEF SInv, Apart
<1>8. e \in Rows \X BOOLEAN /\ e[1] = r /\ results \in Seq(Rows \X BOOLEAN)
  BY <1>1 DEF TypeOK
<1>9. /\ Reported' = Reported \cup {r} /\ DistinctKeys(results')
      /\ \A i \in 1..Len(results') : (i \in 1..Len(results) /\ results'[i] = results[i]) \/ results'[i] = e
  BY <1>2, <1>7, <1>8, AppendAddsKey DEF Reported, SInv, Apart
<1>10. Queued' = Queued
  BY <1>2 DEF Queued
<1>11. Apart'
  <2>1. /\ Distinct(jobs')
        /\ \A v, u \in Holders' : row'[v] = row'[u] => v = u
    BY <1>2, <1>5 DEF SInv, Apart
  <2>2. /\ \A q \in Queued' : q \notin Reported' /\ q \notin HeldRows' /\ q \notin summary'.errors
                               /\ q \notin stored'
        /\ \A q \in Reported' : q \notin HeldRows' /\ q \notin summary'.errors
        /\ \A q \in HeldRows' : q \notin summary'.errors
        /\ \A q \in Queued' \cup Reported' \cup HeldRows' \cup summary'.errors \cup stored' : q < row'[Main]
    <3> HIDE DEF r, e
    <3> QED
      BY <1>2, <1>6, <1>7, <1>9, <1>10 DEF SInv, Apart
  <2> QED
    BY <1>9, <2>1, <2>2 DEF Apart
<1>12. Truthful'
  <2>1. ok[w] => r \in stored
    BY <1>5 DEF SInv, Truthful
  <2>2. \A i \in 1..Len(results') : results'[i][2] => results'[i][1] \in stored'
    BY <1>2, <1>9, <2>1 DEF SInv, Truthful
  <2> QED
    BY <1>2, <1>5, <2>2 DEF SInv, Truthful
<1>13. Counts'
  <2>1. Counted' = Counted
    <3> HIDE DEF r, e
    <3> QED
      BY <1>2, <1>6, <1>9 DEF Counted
  <2> QED
    BY <1>2, <2>1 DEF SInv, Counts
<1>14. Ends'
  <2>1. pc'[Main] = pc[Main]
    BY <1>3, <1>4
  <2>2. ~(pc[Main] \in {"lookup", "open", "send", "returned", "refused"})
    BY <1>1 DEF SInv, Ends
  <2>3. \A v \in Workers : pc'[v] = "exited" => cancelled' \/ (jobs' = <<>> /\ JobsClosed')
    BY <1>2, <1>3, <1>4, <2>1 DEF SInv, Ends, JobsClosed
  <2>4. \A v \in Workers : pc'[v] = "quit" => cancelled'
    BY <1>2, <1>3, <1>4 DEF SInv, Ends
  <2> QED
    BY <1>2, <2>1, <2>2, <2>3, <2>4 DEF SInv, Ends
<1> QED
  BY <1>11, <1>12, <1>13, <1>14 DEF SInv

-----------------------------------------------------------------------------
(* The theorems. *)

\* Nothing has been pushed at first.
LEMMA InitSInv == Init => SInv
<1> SUFFICES ASSUME Init PROVE SInv
  OBVIOUS
<1>1. pc[Main] = "parse" /\ \A w \in Workers : pc[w] = "start"
  BY PoolFacts DEF Init
<1>2. Holders = {}
  BY <1>1 DEF Holders, Held
<1>3. jobs = <<>> /\ results = <<>> /\ stored = {} /\ Len(jobs) = 0 /\ Len(results) = 0
  BY DEF Init
<1>4. Queued = {} /\ Reported = {} /\ HeldRows = {} /\ summary.errors = {}
  BY <1>2, <1>3 DEF Init, Queued, Reported, HeldRows, Elements, Keys
<1>5. Apart
  BY <1>2, <1>3, <1>4 DEF Apart, Distinct, DistinctKeys
<1>6. Truthful
  BY <1>2, <1>3 DEF Truthful
<1>7. Counts
  <2>1. Counted = {}
    BY <1>3 DEF Counted
  <2> QED
    BY <1>4, <2>1, FS_EmptySet DEF Counts, Init
<1>8. Ends
  BY <1>1 DEF Ends
<1> QED
  BY <1>5, <1>6, <1>7, <1>8 DEF SInv

\* Every step keeps the invariant.
LEMMA NextSInv == SInv /\ IInv /\ [Next]_vars => SInv'
<1> SUFFICES ASSUME SInv, IInv, [Next]_vars PROVE SInv'
  OBVIOUS
<1>1. CASE Serve
  BY <1>1, ParseKeeps, PushKeeps, CollectKeeps, CollectedKeeps DEF Serve
<1>2. CASE \E w \in Workers : importWorker(w)
  BY <1>2, TakeKeeps, ExitKeeps, InsertKeeps, ReportKeeps DEF importWorker
<1>3. CASE \E p \in Procs : Publish(p)
  BY <1>3, PublishKeeps
<1>4. CASE Cancel \/ RegisterElsewhere \/ UNCHANGED vars
  BY <1>4, OutsideKeeps
<1> QED
  BY <1>1, <1>2, <1>3, <1>4 DEF Next

\* In every reachable state no row is in two places, and the successes counted
\* are the stored rows in none of them.
THEOREM SummaryInvariance == Spec => []SInv
<1> QED
  BY InitSInv, NextSInv, Invariance, PTL DEF Spec

\* The summary agrees with the table: what was counted as a success is stored,
\* what was stored is counted or among the errors, and every row is reported
\* unless the client went away (service.go:144-147, 174-185, 247-266).
THEOREM SummaryExact == Spec => []SummaryIsExact
<1>1. ASSUME SInv, IInv, Aggregated
      PROVE  /\ summary.succeeded = Cardinality(stored \ summary.errors)
             /\ summary.failed = Cardinality(summary.errors)
             /\ ~cancelled => summary.succeeded + summary.failed = N
  <2>1. results = <<>> /\ (\A w \in Workers : pc[w] = "exited") /\ row[Main] = N + 1
    BY <1>1 DEF SInv, Ends, Aggregated
  <2>2. Holders = {}
    BY <2>1 DEF Holders, Held
  <2>3. Counted = stored \ summary.errors
    <3>1. Reported = {} /\ HeldRows = {}
      BY <2>1, <2>2 DEF Reported, HeldRows, Keys
    <3> QED
      BY <3>1 DEF Counted
  <2>4. ASSUME ~cancelled PROVE summary.succeeded + summary.failed = N
    <3>1. 1 \in Workers
      BY UserImportAssumption DEF Workers, Pool, Asked
    <3>2. jobs = <<>>
      BY <1>1, <2>1, <2>4, <3>1 DEF SInv, Ends
    <3>3. Len(jobs) = 0 /\ Len(results) = 0 /\ Cardinality(Holders) = 0
      BY <2>1, <2>2, <3>2, FS_EmptySet
    <3>4. summary.succeeded \in Nat /\ summary.failed \in Nat /\ N \in Nat
      BY <1>1, Terms DEF IInv
    <3>5. Placed = N
      <4>1. Placed = row[Main] - 1
        BY <1>1 DEF IInv, RowsPlaced
      <4> QED
        BY <2>1, <3>4, <4>1
    <3> QED
      BY <3>3, <3>4, <3>5 DEF Placed
  <2> QED
    BY <1>1, <2>3, <2>4 DEF SInv, Counts
<1>2. SInv => (pc[Main] = "refused" => stored = {})
  BY DEF SInv, Ends
<1>3. SInv /\ IInv => SummaryIsExact
  BY <1>1, <1>2 DEF SummaryIsExact
<1> QED
  BY <1>3, SummaryInvariance, Invariance, PTL

-----------------------------------------------------------------------------
(***************************************************************************)
(* The events.  When Kafka takes every one of them, the events of an import*)
(* name the users counted as successes, each once, and the summary is the  *)
(* last of them.                                                           *)
(***************************************************************************)

(* The inductive invariant: until the summary is published, a row is announced
   exactly when its registration has succeeded. *)

Told == {topic[i][2] : i \in 1..Len(topic)}

\* The stages of a registration whose INSERT was acknowledged.
Announcing == {"lookup", "open", "send"}

\* What a worker knows of its row.
Honest(w) ==
  /\ pc[w] \in {"insert", "quit"} => ~ok[w]
  /\ pc[w] \in Announcing => ok[w]
  /\ row[w] \in Told => pc[w] = "report" /\ ok[w]
  /\ pc[w] = "report" /\ ok[w] => row[w] \in Told

Accounts ==
  /\ \A i \in 1..Len(topic) : topic[i][1] = "USER_CREATED"
  /\ Len(topic) = Cardinality(Told)
  /\ \A r \in Told : r \in stored /\ r \notin summary.errors
  /\ \A r \in stored : r \in Told \/ r \in summary.errors \/ r \in Reported \/ r \in HeldRows
  /\ \A i \in 1..Len(results) : /\ results[i][2] => results[i][1] \in Told
                                /\ results[i][1] \in Told => results[i][2]
  /\ \A w \in Holders : Honest(w)

EInv ==
  /\ pc[Main] # "returned" => Accounts
  /\ pc[Main] = "returned" => AnnouncedBeforeSummary

-----------------------------------------------------------------------------
(* Steps that announce nothing. *)

\* A step that moves no row from one place to another.
LEMMA QuietAccounts ==
  ASSUME Accounts, UNCHANGED <<topic, stored, summary, results, ok>>,
         \A w \in Workers : row'[w] = row[w], Holders' = Holders,
         \A w \in Holders : pc'[w] = pc[w] \/ (pc[w] \in Announcing /\ pc'[w] \in Announcing)
  PROVE  Accounts'
<1>1. Told' = Told /\ Reported' = Reported
  BY DEF Told, Reported
<1>2. \A w \in Holders : w \in Workers /\ row'[w] = row[w]
  BY DEF Holders
<1>3. HeldRows' = HeldRows
  BY <1>2 DEF HeldRows
<1>4. \A w \in Holders' : Honest(w)'
  BY <1>1, <1>2 DEF Accounts, Honest, Announcing
<1> QED
  BY <1>1, <1>3, <1>4 DEF Accounts

\* The steps before a row is taken and after it was reported.
LEMMA MainQuiet ==
  ASSUME IInv, Accounts, Parse \/ Push \/ Collected
  PROVE  Accounts'
<1>1. UNCHANGED <<topic, stored, summary, results, ok>>
  BY DEF Parse, Push, Collected, channels, producer
<1>2. \A w \in Workers : row'[w] = row[w]
  BY PoolFacts DEF Parse, Push, Collected, IInv, TypeOK
<1>3. CASE Push \/ Collected
  <2>1. \A w \in Workers : pc'[w] = pc[w]
    BY <1>3, PoolFacts DEF Push, Collected, Goto, IInv, TypeOK
  <2> QED
    BY <1>1, <1>2, <2>1, QuietAccounts DEF Holders
<1>4. CASE Parse
  <2>1. \A w \in Workers : pc[w] = "start"
    BY <1>4 DEF Parse, IInv, Places, At
  <2>2. \A w \in Workers : pc'[w] \in {"exited", "take"}
    BY <1>4, PoolFacts DEF Parse
  <2>3. Holders = {} /\ Holders' = {}
    BY <2>1, <2>2 DEF Holders, Held
  <2> QED
    BY <1>1, <1>2, <2>3, QuietAccounts
<1> QED
  BY <1>3, <1>4

\* A worker that goes away holds no row.
LEMMA ExitQuiet ==
  ASSUME IInv, Accounts, NEW w \in Workers, Exit(w)
  PROVE  Accounts'
<1>1. UNCHANGED <<topic, stored, summary, results, ok, row>> /\ pc[w] = "take"
  BY DEF Exit, channels, producer, At
<1>2. pc'[w] = "exited" /\ \A q \in Procs \ {w} : pc'[q] = pc[q]
  BY PoolFacts DEF Exit, Goto, IInv, TypeOK
<1>3. Holders' = Holders /\ w \notin Holders
  BY <1>1, <1>2, PoolFacts DEF Holders, Held
<1>4. \A v \in Holders : pc'[v] = pc[v]
  BY <1>2, <1>3, PoolFacts DEF Holders
<1> QED
  BY <1>1, <1>3, <1>4, QuietAccounts

\* Looking up and opening the writer announces nothing yet.
LEMMA WriterQuiet ==
  ASSUME IInv, Accounts, NEW p \in Procs, Lookup(p) \/ Open(p)
  PROVE  Accounts'
<1>1. UNCHANGED <<topic, stored, summary, results, ok, row>>
  BY DEF Lookup, Open, channels, producer
<1>2. /\ pc[p] \in Announcing /\ pc'[p] \in Announcing
      /\ \A q \in Procs \ {p} : pc'[q] = pc[q]
  BY DEF Lookup, Open, Goto, At, Announcing, IInv, TypeOK
<1>3. Announcing \subseteq Held
  BY DEF Announcing, Held
<1>4. Holders' = Holders
  BY <1>2, <1>3, PoolFacts DEF Holders
<1>5. \A w \in Holders : pc'[w] = pc[w] \/ (pc[w] \in Announcing /\ pc'[w] \in Announcing)
  BY <1>2, PoolFacts DEF Holders
<1> QED
  BY <1>1, <1>4, <1>5, QuietAccounts

-----------------------------------------------------------------------------
(* Steps that move a row. *)

\* A row of the channel is not stored, so nobody has announced it.
LEMMA TakeAccounts ==
  ASSUME SInv, IInv, Accounts, NEW w \in Workers, Take(w)
  PROVE  Accounts'
<1> DEFINE r == Head(jobs)
<1>1. TypeOK /\ jobs # <<>> /\ pc[w] = "take" /\ w \in Procs /\ w # Main
  BY PoolFacts DEF IInv, Take, At
<1>2. /\ row' = [row EXCEPT ![w] = r] /\ ok' = [ok EXCEPT ![w] = FALSE]
      /\ results' = results /\ summary' = summary /\ stored' = stored /\ topic' = topic
  BY DEF Take, producer
<1>3. /\ pc'[w] \in {"quit", "insert"}
      /\ \A q \in Procs \ {w} : pc'[q] = pc[q]
  BY <1>1 DEF Take, Goto, TypeOK
<1>4. /\ row'[w] = r /\ (\A q \in Procs \ {w} : row'[q] = row[q])
      /\ ~ok'[w] /\ (\A v \in Workers \ {w} : ok'[v] = ok[v])
  BY <1>1, <1>2 DEF TypeOK
<1>5. Workers \ {w} \subseteq Procs \ {w}
  BY PoolFacts
<1>6. w \notin Holders /\ Holders' = Holders \cup {w}
  BY <1>1, <1>3, <1>5 DEF Holders, Held
<1>7. HeldRows \subseteq HeldRows'
  <2>1. \A v \in Holders : v # w /\ row'[v] = row[v]
    BY <1>4, <1>5, <1>6 DEF Holders
  <2> QED
    BY <1>6, <2>1 DEF HeldRows
<1>8. Told' = Told /\ Reported' = Reported
  BY <1>2 DEF Told, Reported
<1>9. r \notin Told
  <2>1. r \in Queued
    BY <1>1, TailLeaves DEF TypeOK, Queued, SInv, Apart
  <2> HIDE DEF r
  <2> QED
    BY <2>1 DEF SInv, Apart, Accounts
<1>10. \A v \in Holders' : Honest(v)'
  <2> HIDE DEF r
  <2>1. Honest(w)'
    BY <1>3, <1>4, <1>8, <1>9 DEF Honest, Announcing
  <2>2. ASSUME NEW v \in Holders PROVE Honest(v)'
    <3>1. v \in Workers \ {w} /\ pc'[v] = pc[v] /\ row'[v] = row[v] /\ ok'[v] = ok[v]
      BY <1>3, <1>4, <1>5, <1>6 DEF Holders
    <3> QED
      BY <1>8, <3>1 DEF Accounts, Honest
  <2> QED
    BY <1>6, <2>1, <2>2
<1> QED
  BY <1>2, <1>7, <1>8, <1>10 DEF Accounts

\* The row stored is held, and announced later if the INSERT is acknowledged.
LEMMA InsertAccounts ==
  ASSUME SInv, IInv, Accounts, NEW w \in Workers, Insert(w)
  PROVE  Accounts'
<1>1. TypeOK /\ pc[w] = "insert" /\ w \in Procs
  BY PoolFacts DEF IInv, Insert, At
<1>2. /\ results' = results /\ row' = row /\ summary' = summary /\ topic' = topic
      /\ stored' = stored \/ stored' = stored \cup {row[w]}
  BY DEF Insert, channels, producer
<1>3. /\ pc'[w] \in {"lookup", "report"} /\ \A q \in Procs \ {w} : pc'[q] = pc[q]
      /\ \A v \in Workers \ {w} : ok'[v] = ok[v]
  BY <1>1 DEF Insert, Goto, AfterInsert, TypeOK
<1>4. w \in Holders /\ Holders' = Holders
  BY <1>1, <1>3, PoolFacts DEF Holders, Held
<1>5. ~ok[w] /\ row[w] \notin Told
  BY <1>1, <1>4 DEF Accounts, Honest
<1>6. (pc'[w] = "lookup" => ok'[w]) /\ (pc'[w] = "report" => ~ok'[w])
  BY <1>1, <1>5 DEF Insert, Goto, AfterInsert, TypeOK
<1>7. HeldRows' = HeldRows /\ Reported' = Reported /\ Told' = Told /\ row[w] \in HeldRows
  BY <1>2, <1>4 DEF HeldRows, Reported, Told
<1>8. \A v \in Holders' : Honest(v)'
  <2>1. Honest(w)'
    BY <1>2, <1>3, <1>5, <1>6, <1>7 DEF Honest, Announcing
  <2>2. ASSUME NEW v \in Holders, v # w PROVE Honest(v)'
    <3>1. pc'[v] = pc[v] /\ row'[v] = row[v] /\ ok'[v] = ok[v]
      BY <1>2, <1>3, <2>2, PoolFacts DEF Holders
    <3> QED
      BY <1>7, <3>1 DEF Accounts, Honest
  <2> QED
    BY <1>4, <2>1, <2>2
<1> QED
  BY <1>2, <1>7, <1>8 DEF Accounts

\* A worker reports a success exactly when it has announced its row.
LEMMA ReportAccounts ==
  ASSUME SInv, IInv, Accounts, NEW w \in Workers, Report(w)
  PROVE  Accounts'
<1> DEFINE r == row[w]
           e == <<r, ok[w]>>
<1>1. TypeOK /\ pc[w] \in {"report", "quit"} /\ w \in Procs /\ r \in Rows
  BY PoolFacts DEF IInv, Report, Places, Held
<1>2. /\ results' = Append(results, e) /\ row' = row /\ ok' = ok
      /\ summary' = summary /\ stored' = stored /\ topic' = topic
  BY DEF Report, producer
<1>3. pc'[w] \in {"exited", "take"} /\ \A q \in Procs \ {w} : pc'[q] = pc[q]
  BY <1>1 DEF Report, Goto, TypeOK
<1>4. w \in Holders /\ Holders' = Holders \ {w}
  BY <1>1, <1>3, PoolFacts DEF Holders, Held
<1>5. HeldRows \subseteq HeldRows' \cup {r}
  BY <1>2, <1>4 DEF HeldRows
<1>6. /\ Reported' = Reported \cup {r}
      /\ \A i \in 1..Len(results') : (i \in 1..Len(results) /\ results'[i] = results[i]) \/ results'[i] = e
  <2>1. e \in Rows \X BOOLEAN /\ e[1] = r /\ results \in Seq(Rows \X BOOLEAN)
    BY <1>1 DEF TypeOK
  <2> QED
    BY <1>2, <2>1, AppendAddsKey DEF Reported
<1>7. Told' = Told
  BY <1>2 DEF Told
<1>8. (ok[w] => r \in Told) /\ (r \in Told => ok[w])
  BY <1>1, <1>4 DEF Accounts, Honest
<1>9. \A i \in 1..Len(results') : /\ results'[i][2] => results'[i][1] \in Told
                                  /\ results'[i][1] \in Told => results'[i][2]
  BY <1>6, <1>8 DEF Accounts
<1>10. \A v \in Holders' : Honest(v)'
  <2>1. ASSUME NEW v \in Holders' PROVE Honest(v)'
    <3>1. v \in Holders /\ pc'[v] = pc[v]
      BY <1>3, <1>4, PoolFacts DEF Holders
    <3> QED
      BY <1>2, <1>7, <3>1 DEF Accounts, Honest
  <2> QED
    BY <2>1
<1>11. \A q \in stored' : q \in Told' \/ q \in summary'.errors \/ q \in Reported' \/ q \in HeldRows'
  <2> HIDE DEF r, e
  <2> QED
    BY <1>2, <1>5, <1>6, <1>7 DEF Accounts
<1> QED
  BY <1>2, <1>7, <1>9, <1>10, <1>11 DEF Accounts

\* A result collected is an error exactly when its row was not announced.
LEMMA CollectAccounts ==
  ASSUME SInv, IInv, Accounts, Collect
  PROVE  Accounts'
<1> DEFINE h == Head(results)
           r == h[1]
<1>1. TypeOK /\ results # <<>>
  BY DEF IInv, Collect
<1>2. /\ results' = Tail(results)
      /\ summary' = IF h[2] THEN [summary EXCEPT !.succeeded = @ + 1]
                    ELSE [summary EXCEPT !.failed = @ + 1, !.errors = @ \cup {r}]
      /\ pc' = pc /\ row' = row /\ ok' = ok /\ stored' = stored /\ topic' = topic
  BY DEF Collect, producer
<1>3. h \in Rows \X BOOLEAN /\ h[2] \in BOOLEAN /\ results \in Seq(Rows \X BOOLEAN)
  BY <1>1, HeadTailProperties DEF TypeOK
<1>4. /\ Reported' = Reported \ {r}
      /\ \A i \in 1..Len(results') : i + 1 \in 1..Len(results) /\ results'[i] = results[i + 1]
      /\ h = results[1] /\ 1 \in 1..Len(results)
  BY <1>1, <1>2, <1>3, TailLeavesKeys DEF Reported, SInv, Apart
<1>5. Holders' = Holders /\ HeldRows' = HeldRows /\ Told' = Told
  BY <1>2 DEF Holders, HeldRows, Told
<1>6. summary \in [succeeded : 0..N, failed : 0..N, errors : SUBSET Rows]
  BY <1>1 DEF TypeOK
<1>7. (h[2] => r \in Told) /\ (r \in Told => h[2])
  BY <1>4 DEF Accounts
<1> HIDE DEF r, h
<1>8. (h[2] /\ summary'.errors = summary.errors) \/ (~h[2] /\ summary'.errors = summary.errors \cup {r})
  BY <1>2, <1>3, <1>6
<1>9. \A q \in Told' : q \in stored' /\ q \notin summary'.errors
  BY <1>2, <1>5, <1>7, <1>8 DEF Accounts
<1>10. \A q \in stored' : q \in Told' \/ q \in summary'.errors \/ q \in Reported' \/ q \in HeldRows'
  BY <1>2, <1>4, <1>5, <1>7, <1>8 DEF Accounts
<1>11. \A w \in Holders' : Honest(w)'
  BY <1>2, <1>5 DEF Accounts, Honest
<1> QED
  BY <1>2, <1>4, <1>5, <1>9, <1>10, <1>11 DEF Accounts

-----------------------------------------------------------------------------
(* Steps that announce something. *)

\* What an event adds to the topic.
LEMMA TopicGrows ==
  ASSUME TypeOK, NEW e \in {"USER_CREATED"} \X Rows \cup {"USERS_IMPORTED"} \X (0..N) \X (0..N),
         topic' = Append(topic, e)
  PROVE  /\ Len(topic') = Len(topic) + 1 /\ Len(topic) \in Nat /\ topic'[Len(topic) + 1] = e
         /\ \A i \in 1..Len(topic) : topic'[i] = topic[i]
         /\ \A i \in 1..Len(topic') : i \in 1..Len(topic) \/ i = Len(topic) + 1
<1> DEFINE S == {"USER_CREATED"} \X Rows \cup {"USERS_IMPORTED"} \X (0..N) \X (0..N)
<1>1. topic \in Seq(S) /\ e \in S
  BY DEF TypeOK
<1> HIDE DEF S
<1>2. /\ Len(topic') = Len(topic) + 1 /\ Len(topic) \in Nat /\ topic'[Len(topic) + 1] = e
      /\ \A i \in 1..Len(topic) : topic'[i] = topic[i]
  BY <1>1, AppendProperties, LenProperties
<1> QED
  BY <1>2

\* A worker announces a row that nobody announced before.
LEMMA AnnounceAccounts ==
  ASSUME "kafka" \notin Faults, SInv, IInv, Accounts, NEW w \in Workers, Send(w)
  PROVE  Accounts'
<1> DEFINE r == row[w]
           e == <<"USER_CREATED", r>>
<1>1. TypeOK /\ pc[w] = "send" /\ w \in Procs /\ w # Main
  BY PoolFacts DEF IInv, Send, At
<1>2. w \in Holders /\ r \in Rows
  BY <1>1 DEF Holders, Held, IInv, Places
<1>3. /\ UNCHANGED <<results, row, ok, summary, stored>>
      /\ topic' = Append(topic, e)
  BY <1>1 DEF Send, EventOf, channels
<1>4. pc'[w] = "report" /\ \A q \in Procs \ {w} : pc'[q] = pc[q]
  BY <1>1 DEF Send, Goto, TypeOK
<1>5. Holders' = Holders
  BY <1>2, <1>4, PoolFacts DEF Holders, Held
<1>6. HeldRows' = HeldRows /\ Reported' = Reported /\ r \in HeldRows
  BY <1>2, <1>3, <1>5 DEF HeldRows, Reported
<1>7. ok[w] /\ r \notin Told /\ r \in stored /\ r \notin summary.errors /\ r \notin Reported
  <2>1. ok[w] /\ r \notin Told
    BY <1>1, <1>2 DEF Accounts, Honest, Announcing
  <2> QED
    BY <1>2, <1>6, <2>1 DEF SInv, Apart, Truthful
<1>8. /\ Len(topic') = Len(topic) + 1 /\ Len(topic) \in Nat /\ topic'[Len(topic) + 1] = e
      /\ \A i \in 1..Len(topic) : topic'[i] = topic[i]
      /\ \A i \in 1..Len(topic') : i \in 1..Len(topic) \/ i = Len(topic) + 1
  BY <1>1, <1>2, <1>3, TopicGrows
<1>9. Told' = Told \cup {r}
  BY <1>8 DEF Told
<1>10. Len(topic') = Cardinality(Told')
  <2>1. IsFiniteSet(Told)
    <3>1. IsFiniteSet(Rows)
      BY UserImportAssumption, FS_Interval DEF Rows
    <3>2. stored \subseteq Rows /\ Told \subseteq stored
      BY <1>1 DEF Accounts, TypeOK
    <3> QED
      BY <3>1, <3>2, FS_Subset
  <2>2. Cardinality(Told \cup {r}) = Cardinality(Told) + 1
    BY <1>7, <2>1, FS_AddElement
  <2> QED
    BY <1>8, <1>9, <2>2 DEF Accounts
<1> HIDE DEF r
<1>11. \A i \in 1..Len(topic') : topic'[i][1] = "USER_CREATED"
  BY <1>8 DEF Accounts
<1>12. \A i \in 1..Len(results') : /\ results'[i][2] => results'[i][1] \in Told'
                                   /\ results'[i][1] \in Told' => results'[i][2]
  BY <1>3, <1>7, <1>9 DEF Accounts, Reported, Keys
<1>13. \A v \in Holders' : Honest(v)'
  <2>1. Honest(w)'
    BY <1>3, <1>4, <1>7, <1>9 DEF Honest, Announcing, r
  <2>2. ASSUME NEW v \in Holders, v # w PROVE Honest(v)'
    <3>1. pc'[v] = pc[v] /\ row'[v] = row[v] /\ ok'[v] = ok[v] /\ row[v] # r
      BY <1>2, <1>3, <1>4, <2>2, PoolFacts DEF Holders, SInv, Apart, r
    <3> QED
      BY <1>9, <3>1 DEF Accounts, Honest
  <2> QED
    BY <1>5, <2>1, <2>2
<1>14. /\ \A q \in Told' : q \in stored' /\ q \notin summary'.errors
       /\ \A q \in stored' : q \in Told' \/ q \in summary'.errors \/ q \in Reported' \/ q \in HeldRows'
  BY <1>3, <1>6, <1>7, <1>9 DEF Accounts
<1> QED
  BY <1>10, <1>11, <1>12, <1>13, <1>14 DEF Accounts

\* The summary comes last, when no row is on its way any more.
LEMMA SummaryComesLast ==
  ASSUME "kafka" \notin Faults, SInv, IInv, Accounts, Send(Main)
  PROVE  pc'[Main] = "returned" /\ AnnouncedBeforeSummary'
<1> DEFINE e == EventOf(Main)
<1>1. TypeOK /\ pc[Main] = "send"
  BY DEF IInv, Send, At
<1>2. UNCHANGED <<summary, stored>> /\ topic' = Append(topic, e)
  BY DEF Send
<1>3. e \in {"USERS_IMPORTED"} \X (0..N) \X (0..N)
  BY <1>1 DEF EventOf, TypeOK
<1>4. pc'[Main] = "returned"
  BY <1>1, PoolFacts DEF Send, Goto, TypeOK
<1>5. results = <<>> /\ \A w \in Workers : pc[w] = "exited"
  BY <1>1 DEF SInv, Ends
<1>6. Reported = {} /\ HeldRows = {}
  BY <1>5 DEF Reported, Keys, HeldRows, Holders, Held
<1>7. Told = stored \ summary.errors
  BY <1>6 DEF Accounts
<1> HIDE DEF e
<1>8. /\ Len(topic') = Len(topic) + 1 /\ Len(topic) \in Nat /\ topic'[Len(topic) + 1] = e
      /\ \A i \in 1..Len(topic) : topic'[i] = topic[i]
      /\ \A i \in 1..Len(topic') : i \in 1..Len(topic) \/ i = Len(topic) + 1
  BY <1>1, <1>2, <1>3, TopicGrows
<1>9. e[1] = "USERS_IMPORTED" /\ DOMAIN topic' = 1..Len(topic')
  <2>1. topic' \in Seq({"USER_CREATED"} \X Rows \cup {"USERS_IMPORTED"} \X (0..N) \X (0..N))
    BY <1>1, <1>2, <1>3, AppendProperties DEF TypeOK
  <2> QED
    BY <1>3, <2>1, LenProperties
<1>10. Announced' = Told
  <2>1. {j \in DOMAIN topic' : topic'[j][1] = "USER_CREATED"} = 1..Len(topic)
    BY <1>8, <1>9 DEF Accounts
  <2>2. Announced' = {topic'[i][2] : i \in 1..Len(topic)}
    BY <2>1 DEF Announced
  <2> QED
    BY <1>8, <2>2 DEF Told
<1>11. ASSUME NEW i \in DOMAIN topic', topic'[i][1] = "USERS_IMPORTED" PROVE i = Len(topic')
  BY <1>8, <1>9, <1>11 DEF Accounts
<1>12. Len(topic') = Cardinality(Announced') + 1
  BY <1>8, <1>10 DEF Accounts
<1> QED
  BY <1>2, <1>4, <1>7, <1>10, <1>11, <1>12 DEF AnnouncedBeforeSummary

-----------------------------------------------------------------------------
(* The theorem. *)

\* Once the summary is published every goroutine of the import is done.
LEMMA ReturnedStands ==
  ASSUME SInv, IInv, pc[Main] = "returned", AnnouncedBeforeSummary, [Next]_vars
  PROVE  pc'[Main] = "returned" /\ AnnouncedBeforeSummary'
<1>1. \A w \in Workers : pc[w] = "exited"
  BY DEF SInv, Ends
<1>2. \A p \in Procs : pc[p] \in {"exited", "returned"}
  BY <1>1 DEF Procs
<1>3. ~Serve
  BY DEF Serve, Parse, Push, Collect, Collected, At
<1>4. ASSUME NEW w \in Workers, importWorker(w) PROVE FALSE
  BY <1>1, <1>4 DEF importWorker, Take, Exit, Insert, Report, At
<1>5. ASSUME NEW p \in Procs, Publish(p) PROVE FALSE
  BY <1>2, <1>5 DEF Publish, Lookup, Open, Send, At
<1>6. RegisterElsewhere \/ UNCHANGED vars
  BY <1>3, <1>4, <1>5 DEF Next, Cancel
<1>7. pc' = pc /\ topic' = topic /\ stored' = stored /\ summary' = summary
  BY <1>6 DEF RegisterElsewhere, vars, producer
<1> QED
  BY <1>7 DEF AnnouncedBeforeSummary, Announced

\* Nothing is announced at first.
LEMMA InitEInv == Init => EInv
<1> SUFFICES ASSUME Init PROVE EInv
  OBVIOUS
<1>1. pc[Main] = "parse" /\ \A w \in Workers : pc[w] = "start"
  BY PoolFacts DEF Init
<1>2. Holders = {} /\ Len(topic) = 0 /\ Len(results) = 0 /\ stored = {}
  BY <1>1 DEF Init, Holders, Held
<1>3. Told = {}
  BY <1>2 DEF Told
<1>4. Accounts
  BY <1>2, <1>3, FS_EmptySet DEF Accounts
<1> QED
  BY <1>1, <1>4 DEF EInv

\* While the import goes on, every step keeps the accounts or closes them.
LEMMA GoingOn ==
  ASSUME "kafka" \notin Faults, SInv, IInv, Accounts, [Next]_vars
  PROVE  Accounts' \/ (pc'[Main] = "returned" /\ AnnouncedBeforeSummary')
<1>1. CASE Serve
  BY <1>1, MainQuiet, CollectAccounts DEF Serve
<1>2. CASE \E w \in Workers : importWorker(w)
  BY <1>2, TakeAccounts, ExitQuiet, InsertAccounts, ReportAccounts DEF importWorker
<1>3. CASE \E p \in Procs : Publish(p)
  <2>1. PICK p \in Procs : Publish(p)
    BY <1>3
  <2>2. CASE Lookup(p) \/ Open(p)
    BY <2>2, WriterQuiet
  <2>3. CASE Send(p)
    BY <2>3, AnnounceAccounts, SummaryComesLast DEF Procs
  <2> QED
    BY <2>1, <2>2, <2>3 DEF Publish
<1>4. CASE Cancel \/ RegisterElsewhere \/ UNCHANGED vars
  <2>1. UNCHANGED <<topic, stored, summary, results, ok, row, pc>>
    BY <1>4 DEF Cancel, RegisterElsewhere, vars, channels, producer
  <2>2. Holders' = Holders
    BY <2>1 DEF Holders
  <2> QED
    BY <2>1, <2>2, QuietAccounts
<1> QED
  BY <1>1, <1>2, <1>3, <1>4 DEF Next

\* Only the publication of the summary ends the import.
LEMMA OnlySummaryReturns ==
  ASSUME "kafka" \notin Faults, SInv, IInv, Accounts, [Next]_vars,
         pc[Main] # "returned", pc'[Main] = "returned"
  PROVE  AnnouncedBeforeSummary'
<1>1. CASE Serve
  <2>1. pc'[Main] # "returned"
    BY <1>1, PoolFacts DEF Serve, Parse, Push, Collect, Collected, Goto, IInv, TypeOK
  <2> QED
    BY <2>1
<1>2. CASE \E w \in Workers : importWorker(w)
  <2>1. PICK w \in Workers : importWorker(w)
    BY <1>2
  <2>2. pc'[Main] = pc[Main]
    BY <2>1, PoolFacts DEF importWorker, Take, Exit, Insert, Report, Goto, IInv, TypeOK
  <2> QED
    BY <2>2
<1>3. CASE \E p \in Procs : Publish(p)
  <2>1. PICK p \in Procs : Publish(p)
    BY <1>3
  <2>2. p = Main /\ Send(p)
    BY <2>1, PoolFacts DEF Publish, Lookup, Open, Send, Goto, IInv, TypeOK
  <2> QED
    BY <2>2, SummaryComesLast
<1>4. CASE Cancel \/ RegisterElsewhere \/ UNCHANGED vars
  BY <1>4 DEF Cancel, RegisterElsewhere, vars
<1> QED
  BY <1>1, <1>2, <1>3, <1>4 DEF Next

\* When Kafka takes every event, the users counted as successes are those
\* announced, each once, and all of them before USERS_IMPORTED is, whatever
\* fails in the database and whenever the client goes away (service.go:105, 191).
THEOREM AnnouncedFirst ==
  ASSUME "kafka" \notin Faults
  PROVE  Spec => []AnnouncedBeforeSummary
<1>1. ASSUME EInv, SInv, IInv, [Next]_vars PROVE EInv'
  <2>1. CASE pc[Main] = "returned"
    BY <1>1, <2>1, ReturnedStands DEF EInv
  <2>2. CASE pc[Main] # "returned"
    BY <1>1, <2>2, GoingOn, OnlySummaryReturns DEF EInv
  <2> QED
    BY <2>1, <2>2
<1>2. ASSUME EInv, IInv PROVE AnnouncedBeforeSummary
  <2>1. CASE pc[Main] = "returned"
    BY <1>2, <2>1 DEF EInv
  <2>2. CASE pc[Main] # "returned"
    <3>1. DOMAIN topic = 1..Len(topic)
      BY <1>2, LenProperties DEF IInv, TypeOK
    <3>2. \A i \in DOMAIN topic : topic[i][1] # "USERS_IMPORTED"
      BY <1>2, <2>2, <3>1 DEF EInv, Accounts
    <3> QED
      BY <3>2 DEF AnnouncedBeforeSummary
  <2> QED
    BY <2>1, <2>2
<1> QED
  BY <1>1, <1>2, InitEInv, SummaryInvariance, Invariance, PTL DEF Spec
=============================================================================

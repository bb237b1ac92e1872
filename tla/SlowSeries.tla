----------------------------- MODULE SlowSeries -----------------------------
(***************************************************************************)
(* The page of slow queries in the OpenMetrics format                      *)
(* (writeSlowOpenMetrics in internal/probe/slowqueries.go).                *)
(*                                                                         *)
(* username stands for the labels that are exported as they come, waitTime *)
(* for cpuTime too, pageFaults for the allocated bytes.  A query's hash    *)
(* and its preview are the query itself under another label.               *)
(***************************************************************************)
EXTENDS Series, Coerce

CONSTANTS
  SlowRows,         \* sets of rows [transactionId, username, currentQuery, elapsedTime,
                    \* waitTime, pageFaults], the times values of Coerce
  ExposeQueryText,  \* the values of the module's expose_query_text
  Empty             \* the empty string

\* Transactions have ids, of their own.
ASSUME TransactionAssumption ==
  \A R \in SlowRows :
    /\ IsFiniteSet(R)
    /\ \A r \in R : r.transactionId # Empty
    /\ \A q, r \in R : q.transactionId = r.transactionId => q = r

\* agg holds whether the module exposes the text.
SlowInit ==
  \E R \in SlowRows, exposeText \in ExposeQueryText :
    /\ loop = "slow"
    /\ rows = R
    /\ todo = R
    /\ taken = 0
    /\ agg = exposeText
    /\ gauge = <<>>
    /\ done = FALSE

\* A label without a value is left out.
joinLabels(labels) == {l \in labels : l[2] # Empty}

InfoLabels(r, exposeText) ==
  joinLabels({<<"transaction_id", r.transactionId>>, <<"username", r.username>>,
              <<"query_hash", r.currentQuery>>}
             \cup IF exposeText THEN {<<"query_preview", r.currentQuery>>} ELSE {})

\* The series beside the info, seconds times Giga.
Sizes(r) ==
  [k \in {"elapsed", "wait", "page_faults"} \X {r.transactionId} |->
     CASE k[1] = "elapsed" -> DurSeconds(r.elapsedTime)
       [] k[1] = "wait" -> DurSeconds(r.waitTime)
       [] k[1] = "page_faults" -> r.pageFaults]

\* What each of the loops writes for a row.
RowLines(r) == Put(One(<<"info", InfoLabels(r, agg)>>, 1), Sizes(r))

SlowRow(r) ==
  /\ loop = "slow"
  /\ Take(r)
  /\ gauge' = Put(gauge, RowLines(r))
  /\ UNCHANGED <<agg, done>>

SlowEnd ==
  /\ loop = "slow"
  /\ Emit(<<>>)

SlowNext == (\E r \in todo : SlowRow(r)) \/ SlowEnd

-----------------------------------------------------------------------------
(* Properties.                                                             *)

\* A transaction takes as long on the page as it does in the gauges of a probe: each
\* converts the months, days, seconds and nanoseconds of a Cypher duration, and whatever
\* else is no number, for itself (slowqueries.go:238-250, collector/coerce.go:16-51,
\* CHANGELOG.md:12).  They differ on a number without a unit, which a driver may come to
\* return (slowqueries.go:253-260): milliseconds or nanoseconds to the page, seconds to
\* the probe.
SlowAsProbed ==
  loop = "slow" /\ done =>
    \A r \in rows : r.elapsedTime.type \notin {"bool", "int", "float", "text_number"} =>
      gauge[<<"elapsed", r.transactionId>>] = AsFloat64(r.elapsedTime)

\* Every transaction has a series of each kind of its own, however alike the queries
\* and the users are, and names its query by the hash whenever it runs one
\* (slowqueries.go:123-168).
SlowApart ==
  loop = "slow" /\ done =>
    /\ Cardinality(SeriesOf("info")) = Cardinality(rows)
    /\ Cardinality(SeriesOf("elapsed")) = Cardinality(rows)
    /\ \A r \in rows : r.currentQuery # Empty =>
         \E k \in SeriesOf("info") :
           {<<"transaction_id", r.transactionId>>, <<"query_hash", r.currentQuery>>} \subseteq k[2]

=============================================================================

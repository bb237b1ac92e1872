----------------------------- MODULE RowSeries -----------------------------
(***************************************************************************)
(* How collectors turn the rows of a Cypher result into series             *)
(* (internal/collector/transactions.go, indexes.go, constraints.go,        *)
(* apoc_meta.go, databases.go, apoc_kernel.go).                            *)
(***************************************************************************)
EXTENDS Series, Coerce, FiniteSetsExt

CONSTANTS
  Loop,            \* the loops a run looks at
  TxRows,          \* sets of rows [db, status, active, longest, total]: total
                   \* stands for each of the columns that are summed
  IndexRows,       \* sets of rows [name, state, kind, reads]: kind stands for
                   \* the type and the entity type
  ConstraintRows,  \* sets of rows [name, kind]
  MetaRows,        \* sets of entries [name, count] of a map of apoc.meta.stats
  DatabaseRows,    \* sets of rows [name, status, default]
  KernelRows,      \* sets of rows [db, instant, start]: start encodes the instant
  NoDatabase,      \* the empty string, of a row without a database
  OwnDatabase,     \* the database of the target
  NoStatus,        \* the empty string, of a database without a status
  KnownStatus,     \* dbStatuses
  Cap,             \* NameLabelMaxCardinality, MaxLabelCardinality
  Truncated        \* the label "<truncated>"

ASSUME CapAssumption == Cap \in Nat \ {0}

ASSUME FiniteAssumption ==
  \A R \in IndexRows \cup ConstraintRows \cup MetaRows : IsFiniteSet(R)

\* The query groups the transactions by database and status, and what it sums and
\* takes the maximum of are durations, bytes and counts.
ASSUME TxAssumption ==
  \A R \in TxRows :
    /\ IsFiniteSet(R)
    /\ \A r \in R : {r.longest, r.total} \subseteq Nat
    /\ \A q, r \in R : q.db = r.db /\ q.status = r.status => q = r

\* Names that are unique: those of the keys of a map, none of which is the truncated
\* label, and of the databases of an edition without clusters.
ASSUME NameAssumption ==
  /\ \A R \in MetaRows \cup DatabaseRows : \A q, r \in R : q.name = r.name => q = r
  /\ \A R \in MetaRows : \A r \in R : r.name # Truncated

\* apoc.monitor.kernel dates its kernel later than Large milliseconds after 1970, in
\* April, and not after Large seconds.
ASSUME KernelAssumption ==
  \A R \in KernelRows : \A r \in R :
    /\ r.instant \in Large \div Kilo + 1 .. Large
    /\ r.start \in Encodings(r.instant)

ASSUME LoopAssumption ==
  Loop \subseteq {"transactions", "indexes", "constraints", "meta", "databases", "kernel"}

RowsOf == [transactions |-> TxRows, indexes |-> IndexRows, constraints |-> ConstraintRows,
           meta |-> MetaRows, databases |-> DatabaseRows, kernel |-> KernelRows]

Init == \E name \in Loop : \E R \in RowsOf[name] : Start(name, R)

-----------------------------------------------------------------------------
(* TransactionsCollector.                                                  *)

NoAggregate == [longest |-> 0, total |-> 0]

\* Mutant: the last row's elapsed time wins.
AddedLast(a, r) == [longest |-> r.longest, total |-> a.total + r.total]

Added(a, r) ==
  [longest |-> IF r.longest > a.longest THEN r.longest ELSE a.longest,
   total   |-> a.total + r.total]

TransactionsRow(r) ==
  /\ loop = "transactions"
  /\ Take(r)
  /\ IF r.db = NoDatabase THEN UNCHANGED <<agg, gauge>>
     ELSE /\ gauge' = Put(gauge, One(<<"active", r.db, r.status>>, r.active))
          /\ agg' = Put(agg, One(r.db, Added(IF r.db \in DOMAIN agg THEN agg[r.db]
                                             ELSE NoAggregate, r)))
  /\ UNCHANGED done

TransactionsEnd ==
  /\ loop = "transactions"
  /\ Emit([k \in {"longest", "total"} \X DOMAIN agg |-> agg[k[2]][k[1]]])

-----------------------------------------------------------------------------
(* IndexesCollector.                                                       *)

\* Mutant: the comparison is off by one.
NameLabelLate(r) == IF taken > Cap THEN Truncated ELSE r.name

\* The name label of the row that is taken next.
NameLabel(r) == IF taken >= Cap THEN Truncated ELSE r.name

\* One more of the kind k: agg[k]++.
Counted(k) == One(k, 1 + IF k \in DOMAIN agg THEN agg[k] ELSE 0)

IndexesRow(r) ==
  /\ loop = "indexes"
  /\ Take(r)
  /\ agg' = Put(agg, Counted(<<r.state, r.kind>>))
  /\ gauge' = Put(Put(gauge, One(<<"reads", NameLabel(r), r.kind>>, r.reads)),
                  IF r.state = "POPULATING"
                  THEN One(<<"population", NameLabel(r), r.kind>>, 0) ELSE <<>>)
  /\ UNCHANGED done

IndexesEnd ==
  /\ loop = "indexes"
  /\ Emit([k \in {<<"count", s[1], s[2]>> : s \in DOMAIN agg} |-> agg[<<k[2], k[3]>>]])

-----------------------------------------------------------------------------
(* ConstraintsCollector.                                                   *)

ConstraintsRow(r) ==
  /\ loop = "constraints"
  /\ Take(r)
  /\ agg' = Put(agg, Counted(r.kind))
  /\ UNCHANGED <<gauge, done>>

ConstraintsEnd ==
  /\ loop = "constraints"
  /\ Emit([k \in {<<"constraints", s>> : s \in DOMAIN agg} |-> agg[k[2]]])

-----------------------------------------------------------------------------
(* emitMapBounded.                                                         *)

\* Mutant: the map is cut without a trace.
CutSilently(e) == <<>>

\* The series for the first entry beyond the cap.
CutSeries(e) == One(<<"by_name", Truncated>>, e.count)

MetaEntry(e) ==
  /\ loop = "meta"
  /\ Take(e)
  /\ \/ /\ taken < Cap
        /\ gauge' = Put(gauge, One(<<"by_name", e.name>>, e.count))
        /\ UNCHANGED done
     \/ /\ taken >= Cap
        /\ gauge' = Put(gauge, CutSeries(e))
        /\ done' = TRUE
  /\ UNCHANGED agg

MetaEnd ==
  /\ loop = "meta"
  /\ Emit(<<>>)

-----------------------------------------------------------------------------
(* DatabasesCollector.                                                     *)

\* Mutant: a status that is not in the list is dropped.
StatusSeriesKnown(r) ==
  [k \in {<<"status", r.name, s>> : s \in KnownStatus} |-> IF k[3] = r.status THEN 1 ELSE 0]

\* One series for each known status, and one for a status that is not known.
StatusSeries(r) ==
  [k \in {<<"status", r.name, s>> : s \in (KnownStatus \cup {r.status}) \ {NoStatus}}
     |-> IF k[3] = r.status THEN 1 ELSE 0]

DatabasesRow(r) ==
  /\ loop = "databases"
  /\ Take(r)
  /\ IF r.name = NoDatabase THEN UNCHANGED gauge
     ELSE gauge' = Put(Put(gauge, StatusSeries(r)),
                       One(<<"default", r.name>>, IF r.default THEN 1 ELSE 0))
  /\ UNCHANGED <<agg, done>>

DatabasesEnd ==
  /\ loop = "databases"
  /\ Emit(<<>>)

-----------------------------------------------------------------------------
(* APOCKernelCollector: the first row.                                     *)

KernelRow(r) ==
  /\ loop = "kernel"
  /\ Take(r)
  /\ gauge' = One(<<"start", IF r.db = NoDatabase THEN OwnDatabase ELSE r.db>>,
                  AsUnixSeconds(r.start))
  /\ done' = TRUE
  /\ UNCHANGED agg

\* A result without a row.
KernelEnd ==
  /\ loop = "kernel"
  /\ Emit(<<>>)

-----------------------------------------------------------------------------
Next ==
  \/ \E r \in todo :
       \/ TransactionsRow(r) \/ IndexesRow(r) \/ ConstraintsRow(r)
       \/ MetaEntry(r) \/ DatabasesRow(r) \/ KernelRow(r)
  \/ TransactionsEnd \/ IndexesEnd \/ ConstraintsEnd \/ MetaEnd \/ DatabasesEnd \/ KernelEnd
  \/ Finished

Spec == Init /\ [][Next]_vars

-----------------------------------------------------------------------------
(* Properties.                                                             *)

\* For each database the transaction gauges are the maximum and the sum over its
\* rows, whatever the order of the rows; a row without a database is in none of
\* them, and no other series is there (transactions.go:105-142).
TransactionTotals ==
  loop = "transactions" /\ done =>
    LET named == {r \in rows : r.db # NoDatabase}
        of(db) == {r \in named : r.db = db}
    IN  /\ DOMAIN gauge = {<<"active", r.db, r.status>> : r \in named}
                          \cup ({"longest", "total"} \X {r.db : r \in named})
        /\ \A r \in named :
             /\ gauge[<<"active", r.db, r.status>>] = r.active
             /\ gauge[<<"longest", r.db>>] = Max({q.longest : q \in of(r.db)})
             /\ gauge[<<"total", r.db>>] = MapThenSumSet(LAMBDA q : q.total, of(r.db))

\* At most Cap indexes are named, each with its own read count, and the counts by
\* state and kind still count every index, the truncated ones too
\* (indexes.go:61-84).
IndexesBounded ==
  loop = "indexes" /\ done =>
    LET named == {k \in SeriesOf("reads") : k[2] # Truncated}
    IN  /\ Cardinality({k[2] : k \in named}) <= Cap
        /\ \A k \in named : \E r \in rows :
             r.name = k[2] /\ r.kind = k[3] /\ r.reads = gauge[k]
        /\ \A r \in rows :
             gauge[<<"count", r.state, r.kind>>] =
               Cardinality({q \in rows : q.state = r.state /\ q.kind = r.kind})

\* Every constraint is counted once, under its type and entity type, in whatever order
\* they come, and nothing else is (constraints.go:29-36).
ConstraintsCounted ==
  loop = "constraints" /\ done =>
    /\ DOMAIN gauge = {<<"constraints", r.kind>> : r \in rows}
    /\ \A r \in rows :
         gauge[<<"constraints", r.kind>>] = Cardinality({q \in rows : q.kind = r.kind})

\* The kernel's start is exported as the instant it is, in seconds (times Giga, like
\* everything that Coerce yields), in whichever form the version of APOC gives it, for
\* the target's database if the row names none (apoc_kernel.go:55-68,76-107).
KernelDated ==
  loop = "kernel" /\ done /\ rows # {} =>
    \E r \in rows :
      gauge = One(<<"start", IF r.db = NoDatabase THEN OwnDatabase ELSE r.db>>,
                   Giga * r.instant)

\* A map within the cap is exported whole; of a larger one exactly Cap entries
\* keep their names, and the truncated label says that there were more
\* (apoc_meta.go:76-87).
MetaBounded ==
  loop = "meta" /\ done =>
    LET exported == {e \in rows : <<"by_name", e.name>> \in DOMAIN gauge}
    IN  /\ Cardinality(exported) = Min({Cap, Cardinality(rows)})
        /\ \A e \in exported : gauge[<<"by_name", e.name>>] = e.count
        /\ <<"by_name", Truncated>> \in DOMAIN gauge <=> exported # rows

\* Every database with a status is in exactly one, also if it is one the exporter
\* does not know (databases.go:58-75).
OneStatus ==
  loop = "databases" /\ done =>
    \A r \in rows :
      (r.name # NoDatabase /\ r.status # NoStatus) =>
        {k \in SeriesOf("status") : k[2] = r.name /\ gauge[k] = 1}
          = {<<"status", r.name, r.status>>}

=============================================================================

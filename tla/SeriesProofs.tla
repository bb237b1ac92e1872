---------------------------- MODULE SeriesProofs ----------------------------
(***************************************************************************)
(* Theorems about the loops of MetricSeries, for results of any size and   *)
(* any order of their rows.                                                *)
(*                                                                         *)
(* Each loop has an invariant of its own that says what it has exported    *)
(* for the rows it has come to, those of rows \ todo.                      *)
(***************************************************************************)
EXTENDS MetricSeries, FiniteSetTheorems, TLAPS

\* The rows the loop has come to.
Seen == rows \ todo

\* What Put and One give.
LEMMA PutDomain ==
  ASSUME NEW f, NEW g
  PROVE  DOMAIN Put(f, g) = DOMAIN f \cup DOMAIN g
  BY DEF Put

LEMMA PutValue ==
  ASSUME NEW f, NEW g, NEW k \in DOMAIN f \cup DOMAIN g
  PROVE  Put(f, g)[k] = IF k \in DOMAIN g THEN g[k] ELSE f[k]
  BY DEF Put

LEMMA PutParts ==
  ASSUME NEW f, NEW g
  PROVE  /\ DOMAIN Put(f, g) = DOMAIN f \cup DOMAIN g
         /\ \A k \in DOMAIN g : Put(f, g)[k] = g[k]
         /\ \A k \in DOMAIN f \ DOMAIN g : Put(f, g)[k] = f[k]
  BY DEF Put

LEMMA OneValue ==
  ASSUME NEW k, NEW v
  PROVE  DOMAIN One(k, v) = {k} /\ One(k, v)[k] = v
  BY DEF One

LEMMA NothingIn == DOMAIN <<>> = {}
  OBVIOUS

\* One more series.
LEMMA PutOne ==
  ASSUME NEW f, NEW k, NEW v
  PROVE  DOMAIN Put(f, One(k, v)) = DOMAIN f \cup {k}
  BY DEF Put, One

LEMMA PutNew ==
  ASSUME NEW f, NEW k, NEW v
  PROVE  Put(f, One(k, v))[k] = v
  BY DEF Put, One

LEMMA PutOld ==
  ASSUME NEW f, NEW k, NEW v, NEW x \in DOMAIN f, x # k
  PROVE  Put(f, One(k, v))[x] = f[x]
  BY DEF Put, One

LEMMA PutLast ==
  ASSUME NEW f, NEW g, NEW k \in DOMAIN g
  PROVE  Put(f, g)[k] = g[k]
  BY DEF Put

LEMMA PutNothing ==
  ASSUME NEW f
  PROVE  DOMAIN Put(f, <<>>) = DOMAIN f /\ \A k \in DOMAIN f : Put(f, <<>>)[k] = f[k]
<1>1. DOMAIN Put(f, <<>>) = DOMAIN f \cup DOMAIN <<>>
  BY PutDomain
<1>2. ASSUME NEW k \in DOMAIN f PROVE Put(f, <<>>)[k] = f[k]
  <2>1. k \notin DOMAIN <<>> /\ k \in DOMAIN f \cup DOMAIN <<>>
    BY NothingIn
  <2> QED
    BY <2>1, PutValue
<1> QED
  BY <1>1, <1>2, NothingIn

\* A step is one of the loop that runs, and leaves its rows.
LEMMA OwnSteps ==
  ASSUME SeriesNext
  PROVE  /\ UNCHANGED <<loop, rows>>
         /\ loop = "constraints" =>
              (\E r \in todo : ConstraintsRow(r)) \/ ConstraintsEnd \/ Finished
         /\ loop = "kernel" => (\E r \in todo : KernelRow(r)) \/ KernelEnd \/ Finished
         /\ loop = "databases" => (\E r \in todo : DatabasesRow(r)) \/ DatabasesEnd \/ Finished
         /\ loop = "indexes" => (\E r \in todo : IndexesRow(r)) \/ IndexesEnd \/ Finished
         /\ loop = "meta" => (\E r \in todo : MetaEntry(r)) \/ MetaEnd \/ Finished
         /\ loop = "transactions" =>
              (\E r \in todo : TransactionsRow(r)) \/ TransactionsEnd \/ Finished
         /\ loop = "jolokia" =>
              (\E r \in todo : JolokiaResponse(r)) \/ JolokiaShort \/ JolokiaEnd \/ Finished
         /\ loop = "gc" => (\E r \in todo : GCBean(r)) \/ GCEnd \/ Finished
         /\ loop = "slow" => (\E r \in todo : SlowRow(r)) \/ SlowEnd \/ Finished
<1>1. ASSUME NEW r \in todo,
             \/ TransactionsRow(r) \/ IndexesRow(r) \/ ConstraintsRow(r)
             \/ MetaEntry(r) \/ DatabasesRow(r) \/ KernelRow(r)
             \/ JolokiaResponse(r) \/ GCBean(r) \/ SlowRow(r)
      PROVE  UNCHANGED <<loop, rows>>
  BY <1>1 DEF TransactionsRow, IndexesRow, ConstraintsRow, MetaEntry, DatabasesRow, KernelRow,
      JolokiaResponse, GCBean, SlowRow, Take
<1>2. ASSUME \/ TransactionsEnd \/ IndexesEnd \/ ConstraintsEnd \/ MetaEnd \/ DatabasesEnd
             \/ KernelEnd \/ JolokiaShort \/ JolokiaEnd \/ GCEnd \/ SlowEnd \/ Finished
      PROVE  UNCHANGED <<loop, rows>>
  BY <1>2 DEF TransactionsEnd, IndexesEnd, ConstraintsEnd, MetaEnd, DatabasesEnd, KernelEnd,
      JolokiaShort, JolokiaEnd, GCEnd, SlowEnd, Finished, vars, Emit
<1>3. /\ \A r : TransactionsRow(r) => loop = "transactions"
      /\ \A r : IndexesRow(r) => loop = "indexes"
      /\ \A r : ConstraintsRow(r) => loop = "constraints"
      /\ \A r : MetaEntry(r) => loop = "meta"
      /\ \A r : DatabasesRow(r) => loop = "databases"
      /\ \A r : KernelRow(r) => loop = "kernel"
      /\ \A r : JolokiaResponse(r) => loop = "jolokia"
      /\ \A r : GCBean(r) => loop = "gc"
      /\ \A r : SlowRow(r) => loop = "slow"
  BY DEF TransactionsRow, IndexesRow, ConstraintsRow, MetaEntry, DatabasesRow, KernelRow,
      JolokiaResponse, GCBean, SlowRow
<1>4. /\ TransactionsEnd => loop = "transactions"
      /\ IndexesEnd => loop = "indexes"
      /\ ConstraintsEnd => loop = "constraints"
      /\ MetaEnd => loop = "meta"
      /\ DatabasesEnd => loop = "databases"
      /\ KernelEnd => loop = "kernel"
      /\ JolokiaShort \/ JolokiaEnd => loop = "jolokia"
      /\ GCEnd => loop = "gc"
      /\ SlowEnd => loop = "slow"
  BY DEF TransactionsEnd, IndexesEnd, ConstraintsEnd, MetaEnd, DatabasesEnd, KernelEnd,
      JolokiaShort, JolokiaEnd, GCEnd, SlowEnd
<1>5. UNCHANGED <<loop, rows>>
  BY <1>1, <1>2 DEF SeriesNext, Next, JolokiaNext, SlowNext
<1> QED
  BY <1>3, <1>4, <1>5 DEF SeriesNext, Next, JolokiaNext, SlowNext

\* What a loop starts from.
LEMMA Starts ==
  ASSUME SeriesInit
  PROVE  /\ todo = rows /\ taken = 0 /\ gauge = <<>> /\ done = FALSE
         /\ loop # "slow" => agg = <<>>
         /\ loop = "constraints" => rows \in ConstraintRows
         /\ loop = "kernel" => rows \in KernelRows
         /\ loop = "databases" => rows \in DatabaseRows
         /\ loop = "indexes" => rows \in IndexRows
         /\ loop = "meta" => rows \in MetaRows
         /\ loop = "transactions" => rows \in TxRows
         /\ loop = "jolokia" => \E reply \in Replies : rows = Indexed(Bulk(reply))
         /\ loop = "slow" => rows \in SlowRows
  BY LoopAssumption DEF SeriesInit, Init, JolokiaInit, GCInit, SlowInit, Start, RowsOf

-----------------------------------------------------------------------------
(* The kernel's start.                                                     *)

\* Milliseconds of an instant are above Large and divide back to it.
LEMMA Milliseconds ==
  ASSUME NEW t \in Large \div Kilo + 1 .. Large
  PROVE  /\ t \in Nat /\ ~(t > Large)
         /\ Kilo * t > Large /\ (Kilo * t) \div Kilo = t
<1>1. Kilo \in Nat \ {0} /\ Large \in Nat \ {0} /\ Large % Kilo = 0
  BY UnitAssumption
<1>2. t \in Nat /\ t <= Large /\ t > Large \div Kilo
  BY <1>1
<1>3. Kilo * t > Large
  BY <1>1, <1>2
<1>4. (Kilo * t) \div Kilo = t
  BY <1>1, <1>2
<1> QED
  BY <1>1, <1>2, <1>3, <1>4

\* And so they do when both are counted Giga times.
LEMMA ScaledMilliseconds ==
  ASSUME NEW t \in Large \div Kilo + 1 .. Large
  PROVE  /\ ~(Giga * t > Giga * Large)
         /\ Giga * (Kilo * t) > Giga * Large
         /\ (Giga * (Kilo * t)) \div Kilo = Giga * t
<1>1. Giga \in Nat \ {0} /\ Kilo \in Nat \ {0} /\ Large \in Nat \ {0}
  BY UnitAssumption
<1>2. t \in Nat /\ t <= Large /\ Kilo * t > Large /\ Kilo * t \in Nat
  BY <1>1, Milliseconds
<1>3. \A i, j \in Nat : i > j => Giga * i > Giga * j
  BY <1>1
<1>4. ~(Giga * t > Giga * Large)
  <2>1. CASE t = Large
    BY <1>1, <1>2, <2>1
  <2>2. CASE t # Large
    <3>1. Large > t
      BY <1>1, <1>2, <2>2
    <3>2. Giga * Large > Giga * t
      BY <1>1, <1>2, <1>3, <3>1
    <3> QED
      BY <1>1, <1>2, <3>2
  <2> QED
    BY <2>1, <2>2
<1>5. (Giga * (Kilo * t)) \div Kilo = Giga * t
  <2>1. Giga * (Kilo * t) = Kilo * (Giga * t) /\ Giga * t \in Nat
    BY <1>1, <1>2
  <2>2. \A i \in Nat : (Kilo * i) \div Kilo = i
    BY <1>1
  <2> QED
    BY <2>1, <2>2
<1> QED
  BY <1>1, <1>2, <1>3, <1>4, <1>5

LEMMA InstantKept ==
  ASSUME NEW t \in Large \div Kilo + 1 .. Large, NEW v \in Encodings(t)
  PROVE  AsUnixSeconds(v) = Giga * t
  BY ScaledMilliseconds, UnitAssumption DEF Encodings, AsUnixSeconds, AsFloat64

KernelInv ==
  loop = "kernel" =>
    /\ rows \in KernelRows
    /\ todo \subseteq rows
    /\ done \/ todo = rows
    /\ done /\ rows # {} =>
         \E r \in rows :
           gauge = One(<<"start", IF r.db = NoDatabase THEN OwnDatabase ELSE r.db>>,
                       Giga * r.instant)

LEMMA KernelStep == KernelInv /\ [SeriesNext]_vars => KernelInv'
<1> SUFFICES ASSUME KernelInv, [SeriesNext]_vars, loop' = "kernel" PROVE KernelInv'
  BY DEF KernelInv
<1>1. CASE UNCHANGED vars
  BY <1>1 DEF vars, KernelInv
<1>2. CASE SeriesNext
  <2>1. loop = "kernel" /\ rows' = rows
    BY <1>2, OwnSteps
  <2>2. ASSUME NEW r \in todo, KernelRow(r) PROVE KernelInv'
    <3>1. r \in rows /\ rows \in KernelRows
      BY <2>1 DEF KernelInv
    <3>2. AsUnixSeconds(r.start) = Giga * r.instant
      BY <3>1, KernelAssumption, InstantKept
    <3>3. done' = TRUE /\ todo' \subseteq rows
      BY <2>1, <2>2 DEF KernelRow, Take, KernelInv
    <3>4. gauge' = One(<<"start", IF r.db = NoDatabase THEN OwnDatabase ELSE r.db>>,
                       Giga * r.instant)
      BY <2>2, <3>2 DEF KernelRow
    <3> QED
      BY <2>1, <3>1, <3>3, <3>4 DEF KernelInv
  <2>3. CASE KernelEnd
    BY <2>1, <2>3 DEF KernelEnd, Emit, KernelInv
  <2>4. CASE Finished
    BY <2>4 DEF Finished, vars, KernelInv
  <2> QED
    BY <1>2, <2>1, <2>2, <2>3, <2>4, OwnSteps
<1> QED
  BY <1>1, <1>2

\* In whichever form APOC gives the kernel's start, the instant that is exported is
\* the one it means, for every instant that the two units can tell apart.
THEOREM KernelStartDated == SeriesSpec => []KernelDated
<1>1. SeriesInit => KernelInv
  BY Starts DEF KernelInv
<1>2. KernelInv => KernelDated
  BY DEF KernelInv, KernelDated
<1> QED
  BY <1>1, <1>2, KernelStep, PTL DEF SeriesSpec

-----------------------------------------------------------------------------
(* Every database in one status.                                           *)

DatabasesInv ==
  loop = "databases" =>
    /\ rows \in DatabaseRows
    /\ todo \subseteq rows
    /\ done => todo = {}
    /\ \A r \in Seen : r.name # NoDatabase =>
         \A k \in DOMAIN StatusSeries(r) :
           k \in DOMAIN gauge /\ gauge[k] = StatusSeries(r)[k]
    /\ \A k \in SeriesOf("status") :
         \E r \in Seen : r.name # NoDatabase /\ k \in DOMAIN StatusSeries(r)

\* The series of a database: its name is in each.
LEMMA StatusKeys ==
  ASSUME NEW r, NEW k \in DOMAIN StatusSeries(r)
  PROVE  /\ k = <<"status", r.name, k[3]>> /\ k[1] = "status" /\ k[2] = r.name
         /\ StatusSeries(r)[k] = IF k[3] = r.status THEN 1 ELSE 0
  BY DEF StatusSeries

LEMMA DatabasesRowStep ==
  ASSUME DatabasesInv, loop = "databases", NEW r \in todo, DatabasesRow(r)
  PROVE  DatabasesInv'
<1>1. /\ rows' = rows /\ todo' = todo \ {r} /\ done' = done /\ ~done /\ r \in rows
      /\ rows \in DatabaseRows /\ todo \subseteq rows
  BY DEF DatabasesRow, Take, DatabasesInv
<1>2. Seen' = Seen \cup {r} /\ r \notin Seen
  BY <1>1 DEF Seen
<1>3. CASE r.name = NoDatabase
  BY <1>1, <1>2, <1>3 DEF DatabasesRow, DatabasesInv, SeriesOf
<1>4. CASE r.name # NoDatabase
  <2> DEFINE d == <<"default", r.name>>
             v == IF r.default THEN 1 ELSE 0
             g == Put(gauge, StatusSeries(r))
  <2>1. gauge' = Put(g, One(d, v))
    BY <1>4 DEF DatabasesRow
  <2> HIDE DEF v
  <2>2. DOMAIN gauge' = DOMAIN gauge \cup DOMAIN StatusSeries(r) \cup {d}
    <3>1. DOMAIN One(d, v) = {d}
      BY OneValue
    <3>2. DOMAIN g = DOMAIN gauge \cup DOMAIN StatusSeries(r)
      BY PutDomain
    <3> HIDE DEF g, d
    <3>3. DOMAIN Put(g, One(d, v)) = DOMAIN g \cup DOMAIN One(d, v)
      BY PutDomain
    <3> QED
      BY <2>1, <3>1, <3>2, <3>3
  <2>3. \A k \in DOMAIN gauge \cup DOMAIN StatusSeries(r) : k[1] = "status" =>
          gauge'[k] = IF k \in DOMAIN StatusSeries(r) THEN StatusSeries(r)[k] ELSE gauge[k]
    <3> SUFFICES ASSUME NEW k \in DOMAIN gauge \cup DOMAIN StatusSeries(r), k[1] = "status"
                 PROVE  gauge'[k] = IF k \in DOMAIN StatusSeries(r)
                                    THEN StatusSeries(r)[k] ELSE gauge[k]
      OBVIOUS
    <3>1. k # d
      OBVIOUS
    <3>2. k \in DOMAIN g
      BY PutDomain
    <3>3. gauge'[k] = g[k]
      <4> HIDE DEF g, d
      <4>1. k \in DOMAIN g \cup DOMAIN One(d, v) /\ k \notin DOMAIN One(d, v)
        BY <3>1, <3>2, OneValue
      <4>2. Put(g, One(d, v))[k] = g[k]
        BY <4>1, PutValue
      <4> QED
        BY <2>1, <4>2
    <3> QED
      BY <3>3, PutValue
  <2>4. ASSUME NEW q \in Seen', q.name # NoDatabase, NEW k \in DOMAIN StatusSeries(q)
        PROVE  k \in DOMAIN gauge' /\ gauge'[k] = StatusSeries(q)[k]
    <3>1. k[1] = "status" /\ k[2] = q.name
      BY StatusKeys
    <3>2. CASE q = r
      BY <2>2, <2>3, <3>1, <3>2
    <3>3. CASE q \in Seen
      <4>1. q.name # r.name
        BY <1>1, <1>2, <3>3, NameAssumption DEF Seen
      <4>2. k \notin DOMAIN StatusSeries(r)
        BY <3>1, <4>1, StatusKeys
      <4>3. k \in DOMAIN gauge /\ gauge[k] = StatusSeries(q)[k]
        BY <2>4, <3>3 DEF DatabasesInv
      <4> QED
        BY <2>2, <2>3, <3>1, <4>2, <4>3
    <3> QED
      BY <1>2, <3>2, <3>3
  <2>5. ASSUME NEW k \in SeriesOf("status")'
        PROVE  \E q \in Seen' : q.name # NoDatabase /\ k \in DOMAIN StatusSeries(q)
    <3>1. k \in DOMAIN gauge' /\ k[1] = "status"
      BY DEF SeriesOf
    <3>2. CASE k \in DOMAIN gauge
      BY <1>2, <3>1, <3>2 DEF DatabasesInv, SeriesOf
    <3>3. CASE k \in DOMAIN StatusSeries(r)
      BY <1>2, <1>4, <3>3
    <3> QED
      BY <2>2, <3>1, <3>2, <3>3
  <2> QED
    BY <1>1, <2>4, <2>5 DEF DatabasesInv
<1> QED
  BY <1>3, <1>4

LEMMA DatabasesStep == DatabasesInv /\ [SeriesNext]_vars => DatabasesInv'
<1> SUFFICES ASSUME DatabasesInv, [SeriesNext]_vars, loop' = "databases" PROVE DatabasesInv'
  BY DEF DatabasesInv
<1>1. CASE UNCHANGED vars
  BY <1>1 DEF vars, DatabasesInv, Seen, SeriesOf
<1>2. CASE SeriesNext
  <2>1. loop = "databases" /\ rows' = rows
    BY <1>2, OwnSteps
  <2>2. CASE DatabasesEnd
    <3>1. gauge' = Put(gauge, <<>>) /\ todo = {} /\ todo' = todo
      BY <2>2 DEF DatabasesEnd, Emit
    <3>2. DOMAIN gauge' = DOMAIN gauge /\ \A k \in DOMAIN gauge : gauge'[k] = gauge[k]
      BY <3>1, PutNothing
    <3> QED
      BY <2>1, <3>1, <3>2 DEF DatabasesInv, Seen, SeriesOf
  <2>3. CASE Finished
    BY <2>3 DEF Finished, vars, DatabasesInv, Seen, SeriesOf
  <2> QED
    BY <1>2, <2>1, <2>2, <2>3, DatabasesRowStep, OwnSteps
<1> QED
  BY <1>1, <1>2

\* Every database that has a status is in exactly that one, however many databases
\* there are and whatever the statuses.
THEOREM DatabasesInOneStatus == SeriesSpec => []OneStatus
<1>1. SeriesInit => DatabasesInv
  BY Starts, NothingIn DEF DatabasesInv, Seen, SeriesOf
<1>2. DatabasesInv => OneStatus
  <2> SUFFICES ASSUME DatabasesInv, loop = "databases", done, NEW r \in rows,
                      r.name # NoDatabase, r.status # NoStatus
               PROVE  {k \in SeriesOf("status") : k[2] = r.name /\ gauge[k] = 1}
                        = {<<"status", r.name, r.status>>}
    BY DEF OneStatus
  <2> DEFINE own == <<"status", r.name, r.status>>
  <2>1. Seen = rows /\ rows \in DatabaseRows
    BY DEF DatabasesInv, Seen
  <2>2. own \in DOMAIN StatusSeries(r)
    BY DEF StatusSeries
  <2>3. own \in DOMAIN gauge /\ gauge[own] = 1 /\ own[1] = "status" /\ own[2] = r.name
    BY <2>1, <2>2, StatusKeys DEF DatabasesInv
  <2>4. ASSUME NEW k \in SeriesOf("status"), k[2] = r.name, gauge[k] = 1 PROVE k = own
    <3>1. PICK q \in rows : q.name # NoDatabase /\ k \in DOMAIN StatusSeries(q)
      BY <2>1 DEF DatabasesInv
    <3>2. q = r
      BY <2>1, <2>4, <3>1, StatusKeys, NameAssumption
    <3>3. gauge[k] = StatusSeries(r)[k]
      BY <2>1, <3>1, <3>2 DEF DatabasesInv
    <3> QED
      BY <2>4, <3>1, <3>2, <3>3, StatusKeys
  <2> HIDE DEF own
  <2>5. own \in SeriesOf("status")
    BY <2>3 DEF SeriesOf
  <2>6. {k \in SeriesOf("status") : k[2] = r.name /\ gauge[k] = 1} = {own}
    BY <2>3, <2>4, <2>5
  <2> QED
    BY <2>6 DEF own
<1> QED
  BY <1>1, <1>2, DatabasesStep, PTL DEF SeriesSpec

-----------------------------------------------------------------------------
(* The garbage collectors.                                                 *)

\* The two series under label are those of the MBean b.
Backed(label, b) ==
  LET count == <<"gc_count", label>>
      seconds == <<"gc_seconds", label>>
  IN  /\ parseGCName(b) = label
      /\ count \in DOMAIN gauge
      /\ seconds \in DOMAIN gauge
      /\ gauge[count] = IF b.map THEN b.count ELSE 0
      /\ gauge[seconds] = IF b.map THEN b.time \div Second ELSE 0

GCInv ==
  loop = "gc" =>
    /\ todo \subseteq rows
    /\ done => todo = {}
    /\ \A b \in Seen : \E c \in rows : Backed(parseGCName(b), c)

LEMMA GCRowStep ==
  ASSUME GCInv, loop = "gc", NEW b \in todo, GCBean(b)
  PROVE  GCInv'
<1> DEFINE count(l) == <<"gc_count", l>>
           seconds(l) == <<"gc_seconds", l>>
           label == parseGCName(b)
           n == IF b.map THEN b.count ELSE 0
           t == IF b.map THEN b.time \div Second ELSE 0
           pair == Put(One(count(label), n), One(seconds(label), t))
<1>1. /\ rows' = rows /\ todo' = todo \ {b} /\ done' = done /\ ~done /\ b \in rows
      /\ todo \subseteq rows
  BY DEF GCBean, Take, GCInv
<1>2. Seen' = Seen \cup {b}
  BY <1>1 DEF Seen
<1>3. gauge' = Put(gauge, pair)
  BY DEF GCBean, GCSeries
<1>4. /\ DOMAIN pair = {count(label), seconds(label)}
      /\ pair[count(label)] = n /\ pair[seconds(label)] = t
  <2> DEFINE first == One(count(label), n)
  <2>1. count(label) # seconds(label)
    OBVIOUS
  <2> HIDE DEF n, t, count, seconds
  <2>2. DOMAIN first = {count(label)} /\ first[count(label)] = n
    BY OneValue
  <2> HIDE DEF first
  <2>3. pair = Put(first, One(seconds(label), t))
    BY DEF first
  <2> HIDE DEF pair, label
  <2>4. DOMAIN pair = DOMAIN first \cup {seconds(label)}
    BY <2>3, PutOne
  <2>5. Put(first, One(seconds(label), t))[seconds(label)] = t
    BY PutNew
  <2>6. Put(first, One(seconds(label), t))[count(label)] = first[count(label)]
    BY <2>1, <2>2, PutOld
  <2> QED
    BY <2>1, <2>2, <2>3, <2>4, <2>5, <2>6
<1> HIDE DEF pair, n, t
<1>6. /\ DOMAIN gauge' = DOMAIN gauge \cup DOMAIN pair
      /\ \A k \in DOMAIN pair : gauge'[k] = pair[k]
      /\ \A k \in DOMAIN gauge \ DOMAIN pair : gauge'[k] = gauge[k]
  <2>1. /\ DOMAIN Put(gauge, pair) = DOMAIN gauge \cup DOMAIN pair
        /\ \A k \in DOMAIN pair : Put(gauge, pair)[k] = pair[k]
        /\ \A k \in DOMAIN gauge \ DOMAIN pair : Put(gauge, pair)[k] = gauge[k]
    BY PutParts
  <2> QED
    BY <1>3, <2>1
<1>7. Backed(label, b)'
  BY <1>4, <1>6 DEF Backed, parseGCName, n, t
<1>8. ASSUME NEW q \in Seen PROVE \E c \in rows : Backed(parseGCName(q), c)'
  <2>1. CASE parseGCName(q) = label
    BY <1>1, <1>7, <2>1 DEF parseGCName
  <2>2. CASE parseGCName(q) # label
    <3>1. PICK c \in rows : Backed(parseGCName(q), c)
      BY DEF GCInv
    <3> QED
      BY <1>4, <1>6, <2>2, <3>1 DEF Backed, parseGCName
  <2> QED
    BY <2>1, <2>2
<1> QED
  BY <1>1, <1>2, <1>7, <1>8 DEF GCInv, parseGCName

LEMMA GCStep == GCInv /\ [SeriesNext]_vars => GCInv'
<1> SUFFICES ASSUME GCInv, [SeriesNext]_vars, loop' = "gc" PROVE GCInv'
  BY DEF GCInv
<1>1. CASE UNCHANGED vars
  BY <1>1 DEF vars, GCInv, Seen, Backed, parseGCName
<1>2. CASE SeriesNext
  <2>1. loop = "gc" /\ rows' = rows
    BY <1>2, OwnSteps
  <2>2. CASE GCEnd
    <3>1. gauge' = Put(gauge, <<>>) /\ todo = {} /\ todo' = todo
      BY <2>2 DEF GCEnd, Emit
    <3>2. DOMAIN gauge' = DOMAIN gauge /\ \A k \in DOMAIN gauge : gauge'[k] = gauge[k]
      BY <3>1, PutNothing
    <3>3. ASSUME NEW l, NEW c, Backed(l, c) PROVE Backed(l, c)'
      BY <3>2, <3>3 DEF Backed, parseGCName
    <3> QED
      BY <2>1, <3>1, <3>3 DEF GCInv, Seen, parseGCName
  <2>3. CASE Finished
    BY <2>3 DEF Finished, vars, GCInv, Seen, Backed, parseGCName
  <2> QED
    BY <1>2, <2>1, <2>2, <2>3, GCRowStep, OwnSteps
<1> QED
  BY <1>1, <1>2

\* The count and the time under a gc label are one MBean's, however many MBeans have
\* names that come to that label.
THEOREM GCLabelsConsistent == SeriesSpec => []GCFromOneBean
<1>1. SeriesInit => GCInv
  BY Starts DEF GCInv, Seen
<1>2. GCInv => GCFromOneBean
  <2> SUFFICES ASSUME GCInv, loop = "gc", done, NEW b \in rows
               PROVE  \E c \in rows : Backed(parseGCName(b), c)
    BY DEF GCFromOneBean, Backed
  <2> QED
    BY DEF GCInv, Seen
<1> QED
  BY <1>1, <1>2, GCStep, PTL DEF SeriesSpec

-----------------------------------------------------------------------------
(* The page of slow queries.                                               *)

SlowInv ==
  loop = "slow" =>
    /\ rows \in SlowRows
    /\ todo \subseteq rows
    /\ done => todo = {}
    /\ SeriesOf("info") = {<<"info", InfoLabels(r, agg)>> : r \in Seen}
    /\ SeriesOf("elapsed") = {<<"elapsed", r.transactionId>> : r \in Seen}
    /\ \A r \in Seen : gauge[<<"elapsed", r.transactionId>>] = DurSeconds(r.elapsedTime)

\* The lines for a row.
LEMMA LinesOf ==
  ASSUME NEW r, NEW i, i = <<"info", InfoLabels(r, agg)>>
  PROVE  /\ DOMAIN RowLines(r) =
              {i, <<"elapsed", r.transactionId>>, <<"wait", r.transactionId>>,
               <<"page_faults", r.transactionId>>}
         /\ RowLines(r)[<<"elapsed", r.transactionId>>] = DurSeconds(r.elapsedTime)
<1> DEFINE e == <<"elapsed", r.transactionId>>
<1>1. DOMAIN Sizes(r) = {e, <<"wait", r.transactionId>>, <<"page_faults", r.transactionId>>}
  BY DEF Sizes
<1>2. Sizes(r)[e] = DurSeconds(r.elapsedTime)
  BY DEF Sizes
<1>3. DOMAIN One(i, 1) = {i}
  BY OneValue
<1>4. RowLines(r) = Put(One(i, 1), Sizes(r))
  BY DEF RowLines
<1> HIDE DEF e
<1>5. DOMAIN RowLines(r) = {i} \cup DOMAIN Sizes(r)
  BY <1>3, <1>4, PutDomain
<1>6. Put(One(i, 1), Sizes(r))[e] = Sizes(r)[e]
  BY <1>1, PutLast
<1> QED
  BY <1>1, <1>2, <1>4, <1>5, <1>6 DEF e

LEMMA SlowRowStep ==
  ASSUME SlowInv, loop = "slow", NEW r \in todo, SlowRow(r)
  PROVE  SlowInv'
<1> DEFINE i == <<"info", InfoLabels(r, agg)>>
           e(q) == <<"elapsed", q.transactionId>>
<1>1. /\ rows' = rows /\ todo' = todo \ {r} /\ done' = done /\ ~done /\ r \in rows
      /\ rows \in SlowRows /\ todo \subseteq rows /\ agg' = agg
  BY DEF SlowRow, Take, SlowInv
<1>2. Seen' = Seen \cup {r} /\ r \notin Seen /\ Seen \subseteq rows
  BY <1>1 DEF Seen
<1>3. /\ DOMAIN RowLines(r) = {i, e(r), <<"wait", r.transactionId>>,
                               <<"page_faults", r.transactionId>>}
      /\ RowLines(r)[e(r)] = DurSeconds(r.elapsedTime)
  BY LinesOf
<1>4. gauge' = Put(gauge, RowLines(r))
  BY DEF SlowRow
<1>5. /\ DOMAIN Put(gauge, RowLines(r)) = DOMAIN gauge \cup DOMAIN RowLines(r)
      /\ \A k \in DOMAIN RowLines(r) : Put(gauge, RowLines(r))[k] = RowLines(r)[k]
      /\ \A k \in DOMAIN gauge \ DOMAIN RowLines(r) : Put(gauge, RowLines(r))[k] = gauge[k]
  BY PutParts
<1>6. SeriesOf("info")' = SeriesOf("info") \cup {i}
  <2> DEFINE L == InfoLabels(r, agg)
  <2> HIDE DEF L
  <2>1. i = <<"info", L>>
    BY DEF L
  <2> QED
    BY <1>3, <1>4, <1>5, <2>1 DEF SeriesOf
<1>7. SeriesOf("elapsed")' = SeriesOf("elapsed") \cup {e(r)}
  <2> DEFINE L == InfoLabels(r, agg)
  <2> HIDE DEF L
  <2>1. i = <<"info", L>>
    BY DEF L
  <2> QED
    BY <1>3, <1>4, <1>5, <2>1 DEF SeriesOf
<1>8. ASSUME NEW q \in Seen' PROVE gauge'[e(q)] = DurSeconds(q.elapsedTime)
  <2>1. CASE q = r
    BY <1>3, <1>4, <1>5, <2>1
  <2>2. CASE q \in Seen
    <3>1. q.transactionId # r.transactionId
      BY <1>1, <1>2, <2>2, TransactionAssumption
    <3>2. e(q) \in DOMAIN gauge /\ gauge[e(q)] = DurSeconds(q.elapsedTime)
      BY <1>1, <2>2 DEF SlowInv, SeriesOf
    <3>3. e(q) \notin DOMAIN RowLines(r)
      BY <1>3, <3>1
    <3> QED
      BY <1>4, <1>5, <3>2, <3>3
  <2> QED
    BY <1>2, <2>1, <2>2
<1>9. SeriesOf("info")' = {<<"info", InfoLabels(q, agg')>> : q \in Seen'}
  BY <1>1, <1>2, <1>6 DEF SlowInv, InfoLabels, joinLabels
<1>10. SeriesOf("elapsed")' = {e(q) : q \in Seen'}
  BY <1>1, <1>2, <1>7 DEF SlowInv
<1> QED
  BY <1>1, <1>8, <1>9, <1>10 DEF SlowInv, DurSeconds

LEMMA SlowStep == SlowInv /\ [SeriesNext]_vars => SlowInv'
<1> SUFFICES ASSUME SlowInv, [SeriesNext]_vars, loop' = "slow" PROVE SlowInv'
  BY DEF SlowInv
<1>1. CASE UNCHANGED vars
  BY <1>1 DEF vars, SlowInv, Seen, SeriesOf, InfoLabels, joinLabels, DurSeconds
<1>2. CASE SeriesNext
  <2>1. loop = "slow" /\ rows' = rows
    BY <1>2, OwnSteps
  <2>2. CASE SlowEnd
    <3>1. gauge' = Put(gauge, <<>>) /\ todo = {} /\ todo' = todo /\ agg' = agg
      BY <2>2 DEF SlowEnd, Emit
    <3>2. DOMAIN gauge' = DOMAIN gauge /\ \A k \in DOMAIN gauge : gauge'[k] = gauge[k]
      BY <3>1, PutNothing
    <3>3. \A m : SeriesOf(m)' = SeriesOf(m)
      BY <3>2 DEF SeriesOf
    <3>4. Seen' = Seen
      BY <2>1, <3>1 DEF Seen
    <3>5. \A r \in Seen : gauge'[<<"elapsed", r.transactionId>>] = DurSeconds(r.elapsedTime)
      BY <2>1, <3>2 DEF SlowInv, SeriesOf
    <3> QED
      BY <2>1, <3>1, <3>3, <3>4, <3>5 DEF SlowInv, InfoLabels, joinLabels, DurSeconds
  <2>3. CASE Finished
    BY <2>3 DEF Finished, vars, SlowInv, Seen, SeriesOf, InfoLabels, joinLabels, DurSeconds
  <2> QED
    BY <1>2, <2>1, <2>2, <2>3, SlowRowStep, OwnSteps
<1> QED
  BY <1>1, <1>2

LEMMA SlowInvHolds == SeriesSpec => []SlowInv
<1>1. SeriesInit => SlowInv
  BY Starts, NothingIn DEF SlowInv, Seen, SeriesOf
<1> QED
  BY <1>1, SlowStep, PTL DEF SeriesSpec

\* The slow-query page and the probe agree on how long a transaction has taken.
THEOREM PageAsProbe == SeriesSpec => []SlowAsProbed
<1>1. SlowInv => SlowAsProbed
  BY DEF SlowInv, SlowAsProbed, Seen, DurSeconds, AsFloat64
<1> QED
  BY <1>1, SlowInvHolds, PTL

\* As many images as elements.
LEMMA ImageCardinality ==
  ASSUME NEW S, IsFiniteSet(S), NEW f, DOMAIN f = S, f = [x \in S |-> f[x]],
         \A x, y \in S : f[x] = f[y] => x = y
  PROVE  IsFiniteSet({f[x] : x \in S}) /\ Cardinality({f[x] : x \in S}) = Cardinality(S)
<1> DEFINE T == {f[x] : x \in S}
<1>1. f \in [S -> T]
  OBVIOUS
<1>2. f \in Injection(S, T)
  BY <1>1 DEF Injection, IsInjective
<1>3. f \in Surjection(S, T)
  BY <1>1 DEF Surjection
<1>4. f \in Bijection(S, T)
  BY <1>2, <1>3 DEF Bijection
<1>5. ExistsBijection(S, T)
  BY <1>4 DEF ExistsBijection
<1> QED
  BY <1>5, FS_Bijection

\* Rows with ids of their own have info labels of their own.
LEMMA LabelsApart ==
  ASSUME NEW q, NEW r, NEW x, InfoLabels(q, x) = InfoLabels(r, x),
         q.transactionId # Empty
  PROVE  q.transactionId = r.transactionId
<1> DEFINE id == <<"transaction_id", q.transactionId>>
<1>1. id \in InfoLabels(q, x)
  BY DEF InfoLabels, joinLabels
<1>2. id \in InfoLabels(r, x)
  BY <1>1
<1> QED
  BY <1>2 DEF InfoLabels, joinLabels

\* No two transactions share a series of the slow-query page, however many there are.
THEOREM TransactionsApart == SeriesSpec => []SlowApart
<1>1. SlowInv => SlowApart
  <2> SUFFICES ASSUME SlowInv, loop = "slow", done
               PROVE  /\ Cardinality(SeriesOf("info")) = Cardinality(rows)
                      /\ Cardinality(SeriesOf("elapsed")) = Cardinality(rows)
                      /\ \A r \in rows : r.currentQuery # Empty =>
                           \E k \in SeriesOf("info") :
                             {<<"transaction_id", r.transactionId>>,
                              <<"query_hash", r.currentQuery>>} \subseteq k[2]
    BY DEF SlowApart
  <2> DEFINE info == [r \in rows |-> <<"info", InfoLabels(r, agg)>>]
             elapsed == [r \in rows |-> <<"elapsed", r.transactionId>>]
  <2>1. /\ Seen = rows /\ rows \in SlowRows /\ IsFiniteSet(rows)
        /\ \A r \in rows : r.transactionId # Empty
        /\ \A q, r \in rows : q.transactionId = r.transactionId => q = r
    BY TransactionAssumption DEF SlowInv, Seen
  <2>2. SeriesOf("info") = {info[r] : r \in rows}
    BY <2>1 DEF SlowInv
  <2>3. SeriesOf("elapsed") = {elapsed[r] : r \in rows}
    BY <2>1 DEF SlowInv
  <2>4. ASSUME NEW q \in rows, NEW r \in rows, info[q] = info[r] PROVE q = r
    <3>1. InfoLabels(q, agg) = InfoLabels(r, agg)
      <4> DEFINE L(p) == InfoLabels(p, agg)
      <4>1. <<"info", L(q)>> = <<"info", L(r)>>
        BY <2>4
      <4> HIDE DEF L
      <4>2. L(q) = L(r)
        BY <4>1
      <4> QED
        BY <4>2 DEF L
    <3> QED
      BY <2>1, <3>1, LabelsApart
  <2>5. ASSUME NEW q \in rows, NEW r \in rows, elapsed[q] = elapsed[r] PROVE q = r
    BY <2>1, <2>5
  <2>6. ASSUME NEW r \in rows, r.currentQuery # Empty
        PROVE  \E k \in SeriesOf("info") :
                 {<<"transaction_id", r.transactionId>>,
                  <<"query_hash", r.currentQuery>>} \subseteq k[2]
    <3>1. info[r] \in SeriesOf("info") /\ info[r][2] = InfoLabels(r, agg)
      BY <2>2
    <3>2. {<<"transaction_id", r.transactionId>>, <<"query_hash", r.currentQuery>>}
            \subseteq InfoLabels(r, agg)
      BY <2>1, <2>6 DEF InfoLabels, joinLabels
    <3> QED
      BY <3>1, <3>2
  <2>7. /\ DOMAIN info = rows /\ info = [r \in rows |-> info[r]]
        /\ DOMAIN elapsed = rows /\ elapsed = [r \in rows |-> elapsed[r]]
    OBVIOUS
  <2> HIDE DEF info, elapsed
  <2>8. Cardinality({info[r] : r \in rows}) = Cardinality(rows)
    BY <2>1, <2>4, <2>7, ImageCardinality
  <2>9. Cardinality({elapsed[r] : r \in rows}) = Cardinality(rows)
    BY <2>1, <2>5, <2>7, ImageCardinality
  <2> QED
    BY <2>2, <2>3, <2>6, <2>8, <2>9
<1> QED
  BY <1>1, SlowInvHolds, PTL

-----------------------------------------------------------------------------
(* Counting.                                                               *)

\* f counts the rows of S under their keys.
Tally(f, key, S) ==
  /\ DOMAIN f = {key[r] : r \in S}
  /\ \A k \in DOMAIN f : f[k] = Cardinality({r \in S : key[r] = k})

\* One row more, counted as the loops do it.
LEMMA TallyRow ==
  ASSUME NEW key, NEW S, IsFiniteSet(S), NEW r, r \notin S, Tally(agg, key, S)
  PROVE  Tally(Put(agg, Counted(key[r])), key, S \cup {r})
<1> DEFINE kind == key[r]
           n == 1 + IF kind \in DOMAIN agg THEN agg[kind] ELSE 0
           of(k) == {q \in S : key[q] = k}
           after(k) == {q \in S \cup {r} : key[q] = k}
           next == Put(agg, One(kind, n))
<1>1. DOMAIN agg = {key[q] : q \in S} /\ \A k \in DOMAIN agg : agg[k] = Cardinality(of(k))
  BY DEF Tally
<1>2. DOMAIN next = {key[q] : q \in S \cup {r}}
  <2> HIDE DEF n
  <2>1. DOMAIN next = DOMAIN agg \cup {kind}
    BY PutOne
  <2> QED
    BY <1>1, <2>1
<1>3. next[kind] = Cardinality(after(kind))
  <2>1. IsFiniteSet(of(kind)) /\ r \notin of(kind)
    BY FS_Subset
  <2>2. after(kind) = of(kind) \cup {r}
    OBVIOUS
  <2>3. Cardinality(after(kind)) = Cardinality(of(kind)) + 1 /\ Cardinality(of(kind)) \in Nat
    BY <2>1, <2>2, FS_AddElement, FS_CardinalityType
  <2>4. n = Cardinality(of(kind)) + 1
    <3>1. CASE kind \in DOMAIN agg
      BY <1>1, <2>3, <3>1
    <3>2. CASE kind \notin DOMAIN agg
      <4>1. of(kind) = {}
        BY <1>1, <3>2
      <4> QED
        BY <3>2, <4>1, FS_EmptySet
    <3> QED
      BY <3>1, <3>2
  <2>5. next[kind] = n
    <3> HIDE DEF n
    <3> QED
      BY PutNew
  <2> QED
    BY <2>3, <2>4, <2>5
<1>4. ASSUME NEW k \in DOMAIN agg, k # kind PROVE next[k] = Cardinality(after(k))
  <2>1. after(k) = of(k)
    BY <1>4
  <2>2. next[k] = agg[k]
    <3> HIDE DEF n
    <3> QED
      BY <1>4, PutOld
  <2> QED
    BY <1>1, <2>1, <2>2
<1>5. DOMAIN next = DOMAIN agg \cup {kind}
  <2> HIDE DEF n
  <2> QED
    BY PutOne
<1>6. \A k \in DOMAIN next : next[k] = Cardinality(after(k))
  BY <1>3, <1>4, <1>5
<1>7. next = Put(agg, Counted(key[r]))
  BY DEF Counted
<1> HIDE DEF next
<1> QED
  BY <1>2, <1>6, <1>7 DEF Tally

KindOf == [r \in rows |-> r.kind]

ConstraintsInv ==
  loop = "constraints" =>
    /\ rows \in ConstraintRows
    /\ todo \subseteq rows
    /\ Tally(agg, KindOf, Seen)
    /\ ~done => gauge = <<>>
    /\ done =>
         /\ DOMAIN gauge = {<<"constraints", r.kind>> : r \in rows}
         /\ \A r \in rows :
              gauge[<<"constraints", r.kind>>] = Cardinality({q \in rows : q.kind = r.kind})

LEMMA ConstraintsStep == ConstraintsInv /\ [SeriesNext]_vars => ConstraintsInv'
<1> SUFFICES ASSUME ConstraintsInv, [SeriesNext]_vars, loop' = "constraints"
             PROVE  ConstraintsInv'
  BY DEF ConstraintsInv
<1>1. CASE UNCHANGED vars
  BY <1>1 DEF vars, ConstraintsInv, Seen, Tally, KindOf
<1>2. CASE SeriesNext
  <2>1. loop = "constraints" /\ rows' = rows /\ IsFiniteSet(rows) /\ KindOf' = KindOf
    BY <1>2, OwnSteps, FiniteAssumption DEF ConstraintsInv, KindOf
  <2>2. ASSUME NEW r \in todo, ConstraintsRow(r) PROVE ConstraintsInv'
    <3>1. /\ todo' = todo \ {r} /\ r \in rows /\ UNCHANGED <<gauge, done>> /\ ~done
          /\ agg' = Put(agg, Counted(r.kind))
      BY <2>1, <2>2 DEF ConstraintsRow, Take, ConstraintsInv
    <3>2. Seen' = Seen \cup {r} /\ r \notin Seen /\ Seen \subseteq rows
      BY <2>1, <3>1 DEF Seen, ConstraintsInv
    <3>3. IsFiniteSet(Seen)
      BY <2>1, <3>2, FS_Subset
    <3>4. KindOf[r] = r.kind
      BY <3>1 DEF KindOf
    <3>5. Tally(Put(agg, Counted(KindOf[r])), KindOf, Seen \cup {r})
      BY <2>1, <3>2, <3>3, TallyRow DEF ConstraintsInv
    <3>6. Tally(agg', KindOf', Seen')
      BY <2>1, <3>1, <3>2, <3>4, <3>5
    <3> QED
      BY <2>1, <3>1, <3>6 DEF ConstraintsInv
  <2>3. CASE ConstraintsEnd
    <3> DEFINE series == [k \in {<<"constraints", s>> : s \in DOMAIN agg} |-> agg[k[2]]]
    <3>1. /\ todo = {} /\ todo' = todo /\ gauge = <<>> /\ gauge' = Put(gauge, series)
          /\ done' = TRUE /\ agg' = agg
      BY <2>1, <2>3 DEF ConstraintsEnd, Emit, ConstraintsInv
    <3>2. Seen = rows /\ Seen' = Seen
      BY <2>1, <3>1 DEF Seen
    <3>3. /\ DOMAIN agg = {r.kind : r \in rows}
          /\ \A k \in DOMAIN agg : agg[k] = Cardinality({r \in rows : r.kind = k})
      <4>1. DOMAIN agg = {KindOf[r] : r \in rows}
        BY <2>1, <3>2 DEF ConstraintsInv, Tally
      <4>2. \A k \in DOMAIN agg : agg[k] = Cardinality({r \in rows : KindOf[r] = k})
        BY <2>1, <3>2 DEF ConstraintsInv, Tally
      <4>3. \A k : {r \in rows : KindOf[r] = k} = {r \in rows : r.kind = k}
        BY DEF KindOf
      <4> QED
        BY <4>1, <4>2, <4>3 DEF KindOf
    <3>4. /\ DOMAIN series = {<<"constraints", r.kind>> : r \in rows}
          /\ \A r \in rows : series[<<"constraints", r.kind>>] = agg[r.kind]
      BY <3>3
    <3> HIDE DEF series
    <3>5. DOMAIN gauge' = DOMAIN series
      <4>1. DOMAIN gauge' = DOMAIN gauge \cup DOMAIN series
        BY <3>1, PutDomain
      <4> QED
        BY <3>1, <4>1, NothingIn
    <3>6. \A k \in DOMAIN series : gauge'[k] = series[k]
      BY <3>1, PutLast
    <3>7. \A r \in rows :
            gauge'[<<"constraints", r.kind>>] = Cardinality({q \in rows : q.kind = r.kind})
      BY <3>3, <3>4, <3>6
    <3>8. Tally(agg', KindOf', Seen')
      BY <2>1, <3>1, <3>2 DEF ConstraintsInv
    <3> QED
      BY <2>1, <3>1, <3>4, <3>5, <3>7, <3>8 DEF ConstraintsInv
  <2>4. CASE Finished
    BY <2>4 DEF Finished, vars, ConstraintsInv, Seen, Tally, KindOf
  <2> QED
    BY <1>2, <2>1, <2>2, <2>3, <2>4, OwnSteps
<1> QED
  BY <1>1, <1>2

\* However many constraints there are and in whatever order they come, each is counted
\* once under its kind.
THEOREM ConstraintsAddUp == SeriesSpec => []ConstraintsCounted
<1>1. SeriesInit => ConstraintsInv
  <2> SUFFICES ASSUME SeriesInit, loop = "constraints" PROVE ConstraintsInv
    BY DEF ConstraintsInv
  <2>1. todo = rows /\ gauge = <<>> /\ done = FALSE /\ agg = <<>> /\ rows \in ConstraintRows
    BY Starts
  <2>2. Seen = {}
    BY <2>1 DEF Seen
  <2>3. Tally(agg, KindOf, Seen)
    BY <2>1, <2>2, NothingIn DEF Tally
  <2> QED
    BY <2>1, <2>3 DEF ConstraintsInv
<1>2. ConstraintsInv => ConstraintsCounted
  BY DEF ConstraintsInv, ConstraintsCounted
<1> QED
  BY <1>1, <1>2, ConstraintsStep, PTL DEF SeriesSpec

-----------------------------------------------------------------------------
(* A map cut at Cap.                                                       *)

NameOf(e) == <<"by_name", e.name>>

\* The entries of the map that have a series.
Exported == {e \in rows : NameOf(e) \in DOMAIN gauge}

MetaInv ==
  loop = "meta" =>
    /\ rows \in MetaRows
    /\ todo \subseteq rows
    /\ ~done =>
         /\ taken = Cardinality(Seen) /\ taken <= Cap
         /\ DOMAIN gauge = {NameOf(e) : e \in Seen}
         /\ \A e \in Seen : gauge[NameOf(e)] = e.count
    /\ done => MetaBounded

LEMMA LeastOfTwo ==
  ASSUME NEW a \in Nat, NEW b \in Nat
  PROVE  Min({a, b}) = IF a <= b THEN a ELSE b
  BY DEF Min

\* Names that differ have series that differ, and none is the truncated one.
LEMMA MetaNames ==
  ASSUME rows \in MetaRows
  PROVE  /\ \A d, e \in rows : NameOf(d) = NameOf(e) => d = e
         /\ \A e \in rows : NameOf(e) # <<"by_name", Truncated>>
         /\ IsFiniteSet(rows)
  BY NameAssumption, FiniteAssumption DEF NameOf

LEMMA MetaTaken ==
  ASSUME MetaInv, loop = "meta", ~done
  PROVE  taken \in Nat
<1>1. rows \in MetaRows /\ Seen \subseteq rows /\ taken = Cardinality(Seen)
  BY DEF MetaInv, Seen
<1> QED
  BY <1>1, MetaNames, FS_Subset, FS_CardinalityType

\* The entry that is taken has a series of its own.
LEMMA MetaNamed ==
  ASSUME MetaInv, loop = "meta", NEW e \in todo, MetaEntry(e), taken < Cap
  PROVE  MetaInv'
<1>1. /\ rows' = rows /\ todo' = todo \ {e} /\ taken' = taken + 1 /\ done' = done /\ ~done
      /\ e \in rows /\ todo \subseteq rows /\ rows \in MetaRows
      /\ gauge' = Put(gauge, One(NameOf(e), e.count))
  <2>1. ~(taken >= Cap)
    BY MetaTaken, CapAssumption DEF MetaEntry, Take
  <2> QED
    BY <2>1 DEF MetaEntry, Take, MetaInv, NameOf
<1>2. /\ taken = Cardinality(Seen)
      /\ DOMAIN gauge = {NameOf(d) : d \in Seen}
      /\ \A d \in Seen : gauge[NameOf(d)] = d.count
  BY <1>1 DEF MetaInv
<1>3. Seen' = Seen \cup {e} /\ e \notin Seen /\ Seen \subseteq rows
  BY <1>1 DEF Seen
<1>4. taken' = Cardinality(Seen') /\ taken' <= Cap
  <2>1. IsFiniteSet(Seen)
    BY <1>1, <1>3, MetaNames, FS_Subset
  <2>2. Cardinality(Seen \cup {e}) = Cardinality(Seen) + 1 /\ Cardinality(Seen) \in Nat
    BY <1>3, <2>1, FS_AddElement, FS_CardinalityType
  <2> QED
    BY <1>1, <1>2, <1>3, <2>2, CapAssumption
<1>5. DOMAIN gauge' = {NameOf(d) : d \in Seen'}
  <2>1. DOMAIN Put(gauge, One(NameOf(e), e.count)) = DOMAIN gauge \cup {NameOf(e)}
    BY PutOne
  <2> QED
    BY <1>1, <1>2, <1>3, <2>1
<1>6. ASSUME NEW d \in Seen' PROVE gauge'[NameOf(d)] = d.count
  <2>1. CASE d = e
    BY <1>1, <2>1, PutNew
  <2>2. CASE d \in Seen
    <3>1. NameOf(d) # NameOf(e) /\ NameOf(d) \in DOMAIN gauge
      BY <1>1, <1>2, <1>3, <2>2, MetaNames
    <3>2. Put(gauge, One(NameOf(e), e.count))[NameOf(d)] = gauge[NameOf(d)]
      BY <3>1, PutOld
    <3> QED
      BY <1>1, <1>2, <2>2, <3>2
  <2> QED
    BY <1>3, <2>1, <2>2
<1> QED
  BY <1>1, <1>4, <1>5, <1>6 DEF MetaInv, NameOf

\* The entry that is taken is one too many.
LEMMA MetaCut ==
  ASSUME MetaInv, loop = "meta", NEW e \in todo, MetaEntry(e), taken >= Cap
  PROVE  MetaInv'
<1> DEFINE cut == <<"by_name", Truncated>>
<1>1. /\ rows' = rows /\ todo' = todo \ {e} /\ done' = TRUE /\ ~done /\ loop' = loop
      /\ e \in rows /\ todo \subseteq rows /\ rows \in MetaRows
      /\ gauge' = Put(gauge, One(cut, e.count))
  <2>1. ~(taken < Cap)
    BY MetaTaken, CapAssumption DEF MetaEntry, Take
  <2> QED
    BY <2>1 DEF MetaEntry, Take, CutSeries, MetaInv
<1>2. /\ taken = Cardinality(Seen) /\ taken <= Cap
      /\ DOMAIN gauge = {NameOf(d) : d \in Seen}
      /\ \A d \in Seen : gauge[NameOf(d)] = d.count
  BY <1>1 DEF MetaInv
<1>3. IsFiniteSet(rows) /\ Seen \subseteq rows /\ IsFiniteSet(Seen) /\ e \notin Seen
  BY <1>1, MetaNames, FS_Subset DEF Seen
<1>4. Cardinality(Seen) = Cap
  BY <1>2, <1>3, FS_CardinalityType, CapAssumption
<1>5. Cardinality(rows) \in Nat /\ Cap <= Cardinality(rows)
  BY <1>3, <1>4, FS_Subset, FS_CardinalityType
<1>6. Min({Cap, Cardinality(rows)}) = Cap
  BY <1>5, LeastOfTwo, CapAssumption
<1>7. DOMAIN gauge' = DOMAIN gauge \cup {cut}
  <2>1. DOMAIN Put(gauge, One(cut, e.count)) = DOMAIN gauge \cup {cut}
    BY PutOne
  <2> QED
    BY <1>1, <2>1
<1>8. Exported' = Seen
  <2>1. \A d \in rows : NameOf(d) \in DOMAIN gauge' <=> d \in Seen
    BY <1>1, <1>2, <1>3, <1>7, MetaNames
  <2> QED
    BY <1>1, <1>3, <2>1 DEF Exported, NameOf
<1>9. ASSUME NEW d \in Seen PROVE gauge'[NameOf(d)] = d.count
  <2>1. NameOf(d) # cut /\ NameOf(d) \in DOMAIN gauge
    BY <1>1, <1>2, <1>3, MetaNames
  <2>2. Put(gauge, One(cut, e.count))[NameOf(d)] = gauge[NameOf(d)]
    BY <2>1, PutOld
  <2> QED
    BY <1>1, <1>2, <2>2
<1>10. Exported' # rows'
  BY <1>1, <1>3, <1>8
<1>11. MetaBounded'
  BY <1>1, <1>4, <1>6, <1>7, <1>8, <1>9, <1>10 DEF MetaBounded, Exported, NameOf
<1> QED
  BY <1>1, <1>11 DEF MetaInv

LEMMA MetaStep == MetaInv /\ [SeriesNext]_vars => MetaInv'
<1> SUFFICES ASSUME MetaInv, [SeriesNext]_vars, loop' = "meta" PROVE MetaInv'
  BY DEF MetaInv
<1>1. CASE UNCHANGED vars
  BY <1>1 DEF vars, MetaInv, Seen, NameOf, MetaBounded
<1>2. CASE SeriesNext
  <2>1. loop = "meta" /\ rows' = rows
    BY <1>2, OwnSteps
  <2>2. ASSUME NEW e \in todo, MetaEntry(e) PROVE MetaInv'
    BY <2>1, <2>2, MetaNamed, MetaCut DEF MetaEntry
  <2>3. CASE MetaEnd
    <3>1. /\ todo = {} /\ todo' = todo /\ ~done /\ done' = TRUE /\ rows \in MetaRows
          /\ gauge' = Put(gauge, <<>>)
      BY <2>1, <2>3 DEF MetaEnd, Emit, MetaInv
    <3>2. Seen = rows
      BY <3>1 DEF Seen
    <3>3. /\ DOMAIN gauge = {NameOf(d) : d \in rows} /\ Cardinality(rows) <= Cap
          /\ \A d \in rows : gauge[NameOf(d)] = d.count
      BY <2>1, <3>1, <3>2 DEF MetaInv
    <3>4. DOMAIN gauge' = DOMAIN gauge /\ \A k \in DOMAIN gauge : gauge'[k] = gauge[k]
      BY <3>1, PutNothing
    <3>5. IsFiniteSet(rows) /\ Cardinality(rows) \in Nat
      BY <3>1, MetaNames, FS_CardinalityType
    <3>6. Min({Cap, Cardinality(rows)}) = Cardinality(rows)
      BY <3>3, <3>5, LeastOfTwo, CapAssumption
    <3>7. Exported' = rows
      BY <2>1, <3>3, <3>4 DEF Exported, NameOf
    <3>8. <<"by_name", Truncated>> \notin DOMAIN gauge'
      BY <3>1, <3>3, <3>4, MetaNames
    <3>9. \A d \in rows : gauge'[NameOf(d)] = d.count
      BY <3>3, <3>4
    <3>10. MetaBounded'
      BY <2>1, <3>6, <3>7, <3>8, <3>9 DEF MetaBounded, Exported, NameOf
    <3> QED
      BY <2>1, <3>1, <3>10 DEF MetaInv
  <2>4. CASE Finished
    BY <2>4 DEF Finished, vars, MetaInv, Seen, NameOf, MetaBounded
  <2> QED
    BY <1>2, <2>1, <2>2, <2>3, <2>4, OwnSteps
<1> QED
  BY <1>1, <1>2

\* Whatever the size of the map and the cap, exactly the smaller of the two is named,
\* with the right counts, and the truncated label is there exactly when something is cut.
THEOREM MapsBounded == SeriesSpec => []MetaBounded
<1>1. SeriesInit => MetaInv
  <2> SUFFICES ASSUME SeriesInit, loop = "meta" PROVE MetaInv
    BY DEF MetaInv
  <2>1. todo = rows /\ taken = 0 /\ gauge = <<>> /\ done = FALSE /\ rows \in MetaRows
    BY Starts
  <2>2. Seen = {}
    BY <2>1 DEF Seen
  <2> QED
    BY <2>1, <2>2, NothingIn, FS_EmptySet, CapAssumption DEF MetaInv
<1>2. MetaInv => MetaBounded
  BY DEF MetaInv, MetaBounded
<1> QED
  BY <1>1, <1>2, MetaStep, PTL DEF SeriesSpec

-----------------------------------------------------------------------------
(* Indexes beyond Cap lose their names and are counted all the same.       *)

Named == {k \in SeriesOf("reads") : k[2] # Truncated}

\* The names that are exported.
Names == {k[2] : k \in Named}

\* A series with a name is that of an index with the name.
ReadsOfNamed ==
  \A k \in Named : \E r \in rows : r.name = k[2] /\ r.kind = k[3] /\ r.reads = gauge[k]

StateOf == [r \in rows |-> <<r.state, r.kind>>]

IndexesInv ==
  loop = "indexes" =>
    /\ rows \in IndexRows
    /\ todo \subseteq rows
    /\ taken \in Nat
    /\ IsFiniteSet(Names) /\ Cardinality(Names) <= Cap /\ Cardinality(Names) <= taken
    /\ ReadsOfNamed
    /\ Tally(agg, StateOf, Seen)
    /\ done =>
         \A r \in rows : gauge[<<"count", r.state, r.kind>>] =
                           Cardinality({q \in rows : q.state = r.state /\ q.kind = r.kind})

\* What a row adds to the series.
LEMMA IndexSeries ==
  ASSUME NEW r, IndexesRow(r)
  PROVE  LET k == <<"reads", NameLabel(r), r.kind>>
         IN  /\ SeriesOf("reads")' = SeriesOf("reads") \cup {k}
             /\ gauge'[k] = r.reads
             /\ \A x \in SeriesOf("reads") : x # k => gauge'[x] = gauge[x]
<1> DEFINE label == NameLabel(r)
           k == <<"reads", label, r.kind>>
           p == <<"population", label, r.kind>>
           g == Put(gauge, One(k, r.reads))
<1> HIDE DEF label
<1>1. DOMAIN g = DOMAIN gauge \cup {k}
  BY PutOne
<1>2. g[k] = r.reads
  BY PutNew
<1>3. \A x \in DOMAIN gauge : x # k => g[x] = gauge[x]
  BY PutOld
<1>4. gauge' = Put(g, One(p, 0)) \/ gauge' = Put(g, <<>>)
  BY DEF IndexesRow, label
<1> HIDE DEF g
<1>5. /\ DOMAIN gauge' \in {DOMAIN g, DOMAIN g \cup {p}}
      /\ \A x \in DOMAIN g : x # p => gauge'[x] = g[x]
  <2>1. CASE gauge' = Put(g, One(p, 0))
    <3>1. DOMAIN Put(g, One(p, 0)) = DOMAIN g \cup {p}
      BY PutOne
    <3>2. \A x \in DOMAIN g : x # p => Put(g, One(p, 0))[x] = g[x]
      BY PutOld
    <3> QED
      BY <2>1, <3>1, <3>2
  <2>2. CASE gauge' = Put(g, <<>>)
    BY <2>2, PutNothing
  <2> QED
    BY <1>4, <2>1, <2>2
<1>6. p[1] # "reads" /\ k[1] = "reads" /\ k # p
  OBVIOUS
<1>7. SeriesOf("reads")' = SeriesOf("reads") \cup {k}
  BY <1>1, <1>5, <1>6 DEF SeriesOf
<1>8. gauge'[k] = r.reads
  BY <1>1, <1>2, <1>5, <1>6
<1>9. \A x \in SeriesOf("reads") : x # k => gauge'[x] = gauge[x]
  BY <1>1, <1>3, <1>5, <1>6 DEF SeriesOf
<1> QED
  BY <1>7, <1>8, <1>9 DEF label

LEMMA IndexesRowStep ==
  ASSUME IndexesInv, loop = "indexes", NEW r \in todo, IndexesRow(r)
  PROVE  IndexesInv'
<1> DEFINE label == NameLabel(r)
           k == <<"reads", label, r.kind>>
<1>1. /\ rows' = rows /\ todo' = todo \ {r} /\ taken' = taken + 1 /\ taken \in Nat
      /\ r \in rows /\ todo \subseteq rows /\ rows \in IndexRows /\ done' = done /\ ~done
      /\ agg' = Put(agg, Counted(<<r.state, r.kind>>))
  BY DEF IndexesRow, Take, IndexesInv
<1>2. Seen' = Seen \cup {r} /\ r \notin Seen /\ Seen \subseteq rows /\ IsFiniteSet(rows)
  BY <1>1, FiniteAssumption DEF Seen
<1>3. Tally(agg', StateOf', Seen')
  <2>1. IsFiniteSet(Seen)
    BY <1>2, FS_Subset
  <2>2. Tally(Put(agg, Counted(StateOf[r])), StateOf, Seen \cup {r})
    BY <1>2, <2>1, TallyRow DEF IndexesInv
  <2>3. StateOf[r] = <<r.state, r.kind>> /\ StateOf' = StateOf
    BY <1>1 DEF StateOf
  <2> QED
    BY <1>1, <1>2, <2>2, <2>3
<1>4. /\ SeriesOf("reads")' = SeriesOf("reads") \cup {k}
      /\ gauge'[k] = r.reads
      /\ \A x \in SeriesOf("reads") : x # k => gauge'[x] = gauge[x]
  BY IndexSeries
<1>5. label # Truncated => label = r.name /\ taken < Cap
  BY <1>1, CapAssumption DEF NameLabel
<1> HIDE DEF label
<1>6. k[2] = label /\ k[3] = r.kind
  OBVIOUS
<1> HIDE DEF k
<1>7. Named' = IF label = Truncated THEN Named ELSE Named \cup {k}
  BY <1>4, <1>6 DEF Named
<1>8. ReadsOfNamed'
  <2> SUFFICES ASSUME NEW x \in Named'
               PROVE  \E q \in rows : q.name = x[2] /\ q.kind = x[3] /\ q.reads = gauge'[x]
    BY <1>1 DEF ReadsOfNamed
  <2>1. CASE x = k
    <3>1. label # Truncated
      BY <1>6, <2>1 DEF Named
    <3> QED
      BY <1>1, <1>4, <1>5, <1>6, <2>1, <3>1
  <2>2. CASE x # k
    <3>1. x \in Named
      BY <1>7, <2>2
    <3> QED
      BY <1>4, <2>2, <3>1 DEF ReadsOfNamed, Named, IndexesInv
  <2> QED
    BY <2>1, <2>2
<1>9. IsFiniteSet(Names') /\ Cardinality(Names') <= Cap /\ Cardinality(Names') <= taken'
  <2>1. IsFiniteSet(Names) /\ Cardinality(Names) <= Cap /\ Cardinality(Names) <= taken
        /\ Cardinality(Names) \in Nat
    BY FS_CardinalityType DEF IndexesInv
  <2>2. CASE label = Truncated
    <3>1. Names' = Names
      BY <1>7, <2>2 DEF Names
    <3> QED
      BY <1>1, <2>1, <3>1, CapAssumption
  <2>3. CASE label # Truncated
    <3>1. Names' = Names \cup {label}
      BY <1>6, <1>7, <2>3 DEF Names
    <3>2. /\ IsFiniteSet(Names \cup {label})
          /\ \/ Cardinality(Names \cup {label}) = Cardinality(Names)
             \/ Cardinality(Names \cup {label}) = Cardinality(Names) + 1
      <4> DEFINE N == Names
      <4>1. IsFiniteSet(N)
        BY <2>1
      <4> HIDE DEF N
      <4>2. /\ IsFiniteSet(N \cup {label})
            /\ Cardinality(N \cup {label}) =
                 IF label \in N THEN Cardinality(N) ELSE Cardinality(N) + 1
        BY <4>1, FS_AddElement
      <4> QED
        BY <4>2 DEF N
    <3>3. Cardinality(Names \cup {label}) \in Nat
      BY <3>2, FS_CardinalityType
    <3> QED
      BY <1>1, <1>5, <2>1, <2>3, <3>1, <3>2, <3>3, CapAssumption
  <2> QED
    BY <2>2, <2>3
<1> QED
  BY <1>1, <1>3, <1>8, <1>9 DEF IndexesInv

LEMMA IndexesEndStep ==
  ASSUME IndexesInv, loop = "indexes", IndexesEnd
  PROVE  IndexesInv'
<1> DEFINE counts == {<<"count", s[1], s[2]>> : s \in DOMAIN agg}
           series == [k \in counts |-> agg[<<k[2], k[3]>>]]
<1>1. /\ todo = {} /\ UNCHANGED <<rows, todo, taken, agg>>
      /\ rows \in IndexRows /\ gauge' = Put(gauge, series)
  BY DEF IndexesEnd, Emit, IndexesInv
<1>2. Seen = rows /\ Seen' = Seen /\ StateOf' = StateOf
  BY <1>1 DEF Seen, StateOf
<1>3. /\ DOMAIN agg = {StateOf[r] : r \in rows}
      /\ \A s \in DOMAIN agg : agg[s] = Cardinality({q \in rows : StateOf[q] = s})
  BY <1>2 DEF IndexesInv, Tally
<1>4. ASSUME NEW r \in rows
      PROVE  /\ <<"count", r.state, r.kind>> \in DOMAIN series
             /\ series[<<"count", r.state, r.kind>>] =
                  Cardinality({q \in rows : q.state = r.state /\ q.kind = r.kind})
  <2> DEFINE s == <<r.state, r.kind>>
  <2>1. s \in DOMAIN agg
    BY <1>3 DEF StateOf
  <2>2. {q \in rows : StateOf[q] = s} = {q \in rows : q.state = r.state /\ q.kind = r.kind}
    BY DEF StateOf
  <2>3. agg[s] = Cardinality({q \in rows : q.state = r.state /\ q.kind = r.kind})
    BY <1>3, <2>1, <2>2
  <2> QED
    BY <2>1, <2>3
<1>5. \A k \in DOMAIN series : k[1] = "count"
  OBVIOUS
<1> HIDE DEF series
<1>6. DOMAIN gauge' = DOMAIN gauge \cup DOMAIN series
  BY <1>1, PutDomain
<1>7. \A k \in DOMAIN series : gauge'[k] = series[k]
  BY <1>1, PutLast
<1>8. \A k \in DOMAIN gauge \ DOMAIN series : gauge'[k] = gauge[k]
  <2>1. \A k \in DOMAIN gauge \ DOMAIN series : Put(gauge, series)[k] = gauge[k]
    BY PutParts
  <2> QED
    BY <1>1, <2>1
<1>9. SeriesOf("reads")' = SeriesOf("reads")
  BY <1>5, <1>6 DEF SeriesOf
<1>10. \A k \in SeriesOf("reads") : gauge'[k] = gauge[k]
  BY <1>5, <1>8 DEF SeriesOf
<1>11. Named' = Named /\ Names' = Names
  BY <1>9 DEF Named, Names
<1>12. ReadsOfNamed'
  BY <1>1, <1>10, <1>11 DEF ReadsOfNamed, Named, IndexesInv
<1> QED
  BY <1>1, <1>2, <1>4, <1>7, <1>11, <1>12 DEF IndexesInv

LEMMA IndexesStep == IndexesInv /\ [SeriesNext]_vars => IndexesInv'
<1> SUFFICES ASSUME IndexesInv, [SeriesNext]_vars, loop' = "indexes" PROVE IndexesInv'
  BY DEF IndexesInv
<1>1. CASE UNCHANGED vars
  BY <1>1 DEF vars, IndexesInv, Seen, Tally, StateOf, Named, Names, ReadsOfNamed, SeriesOf
<1>2. CASE SeriesNext
  <2>1. loop = "indexes" /\ rows' = rows
    BY <1>2, OwnSteps
  <2>2. CASE Finished
    BY <1>1, <2>2 DEF Finished
  <2> QED
    BY <1>2, <2>1, <2>2, IndexesRowStep, IndexesEndStep, OwnSteps
<1> QED
  BY <1>1, <1>2

\* Whatever the number of indexes and the cap, no more than the cap are named, a named
\* one has its own reads, and the counts by state and kind leave none out.
THEOREM IndexesWithinCap == SeriesSpec => []IndexesBounded
<1>1. SeriesInit => IndexesInv
  <2> SUFFICES ASSUME SeriesInit, loop = "indexes" PROVE IndexesInv
    BY DEF IndexesInv
  <2>1. /\ todo = rows /\ taken = 0 /\ gauge = <<>> /\ done = FALSE /\ agg = <<>>
        /\ rows \in IndexRows
    BY Starts
  <2>2. Seen = {} /\ Named = {} /\ Names = {}
    BY <2>1, NothingIn DEF Seen, Named, Names, SeriesOf
  <2>3. Tally(agg, StateOf, Seen)
    BY <2>1, <2>2, NothingIn DEF Tally
  <2>4. ReadsOfNamed
    BY <2>2 DEF ReadsOfNamed
  <2>5. IsFiniteSet(Names) /\ Cardinality(Names) = 0
    BY <2>2, FS_EmptySet
  <2> QED
    BY <2>1, <2>3, <2>4, <2>5, CapAssumption DEF IndexesInv
<1>2. IndexesInv => IndexesBounded
  <2> SUFFICES ASSUME IndexesInv, loop = "indexes", done PROVE IndexesBounded
    BY DEF IndexesBounded
  <2>1. Cardinality(Names) <= Cap /\ ReadsOfNamed
    BY DEF IndexesInv
  <2>2. \A r \in rows : gauge[<<"count", r.state, r.kind>>] =
                          Cardinality({q \in rows : q.state = r.state /\ q.kind = r.kind})
    BY DEF IndexesInv
  <2> QED
    BY <2>1, <2>2 DEF IndexesBounded, Named, Names, ReadsOfNamed
<1> QED
  BY <1>1, <1>2, IndexesStep, PTL DEF SeriesSpec

-----------------------------------------------------------------------------
(* The reply of Jolokia.                                                   *)

\* The seven requests, and that no two share a prefix.
LEMMA SevenRequests == Requests = 1 .. 7 /\ Cardinality(Requests) = 7
<1>1. Requests = 1 .. 7
  BY DEF Requests, jolokiaBulk
<1>2. 1 \in Int /\ 7 \in Int /\ ~(1 > 7) /\ 7 - 1 + 1 = 7
  OBVIOUS
<1>3. Cardinality(1 .. 7) = IF 1 > 7 THEN 0 ELSE 7 - 1 + 1
  BY <1>2, FS_Interval
<1> QED
  BY <1>1, <1>2, <1>3

LEMMA PrefixesApart ==
  ASSUME NEW i \in 1 .. 7, NEW j \in 1 .. 7, jolokiaBulk[i].prefix = jolokiaBulk[j].prefix
  PROVE  i = j
  BY DEF jolokiaBulk

LEMMA Attributes ==
  ASSUME NEW i \in 1 .. 7
  PROVE  /\ jolokiaBulk[i].attributes = Memory <=> i \in {1, 2}
         /\ i < 7 => \E a \in jolokiaBulk[i].attributes : a \notin {"max", "SystemLoadAverage"}
         /\ i = 7 => jolokiaBulk[i].attributes = {}
  BY DEF jolokiaBulk, Memory

\* The rows are the responses, each under the place it has in the reply.
LEMMA RepliesIndexed ==
  ASSUME NEW reply \in Replies
  PROVE  LET R == Indexed(Bulk(reply))
         IN  /\ IsFiniteSet(R)
             /\ \A r \in R : r.at \in 1 .. Cardinality(R)
             /\ \A i \in 1 .. Cardinality(R) : \E r \in R : r.at = i
             /\ \A q, r \in R : q.at = r.at => q = r
             /\ \A r \in R : \A a \in DOMAIN r.got.attrs : r.got.attrs[a] \in Int
<1> DEFINE s == Bulk(reply)
           R == Indexed(s)
<1>1. /\ Len(s) \in Nat /\ DOMAIN s = 1 .. Len(s)
      /\ \A i \in DOMAIN s : \A a \in DOMAIN s[i].attrs : s[i].attrs[a] \in Int
  BY ReplyAssumption DEF Bulk
<1> HIDE DEF s
<1>2. R = {[at |-> i, got |-> s[i]] : i \in 1 .. Len(s)}
  BY <1>1 DEF Indexed
<1>3. Cardinality(R) = Len(s) /\ IsFiniteSet(R)
  <2> DEFINE f == [i \in 1 .. Len(s) |-> [at |-> i, got |-> s[i]]]
  <2>1. /\ DOMAIN f = 1 .. Len(s) /\ f = [i \in 1 .. Len(s) |-> f[i]]
        /\ \A i, j \in 1 .. Len(s) : f[i] = f[j] => i = j
    OBVIOUS
  <2>2. R = {f[i] : i \in 1 .. Len(s)}
    BY <1>2
  <2>3. IsFiniteSet(1 .. Len(s)) /\ Cardinality(1 .. Len(s)) = Len(s)
    BY <1>1, FS_Interval
  <2> HIDE DEF f
  <2>4. /\ Cardinality({f[i] : i \in 1 .. Len(s)}) = Len(s)
        /\ IsFiniteSet({f[i] : i \in 1 .. Len(s)})
    BY <2>1, <2>3, ImageCardinality
  <2> QED
    BY <2>2, <2>4
<1>4. ASSUME NEW r \in R
      PROVE  r.at \in 1 .. Len(s) /\ r.got = s[r.at] /\ r = [at |-> r.at, got |-> s[r.at]]
  <2>1. PICK i \in 1 .. Len(s) : r = [at |-> i, got |-> s[i]]
    BY <1>2
  <2> QED
    BY <2>1
<1>5. ASSUME NEW i \in 1 .. Len(s) PROVE \E r \in R : r.at = i
  <2>1. [at |-> i, got |-> s[i]] \in R
    BY <1>2
  <2> QED
    BY <2>1
<1>6. ASSUME NEW r \in R, NEW a \in DOMAIN r.got.attrs PROVE r.got.attrs[a] \in Int
  BY <1>1, <1>4
<1>7. ASSUME NEW q \in R, NEW r \in R, q.at = r.at PROVE q = r
  BY <1>4, <1>7
<1> HIDE DEF R
<1> QED
  BY <1>3, <1>4, <1>5, <1>6, <1>7 DEF R, s

JolokiaInv ==
  loop = "jolokia" =>
    /\ \E reply \in Replies : rows = Indexed(Bulk(reply))
    /\ taken \in 0 .. 7
    /\ todo = {r \in rows : r.at > taken}
    /\ \A k \in DOMAIN gauge : \E r \in Seen : \E a \in Emitted(r) :
         k = <<jolokiaBulk[r.at].prefix, a>>
    /\ \A r \in Seen : \A a \in Emitted(r) :
         LET k == <<jolokiaBulk[r.at].prefix, a>>
         IN  k \in DOMAIN gauge /\ gauge[k] = InSeconds(a, Number(r.got, a))
    /\ Short => taken = 0 /\ gauge = <<>>
    /\ done => Short \/ taken = 7

LEMMA JolokiaStep == JolokiaInv /\ [SeriesNext]_vars => JolokiaInv'
<1> SUFFICES ASSUME JolokiaInv, [SeriesNext]_vars, loop' = "jolokia" PROVE JolokiaInv'
  BY DEF JolokiaInv
<1>1. CASE UNCHANGED vars
  BY <1>1 DEF vars, JolokiaInv, Seen, Short
<1>2. CASE SeriesNext
  <2>1. /\ loop = "jolokia" /\ rows' = rows /\ Short' = Short
        /\ \E reply \in Replies : rows = Indexed(Bulk(reply))
    BY <1>2, OwnSteps DEF JolokiaInv, Short
  <2>2. ASSUME NEW r \in todo, JolokiaResponse(r) PROVE JolokiaInv'
    <3> DEFINE key(q, a) == <<jolokiaBulk[q.at].prefix, a>>
               own == [k \in {key(r, a) : a \in Emitted(r)} |-> InSeconds(k[2], Number(r.got, k[2]))]
    <3>1. /\ r \in rows /\ r.at = taken + 1 /\ r.at \in 1 .. 7 /\ taken' = taken + 1 /\ ~Short
          /\ todo' = todo \ {r} /\ gauge' = Put(gauge, own) /\ UNCHANGED done /\ ~done
          /\ taken \in 0 .. 7 /\ todo = {q \in rows : q.at > taken}
      BY <2>1, <2>2, SevenRequests DEF JolokiaResponse, Take, JolokiaInv
    <3>2. /\ \A q \in rows : q.at = r.at => q = r
          /\ \A q \in rows : q.at \in Nat
      BY <2>1, <3>1, RepliesIndexed
    <3>3. todo' = {q \in rows' : q.at > taken'} /\ taken' \in 0 .. 7
      BY <2>1, <3>1, <3>2
    <3>4. Seen' = Seen \cup {r} /\ Seen \subseteq rows /\ r \notin Seen
      BY <2>1, <3>1 DEF Seen
    <3>5. /\ DOMAIN own = {key(r, a) : a \in Emitted(r)}
          /\ \A a \in Emitted(r) : own[key(r, a)] = InSeconds(a, Number(r.got, a))
      OBVIOUS
    <3>6. /\ DOMAIN gauge' = DOMAIN gauge \cup DOMAIN own
          /\ \A k \in DOMAIN own : gauge'[k] = own[k]
          /\ \A k \in DOMAIN gauge \ DOMAIN own : gauge'[k] = gauge[k]
      <4>1. gauge' = Put(gauge, own)
        BY <3>1
      <4> HIDE DEF own
      <4> QED
        BY <4>1, PutParts
    <3> HIDE DEF own
    <3>7. ASSUME NEW k \in DOMAIN gauge'
          PROVE  \E q \in Seen' : \E a \in Emitted(q) : k = key(q, a)
      <4>1. CASE k \in DOMAIN gauge
        BY <2>1, <3>4, <4>1 DEF JolokiaInv
      <4>2. CASE k \in DOMAIN own
        BY <3>4, <3>5, <4>2
      <4> QED
        BY <3>6, <4>1, <4>2
    <3>8. ASSUME NEW q \in Seen', NEW a \in Emitted(q)
          PROVE  key(q, a) \in DOMAIN gauge' /\ gauge'[key(q, a)] = InSeconds(a, Number(q.got, a))
      <4>1. CASE q = r
        BY <3>5, <3>6, <4>1
      <4>2. CASE q \in Seen
        <5>1. key(q, a) \in DOMAIN gauge /\ gauge[key(q, a)] = InSeconds(a, Number(q.got, a))
          BY <2>1, <4>2 DEF JolokiaInv
        <5>2. q.at # r.at /\ q.at \in 1 .. 7 /\ q \in rows
          <6>1. q \in rows /\ q # r /\ q \notin todo
            BY <3>4, <4>2 DEF Seen
          <6>2. q.at \in 1 .. Cardinality(rows)
            BY <2>1, <6>1, RepliesIndexed
          <6> QED
            BY <3>1, <3>2, <6>1, <6>2
        <5>3. jolokiaBulk[q.at].prefix # jolokiaBulk[r.at].prefix
          BY <3>1, <5>2, PrefixesApart
        <5>4. key(q, a) \notin DOMAIN own
          BY <3>5, <5>3
        <5> QED
          BY <3>6, <5>1, <5>4
      <4> QED
        BY <3>4, <4>1, <4>2
    <3> QED
      BY <2>1, <3>1, <3>3, <3>7, <3>8 DEF JolokiaInv
  <2>3. CASE JolokiaShort
    BY <2>1, <2>3 DEF JolokiaShort, JolokiaInv, Seen
  <2>4. CASE JolokiaEnd
    BY <2>1, <2>4, SevenRequests DEF JolokiaEnd, JolokiaInv, Seen
  <2>5. CASE Finished
    BY <2>5 DEF Finished, vars, JolokiaInv, Seen, Short
  <2> QED
    BY <1>2, <2>1, <2>2, <2>3, <2>4, <2>5, OwnSteps
<1> QED
  BY <1>1, <1>2

\* However the responses of a reply fail, and whatever their numbers, each costs its
\* own series and no other's, and what is exported is what its own response says.
THEOREM RepliesWholeOrNot == SeriesSpec => []MBeansIndependent
<1>1. SeriesInit => JolokiaInv
  <2> SUFFICES ASSUME SeriesInit, loop = "jolokia" PROVE JolokiaInv
    BY DEF JolokiaInv
  <2>1. /\ todo = rows /\ taken = 0 /\ gauge = <<>> /\ done = FALSE
        /\ \E reply \in Replies : rows = Indexed(Bulk(reply))
    BY Starts
  <2>2. \A r \in rows : r.at > 0
    BY <2>1, RepliesIndexed
  <2>3. Seen = {}
    BY <2>1 DEF Seen
  <2> QED
    BY <2>1, <2>2, <2>3, NothingIn DEF JolokiaInv
<1>2. JolokiaInv => MBeansIndependent
  <2> SUFFICES ASSUME JolokiaInv, loop = "jolokia", done PROVE MBeansIndependent
    BY DEF MBeansIndependent
  <2> DEFINE key(r, a) == <<jolokiaBulk[r.at].prefix, a>>
             unsure == {"max", "SystemLoadAverage"}
             alive == {r \in rows : r.got.ok /\ r.at < 7 /\ (r.at \in {1, 2} => r.got.map)}
             given(r) == IF r.got.map THEN DOMAIN r.got.attrs ELSE {}
             number(r, a) == IF a \in given(r) THEN r.got.attrs[a] ELSE 0
             shown(r) == {a \in jolokiaBulk[r.at].attributes : a \in unsure => number(r, a) >= 0}
  <2>1. /\ \E reply \in Replies : rows = Indexed(Bulk(reply))
        /\ taken \in 0 .. 7 /\ todo = {r \in rows : r.at > taken}
        /\ Short => gauge = <<>>
        /\ Short \/ taken = 7
    BY DEF JolokiaInv
  <2>2. Short <=> Cardinality(rows) < 7
    BY SevenRequests DEF Short
  <2>3. ASSUME ~Short
        PROVE  /\ DOMAIN gauge = UNION {{key(r, a) : a \in shown(r)} : r \in alive}
               /\ \A r \in alive : \A a \in shown(r) :
                    gauge[key(r, a)] = IF a = "Uptime" THEN number(r, a) \div Second
                                       ELSE number(r, a)
    <3>1. /\ \A r \in rows : r.at \in Nat \ {0}
          /\ \A q, r \in rows : q.at = r.at => q = r
          /\ \A r \in rows : \A a \in DOMAIN r.got.attrs : r.got.attrs[a] \in Int
      BY <2>1, RepliesIndexed
    <3>2. \A r \in rows : r \in Seen <=> r.at \in 1 .. 7
      BY <2>1, <2>3, <3>1 DEF Seen
    <3>3. ASSUME NEW r \in rows, NEW a PROVE Number(r.got, a) \in Int
      BY <3>1 DEF Number
    <3>4. ASSUME NEW r \in Seen, NEW a \in Emitted(r)
          PROVE  /\ r \in alive /\ a \in jolokiaBulk[r.at].attributes
                 /\ a \in unsure => Number(r.got, a) >= 0
                 /\ key(r, a) \in DOMAIN gauge
                 /\ gauge[key(r, a)] = InSeconds(a, Number(r.got, a))
      <4>1. r \in rows /\ r.at \in 1 .. 7
        BY <3>2, <3>4 DEF Seen
      <4>2. /\ r.got.ok /\ (r.got.map \/ jolokiaBulk[r.at].attributes # Memory)
            /\ a \in jolokiaBulk[r.at].attributes /\ ~Hidden(r.got, a)
        BY <3>4 DEF Emitted
      <4>3. r.at # 7 /\ (r.at \in {1, 2} => r.got.map)
        BY <4>1, <4>2, Attributes
      <4>4. a \in unsure => Number(r.got, a) >= 0
        BY <3>3, <4>1, <4>2 DEF Hidden
      <4>5. key(r, a) \in DOMAIN gauge /\ gauge[key(r, a)] = InSeconds(a, Number(r.got, a))
        BY <3>4 DEF JolokiaInv
      <4> QED
        BY <4>1, <4>2, <4>3, <4>4, <4>5
    <3>5. ASSUME NEW r \in alive, NEW a \in jolokiaBulk[r.at].attributes
          PROVE  /\ r \in Seen
                 /\ a \in Emitted(r) <=> (a \in unsure => Number(r.got, a) >= 0)
      <4>1. r \in rows /\ r.at \in 1 .. 7 /\ r.got.ok /\ (r.at \in {1, 2} => r.got.map)
        BY <3>1
      <4>2. r.got.map \/ jolokiaBulk[r.at].attributes # Memory
        BY <4>1, Attributes
      <4>3. Number(r.got, a) \in Int
        BY <3>3, <4>1
      <4> QED
        BY <3>2, <4>1, <4>2, <4>3 DEF Emitted, Hidden
    <3>6. ASSUME NEW r, NEW a PROVE number(r, a) = Number(r.got, a)
      BY DEF Number
    <3> HIDE DEF number
    <3>7. ASSUME NEW r \in alive PROVE shown(r) = Emitted(r)
      <4>1. Emitted(r) \subseteq jolokiaBulk[r.at].attributes
        BY DEF Emitted
      <4> QED
        BY <3>5, <3>6, <4>1
    <3>8. ASSUME NEW k \in DOMAIN gauge
          PROVE  k \in UNION {{key(r, a) : a \in shown(r)} : r \in alive}
      <4>1. PICK q \in Seen : \E b \in Emitted(q) : k = key(q, b)
        BY DEF JolokiaInv
      <4>2. q \in alive
        BY <3>4, <4>1
      <4>3. k \in {key(q, a) : a \in shown(q)}
        BY <3>7, <4>1, <4>2
      <4> QED
        BY <4>2, <4>3
    <3>9. ASSUME NEW r \in alive, NEW a \in shown(r)
          PROVE  /\ key(r, a) \in DOMAIN gauge
                 /\ gauge[key(r, a)] = IF a = "Uptime" THEN number(r, a) \div Second
                                       ELSE number(r, a)
      <4>1. r \in Seen /\ a \in Emitted(r)
        BY <3>5, <3>7
      <4> QED
        BY <3>4, <3>6, <4>1 DEF InSeconds
    <3> HIDE DEF shown, key, alive
    <3> QED
      BY <3>8, <3>9
  <2> QED
    BY <2>1, <2>2, <2>3 DEF MBeansIndependent
<1> QED
  BY <1>1, <1>2, JolokiaStep, PTL DEF SeriesSpec

-----------------------------------------------------------------------------
(* Sums over finite sets.                                                  *)

\* A set of subsets of a finite set has one of which it has no strict part.
LEMMA MinimalSubset ==
  ASSUME NEW S, IsFiniteSet(S), NEW T, T \subseteq SUBSET S, T # {}
  PROVE  \E m \in T : \A u \in T : u \subseteq m => u = m
<1>1. IsWellFoundedOn(StrictSubsetOrdering(S), SUBSET S)
  BY FS_StrictSubsetOrderingWellFounded, FS_FiniteSubsetsOfFinite
<1>2. PICK m \in T : \A u \in T : ~(<<u, m>> \in StrictSubsetOrdering(S))
  BY <1>1, WFMin
<1>3. ASSUME NEW u \in T, u \subseteq m PROVE u = m
  <2>1. u \in SUBSET S /\ m \in SUBSET S
    OBVIOUS
  <2>2. u # m => <<u, m>> \in StrictSubsetOrdering(S)
    BY <1>3, <2>1 DEF StrictSubsetOrdering
  <2> QED
    BY <1>2, <2>2
<1> QED
  BY <1>3

\* The element that the sum takes next.
Pick(s) == CHOOSE x \in s : TRUE

\* The sum of a column, as the module of the properties takes it.
Total(S) == MapThenSumSet(LAMBDA q : q.total, S)

\* f sums the column over each part of S.
SumOver(f, S) ==
  f = [s \in SUBSET S |-> IF s = {} THEN 0 ELSE Pick(s).total + f[s \ {Pick(s)}]]

\* The fold of the community modules is such a function.
LEMMA TotalIs ==
  ASSUME NEW S
  PROVE  Total(S) = (CHOOSE f : SumOver(f, S))[S]
  BY Zenon DEF Total, MapThenSumSet, MapThenFoldSet, SumOver, Pick

\* An element of a set that has one.
LEMMA PickIn ==
  ASSUME NEW s, s # {}
  PROVE  Pick(s) \in s
  BY DEF Pick

\* What such a function gives.
LEMMA SumValue ==
  ASSUME NEW S, NEW f, SumOver(f, S), NEW s \in SUBSET S
  PROVE  /\ s = {} => f[s] = 0
         /\ s # {} => f[s] = Pick(s).total + f[s \ {Pick(s)}]
  BY DEF SumOver

\* Sums over two sets agree on what is in both.
LEMMA SumUnique ==
  ASSUME NEW S, NEW R, IsFiniteSet(R), R \subseteq S,
         NEW f, SumOver(f, S), NEW g, SumOver(g, R)
  PROVE  \A s \in SUBSET R : f[s] = g[s]
<1> DEFINE bad == {s \in SUBSET R : f[s] # g[s]}
<1>1. SUFFICES ASSUME bad # {} PROVE FALSE
  OBVIOUS
<1>2. \E m \in bad : \A u \in bad : u \subseteq m => u = m
  <2>1. bad \subseteq SUBSET R
    OBVIOUS
  <2> HIDE DEF bad
  <2> QED
    BY <1>1, <2>1, MinimalSubset
<1>2a. PICK m \in bad : \A u \in bad : u \subseteq m => u = m
  BY <1>2
<1>3. m # {}
  BY SumValue
<1> DEFINE rest == m \ {Pick(m)}
<1>4. rest \in SUBSET R /\ rest # m
  BY <1>3, PickIn
<1>5. f[rest] = g[rest]
  BY <1>2a, <1>4
<1>6. m \in SUBSET S /\ m \in SUBSET R
  OBVIOUS
<1>7. f[m] = Pick(m).total + f[rest] /\ g[m] = Pick(m).total + g[rest]
  <2> HIDE DEF bad
  <2>1. f[m] = Pick(m).total + f[m \ {Pick(m)}]
    BY <1>3, <1>6, SumValue
  <2>2. g[m] = Pick(m).total + g[m \ {Pick(m)}]
    BY <1>3, <1>6, SumValue
  <2> QED
    BY <2>1, <2>2
<1> QED
  BY <1>5, <1>7

\* There is a sum over every finite set.
LEMMA SumExists ==
  ASSUME NEW S, IsFiniteSet(S)
  PROVE  \E f : SumOver(f, S)
<1> DEFINE bad == {s \in SUBSET S : ~\E f : SumOver(f, s)}
<1>1. SUFFICES ASSUME bad # {} PROVE FALSE
  OBVIOUS
<1>2. \E m \in bad : \A u \in bad : u \subseteq m => u = m
  <2>1. bad \subseteq SUBSET S
    OBVIOUS
  <2> HIDE DEF bad
  <2> QED
    BY <1>1, <2>1, MinimalSubset
<1>2a. PICK m \in bad : \A u \in bad : u \subseteq m => u = m
  BY <1>2
<1> DEFINE sum(s) == CHOOSE f : SumOver(f, s)
           before(s) == s \ {Pick(s)}
           g == [s \in SUBSET m |-> IF s = {} THEN 0 ELSE Pick(s).total + sum(before(s))[before(s)]]
<1>3. ASSUME NEW s \in SUBSET m, s # m PROVE SumOver(sum(s), s)
  <2>1. s \in SUBSET S /\ s \notin bad
    BY <1>2a, <1>3
  <2> QED
    BY <2>1
<1>4. ASSUME NEW s \in SUBSET m, s # {}
      PROVE  before(s) \in SUBSET m /\ before(s) # m /\ before(s) # s
  BY <1>4, PickIn
<1>5. ASSUME NEW s \in SUBSET m, s # {} PROVE g[before(s)] = sum(before(s))[before(s)]
  <2> DEFINE v == before(s)
  <2>1. v \in SUBSET m /\ v # m /\ SumOver(sum(v), v)
    BY <1>3, <1>4, <1>5
  <2>2. CASE v = {}
    <3>1. sum(v)[v] = 0
      <4> HIDE DEF sum, v
      <4> QED
      BY <2>1, <2>2, SumValue
    <3> QED
      BY <2>1, <2>2, <3>1
  <2>3. CASE v # {}
    <3> DEFINE w == before(v)
    <3>1. w \in SUBSET m /\ w # m /\ w \subseteq v /\ SumOver(sum(w), w)
      BY <1>3, <1>4, <2>1, <2>3
    <3>2. IsFiniteSet(w)
      BY <3>1, FS_Subset
    <3>3. sum(v)[w] = sum(w)[w]
      <4> HIDE DEF sum, v, w
      <4> QED
        BY <2>1, <3>1, <3>2, SumUnique
    <3>4. sum(v)[v] = Pick(v).total + sum(v)[w]
      <4>1. v \in SUBSET v /\ w = v \ {Pick(v)}
        OBVIOUS
      <4> HIDE DEF sum, v, w
      <4> QED
        BY <2>1, <2>3, <4>1, SumValue
    <3>5. g[v] = Pick(v).total + sum(w)[w]
      BY <2>1, <2>3
    <3> QED
      BY <3>3, <3>4, <3>5
  <2> QED
    BY <2>2, <2>3
<1>6. g = [s \in SUBSET m |-> IF s = {} THEN 0 ELSE Pick(s).total + g[before(s)]]
  <2>1. \A s \in SUBSET m :
          g[s] = IF s = {} THEN 0 ELSE Pick(s).total + g[before(s)]
    <3> SUFFICES ASSUME NEW s \in SUBSET m
                 PROVE  g[s] = IF s = {} THEN 0 ELSE Pick(s).total + g[before(s)]
      OBVIOUS
    <3>1. g[s] = IF s = {} THEN 0 ELSE Pick(s).total + sum(before(s))[before(s)]
      OBVIOUS
    <3>2. s # {} => g[before(s)] = sum(before(s))[before(s)]
      BY <1>5
    <3> HIDE DEF g
    <3> QED
      BY <3>1, <3>2
  <2>2. DOMAIN g = SUBSET m /\ g = [s \in SUBSET m |-> g[s]]
    OBVIOUS
  <2> HIDE DEF g
  <2> QED
    BY <2>1, <2>2
<1>7. SumOver(g, m)
  <2> HIDE DEF g
  <2> QED
    BY <1>6 DEF SumOver
<1> QED
  BY <1>2a, <1>7

\* The sum, unfolded once.
LEMMA TotalUnfolds ==
  ASSUME NEW S, IsFiniteSet(S)
  PROVE  /\ S = {} => Total(S) = 0
         /\ S # {} => Total(S) = Pick(S).total + Total(S \ {Pick(S)})
<1> DEFINE rest == S \ {Pick(S)}
           f == CHOOSE f : SumOver(f, S)
           g == CHOOSE g : SumOver(g, rest)
<1>1. SumOver(f, S) /\ Total(S) = f[S]
  BY SumExists, TotalIs
<1>2. IsFiniteSet(rest) /\ rest \subseteq S
  BY FS_Subset
<1>3. SumOver(g, rest) /\ Total(rest) = g[rest]
  <2> HIDE DEF rest
  <2> QED
    BY <1>2, SumExists, TotalIs
<1> HIDE DEF f, g
<1>4. f[rest] = g[rest]
  <2> HIDE DEF rest
  <2> QED
    BY <1>1, <1>2, <1>3, SumUnique
<1>5. S \in SUBSET S
  OBVIOUS
<1>6. S = {} => f[S] = 0
  BY <1>1, <1>5, SumValue
<1>7. S # {} => f[S] = Pick(S).total + f[rest]
  BY <1>1, <1>5, SumValue
<1> HIDE DEF rest
<1>8. S # {} => Total(S) = Pick(S).total + Total(rest)
  BY <1>1, <1>3, <1>4, <1>7
<1> QED
  BY <1>1, <1>6, <1>8 DEF rest

\* A sum of natural numbers is one.
LEMMA TotalType ==
  ASSUME NEW S, IsFiniteSet(S), \A q \in S : q.total \in Nat
  PROVE  Total(S) \in Nat
<1> DEFINE bad == {s \in SUBSET S : Total(s) \notin Nat}
<1>1. SUFFICES ASSUME bad # {} PROVE FALSE
  OBVIOUS
<1>2. \E m \in bad : \A u \in bad : u \subseteq m => u = m
  <2>1. bad \subseteq SUBSET S
    OBVIOUS
  <2> HIDE DEF bad
  <2> QED
    BY <1>1, <2>1, MinimalSubset
<1>3. PICK m \in bad : \A u \in bad : u \subseteq m => u = m
  BY <1>2
<1> DEFINE rest == m \ {Pick(m)}
<1>4. IsFiniteSet(m)
  BY FS_Subset
<1>5. m # {}
  <2>1. Total(m) \notin Nat
    OBVIOUS
  <2>2. m = {} => Total(m) = 0
    BY <1>4, TotalUnfolds
  <2> QED
    BY <2>1, <2>2
<1>6. Pick(m) \in m
  BY <1>5, PickIn
<1>7. rest \in SUBSET S /\ rest \subseteq m /\ rest # m
  BY <1>6
<1>8. Total(rest) \in Nat
  BY <1>3, <1>7
<1>9. Pick(m).total \in Nat
  BY <1>6
<1>10. Total(m) = Pick(m).total + Total(rest)
  BY <1>4, <1>5, TotalUnfolds
<1> HIDE DEF rest
<1> QED
  BY <1>8, <1>9, <1>10

\* The sum is that of any one element and that of the others.
LEMMA TotalSplits ==
  ASSUME NEW S, IsFiniteSet(S), \A q \in S : q.total \in Nat, NEW x \in S
  PROVE  Total(S) = x.total + Total(S \ {x})
<1> DEFINE bad == {s \in SUBSET S : \E y \in s : Total(s) # y.total + Total(s \ {y})}
<1>1. SUFFICES ASSUME bad # {} PROVE FALSE
  OBVIOUS
<1>2. \E m \in bad : \A u \in bad : u \subseteq m => u = m
  <2>1. bad \subseteq SUBSET S
    OBVIOUS
  <2> HIDE DEF bad
  <2> QED
    BY <1>1, <2>1, MinimalSubset
<1>3. PICK m \in bad : \A u \in bad : u \subseteq m => u = m
  BY <1>2
<1>4. ASSUME NEW u \in SUBSET m, u # m, NEW y \in u
      PROVE  Total(u) = y.total + Total(u \ {y})
  <2>1. u \in SUBSET S /\ u \notin bad
    BY <1>3, <1>4
  <2> QED
    BY <2>1
<1>5. m \in SUBSET S /\ \E y \in m : Total(m) # y.total + Total(m \ {y})
  OBVIOUS
<1> HIDE DEF bad
<1>6. PICK y \in m : Total(m) # y.total + Total(m \ {y})
  BY <1>5
<1> DEFINE z == Pick(m)
<1>7. IsFiniteSet(m) /\ m # {} /\ z \in m
  BY <1>5, <1>6, FS_Subset, PickIn
<1>8. Total(m) = z.total + Total(m \ {z})
  BY <1>7, TotalUnfolds
<1> HIDE DEF z
<1>9. y # z
  BY <1>6, <1>8
<1>10. Total(m \ {z}) = y.total + Total((m \ {z}) \ {y})
  BY <1>4, <1>7, <1>9
<1>11. Total(m \ {y}) = z.total + Total((m \ {y}) \ {z})
  BY <1>4, <1>7, <1>9
<1>12. (m \ {z}) \ {y} = (m \ {y}) \ {z}
  OBVIOUS
<1>13. y.total \in Nat /\ z.total \in Nat /\ Total((m \ {y}) \ {z}) \in Nat
  <2>1. IsFiniteSet((m \ {y}) \ {z})
    BY <1>7, FS_Subset
  <2>2. \A q \in (m \ {y}) \ {z} : q.total \in Nat
    BY <1>5
  <2>3. Total((m \ {y}) \ {z}) \in Nat
    BY <2>1, <2>2, TotalType
  <2> QED
    BY <1>5, <1>7, <2>3
<1>14. Total(m \ {z}) = y.total + Total((m \ {y}) \ {z})
  BY <1>10, <1>12
<1> QED
  BY <1>6, <1>8, <1>11, <1>13, <1>14

\* One element more.
LEMMA TotalAdds ==
  ASSUME NEW S, IsFiniteSet(S), NEW r, r \notin S, \A q \in S \cup {r} : q.total \in Nat
  PROVE  Total(S \cup {r}) = Total(S) + r.total
<1>1. IsFiniteSet(S \cup {r}) /\ (S \cup {r}) \ {r} = S
  BY FS_AddElement
<1>2. Total(S \cup {r}) = r.total + Total(S)
  BY <1>1, TotalSplits
<1>3. Total(S) \in Nat
  BY TotalType
<1> QED
  BY <1>2, <1>3

\* The maximum is the member that no other exceeds.
LEMMA MaxIs ==
  ASSUME NEW S, S \subseteq Nat, NEW m \in S, \A n \in S : n <= m
  PROVE  Max(S) = m
<1>1. \E x \in S : \A y \in S : x >= y
  OBVIOUS
<1>2. Max(S) \in S /\ \A y \in S : Max(S) >= y
  BY <1>1 DEF Max
<1>3. Max(S) <= m /\ Max(S) >= m
  BY <1>2
<1>4. Max(S) \in Nat /\ m \in Nat
  BY <1>2
<1> QED
  BY <1>3, <1>4
-----------------------------------------------------------------------------
(* The aggregates of the transactions.                                     *)

Of(S, db) == {r \in S : r.db = db}

\* a aggregates the rows of S.
Aggregates(a, S) ==
  /\ a.total = Total(S)
  /\ \E q \in S : a.longest = q.longest
  /\ \A q \in S : q.longest <= a.longest

Active(r) == <<"active", r.db, r.status>>

\* What TransactionTotals says, with the names of these proofs.
TotalsShown ==
  loop = "transactions" /\ done =>
    LET named == {r \in rows : r.db # NoDatabase}
        of(db) == {r \in named : r.db = db}
    IN  /\ DOMAIN gauge = {Active(r) : r \in named}
                          \cup ({"longest", "total"} \X {r.db : r \in named})
        /\ \A r \in named :
             /\ gauge[Active(r)] = r.active
             /\ gauge[<<"longest", r.db>>] = Max({q.longest : q \in of(r.db)})
             /\ gauge[<<"total", r.db>>] = Total(of(r.db))

LEMMA TotalsAreShown == TransactionTotals <=> TotalsShown
  BY Zenon DEF TransactionTotals, TotalsShown, Active, Total

TransactionsInv ==
  loop = "transactions" =>
    /\ rows \in TxRows
    /\ todo \subseteq rows
    /\ done => todo = {}
    /\ DOMAIN agg = {r.db : r \in {q \in Seen : q.db # NoDatabase}}
    /\ \A db \in DOMAIN agg : Aggregates(agg[db], Of(Seen, db))
    /\ \A r \in Seen : r.db # NoDatabase => gauge[Active(r)] = r.active
    /\ ~done => DOMAIN gauge = {Active(r) : r \in {q \in Seen : q.db # NoDatabase}}
    /\ TotalsShown

LEMMA AddedAggregates ==
  ASSUME NEW S, IsFiniteSet(S), NEW r, r \notin S,
         \A q \in S \cup {r} : q.longest \in Nat /\ q.total \in Nat,
         NEW a, Aggregates(a, S) \/ (S = {} /\ a = NoAggregate)
  PROVE  Aggregates(Added(a, r), S \cup {r})
<1> DEFINE b == Added(a, r)
<1>1. b.total = a.total + r.total /\ b.longest = IF r.longest > a.longest THEN r.longest ELSE a.longest
  BY DEF Added
<1>2. b.total = Total(S \cup {r})
  <2>1. Total(S \cup {r}) = Total(S) + r.total
    BY TotalAdds
  <2>2. a.total = Total(S)
    <3>1. S = {} => Total(S) = 0
      BY TotalUnfolds
    <3> QED
      BY <3>1 DEF Aggregates, NoAggregate
  <2> QED
    BY <1>1, <2>1, <2>2
<1>3. a.longest \in Nat /\ (S = {} => \A q \in S \cup {r} : q = r)
  BY DEF Aggregates, NoAggregate
<1>4. CASE Aggregates(a, S)
  <2>1. PICK q \in S : a.longest = q.longest
    BY <1>4 DEF Aggregates
  <2>2. \A x \in S : x.longest <= a.longest
    BY <1>4 DEF Aggregates
  <2>3. \E x \in S \cup {r} : b.longest = x.longest
    BY <1>1, <2>1
  <2>4. \A x \in S \cup {r} : x.longest <= b.longest
    BY <1>1, <1>3, <2>2
  <2> QED
    BY <1>2, <2>3, <2>4 DEF Aggregates
<1>5. CASE S = {} /\ a = NoAggregate
  <2>1. a.longest = 0 /\ r.longest \in Nat
    BY <1>5 DEF NoAggregate
  <2>2. b.longest = r.longest
    BY <1>1, <2>1
  <2> HIDE DEF b
  <2>3. \A x \in S \cup {r} : x = r
    BY <1>5
  <2>4. Aggregates(b, S \cup {r})
    BY <1>2, <2>1, <2>2, <2>3 DEF Aggregates
  <2> QED
    BY <2>4 DEF b
<1> QED
  BY <1>4, <1>5

LEMMA TransactionsRowStep ==
  ASSUME TransactionsInv, loop = "transactions", NEW r \in todo, TransactionsRow(r)
  PROVE  TransactionsInv'
<1>1. /\ rows' = rows /\ todo' = todo \ {r} /\ done' = done /\ ~done /\ r \in rows
      /\ rows \in TxRows /\ todo \subseteq rows /\ UNCHANGED loop
  BY DEF TransactionsRow, Take, TransactionsInv
<1>2. Seen' = Seen \cup {r} /\ r \notin Seen /\ Seen \subseteq rows
  BY <1>1 DEF Seen
<1>3. TotalsShown'
  BY <1>1 DEF TotalsShown
<1>4. CASE r.db = NoDatabase
  <2>1. agg' = agg /\ gauge' = gauge
    BY <1>4 DEF TransactionsRow
  <2>2. {q \in Seen' : q.db # NoDatabase} = {q \in Seen : q.db # NoDatabase}
    BY <1>2, <1>4
  <2>3. ASSUME NEW db \in DOMAIN agg PROVE Aggregates(agg'[db], Of(Seen', db))
    <3>1. db # NoDatabase
      BY DEF TransactionsInv
    <3>2. Of(Seen', db) = Of(Seen, db)
      BY <1>2, <1>4, <3>1 DEF Of
    <3> QED
      BY <2>1, <3>2 DEF TransactionsInv
  <2>4. \A q \in Seen' : q.db # NoDatabase => gauge'[Active(q)] = q.active
    BY <1>2, <1>4, <2>1 DEF TransactionsInv
  <2> QED
    BY <1>1, <1>3, <2>1, <2>2, <2>3, <2>4 DEF TransactionsInv
<1>5. CASE r.db # NoDatabase
  <2> DEFINE before == IF r.db \in DOMAIN agg THEN agg[r.db] ELSE NoAggregate
  <2>1. /\ gauge' = Put(gauge, One(Active(r), r.active))
        /\ agg' = Put(agg, One(r.db, Added(before, r)))
    BY <1>5 DEF TransactionsRow, Active
  <2> HIDE DEF before
  <2>2. DOMAIN agg' = DOMAIN agg \cup {r.db} /\ DOMAIN gauge' = DOMAIN gauge \cup {Active(r)}
    BY <2>1, PutOne
  <2>3. {q \in Seen' : q.db # NoDatabase} = {q \in Seen : q.db # NoDatabase} \cup {r}
    BY <1>2, <1>5
  <2>4. DOMAIN agg' = {q.db : q \in {x \in Seen' : x.db # NoDatabase}}
    BY <2>2, <2>3 DEF TransactionsInv
  <2>5. DOMAIN gauge' = {Active(q) : q \in {x \in Seen' : x.db # NoDatabase}}
    BY <1>1, <2>2, <2>3 DEF TransactionsInv
  <2>6. ASSUME NEW q \in Seen', q.db # NoDatabase PROVE gauge'[Active(q)] = q.active
    <3>1. CASE q = r
      BY <2>1, <3>1, PutNew
    <3>2. CASE q \in Seen
      <4>1. Active(q) \in DOMAIN gauge /\ gauge[Active(q)] = q.active
        BY <1>1, <2>6, <3>2 DEF TransactionsInv
      <4>2. Active(q) # Active(r)
        BY <1>1, <1>2, <3>2, TxAssumption DEF Active
      <4> QED
        BY <2>1, <4>1, <4>2, PutOld
    <3> QED
      BY <1>2, <3>1, <3>2
  <2>7. ASSUME NEW db \in DOMAIN agg' PROVE Aggregates(agg'[db], Of(Seen', db))
    <3>1. CASE db = r.db
      <4> DEFINE S == Of(Seen, db)
      <4>1. Of(Seen', db) = S \cup {r} /\ r \notin S
        BY <1>2, <3>1 DEF Of
      <4>2. IsFiniteSet(S)
        <5>1. IsFiniteSet(rows) /\ S \subseteq rows
          BY <1>1, <1>2, TxAssumption DEF Of
        <5> QED
          BY <5>1, FS_Subset
      <4>3. \A q \in S \cup {r} : q.longest \in Nat /\ q.total \in Nat
        BY <1>1, <1>2, TxAssumption DEF Of
      <4>4. Aggregates(before, S) \/ (S = {} /\ before = NoAggregate)
        <5>1. CASE r.db \in DOMAIN agg
          BY <3>1, <5>1 DEF TransactionsInv, before
        <5>2. CASE r.db \notin DOMAIN agg
          <6>1. S = {}
            BY <1>5, <3>1, <5>2 DEF TransactionsInv, Of
          <6> QED
            BY <5>2, <6>1 DEF before
        <5> QED
          BY <5>1, <5>2
      <4>5. agg'[db] = Added(before, r)
        BY <2>1, <3>1, PutNew
      <4> HIDE DEF S
      <4>6. Aggregates(Added(before, r), S \cup {r})
        BY <4>1, <4>2, <4>3, <4>4, AddedAggregates
      <4> QED
        BY <4>1, <4>5, <4>6
    <3>2. CASE db # r.db
      <4>1. db \in DOMAIN agg
        BY <2>2, <3>2
      <4>2. agg'[db] = agg[db]
        BY <2>1, <3>2, <4>1, PutOld
      <4>3. Of(Seen', db) = Of(Seen, db)
        BY <1>2, <3>2 DEF Of
      <4> QED
        BY <4>1, <4>2, <4>3 DEF TransactionsInv
    <3> QED
      BY <3>1, <3>2
  <2> QED
    BY <1>1, <1>3, <2>4, <2>5, <2>6, <2>7 DEF TransactionsInv
<1> QED
  BY <1>4, <1>5

LEMMA TransactionsEndStep ==
  ASSUME TransactionsInv, loop = "transactions", TransactionsEnd
  PROVE  TransactionsInv'
<1> DEFINE series == [k \in {"longest", "total"} \X DOMAIN agg |-> agg[k[2]][k[1]]]
           named == {r \in rows : r.db # NoDatabase}
           of(db) == {r \in named : r.db = db}
<1>1. /\ todo = {} /\ todo' = {} /\ done' = TRUE /\ ~done /\ UNCHANGED <<loop, rows, agg>>
      /\ gauge' = Put(gauge, series) /\ rows \in TxRows
  BY DEF TransactionsEnd, Emit, TransactionsInv
<1>2. Seen = rows /\ Seen' = rows /\ rows' = rows
  BY <1>1 DEF Seen
<1>3. /\ DOMAIN agg = {r.db : r \in named}
      /\ DOMAIN gauge = {Active(r) : r \in named}
      /\ \A db \in DOMAIN agg : Aggregates(agg[db], Of(rows, db))
      /\ \A r \in named : gauge[Active(r)] = r.active
  BY <1>1, <1>2 DEF TransactionsInv
<1>4. /\ DOMAIN series = {"longest", "total"} \X {r.db : r \in named}
      /\ \A db \in DOMAIN agg : /\ series[<<"longest", db>>] = agg[db].longest
                                /\ series[<<"total", db>>] = agg[db].total
  BY <1>3
<1>5. /\ DOMAIN gauge' = DOMAIN gauge \cup DOMAIN series
      /\ \A k \in DOMAIN series : gauge'[k] = series[k]
      /\ \A k \in DOMAIN gauge \ DOMAIN series : gauge'[k] = gauge[k]
  <2>1. gauge' = Put(gauge, series)
    BY <1>1
  <2> HIDE DEF series
  <2>2. DOMAIN gauge' = DOMAIN gauge \cup DOMAIN series
    BY <2>1, PutDomain
  <2>3. \A k \in DOMAIN series : gauge'[k] = series[k]
    BY <2>1, PutLast
  <2>4. \A k \in DOMAIN gauge \ DOMAIN series : gauge'[k] = gauge[k]
    BY <2>1, PutValue
  <2> QED
    BY <2>2, <2>3, <2>4
<1> HIDE DEF series
<1>6. ASSUME NEW r \in named
      PROVE  /\ gauge'[Active(r)] = r.active
             /\ gauge'[<<"longest", r.db>>] = Max({q.longest : q \in of(r.db)})
             /\ gauge'[<<"total", r.db>>] = Total(of(r.db))
  <2>1. Active(r) \in DOMAIN gauge \ DOMAIN series
    BY <1>3, <1>4 DEF Active
  <2>2. gauge'[Active(r)] = r.active
    BY <1>3, <1>5, <2>1
  <2>3. r.db \in DOMAIN agg /\ of(r.db) = Of(rows, r.db)
    BY <1>3 DEF Of
  <2>4. Aggregates(agg[r.db], of(r.db))
    BY <1>3, <2>3
  <2>5. /\ <<"longest", r.db>> \in DOMAIN series
        /\ <<"total", r.db>> \in DOMAIN series
    BY <1>4
  <2>6. /\ gauge'[<<"longest", r.db>>] = agg[r.db].longest
        /\ gauge'[<<"total", r.db>>] = agg[r.db].total
    BY <1>4, <1>5, <2>3, <2>5
  <2>7. Max({q.longest : q \in of(r.db)}) = agg[r.db].longest
    <3> DEFINE M == {q.longest : q \in of(r.db)}
               m == agg[r.db].longest
    <3>1. M \subseteq Nat
      BY <1>1, TxAssumption
    <3>2. m \in M /\ \A n \in M : n <= m
      BY <2>4 DEF Aggregates
    <3> HIDE DEF M, m
    <3>3. Max(M) = m
      BY <3>1, <3>2, MaxIs
    <3> QED
      BY <3>3 DEF M, m
  <2>8. agg[r.db].total = Total(of(r.db))
    BY <2>4 DEF Aggregates
  <2> QED
    BY <2>2, <2>6, <2>7, <2>8
<1>7. TotalsShown'
  <2>1. DOMAIN gauge' = {Active(r) : r \in named} \cup ({"longest", "total"} \X {r.db : r \in named})
    BY <1>3, <1>4, <1>5
  <2> QED
    BY <1>1, <1>2, <1>6, <2>1 DEF TotalsShown
<1>8. ASSUME NEW r \in Seen', r.db # NoDatabase PROVE gauge'[Active(r)] = r.active
  BY <1>2, <1>6, <1>8
<1>9. DOMAIN agg' = {r.db : r \in {q \in Seen' : q.db # NoDatabase}}
  BY <1>1, <1>2, <1>3
<1>10. \A db \in DOMAIN agg' : Aggregates(agg'[db], Of(Seen', db))
  BY <1>1, <1>2, <1>3
<1> QED
  BY <1>1, <1>7, <1>8, <1>9, <1>10 DEF TransactionsInv

LEMMA TransactionsStep == TransactionsInv /\ [SeriesNext]_vars => TransactionsInv'
<1> SUFFICES ASSUME TransactionsInv, [SeriesNext]_vars, loop' = "transactions"
             PROVE  TransactionsInv'
  BY DEF TransactionsInv
<1>1. CASE UNCHANGED vars
  BY <1>1 DEF vars, TransactionsInv, Seen, TotalsShown
<1>2. CASE SeriesNext
  <2>1. loop = "transactions"
    BY <1>2, OwnSteps
  <2>2. CASE Finished
    BY <2>2 DEF Finished, vars, TransactionsInv, Seen, TotalsShown
  <2> QED
    BY <1>2, <2>1, <2>2, TransactionsRowStep, TransactionsEndStep, OwnSteps
<1> QED
  BY <1>1, <1>2

\* However many transactions there are, in whichever order their rows come, each
\* database has the maximum and the sum over its own rows.
THEOREM TransactionsAddUp == SeriesSpec => []TransactionTotals
<1>1. SeriesInit => TransactionsInv
  <2> SUFFICES ASSUME SeriesInit, loop = "transactions" PROVE TransactionsInv
    BY DEF TransactionsInv
  <2>1. todo = rows /\ gauge = <<>> /\ done = FALSE /\ agg = <<>> /\ rows \in TxRows
    BY Starts
  <2>2. Seen = {}
    BY <2>1 DEF Seen
  <2> QED
    BY <2>1, <2>2, NothingIn DEF TransactionsInv, TotalsShown
<1>2. TransactionsInv => TransactionTotals
  BY TotalsAreShown DEF TransactionsInv, TotalsShown
<1> QED
  BY <1>1, <1>2, TransactionsStep, PTL DEF SeriesSpec

=============================================================================

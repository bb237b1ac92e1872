--------------------------- MODULE RequestsProofs ---------------------------
(***************************************************************************)
(* Proofs about Requests: for any requests, configurations and modules,    *)
(* what the exporter counts about its probes adds up, and no query for     *)
(* slow transactions is out of bounds.                                     *)
(*                                                                         *)
(* What is counted is the cardinality of a set of requests.  A step of a   *)
(* request moves it, if at all, from one of these sets to the next; all    *)
(* other steps are Steady.                                                 *)
(***************************************************************************)
EXTENDS Requests, FiniteSetTheorems, TLAPS

\* The request of each kind is at one of the places of its handler.
Placed(r) ==
  /\ pc[r] \in {"probe", "ran", "observed", "counted"} => ask[r].kind = "probe"
  /\ pc[r] = "slow" => ask[r].kind = "slow"
  /\ pc[r] \in {"getting", "waiting", "building", "querying"} => ask[r].kind \in {"probe", "slow"}
  /\ pc[r] \in {"reload", "reconciling", "closing"} => ask[r].kind = "reload"
  /\ pc[r] \in {"ready", "metrics"} => ask[r].kind = pc[r]

\* A probe that runs was not turned away, so its module exists.
Accepted(r) ==
  ask[r].kind = "probe" /\ pc[r] \in Within =>
    /\ Label(r) \in ModuleName
    /\ ProbeRefused(taken[r], ask[r]) = 0

\* The probe's page has been counted.
Tallied(r) == pc[r] = "counted" \/ (pc[r] = "answered" /\ code[r] = 200)

\* neo4j_up is only set by a run that has finished.
Finishes(r) == up[r] = 1 => finished[r]

\* The probes of module m that had no driver, observed or counted.
Driverless(m) ==
  {r \in Request : /\ ask[r].kind = "probe"
                   /\ pc[r] = "observed" \/ Tallied(r)
                   /\ Label(r) = m
                   /\ ~finished[r]}

Tallies ==
  \A m \in ModuleName :
    /\ inflight[m] = Cardinality(At(m, Within))
    /\ probes[<<m, "success">>] = Cardinality(Counted(m, 1))
    /\ probes[<<m, "error">>] = Cardinality(Counted(m, 0))
    /\ durations[<<m, "elapsed">>] + durations[<<m, "negative">>] =
         probes[<<m, "success">>] + probes[<<m, "error">>]
           + Cardinality(At(m, {"observed"}))
    /\ durations[<<m, "negative">>] = Cardinality(Driverless(m))

Each == \A r \in Request : Placed(r) /\ Accepted(r) /\ Finishes(r)

IInv == TypeOK /\ Each /\ QueriesBounded /\ Tallies

-----------------------------------------------------------------------------
(* The types, but for the counters.                                        *)

Types ==
  /\ pc \in [Request -> Places]
  /\ ask \in [Request -> Asks]
  /\ Typed(conf)
  /\ taken = [r \in Request |-> taken[r]]
  /\ \A r \in Request : Typed(taken[r])
  /\ limit \in [Request -> Nat]
  /\ least \in [Request -> Number]
  /\ up \in [Request -> {0, 1}]
  /\ finished \in [Request -> BOOLEAN]
  /\ code \in [Request -> {0, 200, 400, 403, 404, 405, 500, 502}]
  /\ mu \in Request \cup {Nobody}

Counters ==
  /\ inflight \in [ModuleName -> Nat]
  /\ durations \in [ModuleName \X {"elapsed", "negative"} -> Nat]
  /\ probes \in [ModuleName \X {"success", "error"} -> Nat]

LEMMA TypesAndCounters == TypeOK <=> Types /\ Counters
  BY DEF TypeOK, Types, Counters

\* The $top of a query is within its bounds whatever the parameter and the setting are.
LEMMA TopBounded ==
  ASSUME NEW p \in Number, NEW setting \in Int
  PROVE  Top(p, setting) \in 1 .. 1000
  BY DEF Top, Number

\* The $min of a query is NaN or not negative.
LEMMA MinBounded ==
  ASSUME NEW p \in Number, NEW setting \in {n \in Number : n.kind \in {"nan", "number"}}
  PROVE  /\ MinSeconds(p, setting) \in Number
         /\ \/ MinSeconds(p, setting).kind = "nan"
            \/ /\ MinSeconds(p, setting).kind = "number"
               /\ MinSeconds(p, setting).value >= 0
  BY DEF MinSeconds, Number, Zero

\* The settings of a slow query's module are numbers.
LEMMA SlowModuleTyped ==
  ASSUME NEW c, Typed(c), NEW a \in Asks, NEW m \in SlowModule(c, a)
  PROVE  m \in Module
  BY DEF SlowModule, Typed

\* The parameters of a request for slow queries.
LEMMA SlowAsk ==
  ASSUME NEW a \in Asks, a.kind = "slow"
  PROVE  a.top \in Number /\ a.min \in Number
  BY DEF Asks

\* What a request may be.
LEMMA ArrivedKind ==
  ASSUME NEW a \in Asks
  PROVE  a.kind \in {"probe", "slow", "reload", "ready", "metrics"}
  BY DEF Asks

\* A probe that is not turned away has a module that exists.
LEMMA AcceptedModule ==
  ASSUME NEW c, Typed(c), NEW a \in Asks, ProbeRefused(c, a) = 0
  PROVE  ModuleOf(c, a) \in ModuleName
  BY DEF ProbeRefused, Typed

\* A probe that is turned away is not answered with a page.
LEMMA RefusedCode ==
  ASSUME NEW c, NEW a
  PROVE  /\ ProbeRefused(c, a) \in {0, 400, 404}
         /\ SlowRefused(c, a) \in {0, 400, 403, 404}
  BY DEF ProbeRefused, SlowRefused

-----------------------------------------------------------------------------
(* Steps that move nothing.                                                *)

\* As far as the counted sets can tell, request q stays what it is.
Steady(q) ==
  /\ ask'[q].kind = ask[q].kind
  /\ ask[q].kind = "probe" =>
       /\ pc'[q] \in Within <=> pc[q] \in Within
       /\ pc'[q] = "observed" <=> pc[q] = "observed"
       /\ Tallied(q)' <=> Tallied(q)
       /\ pc[q] \in Within \/ Tallied(q) => Label(q)' = Label(q)
       /\ pc[q] = "observed" \/ Tallied(q) => up'[q] = up[q] /\ finished'[q] = finished[q]

LEMMA SteadySets ==
  ASSUME \A q \in Request : Steady(q), NEW m
  PROVE  /\ At(m, Within)' = At(m, Within)
         /\ At(m, {"observed"})' = At(m, {"observed"})
         /\ \A u : Counted(m, u)' = Counted(m, u)
         /\ Driverless(m)' = Driverless(m)
<1>1. At(m, Within)' = At(m, Within)
  BY DEF At, Steady
<1>2. At(m, {"observed"})' = At(m, {"observed"})
  BY DEF At, Steady, Within
<1>3. \A u : Counted(m, u)' = Counted(m, u)
  BY DEF Counted, Steady, Tallied
<1>4. Driverless(m)' = Driverless(m)
  BY DEF Driverless, Steady, Tallied, Within
<1>5. QED
  BY <1>1, <1>2, <1>3, <1>4

\* A step that is steady for every request and leaves the metrics alone keeps the
\* tallies.
LEMMA SteadyTallies ==
  ASSUME Tallies, \A q \in Request : Steady(q), UNCHANGED metrics
  PROVE  Tallies'
<1> SUFFICES ASSUME NEW m \in ModuleName
             PROVE  /\ inflight'[m] = Cardinality(At(m, Within)')
                    /\ probes'[<<m, "success">>] = Cardinality(Counted(m, 1)')
                    /\ probes'[<<m, "error">>] = Cardinality(Counted(m, 0)')
                    /\ durations'[<<m, "elapsed">>] + durations'[<<m, "negative">>] =
                         probes'[<<m, "success">>] + probes'[<<m, "error">>]
                           + Cardinality(At(m, {"observed"})')
                    /\ durations'[<<m, "negative">>] = Cardinality(Driverless(m)')
  BY DEF Tallies
<1>1. /\ At(m, Within)' = At(m, Within)
      /\ At(m, {"observed"})' = At(m, {"observed"})
      /\ \A u : Counted(m, u)' = Counted(m, u)
      /\ Driverless(m)' = Driverless(m)
  BY SteadySets
<1>2. inflight' = inflight /\ durations' = durations /\ probes' = probes
  BY DEF metrics
<1>3. QED
  BY <1>1, <1>2 DEF Tallies

-----------------------------------------------------------------------------
(* Types and places.                                                       *)

LEMMA TypesStep ==
  ASSUME Types, Each, NEW r \in Request, Step(r) \/ Arrive(r) \/ CloseReturns(r)
  PROVE  Types'
<1> USE DEF Types, Goto, Answer, handler, metrics, Places
<1>1. CASE Arrive(r)
  BY <1>1 DEF Arrive, Asks
<1>2. CASE RefuseProbe(r)
  BY <1>2, RefusedCode DEF RefuseProbe
<1>3. CASE StartProbe(r)
  BY <1>3 DEF StartProbe
<1>4. CASE HashTarget(r)
  BY <1>4 DEF HashTarget
<1>5. CASE GetEntry(r)
  BY <1>5 DEF GetEntry
<1>6. CASE GetMiss(r)
  BY <1>6 DEF GetMiss
<1>7. CASE GetBuilt(r)
  BY <1>7 DEF GetBuilt, MuLeft
<1>8. CASE GetFails(r)
  BY <1>8 DEF GetFails, MuLeft
<1>9. CASE Run(r)
  BY <1>9 DEF Run, UpOf
<1>10. CASE Observe(r)
  BY <1>10 DEF Observe
<1>11. CASE Count(r)
  BY <1>11 DEF Count
<1>12. CASE Respond(r)
  BY <1>12 DEF Respond
<1>13. CASE RefuseSlow(r)
  BY <1>13, RefusedCode DEF RefuseSlow
<1>14. CASE StartSlow(r)
  <2>1. PICK m \in SlowModule(taken[r], ask[r]) :
           /\ limit' = [limit EXCEPT ![r] = Top(ask[r].top, m.top)]
           /\ least' = [least EXCEPT ![r] = MinSeconds(ask[r].min, m.min)]
    BY <1>14 DEF StartSlow
  <2>2. m \in Module
    BY SlowModuleTyped
  <2>3. Top(ask[r].top, m.top) \in Nat /\ MinSeconds(ask[r].min, m.min) \in Number
    <3>1. ask[r] \in Asks /\ ask[r].kind = "slow"
      BY <1>14 DEF StartSlow, Each, Placed
    <3>2. ask[r].top \in Number /\ ask[r].min \in Number
      BY <3>1, SlowAsk
    <3>3. m.top \in Int /\ m.min \in {n \in Number : n.kind \in {"nan", "number"}}
      BY <2>2 DEF Module
    <3>4. Top(ask[r].top, m.top) \in 1 .. 1000
      BY <3>2, <3>3, TopBounded
    <3>5. MinSeconds(ask[r].min, m.min) \in Number
      BY <3>2, <3>3, MinBounded
    <3>6. QED
      BY <3>4, <3>5
  <2>4. QED
    BY <1>14, <2>1, <2>3 DEF StartSlow
<1>15. CASE AnswerSlow(r)
  BY <1>15 DEF AnswerSlow
<1>16. CASE RefuseReload(r)
  BY <1>16 DEF RefuseReload
<1>17. CASE Reload(r)
  BY <1>17, ConfigAssumption DEF Reload
<1>18. CASE Reconcile(r)
  BY <1>18 DEF Reconcile, MuLeft
<1>19. CASE CloseReturns(r)
  BY <1>19 DEF CloseReturns, MuLeft
<1>20. CASE Ready(r)
  BY <1>20 DEF Ready
<1>21. CASE Metrics(r)
  BY <1>21 DEF Metrics
<1>22. QED
  BY <1>1, <1>2, <1>3, <1>4, <1>5, <1>6, <1>7, <1>8, <1>9, <1>10, <1>11, <1>12, <1>13, <1>14, <1>15, <1>16, <1>17, <1>18, <1>19, <1>20, <1>21 DEF Step

LEMMA EachStep ==
  ASSUME Types, Each, NEW r \in Request, Step(r) \/ Arrive(r) \/ CloseReturns(r)
  PROVE  Each'
<1> SUFFICES ASSUME NEW q \in Request
             PROVE  Placed(q)' /\ Accepted(q)' /\ Finishes(q)'
  BY DEF Each
<1> USE DEF Types, Each, Placed, Accepted, Finishes, Label, Within, Goto, Answer, handler,
            metrics
<1>1. CASE Arrive(r)
  BY <1>1, ArrivedKind DEF Arrive
<1>2. CASE RefuseProbe(r)
  BY <1>2 DEF RefuseProbe
<1>3. CASE StartProbe(r)
  BY <1>3, AcceptedModule DEF StartProbe
<1>4. CASE HashTarget(r)
  BY <1>4 DEF HashTarget
<1>5. CASE GetEntry(r)
  BY <1>5 DEF GetEntry
<1>6. CASE GetMiss(r)
  BY <1>6 DEF GetMiss
<1>7. CASE GetBuilt(r)
  BY <1>7 DEF GetBuilt, MuLeft
<1>8. CASE GetFails(r)
  BY <1>8 DEF GetFails, MuLeft
<1>9. CASE Run(r)
  BY <1>9 DEF Run, UpOf
<1>10. CASE Observe(r)
  BY <1>10 DEF Observe
<1>11. CASE Count(r)
  BY <1>11 DEF Count
<1>12. CASE Respond(r)
  BY <1>12 DEF Respond
<1>13. CASE RefuseSlow(r)
  BY <1>13 DEF RefuseSlow
<1>14. CASE StartSlow(r)
  BY <1>14 DEF StartSlow
<1>15. CASE AnswerSlow(r)
  BY <1>15 DEF AnswerSlow
<1>16. CASE RefuseReload(r)
  BY <1>16 DEF RefuseReload
<1>17. CASE Reload(r)
  BY <1>17 DEF Reload
<1>18. CASE Reconcile(r)
  BY <1>18 DEF Reconcile, MuLeft
<1>19. CASE CloseReturns(r)
  BY <1>19 DEF CloseReturns, MuLeft
<1>20. CASE Ready(r)
  BY <1>20 DEF Ready
<1>21. CASE Metrics(r)
  BY <1>21 DEF Metrics
<1>22. QED
  BY <1>1, <1>2, <1>3, <1>4, <1>5, <1>6, <1>7, <1>8, <1>9, <1>10, <1>11, <1>12, <1>13, <1>14, <1>15, <1>16, <1>17, <1>18, <1>19, <1>20, <1>21 DEF Step

LEMMA BoundsStep ==
  ASSUME Types, Each, QueriesBounded, NEW r \in Request,
         Step(r) \/ Arrive(r) \/ CloseReturns(r)
  PROVE  QueriesBounded'
<1> USE DEF Types, QueriesBounded, Goto, Answer, handler, metrics
<1>1. CASE Arrive(r)
  BY <1>1, ArrivedKind DEF Arrive
<1>2. CASE RefuseProbe(r)
  BY <1>2 DEF RefuseProbe
<1>3. CASE StartProbe(r)
  BY <1>3 DEF StartProbe, Each, Placed
<1>4. CASE HashTarget(r)
  BY <1>4 DEF HashTarget
<1>5. CASE GetEntry(r)
  BY <1>5 DEF GetEntry
<1>6. CASE GetMiss(r)
  BY <1>6 DEF GetMiss
<1>7. CASE GetBuilt(r)
  BY <1>7 DEF GetBuilt, MuLeft
<1>8. CASE GetFails(r)
  BY <1>8 DEF GetFails, MuLeft
<1>9. CASE Run(r)
  BY <1>9 DEF Run, UpOf
<1>10. CASE Observe(r)
  BY <1>10 DEF Observe
<1>11. CASE Count(r)
  BY <1>11 DEF Count
<1>12. CASE Respond(r)
  BY <1>12 DEF Respond
<1>13. CASE RefuseSlow(r)
  BY <1>13 DEF RefuseSlow
<1>14. CASE StartSlow(r)
  <2>1. PICK m \in SlowModule(taken[r], ask[r]) :
           /\ limit' = [limit EXCEPT ![r] = Top(ask[r].top, m.top)]
           /\ least' = [least EXCEPT ![r] = MinSeconds(ask[r].min, m.min)]
    BY <1>14 DEF StartSlow
  <2>2. ask[r].top \in Number /\ ask[r].min \in Number
    BY <1>14, SlowAsk DEF StartSlow, Each, Placed
  <2>3. m.top \in Int /\ m.min \in {n \in Number : n.kind \in {"nan", "number"}}
    BY SlowModuleTyped DEF Module
  <2>4. Top(ask[r].top, m.top) \in 1 .. 1000
    BY <2>2, <2>3, TopBounded
  <2>5. \/ MinSeconds(ask[r].min, m.min).kind = "nan"
        \/ /\ MinSeconds(ask[r].min, m.min).kind = "number"
           /\ MinSeconds(ask[r].min, m.min).value >= 0
    BY <2>2, <2>3, MinBounded
  <2>6. /\ limit'[r] = Top(ask[r].top, m.top)
        /\ least'[r] = MinSeconds(ask[r].min, m.min)
        /\ \A q \in Request \ {r} : limit'[q] = limit[q] /\ least'[q] = least[q] /\ pc'[q] = pc[q]
        /\ ask' = ask
    BY <1>14, <2>1 DEF StartSlow
  <2>7. \A q \in Request \ {r} :
          ask'[q].kind = "slow" /\ pc'[q] \in {"getting", "waiting", "building", "querying"} =>
            /\ limit'[q] \in 1 .. 1000
            /\ least'[q].kind = "nan" \/ (least'[q].kind = "number" /\ least'[q].value >= 0)
    BY <2>6
  <2>8. /\ limit'[r] \in 1 .. 1000
        /\ least'[r].kind = "nan" \/ (least'[r].kind = "number" /\ least'[r].value >= 0)
    <3>1. limit'[r] \in 1 .. 1000
      BY <2>4, <2>6
    <3>2. least'[r].kind = "nan" \/ (least'[r].kind = "number" /\ least'[r].value >= 0)
      BY <2>5, <2>6, Zenon
    <3>3. QED
      BY <3>1, <3>2
  <2>9. QED
    BY <2>7, <2>8
<1>15. CASE AnswerSlow(r)
  BY <1>15 DEF AnswerSlow
<1>16. CASE RefuseReload(r)
  BY <1>16 DEF RefuseReload
<1>17. CASE Reload(r)
  BY <1>17 DEF Reload
<1>18. CASE Reconcile(r)
  BY <1>18 DEF Reconcile, MuLeft
<1>19. CASE CloseReturns(r)
  BY <1>19 DEF CloseReturns, MuLeft
<1>20. CASE Ready(r)
  BY <1>20 DEF Ready
<1>21. CASE Metrics(r)
  BY <1>21 DEF Metrics
<1>22. QED
  BY <1>1, <1>2, <1>3, <1>4, <1>5, <1>6, <1>7, <1>8, <1>9, <1>10, <1>11, <1>12, <1>13, <1>14, <1>15, <1>16, <1>17, <1>18, <1>19, <1>20, <1>21 DEF Step

-----------------------------------------------------------------------------
(* Counting.                                                               *)

LEMMA FiniteSets ==
  ASSUME NEW S \in SUBSET Request
  PROVE  IsFiniteSet(S) /\ Cardinality(S) \in Nat
  BY RequestAssumption, FS_Subset, FS_CardinalityType

LEMMA OneMore ==
  ASSUME NEW S \in SUBSET Request, NEW r \in Request \ S
  PROVE  Cardinality(S \cup {r}) = Cardinality(S) + 1
  BY FiniteSets, FS_AddElement

LEMMA OneLess ==
  ASSUME NEW S \in SUBSET Request, NEW r \in S
  PROVE  Cardinality(S \ {r}) = Cardinality(S) - 1
  BY FiniteSets, FS_RemoveElement

LEMMA SetsOfRequests ==
  ASSUME NEW m
  PROVE  /\ \A places : At(m, places) \in SUBSET Request
         /\ \A u : Counted(m, u) \in SUBSET Request
         /\ Driverless(m) \in SUBSET Request
  BY DEF At, Counted, Driverless

\* The steps after which every counted set is what it was.
LEMMA SteadyStep ==
  ASSUME Types, Each, NEW r \in Request,
         \/ Arrive(r) \/ RefuseProbe(r) \/ HashTarget(r) \/ GetEntry(r) \/ GetMiss(r)
         \/ GetBuilt(r) \/ GetFails(r) \/ Run(r) \/ RefuseSlow(r) \/ StartSlow(r) \/ AnswerSlow(r) \/ RefuseReload(r)
         \/ Reload(r) \/ Reconcile(r) \/ CloseReturns(r) \/ Ready(r) \/ Metrics(r)
  PROVE  (\A q \in Request : Steady(q)) /\ UNCHANGED metrics
<1> SUFFICES ASSUME NEW q \in Request
             PROVE  Steady(q) /\ UNCHANGED metrics
  OBVIOUS
<1> USE DEF Types, Each, Placed, Steady, Tallied, Label, Within, Goto, Answer, handler, metrics
<1>1. CASE Arrive(r)
  BY <1>1, ArrivedKind DEF Arrive
<1>2. CASE RefuseProbe(r)
  BY <1>2, RefusedCode DEF RefuseProbe
<1>3. CASE HashTarget(r)
  BY <1>3 DEF HashTarget
<1>4. CASE GetEntry(r)
  BY <1>4 DEF GetEntry
<1>5. CASE GetMiss(r)
  BY <1>5 DEF GetMiss
<1>6. CASE GetBuilt(r)
  BY <1>6 DEF GetBuilt, MuLeft
<1>7. CASE GetFails(r)
  BY <1>7 DEF GetFails, MuLeft
<1>8. CASE Run(r)
  <2>1. PICK u \in UpOf(taken[r].modules[Label(r)]) : up' = [up EXCEPT ![r] = u]
    BY <1>8 DEF Run
  <2>2. pc[r] = "querying" /\ pc' = [pc EXCEPT ![r] = "ran"]
    BY <1>8 DEF Run
  <2>3. finished' = [finished EXCEPT ![r] = TRUE]
    BY <1>8 DEF Run
  <2>4. UNCHANGED <<ask, taken, code, metrics>>
    BY <1>8 DEF Run
  <2>5. q # r => UNCHANGED <<pc[q], up[q], finished[q]>>
    BY <2>1, <2>2, <2>3
  <2>6. pc'[r] = "ran"
    BY <2>2
  <2>7. QED
    BY <2>2, <2>4, <2>5, <2>6
<1>9. CASE RefuseSlow(r)
  BY <1>9, RefusedCode DEF RefuseSlow
<1>10. CASE StartSlow(r)
  BY <1>10 DEF StartSlow
<1>11. CASE AnswerSlow(r)
  BY <1>11 DEF AnswerSlow
<1>12. CASE RefuseReload(r)
  BY <1>12 DEF RefuseReload
<1>13. CASE Reload(r)
  BY <1>13 DEF Reload
<1>14. CASE Reconcile(r)
  BY <1>14 DEF Reconcile, MuLeft
<1>15. CASE CloseReturns(r)
  BY <1>15 DEF CloseReturns, MuLeft
<1>16. CASE Ready(r)
  BY <1>16 DEF Ready
<1>17. CASE Metrics(r)
  BY <1>17 DEF Metrics
<1>18. QED
  BY <1>1, <1>2, <1>3, <1>4, <1>5, <1>6, <1>7, <1>8, <1>9, <1>10, <1>11, <1>12, <1>13, <1>14, <1>15, <1>16, <1>17

LEMMA StartProbeTallies ==
  ASSUME Types, Counters, Each, Tallies, NEW r \in Request, StartProbe(r)
  PROVE  Counters' /\ Tallies'
<1> DEFINE l == Label(r)
<1>1. l \in ModuleName
  BY AcceptedModule DEF StartProbe, Label, Types
<1>2. /\ inflight' = [inflight EXCEPT ![l] = @ + 1]
      /\ durations' = durations /\ probes' = probes
      /\ pc[r] = "probe" /\ pc' = [pc EXCEPT ![r] = "getting"]
      /\ ask' = ask /\ taken' = taken /\ up' = up /\ finished' = finished /\ code' = code
      /\ ask[r].kind = "probe"
  BY DEF StartProbe, Goto, handler, Each, Placed
<1> HIDE DEF l
<1>3. Counters'
  BY <1>1, <1>2 DEF Counters
<1>4. ASSUME NEW m \in ModuleName
      PROVE  /\ At(m, Within)' = IF m = l THEN At(m, Within) \cup {r} ELSE At(m, Within)
             /\ r \notin At(m, Within)
    BY <1>2 DEF At, Within, Label, Types, l
<1>5. ASSUME NEW m \in ModuleName
      PROVE  /\ At(m, {"observed"})' = At(m, {"observed"})
             /\ \A u : Counted(m, u)' = Counted(m, u)
             /\ Driverless(m)' = Driverless(m)
  <2>1. At(m, {"observed"})' = At(m, {"observed"})
    BY <1>2 DEF At, Label, Types
  <2>2. \A u : Counted(m, u)' = Counted(m, u)
    BY <1>2 DEF Counted, Label, Types
  <2>3. Driverless(m)' = Driverless(m)
    BY <1>2 DEF Driverless, Tallied, Label, Types
  <2>4. QED
    BY <2>1, <2>2, <2>3
<1>6. ASSUME NEW m \in ModuleName
      PROVE  inflight'[m] = Cardinality(At(m, Within)')
  <2>1. inflight[m] = Cardinality(At(m, Within)) /\ inflight[m] \in Nat
    BY DEF Tallies, Counters
  <2>2. inflight'[m] = IF m = l THEN inflight[m] + 1 ELSE inflight[m]
    BY <1>1, <1>2 DEF Counters
  <2>3. Cardinality(At(m, Within) \cup {r}) = Cardinality(At(m, Within)) + 1
    BY <1>4, OneMore, SetsOfRequests
  <2>4. QED
    BY <1>4, <2>1, <2>2, <2>3
<1>7. QED
  BY <1>2, <1>3, <1>5, <1>6 DEF Tallies

LEMMA RespondTallies ==
  ASSUME Types, Counters, Each, Tallies, NEW r \in Request, Respond(r)
  PROVE  Counters' /\ Tallies'
<1> DEFINE l == Label(r)
<1>1. /\ inflight' = [inflight EXCEPT ![l] = @ - 1]
      /\ durations' = durations /\ probes' = probes
      /\ pc[r] = "counted" /\ pc' = [pc EXCEPT ![r] = "answered"]
      /\ code' = [code EXCEPT ![r] = 200]
      /\ ask' = ask /\ taken' = taken /\ up' = up /\ finished' = finished
      /\ ask[r].kind = "probe"
  BY DEF Respond, Answer, Goto, Dec, handler, Each, Placed
<1>2. l \in ModuleName
  BY <1>1 DEF Each, Accepted, Within
<1> HIDE DEF l
<1>3. ASSUME NEW m \in ModuleName
      PROVE  /\ At(m, Within)' = IF m = l THEN At(m, Within) \ {r} ELSE At(m, Within)
             /\ m = l => r \in At(m, Within)
    BY <1>1 DEF At, Within, Label, Types, l
<1>4. ASSUME NEW m \in ModuleName
      PROVE  /\ At(m, {"observed"})' = At(m, {"observed"})
             /\ \A u : Counted(m, u)' = Counted(m, u)
             /\ Driverless(m)' = Driverless(m)
  <2>1. At(m, {"observed"})' = At(m, {"observed"})
    BY <1>1 DEF At, Label, Types
  <2>2. \A u : Counted(m, u)' = Counted(m, u)
    BY <1>1 DEF Counted, Label, Types
  <2>3. Driverless(m)' = Driverless(m)
    BY <1>1 DEF Driverless, Tallied, Label, Types
  <2>4. QED
    BY <2>1, <2>2, <2>3
<1>5. ASSUME NEW m \in ModuleName
      PROVE  inflight'[m] = Cardinality(At(m, Within)') /\ inflight'[m] \in Nat
  <2>1. inflight[m] = Cardinality(At(m, Within)) /\ inflight[m] \in Nat
    BY DEF Tallies, Counters
  <2>2. inflight'[m] = IF m = l THEN inflight[m] - 1 ELSE inflight[m]
    BY <1>1, <1>2 DEF Counters
  <2>3. m = l => Cardinality(At(m, Within) \ {r}) = Cardinality(At(m, Within)) - 1
    BY <1>3, OneLess, SetsOfRequests
  <2>4. m = l => Cardinality(At(m, Within) \ {r}) \in Nat
    BY FiniteSets, SetsOfRequests
  <2>5. QED
    BY <1>3, <2>1, <2>2, <2>3, <2>4
<1>6. Counters'
  <2>1. inflight' \in [ModuleName -> Nat]
    BY <1>1, <1>5 DEF Counters
  <2>2. QED
    BY <1>1, <2>1 DEF Counters
<1>7. QED
  BY <1>1, <1>4, <1>5, <1>6 DEF Tallies

LEMMA ObserveTallies ==
  ASSUME Types, Counters, Each, Tallies, NEW r \in Request, Observe(r)
  PROVE  Counters' /\ Tallies'
<1> DEFINE l == Label(r)
           sign == Duration(finished[r])
<1>1. /\ durations' = [durations EXCEPT ![<<l, sign>>] = @ + 1]
      /\ inflight' = inflight /\ probes' = probes
      /\ pc[r] = "ran" /\ pc' = [pc EXCEPT ![r] = "observed"]
      /\ ask' = ask /\ taken' = taken /\ up' = up /\ finished' = finished /\ code' = code
      /\ ask[r].kind = "probe"
  BY DEF Observe, Goto, handler, Each, Placed
<1>2. l \in ModuleName
  BY <1>1 DEF Each, Accepted, Within
<1>3. /\ sign \in {"elapsed", "negative"}
      /\ sign = "negative" <=> ~finished[r]
  BY DEF Duration
<1> HIDE DEF l, sign
<1>4. Counters'
  <2>1. <<l, sign>> \in ModuleName \X {"elapsed", "negative"}
    BY <1>2, <1>3
  <2>2. durations' \in [ModuleName \X {"elapsed", "negative"} -> Nat]
    BY <1>1, <2>1 DEF Counters
  <2>3. QED
    BY <1>1, <2>2 DEF Counters
<1>5. ASSUME NEW m \in ModuleName
      PROVE  /\ At(m, {"observed"})' =
                  IF m = l THEN At(m, {"observed"}) \cup {r} ELSE At(m, {"observed"})
             /\ r \notin At(m, {"observed"})
    BY <1>1 DEF At, Label, Types, l
<1>6. ASSUME NEW m \in ModuleName
      PROVE  /\ Driverless(m)' = IF m = l /\ ~finished[r] THEN Driverless(m) \cup {r}
                                 ELSE Driverless(m)
             /\ r \notin Driverless(m)
    BY <1>1 DEF Driverless, Tallied, Label, Types, l
<1>7. ASSUME NEW m \in ModuleName
      PROVE  /\ At(m, Within)' = At(m, Within)
             /\ \A u : Counted(m, u)' = Counted(m, u)
  <2>1. At(m, Within)' = At(m, Within)
    BY <1>1 DEF At, Within, Label, Types
  <2>2. \A u : Counted(m, u)' = Counted(m, u)
    BY <1>1 DEF Counted, Label, Types
  <2>3. QED
    BY <2>1, <2>2
<1>8. ASSUME NEW m \in ModuleName
      PROVE  /\ durations'[<<m, "elapsed">>] + durations'[<<m, "negative">>] =
                  probes'[<<m, "success">>] + probes'[<<m, "error">>]
                    + Cardinality(At(m, {"observed"})')
             /\ durations'[<<m, "negative">>] = Cardinality(Driverless(m)')
  <2> DEFINE e == durations[<<m, "elapsed">>]
             n == durations[<<m, "negative">>]
             o == Cardinality(At(m, {"observed"}))
  <2>1. /\ e \in Nat /\ n \in Nat
        /\ probes[<<m, "success">>] \in Nat /\ probes[<<m, "error">>] \in Nat
    BY DEF Counters
  <2>2. o \in Nat
    BY FiniteSets, SetsOfRequests
  <2>3. /\ e + n = probes[<<m, "success">>] + probes[<<m, "error">>] + o
        /\ n = Cardinality(Driverless(m))
    BY DEF Tallies
  <2>4. durations'[<<m, "elapsed">>] = IF m = l /\ sign = "elapsed" THEN e + 1 ELSE e
    BY <1>1 DEF Counters
  <2>5. durations'[<<m, "negative">>] = IF m = l /\ sign = "negative" THEN n + 1 ELSE n
    BY <1>1 DEF Counters
  <2>6. Cardinality(At(m, {"observed"}) \cup {r}) = o + 1
    BY <1>5, OneMore, SetsOfRequests
  <2>7. Cardinality(Driverless(m) \cup {r}) = Cardinality(Driverless(m)) + 1
    BY <1>6, OneMore, SetsOfRequests
  <2> HIDE DEF e, n, o
  <2>8. durations'[<<m, "negative">>] = Cardinality(Driverless(m)')
    BY <1>3, <1>6, <2>3, <2>5, <2>7
  <2>9. Cardinality(At(m, {"observed"})') = IF m = l THEN o + 1 ELSE o
    BY <1>5, <2>6 DEF o
  <2>10. QED
    BY <1>1, <1>3, <2>1, <2>2, <2>3, <2>4, <2>5, <2>8, <2>9
<1>9. QED
  BY <1>1, <1>4, <1>7, <1>8 DEF Tallies

LEMMA CountTallies ==
  ASSUME Types, Counters, Each, Tallies, NEW r \in Request, Count(r)
  PROVE  Counters' /\ Tallies'
<1> DEFINE l == Label(r)
           outcome == Outcome(up[r], finished[r])
<1>1. /\ probes' = [probes EXCEPT ![<<l, outcome>>] = @ + 1]
      /\ inflight' = inflight /\ durations' = durations
      /\ pc[r] = "observed" /\ pc' = [pc EXCEPT ![r] = "counted"]
      /\ ask' = ask /\ taken' = taken /\ up' = up /\ finished' = finished /\ code' = code
      /\ ask[r].kind = "probe"
  BY DEF Count, Goto, handler, Each, Placed
<1>2. l \in ModuleName
  BY <1>1 DEF Each, Accepted, Within
<1>3. /\ outcome \in {"success", "error"}
      /\ outcome = "success" <=> up[r] = 1
      /\ up[r] \in {0, 1}
  BY DEF Outcome, Each, Finishes, Types
<1> HIDE DEF l, outcome
<1>4. Counters'
  <2>1. <<l, outcome>> \in ModuleName \X {"success", "error"}
    BY <1>2, <1>3
  <2>2. probes' \in [ModuleName \X {"success", "error"} -> Nat]
    BY <1>1, <2>1 DEF Counters
  <2>3. QED
    BY <1>1, <2>2 DEF Counters
<1>5. ASSUME NEW m \in ModuleName
      PROVE  /\ At(m, {"observed"})' =
                  IF m = l THEN At(m, {"observed"}) \ {r} ELSE At(m, {"observed"})
             /\ m = l => r \in At(m, {"observed"})
    BY <1>1 DEF At, Label, Types, l
<1>6. ASSUME NEW m \in ModuleName, NEW u \in {0, 1}
      PROVE  /\ Counted(m, u)' = IF m = l /\ u = up[r] THEN Counted(m, u) \cup {r}
                                 ELSE Counted(m, u)
             /\ r \notin Counted(m, u)
    BY <1>1 DEF Counted, Label, Types, l
<1>7. ASSUME NEW m \in ModuleName
      PROVE  At(m, Within)' = At(m, Within) /\ Driverless(m)' = Driverless(m)
  <2>1. At(m, Within)' = At(m, Within)
    BY <1>1 DEF At, Within, Label, Types
  <2>2. Driverless(m)' = Driverless(m)
    BY <1>1 DEF Driverless, Tallied, Label, Types
  <2>3. QED
    BY <2>1, <2>2
<1>8. ASSUME NEW m \in ModuleName
      PROVE  /\ probes'[<<m, "success">>] = Cardinality(Counted(m, 1)')
             /\ probes'[<<m, "error">>] = Cardinality(Counted(m, 0)')
             /\ probes'[<<m, "success">>] + probes'[<<m, "error">>]
                    + Cardinality(At(m, {"observed"})') =
                  durations[<<m, "elapsed">>] + durations[<<m, "negative">>]
  <2> DEFINE s == probes[<<m, "success">>]
             e == probes[<<m, "error">>]
             o == Cardinality(At(m, {"observed"}))
  <2>1. s \in Nat /\ e \in Nat
    BY DEF Counters
  <2>2. o \in Nat
    BY FiniteSets, SetsOfRequests
  <2>3. /\ durations[<<m, "elapsed">>] + durations[<<m, "negative">>] = s + e + o
        /\ s = Cardinality(Counted(m, 1)) /\ e = Cardinality(Counted(m, 0))
    BY DEF Tallies
  <2>4. probes'[<<m, "success">>] = IF m = l /\ outcome = "success" THEN s + 1 ELSE s
    BY <1>1 DEF Counters
  <2>5. probes'[<<m, "error">>] = IF m = l /\ outcome = "error" THEN e + 1 ELSE e
    BY <1>1 DEF Counters
  <2>6. \A u \in {0, 1} : Cardinality(Counted(m, u) \cup {r}) = Cardinality(Counted(m, u)) + 1
    BY <1>6, OneMore, SetsOfRequests
  <2>7. m = l => Cardinality(At(m, {"observed"}) \ {r}) = o - 1
    BY <1>5, OneLess, SetsOfRequests
  <2> HIDE DEF s, e, o
  <2>8. Cardinality(At(m, {"observed"})') = IF m = l THEN o - 1 ELSE o
    BY <1>5, <2>7 DEF o
  <2>9. probes'[<<m, "success">>] = Cardinality(Counted(m, 1)')
    BY <1>3, <1>6, <2>3, <2>4, <2>6
  <2>10. probes'[<<m, "error">>] = Cardinality(Counted(m, 0)')
    BY <1>3, <1>6, <2>3, <2>5, <2>6
  <2>11. QED
    BY <1>3, <2>1, <2>2, <2>3, <2>4, <2>5, <2>8, <2>9, <2>10
<1>9. QED
  BY <1>1, <1>4, <1>7, <1>8 DEF Tallies

-----------------------------------------------------------------------------
(* The theorems.                                                           *)

LEMMA InvInit == Init => IInv
<1> SUFFICES ASSUME Init PROVE IInv
  OBVIOUS
<1>1. Types
  BY ConfigAssumption, AskAssumption DEF Init, Types, Places, Zero, Number
<1>2. Counters
  BY DEF Init, Counters
<1>3. Each
  BY DEF Init, Each, Placed, Accepted, Finishes, Within
<1>4. QueriesBounded
  BY DEF Init, QueriesBounded
<1>5. ASSUME NEW m \in ModuleName
      PROVE  /\ At(m, Within) = {} /\ At(m, {"observed"}) = {}
             /\ Counted(m, 0) = {} /\ Counted(m, 1) = {} /\ Driverless(m) = {}
  BY DEF Init, At, Counted, Driverless, Tallied, Within
<1>6. Cardinality({}) = 0
  BY FS_EmptySet
<1>7. Tallies
  <2>1. ASSUME NEW m \in ModuleName
        PROVE  /\ inflight[m] = 0
               /\ probes[<<m, "success">>] = 0 /\ probes[<<m, "error">>] = 0
               /\ durations[<<m, "elapsed">>] = 0 /\ durations[<<m, "negative">>] = 0
    BY DEF Init
  <2>2. ASSUME NEW m \in ModuleName
        PROVE  /\ Cardinality(At(m, Within)) = 0 /\ Cardinality(At(m, {"observed"})) = 0
               /\ Cardinality(Counted(m, 0)) = 0 /\ Cardinality(Counted(m, 1)) = 0
               /\ Cardinality(Driverless(m)) = 0
    BY <1>5, <1>6
  <2>3. ASSUME NEW m \in ModuleName
        PROVE  /\ durations[<<m, "elapsed">>] + durations[<<m, "negative">>] = 0
               /\ probes[<<m, "success">>] + probes[<<m, "error">>]
                    + Cardinality(At(m, {"observed"})) = 0
    BY <2>1, <2>2
  <2>4. QED
    BY <2>1, <2>2, <2>3, Zenon DEF Tallies
<1>8. QED
  BY <1>1, <1>2, <1>3, <1>4, <1>7, TypesAndCounters DEF IInv

LEMMA InvStep == IInv /\ [Next]_vars => IInv'
<1> SUFFICES ASSUME IInv, [Next]_vars PROVE IInv'
  OBVIOUS
<1>1. Types /\ Counters /\ Each /\ QueriesBounded /\ Tallies
  BY TypesAndCounters DEF IInv
<1>2. ASSUME NEW r \in Request, Step(r) \/ Arrive(r) \/ CloseReturns(r)
      PROVE  IInv'
  <2>1. Types' /\ Each' /\ QueriesBounded'
    BY <1>1, <1>2, TypesStep, EachStep, BoundsStep
  <2>2. Counters' /\ Tallies'
    <3>1. CASE StartProbe(r)
      BY <1>1, <3>1, StartProbeTallies
    <3>2. CASE Observe(r)
      BY <1>1, <3>2, ObserveTallies
    <3>3. CASE Count(r)
      BY <1>1, <3>3, CountTallies
    <3>4. CASE Respond(r)
      BY <1>1, <3>4, RespondTallies
    <3>5. CASE ~(StartProbe(r) \/ Observe(r) \/ Count(r) \/ Respond(r))
      <4>1. (\A q \in Request : Steady(q)) /\ UNCHANGED metrics
        BY <1>1, <1>2, <3>5, SteadyStep DEF Step
      <4>2. QED
        BY <1>1, <4>1, SteadyTallies DEF Counters, metrics
    <3>6. QED
      BY <3>1, <3>2, <3>3, <3>4, <3>5
  <2>3. TypeOK'
    BY <2>1, <2>2 DEF TypeOK, Types, Counters
  <2>4. QED
    BY <2>1, <2>2, <2>3 DEF IInv
<1>3. CASE UNCHANGED vars
  <2>1. /\ Types' /\ Counters' /\ Each' /\ QueriesBounded'
    BY <1>1, <1>3 DEF Types, Counters, Each, Placed, Accepted, Finishes, Label, QueriesBounded,
                      vars, metrics
  <2>2. \A q \in Request : Steady(q)
    BY <1>3 DEF Steady, Tallied, Label, vars
  <2>3. Tallies'
    BY <1>1, <1>3, <2>2, SteadyTallies DEF vars, metrics
  <2>4. TypeOK'
    BY <2>1 DEF TypeOK, Types, Counters
  <2>5. QED
    BY <2>1, <2>3, <2>4 DEF IInv
<1>4. QED
  BY <1>2, <1>3 DEF Next, Done

\* Every state of the HTTP side satisfies the inductive invariant.
THEOREM Inductive == Spec => []IInv
<1>1. QED
  BY InvInit, InvStep, PTL DEF Spec

\* The types of the HTTP side, its counters never negative.
THEOREM RequestsTypeCorrect == Spec => []TypeOK
<1>1. IInv => TypeOK
  BY DEF IInv
<1>2. QED
  BY <1>1, Inductive, PTL

\* The gauge of probes in flight counts those that run, and never drifts.
THEOREM GaugeExact == Spec => []InflightExact
<1>1. IInv => InflightExact
  BY DEF IInv, Tallies, InflightExact
<1>2. QED
  BY <1>1, Inductive, PTL

\* Every run is counted once, as a success exactly when its page says neo4j_up 1; the
\* histogram and its negative durations agree with the counters.
THEOREM CountersAddUp == Spec => []RunsCounted
<1>1. IInv => RunsCounted
  <2> SUFFICES ASSUME IInv, NEW m \in ModuleName
               PROVE  /\ probes[<<m, "success">>] = Cardinality(Counted(m, 1))
                      /\ probes[<<m, "error">>] = Cardinality(Counted(m, 0))
                      /\ durations[<<m, "elapsed">>] + durations[<<m, "negative">>] =
                           probes[<<m, "success">>] + probes[<<m, "error">>]
                             + Cardinality(At(m, {"observed"}))
                      /\ durations[<<m, "negative">>] <=
                           probes[<<m, "error">>] + Cardinality(At(m, {"observed"}))
    BY DEF RunsCounted
  <2> DEFINE C == Counted(m, 0)
             O == At(m, {"observed"})
  <2>1. Types /\ Counters /\ Each /\ Tallies
    BY TypesAndCounters DEF IInv
  <2>2. Driverless(m) \subseteq C \cup O
    BY <2>1 DEF Driverless, Tallied, Counted, At, Each, Finishes, Types
  <2>3. IsFiniteSet(C) /\ IsFiniteSet(O) /\ IsFiniteSet(C \cap O) /\ IsFiniteSet(C \cup O)
    <3>1. C \in SUBSET Request /\ O \in SUBSET Request
      BY SetsOfRequests
    <3>2. QED
      BY <3>1, FiniteSets
  <2>4. Cardinality(Driverless(m)) <= Cardinality(C \cup O)
    BY <2>2, <2>3, FS_Subset
  <2>5. Cardinality(C \cup O) = Cardinality(C) + Cardinality(O) - Cardinality(C \cap O)
    BY <2>3, FS_Union
  <2>6. /\ Cardinality(C) \in Nat /\ Cardinality(O) \in Nat
        /\ Cardinality(C \cap O) \in Nat /\ Cardinality(C \cup O) \in Nat
        /\ Cardinality(Driverless(m)) \in Nat
    BY <2>3, FS_CardinalityType, FiniteSets, SetsOfRequests
  <2> HIDE DEF C, O
  <2>7. Cardinality(Driverless(m)) <= Cardinality(C) + Cardinality(O)
    BY <2>4, <2>5, <2>6
  <2>8. QED
    BY <2>1, <2>7 DEF Tallies, C, O
<1>2. QED
  BY <1>1, Inductive, PTL

\* No query for slow transactions is out of bounds, whatever is asked for and configured.
THEOREM SlowQueriesBounded == Spec => []QueriesBounded
<1>1. IInv => QueriesBounded
  BY DEF IInv
<1>2. QED
  BY <1>1, Inductive, PTL

=============================================================================

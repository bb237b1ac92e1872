------------------------- MODULE OrchestratorProofs -------------------------
(***************************************************************************)
(* Theorems about Orchestrator, for any set of collectors, any number of   *)
(* calls and connections, and any modules and timeouts.                    *)
(***************************************************************************)
EXTENDS Orchestrator, FiniteSetTheorems, TLAPS

CollectorStep(c) ==
  \/ StartCall(c) \/ Answered(c) \/ Succeed(c) \/ CallFails(c)
  \/ GiveUp(c) \/ RecordError(c)

\* The context of the probe expires within both timeouts, every other context no
\* later than it, and the clock has not passed it: time does not pass while a
\* goroutine has outlived its context or has something to do at once.
TimeInv ==
  /\ budget <= module.timeout
  /\ header > Headroom => budget <= header - Headroom
  /\ now <= budget
  /\ \A x \in Collector \cup {Run} : until[x] <= budget

\* The flag is up exactly if bolt has succeeded, and Run reads it at the end.
UpInv ==
  /\ mark = "up" <=> success[Bolt] = "1"
  /\ stage = "finished" => up = Up

\* Who records an error has failed.  A map without an entry has somebody who is about to
\* make one, and without a map nobody has got that far.
RecordInv ==
  /\ errors.names \subseteq Failed
  /\ \A c \in Collector : step[c] \in Recording => c \in Failed
  /\ errors.map # 0 /\ errors.names = {} =>
       \E c \in Collector : step[c] = "mapped" \/ c \in Writers
  /\ errors.map = 0 => \A c \in Failed : step[c] \in {"failed", "nomap"}
  /\ stage = "crashed" => \E c, d \in Failed : c # d

\* What a collector has reported at each of its steps.
ReportInv ==
  /\ stage \in {"starting", "probing"} =>
       \A c \in Collector : step[c] = "off" /\ success[c] = "none"
  /\ stage \in {"collecting", "finished"} =>
       \A c \in Collector :
         /\ step[c] = "off" <=> c \notin Selected(caps)
         /\ success[c] = "none" <=> step[c] \in {"off"} \cup Calling
  /\ stage = "finished" => AllDone

-----------------------------------------------------------------------------
(* Timeouts.                                                               *)

LEMMA ModuleTypes ==
  ASSUME NEW m \in Module
  PROVE  m.timeout \in 1 .. MaxTime /\ m.per \in [Collector -> Nat]
  BY ModuleAssumption

LEMMA ProbeTimeoutBounds ==
  ASSUME NEW m \in Module, NEW h \in Header
  PROVE  /\ ProbeTimeout(m, h) \in 0 .. MaxTime
         /\ ProbeTimeout(m, h) <= m.timeout
         /\ h > Headroom => ProbeTimeout(m, h) <= h - Headroom
  BY ModuleTypes, BoundAssumption DEF ProbeTimeout

\* A derived context expires no later than the request's.
LEMMA DerivedBounds ==
  ASSUME budget \in 0 .. MaxTime, now \in 0 .. MaxTime, NEW t \in Nat
  PROVE  Derived(t) \in 0 .. MaxTime /\ Derived(t) <= budget
  BY BoundAssumption DEF Derived, Lesser

LEMMA TimeoutOfType ==
  ASSUME module \in Module, NEW c \in Collector
  PROVE  TimeoutOf(c) \in Nat
  BY ModuleTypes, BoundAssumption DEF TimeoutOf, Lesser

-----------------------------------------------------------------------------
LEMMA InitInv == Init => TypeOK /\ TimeInv /\ UpInv /\ ReportInv
<1> SUFFICES ASSUME Init PROVE TypeOK /\ TimeInv /\ UpInv /\ ReportInv
  OBVIOUS
<1>1. /\ budget \in 0 .. MaxTime
      /\ budget <= module.timeout
      /\ header > Headroom => budget <= header - Headroom
  BY ProbeTimeoutBounds DEF Init
<1>2. TypeOK
  <2>1. gone \in BOOLEAN /\ boltFault \in BOOLEAN
    BY DEF Init
  <2> QED
    BY <1>1, <2>1, BoundAssumption DEF Init, TypeOK
<1>3. TimeInv
  BY <1>1, BoundAssumption DEF Init, TimeInv
<1>4. UpInv /\ ReportInv
  BY CollectorAssumption DEF Init, UpInv, ReportInv
<1> QED
  BY <1>2, <1>3, <1>4

-----------------------------------------------------------------------------
(* The steps of Run.                                                       *)

LEMMA GetEntryInv ==
  ASSUME TypeOK, TimeInv, UpInv, ReportInv, GetEntry \/ DriverFails
  PROVE  TypeOK' /\ TimeInv' /\ UpInv' /\ ReportInv'
<1>1. CASE GetEntry
  <2>1. Derived(CapTimeout) \in 0 .. MaxTime /\ Derived(CapTimeout) <= budget
    BY DerivedBounds, BoundAssumption DEF TypeOK
  <2>2. TypeOK' /\ TimeInv'
    BY <1>1, <2>1 DEF GetEntry, TypeOK, TimeInv, givenVars
  <2>3. UpInv' /\ ReportInv'
    BY <1>1 DEF GetEntry, UpInv, Up, ReportInv
  <2> QED
    BY <2>2, <2>3
<1>2. CASE DriverFails
  BY <1>2 DEF DriverFails, TypeOK, TimeInv, UpInv, ReportInv, Final, givenVars,
      goroutineVars
<1> QED
  BY <1>1, <1>2

LEMMA StartCollectorsInv ==
  ASSUME TypeOK, TimeInv, UpInv, ReportInv,
         NEW found \in SUBSET Apoc, StartCollectors(found)
  PROVE  TypeOK' /\ TimeInv' /\ UpInv' /\ ReportInv'
<1> USE DEF StartCollectors, givenVars
<1>1. ASSUME NEW c \in Collector
      PROVE  Derived(TimeoutOf(c)) \in 0 .. MaxTime /\ Derived(TimeoutOf(c)) <= budget
  BY DerivedBounds, TimeoutOfType DEF TypeOK
<1>2. Selected(found) \subseteq Collector
  BY DEF Selected
<1>3. /\ until' \in [Collector \cup {Run} -> 0 .. MaxTime]
      /\ \A x \in Collector \cup {Run} : until'[x] <= budget
  BY <1>1, <1>2, BoundAssumption DEF TypeOK
<1>4. left' \in [Collector -> Nat]
  BY CollectorAssumption DEF RoundsOf
<1>5. boltFault' \in BOOLEAN
  OBVIOUS
<1>6. TypeOK'
  BY <1>3, <1>4, <1>5 DEF TypeOK, Calling
<1>7. TimeInv'
  BY <1>3 DEF TimeInv
<1>8. UpInv'
  BY DEF UpInv
<1>9. ReportInv'
  BY DEF ReportInv, Selected, Calling
<1> QED
  BY <1>6, <1>7, <1>8, <1>9

LEMMA FinishInv ==
  ASSUME TypeOK, TimeInv, UpInv, ReportInv, Finish
  PROVE  TypeOK' /\ TimeInv' /\ UpInv' /\ ReportInv'
<1>1. TypeOK'
  BY DEF Finish, TypeOK, Final, Up, givenVars, goroutineVars
<1>2. TimeInv'
  BY DEF Finish, TimeInv, givenVars, goroutineVars
<1>3. UpInv'
  BY DEF Finish, UpInv, Up, goroutineVars
<1>4. ReportInv'
  BY DEF Finish, ReportInv, AllDone, Selected, givenVars, goroutineVars
<1> QED
  BY <1>1, <1>2, <1>3, <1>4

-----------------------------------------------------------------------------
(* The steps of a collector.                                               *)

\* They leave the request, the clock, the contexts and up alone.
LEMMA CollectorFrame ==
  ASSUME NEW c \in Collector, CollectorStep(c)
  PROVE  /\ stage = "collecting" /\ stage' \in {"collecting", "crashed"}
         /\ UNCHANGED <<givenVars, now, gone, caps, until, up>>
<1> USE DEF Running, goroutineVars
<1>1. CASE StartCall(c) \/ Answered(c) \/ Succeed(c)
  BY <1>1 DEF StartCall, Answered, Succeed
<1>2. CASE CallFails(c) \/ GiveUp(c)
  BY <1>2 DEF CallFails, GiveUp, NoClient, CallExpires, AcquireExpires, Fail
<1>3. CASE RecordError(c)
  BY <1>3
  DEF RecordError, CheckMap, MakeMap, BeginInsert, ConcurrentWrites, EndInsert
<1> QED
  BY <1>1, <1>2, <1>3 DEF CollectorStep

\* A failure, whichever its cause.
LEMMA FailInv ==
  ASSUME TypeOK, UpInv, ReportInv, NEW c \in Collector, NEW itsOwn \in BOOLEAN,
         Running(c), Fail(c, itsOwn)
  PROVE  TypeOK' /\ UpInv' /\ ReportInv'
<1>1. boltFault' \in BOOLEAN
  BY DEF Fail, TypeOK
<1>2. TypeOK'
  BY <1>1, CollectorAssumption DEF Fail, TypeOK, Recording, givenVars
<1>3. UpInv'
  BY CollectorAssumption DEF Fail, Running, TypeOK, UpInv
<1>4. ReportInv'
  BY DEF Fail, Running, TypeOK, ReportInv, Selected, Calling, givenVars
<1> QED
  BY <1>2, <1>3, <1>4

LEMMA CollectInv ==
  ASSUME TypeOK, UpInv, ReportInv, NEW c \in Collector,
         StartCall(c) \/ Answered(c) \/ Succeed(c) \/ CallFails(c) \/ GiveUp(c)
  PROVE  TypeOK' /\ UpInv' /\ ReportInv'
<1>1. CASE StartCall(c)
  <2>1. TypeOK' /\ UpInv'
    BY <1>1 DEF StartCall, Running, TypeOK, Calling, UpInv, givenVars
  <2>2. ReportInv'
    BY <1>1 DEF StartCall, Running, TypeOK, ReportInv, Selected, Calling, givenVars
  <2> QED
    BY <2>1, <2>2
<1>2. CASE Answered(c)
  <2>1. TypeOK' /\ UpInv'
    BY <1>2 DEF Answered, Running, TypeOK, Calling, UpInv, givenVars
  <2>2. ReportInv'
    BY <1>2 DEF Answered, Running, TypeOK, ReportInv, Selected, Calling, givenVars
  <2> QED
    BY <2>1, <2>2
<1>3. CASE Succeed(c)
  <2>1. TypeOK'
    BY <1>3 DEF Succeed, TypeOK, givenVars
  <2>2. UpInv'
    BY <1>3, CollectorAssumption DEF Succeed, Running, TypeOK, UpInv
  <2>3. ReportInv'
    BY <1>3 DEF Succeed, Running, TypeOK, ReportInv, Selected, Calling, givenVars
  <2> QED
    BY <2>1, <2>2, <2>3
<1>4. CASE CallFails(c)
  BY <1>4, FailInv DEF CallFails
<1>5. CASE GiveUp(c)
  <2>1. Running(c) /\ \E own \in BOOLEAN : Fail(c, own)
    BY <1>5 DEF GiveUp, NoClient, CallExpires, AcquireExpires
  <2> QED
    BY <2>1, FailInv
<1> QED
  BY <1>1, <1>2, <1>3, <1>4, <1>5

LEMMA RecordErrorInv ==
  ASSUME TypeOK, UpInv, ReportInv, NEW c \in Collector, RecordError(c)
  PROVE  TypeOK' /\ UpInv' /\ ReportInv'
<1>1. TypeOK'
  <2>1. CASE CheckMap(c)
    BY <2>1 DEF CheckMap, AfterCheck, TypeOK, Recording, givenVars
  <2>2. CASE MakeMap(c)
    BY <2>2 DEF MakeMap, TypeOK, Recording, givenVars
  <2>3. CASE BeginInsert(c)
    BY <2>3 DEF BeginInsert, TypeOK, Recording, givenVars
  <2>4. CASE ConcurrentWrites(c)
    BY <2>4 DEF ConcurrentWrites, TypeOK, Final, givenVars, goroutineVars
  <2>5. CASE EndInsert(c)
    <3>1. errors' \in [map : Nat, names : SUBSET Collector]
      BY <2>5 DEF EndInsert, TypeOK
    <3> QED
      BY <2>5, <3>1 DEF EndInsert, TypeOK, givenVars
  <2> QED
    BY <2>1, <2>2, <2>3, <2>4, <2>5 DEF RecordError
<1>2. UpInv'
  BY CollectorFrame
  DEF CollectorStep, RecordError, CheckMap, MakeMap, BeginInsert, ConcurrentWrites,
      EndInsert, UpInv, goroutineVars
<1>3. ReportInv'
  <2>1. CASE ConcurrentWrites(c)
    BY <2>1 DEF ConcurrentWrites, ReportInv
  <2>2. CASE CheckMap(c) \/ MakeMap(c) \/ BeginInsert(c) \/ EndInsert(c)
    BY <2>2
    DEF CheckMap, AfterCheck, MakeMap, BeginInsert, EndInsert, TypeOK, ReportInv, Selected,
        Calling, givenVars
  <2> QED
    BY <2>1, <2>2 DEF RecordError
<1> QED
  BY <1>1, <1>2, <1>3

LEMMA CollectorStepInv ==
  ASSUME TypeOK, TimeInv, UpInv, ReportInv, NEW c \in Collector, CollectorStep(c)
  PROVE  TypeOK' /\ TimeInv' /\ UpInv' /\ ReportInv'
<1>1. TimeInv'
  BY CollectorFrame DEF TimeInv, givenVars
<1> QED
  BY <1>1, CollectInv, RecordErrorInv DEF CollectorStep

-----------------------------------------------------------------------------
(* The environment's steps.                                                *)

\* When time passes, Run or some collector is in a call whose context has not
\* expired, so that the probe's context has not expired either.
LEMMA TickInv ==
  ASSUME TypeOK, TimeInv, ReportInv, Tick
  PROVE  now' <= budget
<1>1. now \in Nat /\ now' = now + 1 /\ budget \in Nat
  BY BoundAssumption DEF Tick, TypeOK
<1>2. CASE stage = "probing"
  <2>1. now < until[Run]
    BY <1>2, BoundAssumption DEF Tick, Urgent, Expired, TypeOK
  <2> QED
    BY <1>1, <2>1, BoundAssumption DEF TimeInv, TypeOK
<1>3. CASE stage = "collecting"
  <2>1. PICK c \in Collector : step[c] \in Calling /\ ~Expired(c)
    BY <1>3 DEF Tick, Urgent, AllDone, TypeOK
  <2>2. now < until[c]
    BY <2>1, BoundAssumption DEF Expired, TypeOK
  <2> QED
    BY <1>1, <2>2, BoundAssumption DEF TimeInv, TypeOK
<1>4. stage \in {"probing", "collecting"}
  BY DEF Tick, Urgent, TypeOK
<1> QED
  BY <1>2, <1>3, <1>4

LEMMA EnvironmentInv ==
  ASSUME TypeOK, TimeInv, UpInv, ReportInv, ClientGone \/ OthersTake \/ Tick \/ Ended \/ UNCHANGED vars
  PROVE  TypeOK' /\ TimeInv' /\ UpInv' /\ ReportInv'
<1> USE DEF givenVars, goroutineVars
<1>1. CASE ClientGone
  <2>1. gone' \in BOOLEAN
    BY <1>1 DEF ClientGone
  <2>2. TypeOK'
    BY <1>1, <2>1 DEF ClientGone, TypeOK
  <2>3. TimeInv' /\ UpInv' /\ ReportInv'
    BY <1>1 DEF ClientGone, TimeInv, UpInv, Up, ReportInv, AllDone, Selected
  <2> QED
    BY <2>2, <2>3
<1>2. CASE Tick
  <2>1. TypeOK'
    BY <1>2, BoundAssumption DEF Tick, TypeOK
  <2>2. TimeInv'
    BY <1>2, TickInv DEF Tick, TimeInv
  <2>3. UpInv' /\ ReportInv'
    BY <1>2 DEF Tick, UpInv, Up, ReportInv, AllDone, Selected
  <2> QED
    BY <2>1, <2>2, <2>3
<1>3. CASE Ended \/ UNCHANGED vars
  BY <1>3 DEF Ended, vars, TypeOK, TimeInv, UpInv, Up, ReportInv, AllDone, Selected
<1>4. CASE OthersTake
  <2>1. others' \in 0 .. Others
    BY <1>4, BoundAssumption DEF OthersTake, TypeOK
  <2>2. TypeOK'
    BY <1>4, <2>1 DEF OthersTake, TypeOK
  <2>3. TimeInv' /\ UpInv' /\ ReportInv'
    BY <1>4 DEF OthersTake, TimeInv, UpInv, Up, ReportInv, AllDone, Selected
  <2> QED
    BY <2>2, <2>3
<1> QED
  BY <1>1, <1>2, <1>3, <1>4

LEMMA NextInv ==
  TypeOK /\ TimeInv /\ UpInv /\ ReportInv /\ [Next]_vars
    => (TypeOK /\ TimeInv /\ UpInv /\ ReportInv)'
  BY GetEntryInv, StartCollectorsInv, FinishInv, CollectorStepInv, EnvironmentInv
  DEF Next, CollectorStep

LEMMA InvHolds == Spec => [](TypeOK /\ TimeInv /\ UpInv /\ ReportInv)
  BY InitInv, NextInv, PTL DEF Spec

-----------------------------------------------------------------------------
\* Every reachable state is well typed.
THEOREM ProbeTypeCorrect == Spec => []TypeOK
  BY InvHolds, PTL

\* A finished probe has kept within its module's timeout and, with the headroom,
\* within Prometheus' (handler.go:92-109), whatever the per-collector timeouts.
THEOREM ProbesEndInTime == Spec => []WithinTimeout
<1>1. TypeOK /\ TimeInv => WithinTimeout
  <2> SUFFICES ASSUME TypeOK, TimeInv PROVE WithinTimeout
    OBVIOUS
  <2>1. /\ now \in Nat /\ budget \in Nat
        /\ module.timeout \in Nat /\ header \in Nat /\ Headroom \in Nat
    BY ModuleTypes, BoundAssumption DEF TypeOK
  <2> QED
    BY <2>1 DEF TimeInv, WithinTimeout
<1> QED
  BY InvHolds, <1>1, PTL

\* up follows the bolt collector and nobody else (collector.go:43-75).
THEOREM UpFollowsBolt == Spec => []UpIffBoltSucceeded
<1>1. UpInv => UpIffBoltSucceeded
  BY DEF UpInv, Up, UpIffBoltSucceeded
<1> QED
  BY InvHolds, <1>1, PTL

\* When Run returns, every selected collector has reported and none is at work
\* (orchestrator.go:89-118).
THEOREM EveryoneReported == Spec => []AllReported
<1>1. ReportInv => AllReported
  BY DEF ReportInv, AllDone, AllReported, Calling
<1> QED
  BY InvHolds, <1>1, PTL

-----------------------------------------------------------------------------
(* What is left in ProbeResult.Errors.                                     *)

LEMMA RecordInit == Init => RecordInv
  BY DEF Init, RecordInv, Failed, Recording

\* Every step but those of a collector leaves what is recorded alone.
LEMMA RecordOther ==
  ASSUME TypeOK, ReportInv, RecordInv,
         \/ GetEntry \/ DriverFails \/ Finish \/ ClientGone \/ OthersTake \/ Tick \/ Ended
         \/ UNCHANGED vars
         \/ \E found \in SUBSET Apoc : StartCollectors(found)
  PROVE  RecordInv'
<1>1. UNCHANGED <<success, errors, inserting>>
  BY DEF GetEntry, DriverFails, Finish, ClientGone, OthersTake, Tick, Ended, StartCollectors, vars,
         givenVars, goroutineVars
<1>2. stage' # "crashed" \/ stage' = stage
  BY DEF GetEntry, DriverFails, Finish, ClientGone, OthersTake, Tick, Ended, StartCollectors, vars
<1>3. CASE step' = step
  BY <1>1, <1>2, <1>3 DEF RecordInv, Failed, Writers
<1>4. CASE \E found \in SUBSET Apoc : StartCollectors(found)
  <2>1. stage = "probing" /\ \A c \in Collector : step'[c] \in {"waiting", "off"}
    BY <1>4 DEF StartCollectors
  <2>2. Failed = {} /\ \A c \in Collector : step[c] = "off"
    BY <2>1 DEF ReportInv, Failed
  <2>3. errors.names = {} /\ errors.map = 0
    BY <2>2 DEF RecordInv, Writers
  <2>4. Failed' = {}
    BY <1>1, <2>2 DEF Failed
  <2>5. stage' # "crashed"
    BY <1>4 DEF StartCollectors
  <2> QED
    BY <1>1, <2>1, <2>3, <2>4, <2>5 DEF RecordInv, Recording
<1> QED
  BY <1>3, <1>4
  DEF GetEntry, DriverFails, Finish, ClientGone, OthersTake, Tick, Ended, vars, goroutineVars

\* A collector that has not reported is not recorded, and nobody is waiting for it.
LEMMA RecordCollect ==
  ASSUME TypeOK, ReportInv, RecordInv, NEW c \in Collector,
         StartCall(c) \/ Answered(c) \/ Succeed(c) \/ CallFails(c) \/ GiveUp(c)
  PROVE  RecordInv'
<1> USE DEF givenVars
<1>1. /\ stage = "collecting" /\ stage' = stage /\ step[c] \in Calling
      /\ UNCHANGED <<errors, inserting>>
  BY DEF StartCall, Answered, Succeed, CallFails, GiveUp, NoClient, CallExpires,
         AcquireExpires, Fail, Running
<1>2. success[c] = "none" /\ c \notin Failed
  BY <1>1 DEF ReportInv, Failed
<1>3. /\ \A d \in Collector \ {c} : step'[d] = step[d] /\ success'[d] = success[d]
      /\ \/ step'[c] \in {"querying", "waiting", "done"} /\ success'[c] # "0"
         \/ step'[c] = "failed" /\ success'[c] = "0"
  <2> USE DEF TypeOK
  <2>1. CASE StartCall(c)
    BY <1>2, <2>1 DEF StartCall
  <2>2. CASE Answered(c)
    BY <1>2, <2>2 DEF Answered
  <2>3. CASE Succeed(c)
    BY <2>3 DEF Succeed
  <2>4. CASE CallFails(c) \/ GiveUp(c)
    BY <2>4 DEF CallFails, GiveUp, NoClient, CallExpires, AcquireExpires, Fail
  <2> QED
    BY <2>1, <2>2, <2>3, <2>4
<1>4. Failed' = IF success'[c] = "0" THEN Failed \cup {c} ELSE Failed
  BY <1>2, <1>3 DEF Failed
<1>5. Writers' = Writers
  BY <1>1, <1>3 DEF Writers, Calling
<1>6. \A d \in Collector : step'[d] \in Recording => d \in Failed'
  BY <1>3, <1>4 DEF RecordInv, Recording
<1>7. errors.map = 0 => \A d \in Failed' : step'[d] \in {"failed", "nomap"}
  BY <1>2, <1>3, <1>4 DEF RecordInv, Failed
<1>8. errors.map # 0 /\ errors.names = {} =>
        \E d \in Collector : step'[d] = "mapped" \/ d \in Writers'
  BY <1>1, <1>3, <1>5 DEF RecordInv, Calling
<1> QED
  BY <1>1, <1>4, <1>6, <1>7, <1>8 DEF RecordInv

\* recordError, step by step.
LEMMA RecordRecord ==
  ASSUME TypeOK, ReportInv, RecordInv, NEW c \in Collector, RecordError(c)
  PROVE  RecordInv'
<1> USE DEF givenVars, goroutineVars
<1>1. /\ stage = "collecting" /\ step[c] \in Recording /\ c \in Failed
      /\ success' = success /\ Failed' = Failed
  BY DEF RecordError, CheckMap, MakeMap, BeginInsert, ConcurrentWrites, EndInsert,
         RecordInv, Recording, Failed
<1>2. errors.map \in Nat
  BY DEF TypeOK
<1>3. CASE CheckMap(c)
  <2>1. /\ stage' = stage /\ UNCHANGED <<errors, inserting>>
        /\ step[c] = "failed"
        /\ \A d \in Collector : step'[d] = IF d = c THEN AfterCheck ELSE step[d]
    BY <1>3 DEF CheckMap, TypeOK
  <2>2. Writers' = Writers
    BY <2>1 DEF Writers, AfterCheck
  <2> QED
    BY <1>1, <2>1, <2>2 DEF RecordInv, AfterCheck, Recording, Failed
<1>4. CASE MakeMap(c)
  <2>1. /\ stage' = stage /\ step'[c] = "mapped"
        /\ errors'.map = errors.map + 1 /\ errors'.names = {}
        /\ \A d \in Collector : d # c => step'[d] = step[d]
    BY <1>4 DEF MakeMap, TypeOK
  <2>2. errors'.map # 0
    BY <1>2, <2>1
  <2> QED
    BY <1>1, <2>1, <2>2 DEF RecordInv
<1>5. CASE BeginInsert(c)
  <2>1. /\ stage' = stage /\ errors' = errors /\ step[c] = "mapped"
        /\ step'[c] = "inserting" /\ inserting'[c] = errors.map
        /\ \A d \in Collector : d # c => step'[d] = step[d] /\ inserting'[d] = inserting[d]
    BY <1>5 DEF BeginInsert, TypeOK
  <2>2. c \in Writers'
    BY <2>1 DEF Writers
  <2>3. errors.map # 0
    BY <1>1, <2>1 DEF RecordInv
  <2> QED
    BY <1>1, <2>1, <2>2, <2>3 DEF RecordInv, Recording
<1>6. CASE ConcurrentWrites(c)
  <2>1. step[c] = "mapped" /\ UNCHANGED <<step, errors, inserting>> /\ Writers' = Writers
    BY <1>6 DEF ConcurrentWrites, Writers
  <2>2. PICK d \in Writers : TRUE
    BY <1>6 DEF ConcurrentWrites
  <2>3. d \in Collector /\ step[d] = "inserting"
    BY DEF Writers
  <2>4. d \in Failed /\ d # c
    BY <2>1, <2>3 DEF RecordInv, Recording
  <2> QED
    BY <1>1, <2>1, <2>4 DEF RecordInv
<1>7. CASE EndInsert(c)
  <2>1. /\ stage' = stage /\ step[c] = "inserting" /\ step'[c] = "done"
        /\ \A d \in Collector : d # c => step'[d] = step[d] /\ inserting'[d] = inserting[d]
        /\ errors'.map = errors.map
        /\ \/ errors'.names = errors.names \cup {c}
           \/ errors'.names = errors.names /\ (c \notin Writers \/ Writers # {c})
    BY <1>7 DEF EndInsert, TypeOK
  <2>2. errors.map # 0
    BY <1>1, <2>1 DEF RecordInv
  <2>3. ASSUME errors'.names = {}
        PROVE  \E d \in Collector : step'[d] = "mapped" \/ d \in Writers'
    <3>1. errors.names = {} /\ (c \notin Writers \/ Writers # {c})
      BY <2>1, <2>3
    <3>2. PICK d \in Collector : d # c /\ (step[d] = "mapped" \/ d \in Writers)
      BY <2>1, <2>2, <3>1 DEF RecordInv, Writers
    <3> QED
      BY <2>1, <3>2 DEF Writers
  <2> QED
    BY <1>1, <2>1, <2>2, <2>3 DEF RecordInv, Recording
<1> QED
  BY <1>3, <1>4, <1>5, <1>6, <1>7 DEF RecordError

LEMMA RecordStep == TypeOK /\ ReportInv /\ RecordInv /\ [Next]_vars => RecordInv'
  BY RecordOther, RecordCollect, RecordRecord DEF Next

\* Races in recordError may lose entries and end the process, but never all entries: the
\* handler is told of a failure exactly if there was one (orchestrator.go:175-180,
\* handler.go:145).
THEOREM FailuresAreNoticed == Spec => []SomeFailureRecorded
<1>1. TypeOK /\ ReportInv /\ RecordInv => SomeFailureRecorded
  <2> SUFFICES ASSUME TypeOK, ReportInv, RecordInv PROVE SomeFailureRecorded
    OBVIOUS
  <2>1. ASSUME stage = "finished", errors.names = {} PROVE Failed = {}
    <3>1. \A c \in Collector : step[c] \in {"off", "done"}
      BY <2>1 DEF ReportInv, AllDone
    <3>2. errors.map = 0
      BY <2>1, <3>1 DEF RecordInv, Writers
    <3> QED
      BY <3>1, <3>2 DEF RecordInv, Failed
  <2> QED
    BY <2>1 DEF RecordInv, SomeFailureRecorded
<1> QED
  BY RecordInit, RecordStep, InvHolds, <1>1, PTL DEF Spec

-----------------------------------------------------------------------------
(* What up depends on if nobody has to wait for a connection.              *)

\* The pool has a connection for each collector that uses Bolt and for whatever the
\* other requests of the entry may hold at once.  The default is 4 connections
\* (config.go:174-176): with the default set of collectors one probe alone wants more.
EnoughConnections == Cardinality(Collector \ {Jolokia}) + Others <= Connections

\* bolt fails only by a fault of its own, and never while it waits for its turn.
BoltInv ==
  /\ success[Bolt] = "0" => boltFault
  /\ stage = "collecting" /\ step[Bolt] = "waiting" /\ ~boltFault => now < until[Bolt]

\* While bolt waits there is a connection for it.
LEMMA ConnectionLeft ==
  ASSUME EnoughConnections, others \in 0 .. Others, step[Bolt] = "waiting"
  PROVE  ConnectionFree
<1> DEFINE Users == Collector \ {Jolokia}
<1>1. IsFiniteSet(Users) /\ Bolt \in Users
  BY CollectorAssumption, FS_RemoveElement
<1>2. InUse \in SUBSET (Users \ {Bolt})
  BY DEF InUse
<1> HIDE DEF Users
<1>3. /\ IsFiniteSet(Users \ {Bolt}) /\ Cardinality(Users) \in Nat
      /\ Cardinality(Users \ {Bolt}) = Cardinality(Users) - 1
  BY <1>1, FS_RemoveElement, FS_CardinalityType
<1>4. Cardinality(InUse) <= Cardinality(Users \ {Bolt}) /\ IsFiniteSet(InUse)
  BY <1>2, <1>3, FS_Subset
<1>5. Cardinality(InUse) \in Nat
  BY <1>4, FS_CardinalityType
<1>6. Cardinality(Users) + Others <= Connections
  BY DEF EnoughConnections, Users
<1> QED
  BY <1>3, <1>4, <1>5, <1>6, BoundAssumption DEF ConnectionFree

LEMMA BoltInit == Init => BoltInv
  BY CollectorAssumption DEF Init, BoltInv

LEMMA BoltStart ==
  ASSUME TypeOK, ReportInv, BoltInv, NEW found \in SUBSET Apoc, StartCollectors(found)
  PROVE  BoltInv'
<1>1. success'[Bolt] = "none"
  BY CollectorAssumption DEF StartCollectors, ReportInv
<1>2. ASSUME step'[Bolt] = "waiting", ~boltFault' PROVE now' < until'[Bolt]
  <2>1. now < budget /\ now' = now /\ now \in Nat /\ budget \in Nat
    <3>1. now' = now /\ boltFault' = (gone \/ now >= budget)
      BY DEF StartCollectors
    <3>2. ~(now >= budget)
      BY <1>2, <3>1, Zenon
    <3> QED
      BY <3>1, <3>2, BoundAssumption DEF TypeOK
  <2>2. Bolt \in Selected(found) /\ until'[Bolt] = Derived(TimeoutOf(Bolt))
    BY <1>2, CollectorAssumption DEF StartCollectors, TypeOK
  <2>3. TimeoutOf(Bolt) \in Nat \ {0}
    BY CollectorAssumption, BoundAssumption, ModuleTypes DEF TimeoutOf, TypeOK
  <2> QED
    BY <2>1, <2>2, <2>3 DEF Derived, Lesser
<1> QED
  BY <1>1, <1>2 DEF BoltInv

\* The steps of Run and the environment.
LEMMA BoltOther ==
  ASSUME EnoughConnections, TypeOK, BoltInv,
         \/ GetEntry \/ DriverFails \/ Finish \/ ClientGone \/ OthersTake \/ Tick \/ Ended
         \/ UNCHANGED vars
  PROVE  BoltInv'
<1> USE DEF givenVars, goroutineVars
<1>1. CASE GetEntry
  BY <1>1 DEF GetEntry, BoltInv
<1>2. CASE DriverFails \/ Finish \/ ClientGone \/ OthersTake \/ Ended \/ UNCHANGED vars
  BY <1>2 DEF DriverFails, Finish, ClientGone, OthersTake, Ended, vars, BoltInv
<1>3. CASE Tick
  <2>1. ASSUME stage = "collecting", step[Bolt] = "waiting" PROVE FALSE
    <3>1. ~Expired(Bolt) /\ left[Bolt] # 0 /\ ~CanCall(Bolt)
      BY <1>3, <2>1, CollectorAssumption DEF Tick, Urgent, Calling
    <3>2. left[Bolt] > 0
      BY <3>1, CollectorAssumption DEF TypeOK
    <3> QED
      BY <2>1, <3>1, <3>2, ConnectionLeft, CollectorAssumption DEF CanCall, TypeOK
  <2> QED
    BY <1>3, <2>1 DEF Tick, BoltInv
<1> QED
  BY <1>1, <1>2, <1>3

LEMMA BoltCollect ==
  ASSUME EnoughConnections, TypeOK, ReportInv, BoltInv, NEW c \in Collector, CollectorStep(c)
  PROVE  BoltInv'
<1> USE DEF givenVars, goroutineVars
<1>1. Bolt \in Collector /\ Bolt # Jolokia
  BY CollectorAssumption
<1>2. UNCHANGED <<now, until>> /\ stage = "collecting"
  BY CollectorFrame
<1>3. ASSUME NEW itsOwn \in BOOLEAN, Fail(c, itsOwn), c = Bolt => itsOwn \/ boltFault
      PROVE  BoltInv'
  <2>1. /\ success'[Bolt] = IF c = Bolt THEN "0" ELSE success[Bolt]
        /\ step'[Bolt] = IF c = Bolt THEN "failed" ELSE step[Bolt]
    BY <1>1, <1>3 DEF Fail, TypeOK
  <2>2. CASE c = Bolt
    <3>1. boltFault'
      BY <1>3, <2>2 DEF Fail
    <3> QED
      BY <3>1 DEF BoltInv
  <2>3. CASE c # Bolt
    <3>1. boltFault' <=> boltFault
      BY <1>3, <2>3 DEF Fail
    <3> QED
      BY <1>2, <2>1, <2>3, <3>1 DEF BoltInv
  <2> QED
    BY <2>2, <2>3
<1>4. CASE StartCall(c)
  <2>1. /\ UNCHANGED <<success, boltFault>>
        /\ step'[Bolt] = "waiting" => step[Bolt] = "waiting"
    BY <1>1, <1>4 DEF StartCall, TypeOK
  <2> QED
    BY <1>2, <2>1 DEF BoltInv
<1>5. CASE Answered(c)
  <2>1. /\ UNCHANGED <<success, boltFault>>
        /\ step'[Bolt] = "waiting" => step[Bolt] = "waiting" \/ ~Expired(Bolt)
    BY <1>1, <1>5 DEF Answered, TypeOK
  <2>2. now \in Nat /\ until[Bolt] \in Nat
    BY <1>1, BoundAssumption DEF TypeOK
  <2> QED
    BY <1>2, <2>1, <2>2 DEF BoltInv, Expired
<1>6. CASE Succeed(c)
  <2>1. /\ boltFault' = boltFault
        /\ success'[Bolt] = "0" => success[Bolt] = "0"
        /\ step'[Bolt] = "waiting" => step[Bolt] = "waiting"
    BY <1>1, <1>6 DEF Succeed, TypeOK
  <2> QED
    BY <1>2, <2>1 DEF BoltInv
<1>7. CASE CallFails(c)
  BY <1>3, <1>7 DEF CallFails
<1>8. CASE NoClient(c)
  BY <1>1, <1>3, <1>8 DEF NoClient, LacksClient
<1>9. CASE CallExpires(c)
  <2>1. (gone \/ step[c] = "querying") \in BOOLEAN /\ Fail(c, gone \/ step[c] = "querying")
    BY <1>9 DEF CallExpires
  <2>2. ASSUME c = Bolt, ~gone, step[c] # "querying" PROVE boltFault
    <3>1. step[Bolt] = "waiting" /\ now >= until[Bolt]
      BY <1>9, <2>2 DEF CallExpires, Running, Calling, Expired
    <3>2. now \in Nat /\ until[Bolt] \in Nat
      BY <1>1, BoundAssumption DEF TypeOK
    <3> QED
      BY <1>2, <3>1, <3>2 DEF BoltInv
  <2> QED
    BY <1>3, <2>1, <2>2
<1>10. CASE AcquireExpires(c)
  <2>1. Fail(c, FALSE) /\ step[c] = "waiting" /\ ~ConnectionFree
    BY <1>10 DEF AcquireExpires, OutOfConnections
  <2>2. c # Bolt
    BY <2>1, ConnectionLeft DEF TypeOK
  <2> QED
    BY <1>3, <2>1, <2>2
<1>11. CASE RecordError(c)
  <2>1. /\ UNCHANGED <<success, boltFault>>
        /\ step'[Bolt] = "waiting" => step[Bolt] = "waiting"
    BY <1>1, <1>11
    DEF RecordError, CheckMap, AfterCheck, MakeMap, BeginInsert, ConcurrentWrites, EndInsert,
        TypeOK
  <2> QED
    BY <1>2, <2>1 DEF BoltInv
<1> QED
  BY <1>4, <1>5, <1>6, <1>7, <1>8, <1>9, <1>10, <1>11 DEF CollectorStep, GiveUp

LEMMA BoltStep ==
  ASSUME EnoughConnections
  PROVE  TypeOK /\ ReportInv /\ BoltInv /\ [Next]_vars => BoltInv'
  BY BoltStart, BoltOther, BoltCollect DEF Next, CollectorStep

\* What the documentation says of up (CONTRIBUTING.md:52, docs/METRICS.md:7) does hold if
\* the driver has a connection for every collector beside those that the other probes
\* and slow-query requests of its entry hold: what the code gets wrong otherwise
\* (orchestrator.go:93, driver.go:36-38) comes from bolt waiting for a connection.
THEOREM UpIsAboutBoltAlone ==
  ASSUME EnoughConnections
  PROVE  Spec => []UpIsAboutBolt
<1>1. TypeOK /\ UpInv /\ ReportInv /\ BoltInv => UpIsAboutBolt
  <2> SUFFICES ASSUME TypeOK, UpInv, ReportInv, BoltInv,
                      stage = "finished", Bolt \in Selected(caps), ~boltFault
               PROVE  up = 1
    BY DEF UpIsAboutBolt
  <2>1. Bolt \in Collector
    BY CollectorAssumption
  <2>2. step[Bolt] = "done"
    BY <2>1 DEF ReportInv, AllDone
  <2>3. success[Bolt] = "1"
    BY <2>1, <2>2 DEF ReportInv, BoltInv, TypeOK, Calling
  <2> QED
    BY <2>3 DEF UpInv, Up
<1> QED
  BY BoltInit, BoltStep, InvHolds, <1>1, PTL DEF Spec

=============================================================================

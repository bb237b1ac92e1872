---------------------------- MODULE Orchestrator ----------------------------
(***************************************************************************)
(* One request to /probe: the timeout the handler gives it                 *)
(* (internal/probe/handler.go:92-109), Orchestrator.Run                    *)
(* (internal/probe/orchestrator.go), and the collectors it runs in         *)
(* goroutines of their own, which share the driver's connection pool, the  *)
(* up flag of the ProbeContext and the ProbeResult.  Other requests that   *)
(* use the same entry share the pool of connections too.                   *)
(*                                                                         *)
(* Calls to Neo4j and to Jolokia take time and return at the latest when   *)
(* their context expires; everything else takes none.                      *)
(***************************************************************************)
EXTENDS Naturals, FiniteSets

CONSTANTS
  Collector,       \* Orchestrator.Collectors
  Bolt,            \* the bolt collector
  Jolokia,         \* the jolokia collector
  Apoc,            \* the apoc_* collectors, each named after its procedure
  Rounds,          \* how many calls a collector makes one after the other
  Module,          \* records [timeout, mode, per]: a module's timeout,
                   \* collectors: and per_collector_timeout: (0 if not given)
  Header,          \* values of the scrape timeout header (0 if there is none)
  Headroom,        \* what the handler takes off the header's value
  CapTimeout,      \* the timeout of the call of Capabilities
  JolokiaTimeout,  \* the timeout of the Jolokia client if per does not give one
  AcquireTimeout,  \* connection_acquisition_timeout
  Connections,     \* max_connection_pool_size
  Others,          \* the most connections that other requests may hold
  MaxTime          \* bound on the clock

ASSUME CollectorAssumption ==
  /\ {Bolt, Jolokia} \cup Apoc \subseteq Collector
  /\ Bolt # Jolokia
  /\ Apoc \cap {Bolt, Jolokia} = {}
  /\ IsFiniteSet(Collector)
  /\ Rounds \in [Collector -> Nat]

ASSUME ModuleAssumption ==
  Module \subseteq [timeout : 1 .. MaxTime,
                    mode    : [Collector -> {"false", "true", "auto"}],
                    per     : [Collector -> Nat]]

ASSUME BoundAssumption ==
  /\ Header \subseteq Nat
  /\ Headroom \in Nat
  /\ CapTimeout \in Nat
  /\ JolokiaTimeout \in Nat
  /\ AcquireTimeout \in Nat
  /\ Connections \in Nat
  /\ Others \in Nat
  /\ MaxTime \in Nat

VARIABLES
  module,      \* the module of the probe
  header,      \* the scrape timeout header of the request
  client,      \* the Jolokia client: absent, ready, or broken if New failed
  others,      \* the connections of the driver that other requests hold
  now,         \* the time since the context was created
  budget,      \* when the context expires
  gone,        \* the client has gone and the context is cancelled
  stage,       \* where Run is
  until,       \* when the call a goroutine is in gives up; Run's own is until[Run]
  caps,        \* the procedures Capabilities found
  step,        \* where each collector's goroutine is
  left,        \* the calls it still has to make
  since,       \* when it began to wait for the connection of the next one
  success,     \* neo4j_collector_success
  mark,        \* the up flag of the ProbeContext
  errors,      \* ProbeResult.Errors: a map's identity (0 for nil) and its keys
  inserting,   \* the map a goroutine is inserting into
  up,          \* ProbeResult.Up
  boltFault    \* history: a call of the bolt collector failed, or nothing was
               \* left of the probe's time when the collector started

\* What the probe finds and does not change.
givenVars == <<module, header, client, budget, others>>
goroutineVars == <<until, step, left, since, success, mark, errors, inserting, boltFault>>
vars == <<givenVars, now, gone, stage, caps, goroutineVars, up>>

\* What jolokiaclient.New returns: nil for a target without a jolokia block, a
\* client, or an error (no URL, bad TLS files, no password).
ClientState == {"absent", "ready", "broken"}

Run == "run"

Final == {"finished", "failed", "crashed"}

Calling == {"waiting", "querying"}
Recording == {"failed", "nomap", "mapped", "inserting"}

TypeOK ==
  /\ module \in Module
  /\ header \in Header
  /\ client \in ClientState
  /\ others \in 0 .. Others
  /\ now \in 0 .. MaxTime
  /\ budget \in 0 .. MaxTime
  /\ gone \in BOOLEAN
  /\ stage \in {"starting", "probing", "collecting"} \cup Final
  /\ until \in [Collector \cup {Run} -> 0 .. MaxTime]
  /\ caps \subseteq Apoc
  /\ step \in [Collector -> {"off", "done"} \cup Calling \cup Recording]
  /\ left \in [Collector -> Nat]
  /\ since \in [Collector -> 0 .. MaxTime]
  /\ success \in [Collector -> {"none", "0", "1"}]
  /\ mark \in {"undecided", "up", "down"}
  /\ errors \in [map : Nat, names : SUBSET Collector]
  /\ inserting \in [Collector -> Nat]
  /\ up \in {0, 1}
  /\ boltFault \in BOOLEAN

-----------------------------------------------------------------------------
(* Timeouts and the choice of collectors.                                  *)

\* The timeout of a probe: the module's, cut to the scrape timeout header's.
ProbeTimeout(m, h) ==
  IF h > Headroom /\ h - Headroom < m.timeout THEN h - Headroom ELSE m.timeout

Lesser(x, y) == IF x < y THEN x ELSE y

\* The timeout of collector c: the one per_collector_timeout gives, or the
\* module's, which for jolokia the HTTP client cuts short.
TimeoutOf(c) ==
  IF module.per[c] # 0 THEN module.per[c]
  ELSE IF c = Jolokia THEN Lesser(JolokiaTimeout, module.timeout)
  ELSE module.timeout

\* Mutant: a context that does not descend from the request's.
Detached(t) == now + t

\* When a context with timeout t, derived now from the request's, expires.
Derived(t) == Lesser(budget, now + t)

\* The collectors of the module that run, given what Capabilities found.
Selected(found) ==
  {c \in Collector :
     /\ module.mode[c] # "false"
     /\ c \in Apoc /\ module.mode[c] = "auto" => c \in found
     /\ c = Jolokia => client # "absent"}

\* The calls c makes: an apoc collector makes none without its procedure.
RoundsOf(c, found) == IF c \in Apoc \ found THEN 0 ELSE Rounds[c]

-----------------------------------------------------------------------------
Init ==
  /\ module \in Module
  /\ header \in Header
  /\ client \in ClientState
  /\ others \in 0 .. Others /\ others <= Connections
  /\ now = 0
  /\ budget = ProbeTimeout(module, header)
  /\ gone = FALSE
  /\ stage = "starting"
  /\ until = [x \in Collector \cup {Run} |-> 0]
  /\ caps = {}
  /\ step = [c \in Collector |-> "off"]
  /\ left = [c \in Collector |-> 0]
  /\ since = [c \in Collector |-> 0]
  /\ success = [c \in Collector |-> "none"]
  /\ mark = "undecided"
  /\ errors = [map |-> 0, names |-> {}]
  /\ inserting = [c \in Collector |-> 0]
  /\ up = 0
  /\ boltFault = FALSE

-----------------------------------------------------------------------------
(* Run.                                                                    *)

\* Pool.Get returns an entry and Capabilities is called.
GetEntry ==
  /\ stage = "starting"
  /\ stage' = "probing"
  /\ until' = [until EXCEPT ![Run] = Derived(CapTimeout)]
  /\ UNCHANGED <<givenVars, now, gone, caps, step, left, since, success, mark,
                 errors, inserting, up, boltFault>>

\* Pool.Get fails, and so does the probe.
DriverFails ==
  /\ stage = "starting"
  /\ stage' = "failed"
  /\ UNCHANGED <<givenVars, now, gone, caps, goroutineVars, up>>

\* Mutant: only the client's going away cancels a call.
ExpiredByClient(x) == gone

\* The call that runs on behalf of x has outlived its context.
Expired(x) == gone \/ now >= until[x]

\* Capabilities returns what it found, nothing if it failed, and the goroutines
\* of the selected collectors start.
StartCollectors(found) ==
  /\ stage = "probing"
  /\ stage' = "collecting"
  /\ caps' = found
  /\ step' = [c \in Collector |-> IF c \in Selected(found) THEN "waiting" ELSE "off"]
  /\ left' = [c \in Collector |-> IF c \in Selected(found) THEN RoundsOf(c, found) ELSE 0]
  /\ until' = [x \in DOMAIN until |->
                 IF x \in Selected(found) THEN Derived(TimeoutOf(x)) ELSE 0]
  /\ since' = [c \in Collector |-> now]
  /\ boltFault' = (gone \/ now >= budget)
  /\ UNCHANGED <<givenVars, now, gone, success, mark, errors, inserting, up>>

\* Mutants: Run does not wait for the jolokia collector; any collector's success
\* counts for up.
MostDone == \A c \in Collector \ {Jolokia} : step[c] \in {"off", "done"}
AnyUp == IF \E c \in Collector : success[c] = "1" THEN 1 ELSE 0

\* wg.Wait() has returned.
AllDone == \A c \in Collector : step[c] \in {"off", "done"}

\* ProbeContext.Up
Up == IF mark = "up" THEN 1 ELSE 0

Finish ==
  /\ stage = "collecting"
  /\ AllDone
  /\ stage' = "finished"
  /\ up' = Up
  /\ UNCHANGED <<givenVars, now, gone, caps, goroutineVars>>

-----------------------------------------------------------------------------
(* A collector's goroutine: Collect.                                       *)

InUse == {c \in Collector \ {Jolokia} : step[c] = "querying"}

Running(c) == stage = "collecting" /\ step[c] \in Calling

\* The driver has a connection that nobody uses.
ConnectionFree == Cardinality(InUse) + others < Connections

\* c can make its next call: the driver has a connection for it, to which it may
\* still have to connect; Jolokia is called over HTTP.
CanCall(c) ==
  /\ step[c] = "waiting" /\ left[c] > 0
  /\ ~Expired(c)
  /\ c # Jolokia => ConnectionFree
  /\ c = Jolokia => client = "ready"

StartCall(c) ==
  /\ Running(c)
  /\ CanCall(c)
  /\ step' = [step EXCEPT ![c] = "querying"]
  /\ UNCHANGED <<givenVars, now, gone, stage, caps, until, left, since, success,
                 mark, errors, inserting, up, boltFault>>

\* A call that is not c's last is answered.
Answered(c) ==
  /\ Running(c) /\ step[c] = "querying" /\ left[c] > 1
  /\ ~Expired(c)
  /\ step' = [step EXCEPT ![c] = "waiting"]
  /\ left' = [left EXCEPT ![c] = @ - 1]
  /\ since' = [since EXCEPT ![c] = now]
  /\ UNCHANGED <<givenVars, now, gone, stage, caps, until, success, mark, errors,
                 inserting, up, boltFault>>

\* Collect returns nil: c's last call is answered, or it had none to make.
Succeed(c) ==
  /\ Running(c)
  /\ \/ step[c] = "querying" /\ left[c] = 1 /\ ~Expired(c)
     \/ step[c] = "waiting" /\ left[c] = 0
  /\ step' = [step EXCEPT ![c] = "done"]
  /\ left' = [left EXCEPT ![c] = 0]
  /\ success' = [success EXCEPT ![c] = "1"]
  /\ mark' = IF c = Bolt THEN "up" ELSE mark
  /\ UNCHANGED <<givenVars, now, gone, stage, caps, until, since, errors, inserting,
                 up, boltFault>>

\* Collect returns an error, after MarkDown if it is the bolt collector's.
Fail(c, itsOwn) ==
  /\ step' = [step EXCEPT ![c] = "failed"]
  /\ left' = [left EXCEPT ![c] = 0]
  /\ success' = [success EXCEPT ![c] = "0"]
  /\ mark' = IF c = Bolt THEN "down" ELSE mark
  /\ boltFault' = (boltFault \/ (c = Bolt /\ itsOwn))
  /\ UNCHANGED <<givenVars, now, gone, stage, caps, until, since, errors, inserting, up>>

\* The server refuses the connection or answers with an error.
CallFails(c) ==
  /\ Running(c) /\ step[c] = "querying"
  /\ Fail(c, TRUE)

\* The jolokia collector has no client.
LacksClient(c) == c = Jolokia /\ step[c] = "waiting" /\ client = "broken"

NoClient(c) ==
  /\ Running(c)
  /\ LacksClient(c)
  /\ Fail(c, FALSE)

\* c's context expires in a call, or in the wait for a connection.
CallExpires(c) ==
  /\ Running(c) /\ left[c] > 0
  /\ Expired(c)
  /\ Fail(c, gone \/ step[c] = "querying")

\* The driver has had no connection for c and gives up before c's context expires.
OutOfConnections(c) ==
  /\ c # Jolokia /\ step[c] = "waiting" /\ left[c] > 0
  /\ ~ConnectionFree
  /\ now >= since[c] + AcquireTimeout

AcquireExpires(c) ==
  /\ Running(c)
  /\ OutOfConnections(c)
  /\ Fail(c, FALSE)

-----------------------------------------------------------------------------
(* A collector's goroutine: recordError, without a lock.                   *)

\* Mutant: without a map nothing is recorded.
AfterCheckNil == IF errors.map = 0 THEN "done" ELSE "mapped"

\* r.Errors == nil?
AfterCheck == IF errors.map = 0 THEN "nomap" ELSE "mapped"

CheckMap(c) ==
  /\ stage = "collecting" /\ step[c] = "failed"
  /\ step' = [step EXCEPT ![c] = AfterCheck]
  /\ UNCHANGED <<givenVars, now, gone, stage, caps, until, left, since, success,
                 mark, errors, inserting, up, boltFault>>

\* r.Errors = make(map), whoever else has made one since the check.
MakeMap(c) ==
  /\ stage = "collecting" /\ step[c] = "nomap"
  /\ step' = [step EXCEPT ![c] = "mapped"]
  /\ errors' = [map |-> errors.map + 1, names |-> {}]
  /\ UNCHANGED <<givenVars, now, gone, stage, caps, until, left, since, success,
                 mark, inserting, up, boltFault>>

BeginInsert(c) ==
  /\ stage = "collecting" /\ step[c] = "mapped"
  /\ step' = [step EXCEPT ![c] = "inserting"]
  /\ inserting' = [inserting EXCEPT ![c] = errors.map]
  /\ UNCHANGED <<givenVars, now, gone, stage, caps, until, left, since, success,
                 mark, errors, up, boltFault>>

\* Who is writing to the map that is r.Errors now.
Writers == {d \in Collector : step[d] = "inserting" /\ inserting[d] = errors.map}

\* The runtime notices that two goroutines write to one map and ends the process.
ConcurrentWrites(c) ==
  /\ stage = "collecting" /\ step[c] = "mapped"
  /\ Writers # {}
  /\ stage' = "crashed"
  /\ UNCHANGED <<givenVars, now, gone, caps, goroutineVars, up>>

\* The entry is in the map the goroutine loaded, which may not be r.Errors now; a
\* writer that nobody noticed may put its own entry in the same place.
EndInsert(c) ==
  /\ stage = "collecting" /\ step[c] = "inserting"
  /\ step' = [step EXCEPT ![c] = "done"]
  /\ inserting' = [inserting EXCEPT ![c] = 0]
  /\ \/ c \in Writers /\ errors' = [errors EXCEPT !.names = @ \cup {c}]
     \/ (c \notin Writers \/ Writers # {c}) /\ errors' = errors
  /\ UNCHANGED <<givenVars, now, gone, stage, caps, until, left, since, success,
                 mark, up, boltFault>>

-----------------------------------------------------------------------------
(* The environment.                                                        *)

\* Prometheus hangs up.
ClientGone ==
  /\ stage \notin Final
  /\ ~gone
  /\ gone' = TRUE
  /\ UNCHANGED <<givenVars, now, stage, caps, goroutineVars, up>>

\* Another request gets a connection before whoever waits for it here.
OthersTake ==
  /\ stage \notin Final
  /\ others < Others
  /\ ConnectionFree
  /\ others' = others + 1
  /\ UNCHANGED <<module, header, client, budget, now, gone, stage, caps, goroutineVars, up>>

\* Somebody has something to do that takes no time, or a call's time is up.
Urgent ==
  \/ stage = "starting"
  \/ stage = "probing" /\ Expired(Run)
  \/ stage = "collecting" /\
       \/ AllDone
       \/ \E c \in Collector :
            \/ step[c] \in Recording
            \/ step[c] \in Calling /\ (left[c] = 0 \/ Expired(c))
            \/ CanCall(c) \/ LacksClient(c) \/ OutOfConnections(c)

\* Time passes, and calls of the other requests end.
Tick ==
  /\ stage \notin Final
  /\ ~Urgent
  /\ now < MaxTime
  /\ now' = now + 1
  /\ others' \in 0 .. others
  /\ UNCHANGED <<module, header, client, budget, gone, stage, caps, goroutineVars, up>>

Ended == stage \in Final /\ UNCHANGED vars

-----------------------------------------------------------------------------
RecordError(c) ==
  CheckMap(c) \/ MakeMap(c) \/ BeginInsert(c) \/ ConcurrentWrites(c) \/ EndInsert(c)

GiveUp(c) == NoClient(c) \/ CallExpires(c) \/ AcquireExpires(c)

Next ==
  \/ GetEntry \/ DriverFails
  \/ \E found \in SUBSET Apoc : StartCollectors(found)
  \/ \E c \in Collector :
       \/ StartCall(c) \/ Answered(c) \/ Succeed(c) \/ CallFails(c)
       \/ GiveUp(c) \/ RecordError(c)
  \/ Finish
  \/ ClientGone \/ OthersTake \/ Tick \/ Ended

Spec == Init /\ [][Next]_vars

\* The goroutines run, a call returns when its context has expired, and time
\* passes.  No server owes anybody an answer.
FairSpec ==
  /\ Spec
  /\ WF_vars(GetEntry \/ DriverFails)
  /\ WF_vars(\E found \in SUBSET Apoc : Expired(Run) /\ StartCollectors(found))
  /\ \A c \in Collector :
       /\ WF_vars(StartCall(c) \/ GiveUp(c))
       /\ WF_vars(left[c] = 0 /\ Succeed(c))
       /\ WF_vars(RecordError(c))
  /\ WF_vars(Finish)
  /\ WF_vars(Tick)

-----------------------------------------------------------------------------
(* Properties.                                                             *)

\* docs/CONFIGURATION.md:36, "the whole probe must finish under this", and
\* handler.go:100, "Leave 250ms headroom so Prometheus doesn't time out before
\* us": whatever the per-collector timeouts are and however long Neo4j, Jolokia
\* and the connection pool keep it waiting, the probe ends within both.
WithinTimeout ==
  stage = "finished" =>
    /\ now <= module.timeout
    /\ header > Headroom => now <= header - Headroom

\* neo4j_up is 1 exactly when the bolt collector succeeded, whatever the others
\* did and in whatever order they ended (collector.go:43-75).
UpIffBoltSucceeded ==
  stage = "finished" => (up = 1 <=> success[Bolt] = "1")

\* When the handler writes the registry out, no goroutine is still at work, every
\* selected collector has reported, and no other has.
AllReported ==
  stage = "finished" =>
    \A c \in Collector :
      /\ step[c] \in {"off", "done"}
      /\ success[c] # "none" <=> c \in Selected(caps)

Failed == {c \in Collector : success[c] = "0"}

\* However the goroutines race in recordError, the handler logs a warning exactly
\* if a collector failed: ProbeResult.Errors names nobody who did not, and is empty
\* only if nobody did.  One failure alone is always recorded, and it takes two to
\* end the process (orchestrator.go:106-112, 175-180, handler.go:145).
SomeFailureRecorded ==
  /\ errors.names \subseteq Failed
  /\ stage = "finished" => (errors.names = {} <=> Failed = {})
  /\ stage = "crashed" => \E c, d \in Failed : c # d

\* A probe comes to an end even if no server ever answers.
Terminates == <>(stage \in Final)

-----------------------------------------------------------------------------
(* What the documentation says, and the code does not do.                  *)

\* orchestrator.go:18-19, "Partial failures are recorded but do not abort the
\* probe": each collector's error is in ProbeResult.Errors, and the process lives.
PartialFailuresRecorded ==
  /\ stage # "crashed"
  /\ stage = "finished" => {c \in Collector : success[c] = "0"} \subseteq errors.names

\* CONTRIBUTING.md:52, "APOC, Jolokia, or any other collector failing does not flip
\* up", and docs/METRICS.md:7: if the bolt collector starts in time and none of the
\* calls it makes fails, up is 1.
UpIsAboutBolt ==
  stage = "finished" /\ Bolt \in Selected(caps) /\ ~boltFault => up = 1

=============================================================================

------------------------------ MODULE Requests ------------------------------
(***************************************************************************)
(* The HTTP side of the exporter (internal/probe/handler.go,               *)
(* internal/probe/slowqueries.go and the routes of main): requests that    *)
(* run at the same time, what each is answered, what the exporter counts   *)
(* about itself, and Pool.mu, which they all need.                         *)
(*                                                                         *)
(* A handler runs in a goroutine of its own, from Arrive to Answer.        *)
(* Inside a probe, Orchestrator has the details; what it decides, whether  *)
(* Neo4j answered, is left open here, and so is what the pool has, which   *)
(* DriverPool is about.  Get holds Pool.mu while it builds a driver, and   *)
(* Reconcile while it closes those that are due; nothing bounds how long a *)
(* Close takes, and CloseReturns need not happen.                          *)
(***************************************************************************)
EXTENDS Integers, FiniteSets

CONSTANTS
  Request,     \* the requests
  Ask,         \* what they may ask for
  Config,      \* the configurations that may be loaded, [targets, modules]
  Target,      \* what FindTarget may be asked for
  ModuleName,  \* names of modules
  NoName,      \* the parameter is missing
  Nobody       \* not a request: nobody holds Pool.mu

\* A parameter, or a setting that came from YAML: "absent" and "malformed" have no
\* value, "nan" is the number that is neither below nor above any other.
Number == [kind : {"absent", "malformed", "nan", "number"}, value : Int]

\* target is NoName, module the module parameter of /probe, top, min_seconds and
\* format those of /slow-queries; post and loads are about /-/reload.
Asks ==
  [kind : {"probe"}, target : Target \cup {NoName}, module : ModuleName \cup {NoName}]
  \cup [kind : {"slow"}, target : Target \cup {NoName}, top : Number, min : Number,
        format : {"openmetrics_info", "text", "other"}]
  \cup [kind : {"reload"}, post : BOOLEAN]
  \cup [kind : {"ready", "metrics"}]

\* bolt tells whether the module has the bolt collector switched on, slow whether
\* slow_query is enabled, and the rest are its settings, which validate ignores; top
\* and min are numbers, since yaml has parsed them.
Module == [bolt : BOOLEAN, slow : BOOLEAN, top : Int,
           min : {n \in Number : n.kind \in {"nan", "number"}}]

\* A target that is served through default_target may name a module there is not.
Typed(c) ==
  /\ c = [targets |-> c.targets, modules |-> c.modules]
  /\ DOMAIN c.targets \subseteq Target
  /\ c.targets \in [DOMAIN c.targets -> ModuleName]
  /\ DOMAIN c.modules \subseteq ModuleName
  /\ c.modules \in [DOMAIN c.modules -> Module]

ASSUME RequestAssumption == IsFiniteSet(Request) /\ Nobody \notin Request

ASSUME AskAssumption == Ask \subseteq Asks

ASSUME ConfigAssumption == \A c \in Config : Typed(c)

ASSUME NameAssumption == NoName \notin ModuleName /\ NoName \notin Target

VARIABLES
  pc,         \* where each request is
  ask,        \* what it asks for
  conf,       \* Manager.current
  taken,      \* the configuration a handler has taken
  limit,      \* the $top it has asked Neo4j for, and
  least,      \* the $min
  up,         \* result.Up
  finished,   \* whether result.Finished is set
  code,       \* the status it was answered with, 0 before
  mu,         \* who holds Pool.mu
  inflight,   \* neo4j_exporter_probe_inflight, by module
  durations,  \* the observations of neo4j_exporter_probe_duration_seconds, by module
              \* and sign
  probes      \* neo4j_exporter_probes_total, by module and outcome

vars == <<pc, ask, conf, taken, limit, least, up, finished, code, mu, inflight, durations,
          probes>>

handler == <<ask, conf, taken, limit, least, up, finished>>
metrics == <<inflight, durations, probes>>

-----------------------------------------------------------------------------
(* Helpers.                                                                *)

\* Mutant: a value that is too large is let through.
TopUnbounded(p, setting) ==
  LET top == IF p.kind = "number" THEN p.value ELSE setting
  IN  IF top <= 0 THEN 10 ELSE top

\* What is missing or malformed gives way to the setting; what is out of range, the
\* setting too, to 10.
Top(p, setting) ==
  LET top == IF p.kind = "number" THEN p.value ELSE setting
  IN  IF top <= 0 \/ top > 1000 THEN 10 ELSE top

Zero == [kind |-> "number", value |-> 0]

\* minSeconds < 0 is false of NaN.
MinSeconds(p, setting) ==
  LET min == IF p.kind \in {"number", "nan"} THEN p ELSE setting
  IN  IF min.kind = "number" /\ min.value < 0 THEN Zero ELSE min

\* FindTarget leaves no target without a module.
ModuleOf(c, a) == IF a.module # NoName THEN a.module ELSE c.targets[a.target]

Label(r) == ModuleOf(taken[r], ask[r])

\* /slow-queries has no module parameter.
SlowModule(c, a) ==
  {c.modules[n] : n \in {c.targets[a.target]} \cap DOMAIN c.modules}

\* Status of a request that is turned away at once, 0 if it is not.
ProbeRefused(c, a) ==
  IF a.target = NoName THEN 400
  ELSE IF a.target \notin DOMAIN c.targets THEN 404
  ELSE IF ModuleOf(c, a) \notin DOMAIN c.modules THEN 404
  ELSE 0

SlowRefused(c, a) ==
  IF a.target = NoName THEN 400
  ELSE IF a.target \notin DOMAIN c.targets THEN 404
  ELSE IF \A m \in SlowModule(c, a) : ~m.slow THEN 403
  ELSE 0

\* Mutant: a module without the bolt collector counts as up.
OutcomeByError(u, done) == IF done THEN "success" ELSE "error"

\* err != nil || res.Up == 0; the error is the driver's, and then Finished is not set.
Outcome(u, done) == IF done /\ u = 1 THEN "success" ELSE "error"

\* Result.Duration: Finished is zero when there was no driver, and then what is left
\* of a subtraction is some 292 years below zero.
Duration(done) == IF done THEN "elapsed" ELSE "negative"

\* Mutant: Dec is forgotten.
DecForgotten(r) == inflight

\* The deferred Dec.
Dec(r) == [inflight EXCEPT ![Label(r)] = @ - 1]

Goto(r, place) == pc' = [pc EXCEPT ![r] = place]

Answer(r, status) ==
  /\ Goto(r, "answered")
  /\ code' = [code EXCEPT ![r] = status]

-----------------------------------------------------------------------------
(* /probe                                                                  *)

Init ==
  /\ pc = [r \in Request |-> "idle"]
  /\ ask \in [Request -> Ask]
  /\ conf \in Config
  /\ taken = [r \in Request |-> conf]
  /\ limit = [r \in Request |-> 0]
  /\ least = [r \in Request |-> Zero]
  /\ up = [r \in Request |-> 0]
  /\ finished = [r \in Request |-> FALSE]
  /\ code = [r \in Request |-> 0]
  /\ mu = Nobody
  /\ inflight = [m \in ModuleName |-> 0]
  /\ durations = [k \in ModuleName \X {"elapsed", "negative"} |-> 0]
  /\ probes = [k \in ModuleName \X {"success", "error"} |-> 0]

\* A client connects, and its handler takes the configuration, once.
Arrive(r) ==
  /\ pc[r] = "idle"
  /\ taken' = [taken EXCEPT ![r] = conf]
  /\ Goto(r, ask[r].kind)
  /\ UNCHANGED <<ask, conf, limit, least, up, finished, code, mu, metrics>>

RefuseProbe(r) ==
  /\ pc[r] = "probe"
  /\ ProbeRefused(taken[r], ask[r]) # 0
  /\ Answer(r, ProbeRefused(taken[r], ask[r]))
  /\ UNCHANGED <<handler, mu, metrics>>

StartProbe(r) ==
  /\ pc[r] = "probe"
  /\ ProbeRefused(taken[r], ask[r]) = 0
  /\ inflight' = [inflight EXCEPT ![Label(r)] = @ + 1]
  /\ Goto(r, "getting")
  /\ UNCHANGED <<handler, code, mu, durations, probes>>

\* Pool.Get has read the password file for the key, and waits for Pool.mu, whatever
\* becomes of the context.
HashTarget(r) ==
  /\ pc[r] = "getting"
  /\ Goto(r, "waiting")
  /\ UNCHANGED <<handler, code, mu, metrics>>

\* The pool has a driver under the key.
GetEntry(r) ==
  /\ pc[r] = "waiting"
  /\ mu = Nobody
  /\ Goto(r, "querying")
  /\ UNCHANGED <<handler, code, mu, metrics>>

\* It has none: NewDriver reads the password file again, now under the lock.
GetMiss(r) ==
  /\ pc[r] = "waiting"
  /\ mu = Nobody
  /\ mu' = r
  /\ Goto(r, "building")
  /\ UNCHANGED <<handler, code, metrics>>

\* Mutant: the lock is kept.
MuKept(r) == r

\* Pool.mu when its holder is done, for the better or the worse.
MuLeft(r) == Nobody

GetBuilt(r) ==
  /\ pc[r] = "building"
  /\ mu' = MuLeft(r)
  /\ Goto(r, "querying")
  /\ UNCHANGED <<handler, code, metrics>>

\* The password file cannot be read, by authHash or, under the lock, by NewDriver, or
\* the address makes no URI.  Orchestrator.Run ends with an error, and the probe goes
\* on to count itself; a slow query ends here.
GetFails(r) ==
  /\ \/ pc[r] = "getting" /\ UNCHANGED mu
     \/ pc[r] = "building" /\ mu' = MuLeft(r)
  /\ \/ /\ ask[r].kind = "probe"
        /\ Goto(r, "ran")
        /\ UNCHANGED code
     \/ /\ ask[r].kind = "slow"
        /\ Answer(r, 502)
  /\ UNCHANGED <<handler, metrics>>

\* What pctx.Up may be: nobody but the bolt collector signals it.
UpOf(m) == IF m.bolt THEN {0, 1} ELSE {0}

\* All collectors have ended, for the better or the worse.
Run(r) ==
  /\ pc[r] = "querying"
  /\ ask[r].kind = "probe"
  /\ \E u \in UpOf(taken[r].modules[Label(r)]) : up' = [up EXCEPT ![r] = u]
  /\ finished' = [finished EXCEPT ![r] = TRUE]
  /\ Goto(r, "ran")
  /\ UNCHANGED <<ask, conf, taken, limit, least, code, mu, metrics>>

\* The gauges of the page are set, and the duration is observed.
Observe(r) ==
  /\ pc[r] = "ran"
  /\ durations' = [durations EXCEPT ![<<Label(r), Duration(finished[r])>>] = @ + 1]
  /\ Goto(r, "observed")
  /\ UNCHANGED <<handler, code, mu, inflight, probes>>

Count(r) ==
  /\ pc[r] = "observed"
  /\ probes' = [probes EXCEPT ![<<Label(r), Outcome(up[r], finished[r])>>] = @ + 1]
  /\ Goto(r, "counted")
  /\ UNCHANGED <<handler, code, mu, inflight, durations>>

\* The page is written, whatever is on it; then the deferred calls.
Respond(r) ==
  /\ pc[r] = "counted"
  /\ inflight' = Dec(r)
  /\ Answer(r, 200)
  /\ UNCHANGED <<handler, mu, durations, probes>>

-----------------------------------------------------------------------------
(* /slow-queries                                                           *)

RefuseSlow(r) ==
  /\ pc[r] = "slow"
  /\ SlowRefused(taken[r], ask[r]) # 0
  /\ Answer(r, SlowRefused(taken[r], ask[r]))
  /\ UNCHANGED <<handler, mu, metrics>>

StartSlow(r) ==
  /\ pc[r] = "slow"
  /\ SlowRefused(taken[r], ask[r]) = 0
  /\ \E m \in SlowModule(taken[r], ask[r]) :
       /\ limit' = [limit EXCEPT ![r] = Top(ask[r].top, m.top)]
       /\ least' = [least EXCEPT ![r] = MinSeconds(ask[r].min, m.min)]
  /\ Goto(r, "getting")
  /\ UNCHANGED <<ask, conf, taken, up, finished, code, mu, metrics>>

\* The query fails, or it succeeds and only then the format is looked at.
AnswerSlow(r) ==
  /\ pc[r] = "querying"
  /\ ask[r].kind = "slow"
  /\ \/ Answer(r, 502)
     \/ Answer(r, IF ask[r].format = "other" THEN 400 ELSE 200)
  /\ UNCHANGED <<handler, mu, metrics>>

-----------------------------------------------------------------------------
(* /-/reload, /metrics and /ready                                          *)

\* Not a POST, or a configuration that does not load.
RefuseReload(r) ==
  /\ pc[r] = "reload"
  /\ Answer(r, IF ask[r].post THEN 500 ELSE 405)
  /\ UNCHANGED <<handler, mu, metrics>>

Reload(r) ==
  /\ pc[r] = "reload"
  /\ ask[r].post
  /\ conf' \in Config
  /\ Goto(r, "reconciling")
  /\ UNCHANGED <<ask, taken, limit, least, up, finished, code, mu, metrics>>

\* Reconcile finds no driver that is due, or one, which it begins to close.
Reconcile(r) ==
  /\ pc[r] = "reconciling"
  /\ mu = Nobody
  /\ \/ /\ mu' = MuLeft(r)
        /\ Answer(r, 200)
     \/ /\ mu' = r
        /\ Goto(r, "closing")
        /\ UNCHANGED code
  /\ UNCHANGED <<handler, metrics>>

\* Driver.Close returns.  There is no fairness for it.
CloseReturns(r) ==
  /\ pc[r] = "closing"
  /\ mu' = MuLeft(r)
  /\ Answer(r, 200)
  /\ UNCHANGED <<handler, metrics>>

\* Mutant: readiness asks the pool.
IsReadyByPool == mu = Nobody

\* mgr.Get() is never nil.
IsReady == TRUE

Ready(r) ==
  /\ pc[r] = "ready"
  /\ IsReady
  /\ Answer(r, 200)
  /\ UNCHANGED <<handler, mu, metrics>>

\* The gauge of the pool's size is a Pool.Size.
Metrics(r) ==
  /\ pc[r] = "metrics"
  /\ mu = Nobody
  /\ Answer(r, 200)
  /\ UNCHANGED <<handler, mu, metrics>>

Done == (\A r \in Request : pc[r] = "answered") /\ UNCHANGED vars

Step(r) ==
  \/ RefuseProbe(r) \/ StartProbe(r)
  \/ HashTarget(r) \/ GetEntry(r) \/ GetMiss(r) \/ GetBuilt(r) \/ GetFails(r)
  \/ Run(r) \/ Observe(r) \/ Count(r) \/ Respond(r)
  \/ RefuseSlow(r) \/ StartSlow(r) \/ AnswerSlow(r)
  \/ RefuseReload(r) \/ Reload(r) \/ Reconcile(r) \/ Ready(r) \/ Metrics(r)

Next ==
  \/ \E r \in Request : Arrive(r) \/ Step(r) \/ CloseReturns(r)
  \/ Done

\* A handler goes on by itself: the password file is read or cannot be, its queries end
\* with its context, and sync.Mutex hands the lock to whoever has waited for a
\* millisecond, hence strong fairness.
Fairness == \A r \in Request : SF_vars(Step(r))

Spec == Init /\ [][Next]_vars /\ Fairness

-----------------------------------------------------------------------------
(* Properties.                                                             *)

Places == {"idle", "probe", "slow", "reload", "ready", "metrics", "getting", "waiting",
           "building", "querying", "ran", "observed", "counted", "reconciling", "closing",
           "answered"}

TypeOK ==
  /\ pc \in [Request -> Places]
  /\ ask \in [Request -> Asks]
  /\ Typed(conf)
  /\ taken = [r \in Request |-> taken[r]]
  /\ \A r \in Request : Typed(taken[r])
  /\ limit \in [Request -> Nat]
  /\ least \in [Request -> Number]
  /\ up \in [Request -> {0, 1}]
  /\ finished \in [Request -> BOOLEAN]
  /\ code \in [Request -> {0, 200, 400, 403, 404, 405, 500, 502}]
  /\ mu \in Request \cup {Nobody}
  /\ inflight \in [ModuleName -> Nat]
  /\ durations \in [ModuleName \X {"elapsed", "negative"} -> Nat]
  /\ probes \in [ModuleName \X {"success", "error"} -> Nat]

Within == {"getting", "waiting", "building", "querying", "ran", "observed", "counted"}

\* The probes of module m at one of the places.
At(m, places) == {r \in Request : ask[r].kind = "probe" /\ pc[r] \in places /\ Label(r) = m}

\* The gauge of probes in flight counts those that run, for every module, whichever
\* requests were turned away, reloads came in between or drivers could not be had: it
\* never drifts (handler.go:124-127).
InflightExact ==
  \A m \in ModuleName : inflight[m] = Cardinality(At(m, Within))

\* The probes of module m that are counted, with neo4j_up u; those that were turned
\* away were answered, but not with 200.
Counted(m, u) ==
  {r \in Request :
     /\ ask[r].kind = "probe"
     /\ pc[r] = "counted" \/ (pc[r] = "answered" /\ code[r] = 200)
     /\ Label(r) = m
     /\ up[r] = u}

\* What the exporter says of its probes adds up: every page with neo4j_up 1 is one
\* success and every other page one error; the histogram has each of them and those
\* about to be counted, and its negative durations, of probes without a driver, are
\* among the errors (handler.go:129-143, orchestrator.go:50-56,182).
RunsCounted ==
  \A m \in ModuleName :
    /\ probes[<<m, "success">>] = Cardinality(Counted(m, 1))
    /\ probes[<<m, "error">>] = Cardinality(Counted(m, 0))
    /\ durations[<<m, "elapsed">>] + durations[<<m, "negative">>] =
         probes[<<m, "success">>] + probes[<<m, "error">>]
           + Cardinality(At(m, {"observed"}))
    /\ durations[<<m, "negative">>] <=
         probes[<<m, "error">>] + Cardinality(At(m, {"observed"}))

\* No query for slow transactions has a LIMIT that Neo4j refuses or one above the cap,
\* nor a negative minimum, whether the number came from the request or, unvalidated,
\* from the configuration, before or after a reload (slowqueries.go:50-57).
QueriesBounded ==
  \A r \in Request :
    ask[r].kind = "slow" /\ pc[r] \in {"getting", "waiting", "building", "querying"} =>
      /\ limit[r] \in 1 .. 1000
      /\ least[r].kind = "nan" \/ (least[r].kind = "number" /\ least[r].value >= 0)

\* If every Close returns, every request is answered, those that wait for the lock
\* included: a reload keeps it over Close, a probe over the second reading of its
\* password file, and each gives it back however that ends (pool.go:70-81,95-111).
AnsweredIfClosesReturn ==
  (\A s \in Request : []<>(pc[s] # "closing")) =>
    \A r \in Request : (pc[r] # "idle") ~> (pc[r] = "answered")

\* What needs no driver is answered even while a Close blocks for ever: requests that
\* are turned away and, though no probe can be served, /ready (main.go:88-101).
NeedsNoDriver(r) ==
  \/ pc[r] = "probe" /\ ProbeRefused(taken[r], ask[r]) # 0
  \/ pc[r] = "slow" /\ SlowRefused(taken[r], ask[r]) # 0
  \/ pc[r] = "reload" /\ ~ask[r].post
  \/ pc[r] = "ready"

AnsweredAnyway == \A r \in Request : NeedsNoDriver(r) ~> (pc[r] = "answered")

=============================================================================

# neo4j-exporter in TLA+

neo4j-exporter is a multi-target Prometheus exporter: Prometheus asks it for
`/probe?target=T&module=M`, it runs a set of collectors against the Neo4j server `T`
over Bolt (and against its JVM over Jolokia) and answers with the metrics. This
directory models the parts of it in which several goroutines, the clock and the
outside world meet, and the conversions - of a file into a configuration, of a result
into series - in which it is easy to get a case wrong; it checks them with TLC on small
instances, and proves the safety properties with TLAPS for every instance.

Line numbers refer to `src/`; `PROJECT.json` maps every definition to the lines it
models.

## 1. The system

| Part | State | Operations | Who else touches it |
|---|---|---|---|
| Driver pool, `neo4jclient/pool.go`, `driver.go` | `entries`: a driver per hash of scheme, address, user, password and auth; `stale`: retired drivers with a deadline; `mu` | `Get`, `Reconcile`, `CloseAll` | probes, slow-query requests, reloads, `main` on its way out |
| Capability cache, `neo4jclient/capabilities.go` | `Entry.caps`, `Entry.mu` | `Capabilities` (three queries without the lock) | every probe of the entry |
| Bolt queries, `neo4jclient/query.go` | none | `ExecRead` | collectors; the driver's connection pool |
| Probe handler, `probe/handler.go` | self-metrics: probes in flight, durations, outcomes | `ServeHTTP`: look up target and module, compute the timeout, call `Run`, count, write the registry | active configuration, pool, `/metrics` |
| Orchestrator, `probe/orchestrator.go` | `ProbeResult`, one registry per probe | `Run`, `selectCollectors`, `recordError` | one goroutine per collector |
| Probe context, bolt collector, `collector/collector.go`, `bolt.go` | the `up` flag | `SignalUp`, `MarkDown`, `Up` | bolt collector writes, `Run` reads |
| Configuration, `config/config.go`, `auth.go` | `Manager.current` (atomic), `Manager.mu` | `LoadFile`, `Reload`, `Get`, `FindTarget`, `Module`, password resolution | SIGHUP goroutine, `/-/reload` handlers, probes |
| Process, `cmd/neo4j-exporter/main.go` | `hupCh` (capacity 1) | signals, routes, shutdown | everything |
| Row collectors, `collector/transactions.go`, `indexes.go`, `constraints.go`, `apoc_meta.go`, `databases.go` | aggregates of one result | the loop over rows, label caps | the registry |
| Other Bolt collectors, `collector/server.go`, `apoc_*.go`, `coerce.go` | none | one gauge per column, conversions | the registry |
| Jolokia, `jolokiaclient/*.go`, `collector/jolokia.go` | HTTP client per probe | bulk read, mapping to series | the registry, `jolokia_attribute_errors_total` |
| Slow queries, `probe/slowqueries.go` | none | refusals, clamps of its parameters, one query, two output formats | pool, configuration |
| TLS settings, `config/tls.go` | none | a `tls.Config` from files | Jolokia client |
| Build information | none | constants | none |

How they interact. A request takes the active configuration once
(`handler.go:74`), resolves its target and module in it, derives a context with a
timeout and calls `Run`. `Run` gets an entry from the pool, asks its capability
cache, starts the selected collectors and waits for all of them. A reload swaps
the active configuration and then calls `Pool.Reconcile` with it. Shutdown makes
`ListenAndServe` return, upon which `main` returns and its deferred `CloseAll` closes
every driver that is in the pool then.

What is hard, and what correct means:

- *Pool.* Probes hold an entry long after `Get` has released the lock, while
  reloads drop it. Correct: no driver is closed under a probe whose context still
  runs, none is dropped without being closed later, the pool follows the configuration.
- *Capability cache.* Several first probes query at once and store in any order; a
  query may be lost half way. Correct: nothing is reported that the server never
  had, undisturbed answers are exact, a server that was down is asked again.
- *Probe.* Eleven collectors and other requests compete for four connections, the capability call
  eats into the budget, per-collector timeouts may exceed it. Correct: the probe
  ends within both timeouts, `up` says what bolt found, no goroutine outlives it.
- *Reload.* Files change between two reads, signals coalesce, reloads overlap,
  probes look things up in two steps. Correct: no older file comes back, the last
  signal counts, a failed reload changes nothing a probe can see.
- *Loading.* Defaults, five kinds of mistakes in modules, targets and credentials,
  names that are other targets' addresses. Correct: exactly the well-formed files are
  accepted (`default_target` is an exception, section 5), a driver can be built for what is
  accepted if its address makes a URI, credentials go where they belong.
- *Requests.* Handlers overlap, are turned away, wait for one lock under which drivers
  are built and closed. Correct: the exporter's own metrics add up, parameters are in range,
  only a `Close` that does not return can keep a request waiting.
- *Series.* The server and Go's maps order rows as they like, versions of APOC and the
  driver encode values differently, a bulk reply fails in parts. Correct: totals, caps,
  states and units depend on none of that.

`PROJECT.json` lists the 40 hazards behind this at their lines, each with the
properties that would catch it or the reason why none does.

## 2. Modules

| Module | What it is |
|---|---|
| `DriverPool` | the pool with its probes, reloaders, `main`, the clock and a password file |
| `DriverLease` | what the pool promises, without clocks, keys or lists |
| `DriverPoolProofs`, `DriverPoolRefinement` | theorems about `DriverPool` |
| `Capabilities` | the capability cache of one entry |
| `Orchestrator` | one request to `/probe` with its goroutines |
| `Lookup` | what the module of a probe depends on in a configuration |
| `ConfigReload` | the active configuration, its reloaders and readers; extends `Lookup` |
| `OrchestratorProofs`, `CapabilitiesProofs`, `ConfigReloadProofs` | theorems about these three |
| `ConfigLoad` | `LoadFile` and `FindTarget`, field by field |
| `Requests` | the HTTP side: concurrent requests, their answers, self-metrics and `Pool.mu` |
| `Series` | what loops over results have in common |
| `Coerce` | the conversions of values into numbers |
| `RowSeries` | the loops over Bolt rows with something to get wrong |
| `JolokiaSeries` | the bulk reply of Jolokia and the series made of it |
| `SlowSeries` | the page of slow queries |
| `MetricSeries` | these three as one specification |
| `ConfigLoadProofs`, `RequestsProofs`, `SeriesProofs` | theorems about `ConfigLoad`, `Requests`, `MetricSeries` |
| `MC*` | values for the constants of the module they extend |

**DriverPool.** `entries`, `stale` and `status` are `Pool.entries`, `Pool.stale` and the
drivers; `closing` is what `CloseAll` has copied out. Each body under `Pool.mu` is one
action (`GetHit`/`GetMiss`/`GetFails`, `Sweep`, `TakeAll`); what the code does before
it takes the lock is an action of its own: `HashTarget` reads the password file,
`ComputeKeep` computes the keep set and reads the clock, so that a probe or another
reloader can come in between. `NewDriver` resolves the password a second time, which
is why `GetMiss` may build a driver from another password than its key's. `Taken` is what
`CloseAll` takes; the map it leaves is in use until `Exit`, and what a probe puts there
is closed by nobody. `now` is
discrete; `Tick` does not let a reloader wait for `Pool.mu` longer than `LockDelay`. A
slow-query request uses the pool as a probe does and is one. `Exit` ends every
goroutine.

**DriverLease.** A driver is unused, live, retired or closed, and probes hold leases.
A retired driver is not lent again and is closed only when nobody holds it, until
the pool is stopped. The mapping: a driver in the map is live, an open one elsewhere
is retired, a probe holds its driver while its context runs.

**Capabilities.** One entry, its cache and the calls of concurrent probes; each query
is a step, with `Entry.mu` free in between. The server's plugins may change at any
time. `QueryLost` is the error that the code takes for absence. `probedAt` counts
reloads where the code keeps a time.

**Orchestrator.** `Init` is the handler up to the context; `GetEntry`/`DriverFails` is
`Pool.Get`, `StartCollectors` the return of `Capabilities` (with any result: a failed
call finds nothing) and the start of the goroutines. A collector makes `Rounds[c]`
calls one after the other; each waits for one of `Connections` connections, is
answered, fails, or is given up when its context or the acquisition timeout
expires. The driver belongs to the entry: up to `Others` of its connections may be held by
other probes and slow-query requests, which take them when they please (`OthersTake`). `recordError` is taken apart into its map operations, since it runs without
a lock: a map may be replaced by a later one, and of two writers to one map either the
runtime ends the process, or both entries are kept, or one is lost. `until[x]` is the deadline of the context goroutine `x` runs under.
`Tick` waits while somebody has something to do that takes no time.

**ConfigReload.** `Manager.Reload` is `Lock`, `ReadConfig`, `ExpandSecrets`, then `Swap` or
`ReloadFails`; edits of the two files, other reloaders and probes interleave with
them. A configuration file is a record of what look-ups depend on (`Lookup`): whether it
parses, its modules, its default module and the module each target names. `edit`
numbers the version of the file, to tell old from new. `Reconcile` stands for the
time the goroutine is busy with the pool before it takes the next signal.

**ConfigLoad.** A parsed file is a record; what may be missing is a set of at most one
element. `Defaults`, `CheckGlobal`, `CheckModule`, `CheckTarget` and `CheckDefaultTarget` are
`LoadFile` in its order, with Go's random order of the modules; each stops at its first
mistake. The disk gives each secret file its permission bits, and `ModeAllowed` is the bit
mask of `checkSecretFileMode`. Once loaded, requests look targets up. An address, a name
and a query are pairs of host and port, so that each may equal the other.
`DriverBuilds` and `ClientBuilds` are the conditions under which a probe's `NewDriver`,
`jolokiaclient.New` and `BuildTLSConfig` have no reason to fail; the constant `UriAddress` has
the addresses of which, behind a scheme, the Neo4j driver can make a URI. `WellFormed` is
what the reference asks of a file, `Proper` what is left of it without three of the things
it asks of `default_target`. `View` is the record of `Lookup`
that stands for a file.

**Requests.** Each request is a goroutine from `Arrive` to `Answer`, of one of five kinds.
What happens inside a probe is `Orchestrator`'s; here it has a driver or not, and finds
Neo4j up or not. `mu` is `Pool.mu`: `Size` and a `Get` that finds its driver (`GetEntry`) need it for a moment;
a `Get` that does not (`GetMiss`) keeps it while `NewDriver` reads the password file once
more, and gives it back with a driver (`GetBuilt`) or without (`GetFails`); `Reconcile` keeps it
while it closes a driver (`CloseReturns`). The three self-metrics are counters by
module; a duration is `elapsed`, or `negative` where `Finished` was never set. Integers from
the request or the configuration may be missing, malformed, out of range or NaN.

**Series, Coerce, RowSeries, JolokiaSeries, SlowSeries.** Each loop takes its rows in any
order and writes into `gauge`, a function from tuples of a metric and labels to values;
`Put` is `WithLabelValues(...).Set`. One column stands for each group of columns that are
treated alike; the comments say which. A value has a type (a Cypher duration, a Go
duration, a time, a number, a string that parses as one, ...) and a number; a Cypher duration
has months, days, seconds and nanoseconds, which `AsFloat64` and `DurSeconds` convert each for
itself. What they yield is `Giga` times the code's seconds, so that nanoseconds are whole
numbers; fractions of a number are left out. `JolokiaSeries` starts from the reply of the HTTP call; its responses come in
order, each good, an error, no map, or with attributes missing or -1.

## 3. Runs

| Run | Module | What it shows |
|---|---|---|
| `pool_drain` | MCDriverPool | `NoUseAfterClose`: no driver closed under a running probe; `HeldOnce`: no driver dropped or filed twice; `OwnServer`: no probe queries another target's server; the pool implements `DriverLease` |
| `pool_reload` | MCDriverPool | `ReclaimedByReloads`, `SettlesOnConfig`: if reloads keep coming, retired drivers are closed and the pool settles on the configuration; types; `ClosedAtExit`: what is open before `CloseAll` is closed at the end |
| `capabilities` | Capabilities | `NothingInvented`, `ExactUnlessDisturbed`, `EventuallyCached` |
| `probe` | MCOrchestrator | `WithinTimeout`, `UpIffBoltSucceeded`, `AllReported`, `Terminates`; `SomeFailureRecorded`: races in `recordError` lose entries, never all of them |
| `reload` | MCConfigReload | `ListedTargetHasModule`, `NeverOlder`; `NoSignalLost`: a goroutine that is idle has served the last signal; `LastHupLoaded`: it comes to that |
| `config` | MCConfigLoad | `VerdictExact`: accepted exactly if well-formed, or wrong in `default_target` only and there in one of three ways; `LoadedIsValid`: the record `ConfigReload` has in its place is valid and gives the same modules, no default is missing; `LoadedIsUsable`: a driver can be built for what is served, given a URI; `ListedReachable`, `OwnCredentials`: look-ups find the target and the credentials they should |
| `requests` | MCRequests | `InflightExact`, `RunsCounted`: self-metrics add up; `QueriesBounded`: clamped parameters; `AnsweredIfClosesReturn`, `AnsweredAnyway`: who can keep a request waiting |
| `series` | MCRowSeries | `TransactionTotals`, `IndexesBounded`, `MetaBounded`, `OneStatus`; `KernelDated`, `SlowAsProbed`: units of times and durations; `MBeansIndependent`, `GCFromOneBean`: partial and colliding Jolokia values |

Four more runs state what a document or a comment promises and the code does not do;
TLC finds the counterexample:

| Run | Promise | What happens |
|---|---|---|
| `pool_shutdown` | "graceful shutdown" | `main` does not wait for `srv.Shutdown`: drivers are closed under requests in flight |
| `capabilities_reload` | "reload invalidates the cache" | nothing calls `InvalidateCapabilities` |
| `probe_errors` | "Partial failures are recorded but do not abort the probe" | unlocked writes to one map: the process dies or an error is lost |
| `probe_up` | another collector's failure "does not flip `up`" | bolt waits for a connection others hold until it gives up |

### Bounds, and why they suffice

- `pool_drain`: two probes (one that keeps a driver, one that comes and goes), one
  reloader, two drivers, two addresses, two configurations of which one serves a
  target through `default_target`, `Grace` 2, `LockDelay` 1, `Budget` {1},
  clock up to 3. That is the smallest instance in which a driver is retired, a
  probe still runs on it, its deadline passes and a later sweep closes it while
  the other probe has built a second driver. `Budget + LockDelay <= Grace` holds as
  an equality, so an off-by-one would show. Drivers are never reused: the number of
  drivers bounds the misses of a run. Probes, reloaders and drivers are symmetric;
  all properties of this run are safety properties, so the reduction is sound.
- `pool_reload`: one probe, one reloader, no symmetry, a password file that can
  disappear. One reloader cannot show what overlapping reloads do to `SettlesOnConfig`; two
  are too many states for it. `ReclaimedByReloads` speaks of deadlines below `MaxTime`, the end of the
  modelled clock.
- `capabilities`: two probes, one version and one procedure, one reload.
- `probe`: bolt with two calls, jolokia and one APOC collector, one connection, so
  that any two Bolt calls compete, and another request that may hold it (`Others` 1; 0 in
  `probe_up` and `probe_errors`, whose counterexamples need none); a module with all collectors, one with a
  per-collector timeout above the probe's, one without bolt; the scrape timeout
  header absent or cutting the budget. The clock stops at 3, one above the longest
  timeout.
- `reload`: the SIGHUP goroutine and one handler, one probe, four file contents
  (a module, the same renamed, a dangling reference, a broken file), a secret that
  may vanish, two edits.
- `config`: 26 372 states from a family of files in which each place validate looks at is
  right and wrong in turn with plain values elsewhere: modules and default module;
  every combination of scheme, user name, password and file for one target and for
  `default_target`, with a file for each kind of mode, one missing, one with a
  certificate; Jolokia with and without authentication and TLS; two targets whose names
  and addresses may be each other's, with and without a `default_target`; an address that makes
  no URI, of a target and of a request. Mistakes are
  independent of each other but for the order in which they are found, so one or two at
  a time suffice; the theorems have all of them.
- `requests`: two requests out of some twenty, so that every pair of kinds meets; the
  bounds of `top` (0, 1, 1000, 1001) and of `min_seconds` (-1, 0, NaN); two
  configurations with settings out of range. Two requests suffice for a lock and for
  counters that are sums over requests; the theorems have any finite number.
- `series`: up to five transaction rows over two databases and a missing name, up to
  three indexes or constraints, four map entries with a cap of two, three databases, each
  encoding of three instants (the first that milliseconds can tell, one in the
  middle, the last that seconds can), Jolokia replies with up to two odd responses in any
  places, of every length that matters, three MBeans of which two share a label, two
  transactions with durations of each unit. 1000, 1e9, 1e10, the seconds of a day and of a
  month are scaled down (`Kilo`, `Giga`, `Large`, `Day` 24, `Month` 731) with their order and
  divisibility kept.

### Fairness

Only what the code's scheduling gives: goroutines that can run do run (weak fairness
of a probe's, a reloader's and `main`'s steps), the clock advances (strong in
`DriverPool`, where a wait for the lock holds it up for a moment), a call to a server
returns when its context expires, the reading of a password file returns, with the password
or without, `sync.Mutex` starves nobody (strong fairness of
`Lock`, and of a request's steps in `Requests`; Go's mutex hands over to a waiter after a
millisecond). `CloseReturns` has no fairness at all: that closes return is the premise of
`AnsweredIfClosesReturn`, and `AnsweredAnyway` does without. No server owes an
answer, nobody has to send a probe, edit a file, reload or stop the exporter: where
a property needs that, it is a premise of the property.

## 4. What is proved

TLAPS checks the following for all values of the constants, from the ASSUMEs of the
modules (sets have the shapes the comments say; times are natural numbers).

| Theorem | Statement | Argument |
|---|---|---|
| `DriverPoolProofs!TypeCorrect` | `Spec => []TypeOK` | with `LocalsOK`: what a goroutine's locals hold at each step |
| `DriverPoolProofs!DriversHeldOnce` | `Spec => []HeldOnce` | inductive, given types and locals |
| `DriverPoolProofs!ClosedAtShutdown` | `Spec => ClosedAtExit` | `Doomed`: after `TakeAll` a driver that was open is closed or in `closing` |
| `DriverPoolProofs!ProbesDrain` | `BudgetFits => (Spec => []NoUseAfterClose)` | see below |
| `DriverPoolProofs!ProbesOwnServer` | `Spec => []OwnServer` | `ServerInv`: an entry, and the key a probe has computed, are of the server they are used for |
| `DriverPoolRefinement!PoolImplementsLease` | `BudgetFits => (Spec => Lease!Spec)` | step by step, from the invariants above |
| `DriverPoolRefinement!RetiredDriversDrain` | `BudgetFits => (Spec => Lease!OnlyDrains)` | proved of the lease, carried over by the refinement |
| `OrchestratorProofs!ProbesEndInTime` | `Spec => []WithinTimeout` | `TimeInv` |
| `OrchestratorProofs!UpFollowsBolt`, `EveryoneReported`, `ProbeTypeCorrect` | `UpIffBoltSucceeded`, `AllReported`, `TypeOK` always hold | `UpInv`, `ReportInv` |
| `OrchestratorProofs!FailuresAreNoticed` | `Spec => []SomeFailureRecorded` | `RecordInv` |
| `OrchestratorProofs!UpIsAboutBoltAlone` | `EnoughConnections => (Spec => []UpIsAboutBolt)` | `BoltInv` |
| `ConfigReloadProofs!ReloadsMoveForward` | `Spec => NeverOlder` | `LockInv`, `EditInv` |
| `ConfigReloadProofs!ListedTargetsResolve`, `ReloadTypeCorrect` | `ListedTargetHasModule`, `TypeOK` always hold | `ProbeInv` |
| `ConfigReloadProofs!SignalsServed` | `Spec => []NoSignalLost` | `FreshInv`, `SignalInv` |
| `CapabilitiesProofs!CapabilitiesWereThere`, `UndisturbedAnswersAreExact`, `CacheTypeCorrect` | `NothingInvented`, `ExactUnlessDisturbed`, `TypeOK` always hold | `EverInv`, `FoundInv` |
| `ConfigLoadProofs!VerdictsExact`, `ConfigTypeCorrect`, `LoadedValid`, `LoadedUsable`, `TargetsReachable`, `CredentialsOwn` | `VerdictExact`, `TypeOK`, `LoadedIsValid`, `LoadedIsUsable`, `ListedReachable`, `OwnCredentials` always hold | `Staged`, `Judged`, `Answered` |
| `RequestsProofs!GaugeExact`, `CountersAddUp`, `RequestsTypeCorrect`, `SlowQueriesBounded` | `InflightExact`, `RunsCounted`, `TypeOK`, `QueriesBounded` always hold | `Each`, `Tallies` |
| `SeriesProofs!KernelStartDated`, `DatabasesInOneStatus`, `GCLabelsConsistent`, `PageAsProbe`, `MapsBounded`, `IndexesWithinCap`, `ConstraintsAddUp`, `TransactionsApart`, `TransactionsAddUp`, `RepliesWholeOrNot` | `KernelDated`, `OneStatus`, `GCFromOneBean`, `SlowAsProbed`, `MetaBounded`, `IndexesBounded`, `ConstraintsCounted`, `SlowApart`, `TransactionTotals`, `MBeansIndependent` always hold | one invariant per loop |

`ProbesDrain` is the theorem the 30 s grace is there for. It needs the assumption
`BudgetFits`: every probe timeout plus the wait between `time.Now()` and `Pool.mu` in
`Reconcile` fits in `Grace`. The code does not check it: with `timeout: 60s` in a module
the theorem says nothing, and a driver may indeed be closed under a probe. The
invariant relates clocks and lists: a running probe's deadline is at most its
longest budget away (`DeadlineInv`), a reloader's reading of the clock is at most
`LockDelay` old (`ClockInv`), and the driver a running probe uses is either in the map
or in the stale list with a deadline no earlier than the probe's (`StaleInv`). A sweep
closes only what is strictly past its deadline, hence past the probe's.

`RetiredDriversDrain` is why the abstract specification is worth having. That a retired
driver's probes only become fewer, and that it is never lent again, is three lines of proof
about the lease (`LeaseHeldOpen`, `LeaseOnlyDrains`), where there are no clocks, keys or
lists; since the pool implements the lease, it holds of the pool.

`ProbesEndInTime` rests on `TimeInv`: every context's deadline is within the request's,
and the clock has not passed the request's, because it stands still whenever a
goroutine has outlived its context. So the theorem says that nothing in the code makes
a probe outlive its timeout, given that calls return when their context expires. The
type invariant needs the same bound and is proved together with it.

Two theorems say how far the findings about the orchestrator go. `FailuresAreNoticed`:
although goroutines that fail together may replace each other's map or lose an entry
(`probe_errors`), the map that is left is never empty after a failure, so the handler's
warning is not lost, a single failure is recorded as it should be, and it takes two to end
the process. `RecordInv` has the reason: a map without an entry has a goroutine that is
about to write one into it, because whoever makes a map goes on to write. `UpIsAboutBoltAlone`:
the promise that `probe_up` refutes holds if the driver has a connection for every collector
of the probe but Jolokia's, beside all those that other requests of the same entry - overlapping
probes, slow queries - may hold (`EnoughConnections`). The default of 4 is less than one probe
with all collectors wants, so the theorem does not speak of the exporter as it comes; it says
what the promise hangs on. Then bolt finds a
connection whenever it waits for one, so time does not pass while it waits, and it fails only
by a call of its own (`BoltInv`).

`ReloadsMoveForward` is about two reloaders of which each reads the file before it
swaps: `LockInv` (whoever is between the two holds `Manager.mu`) makes sure nobody
swaps meanwhile, so what is being loaded stays no older than what is active (`EditInv`).
`ListedTargetsResolve` needs that the configuration a probe holds was validated
(`Valid`) and that the module it resolved is the one validation saw (`ProbeInv`).
`LoadedValid` is the other side of it and connects the two modules: the `View` of every file that
`LoadFile` accepts, field by field, is `Valid`, and `FindTarget` with its names, addresses, defaults
and copies of `default_target` answers with the module that `Lookup`'s three lines give for the
`View` (`ListedIs`, `ViewFinds`). So nothing is lost where `ConfigReload` knows only the record.

`SignalsServed` is the safety half of `LastHupLoaded`. The files do not change after the last
edit, so a reload that has read them since holds the same text and secret as they have
(`FreshInv`). `SignalInv` follows a signal sent since: it is in the channel, or the goroutine
is on its way with files it has yet to read, or with fresh ones, or they are active - and a
reload in between cannot bring back others, because of the lock.

`UndisturbedAnswersAreExact` says for each step of a call what it has found
(`FoundInv`); since every value that is stored is then the same, it does not matter
who stores last. `CapabilitiesWereThere` compares with everything the server ever had.

`VerdictsExact` compares two things that are written apart: the code's checks, one after
the other, on a configuration that is being filled in, and `WellFormed`, what the
configuration reference asks of a file as a whole. They do not agree on `default_target`: the
theorem has the three things that the reference asks of it and the code does not. `Staged` says how far the configuration
under construction is from `ApplyDefaults(text)`: the targets that were checked have their
module, the others not yet. `Judged` says that what was checked is good, and that a
rejected file is not. Nothing in it depends on the order of the modules. `Answered` is what
look-ups are proved from: the answer is `FindTarget` of the loaded configuration.

`GaugeExact` and `CountersAddUp` equate a counter with the cardinality of a set of
requests. `Tallies` has one such equation for each metric, `Each` where every request is
and what has been decided about it. Each step of a probe moves one request from one set to
another and changes one counter (`OneMore`, `OneLess`); every other step leaves all the sets
as they are (`SteadyTallies`). The set of requests must be finite.

The invariants of `SeriesProofs` describe `gauge` and `agg` half way through a loop by the rows
that have been taken, `Seen == rows \ todo`: which labels there are, whose values they
have, and, where the loop counts, that each aggregate is the cardinality of its group.
That is what makes them independent of the order. `ConstraintsCounted` and `SlowApart` are
proved and not part of a run.

`TransactionsAddUp` is about sums and maxima instead of counts. The sum of the community
modules is a fold, defined by recursion over sets, and the library's induction theorems cannot be
used (they take an operator), so the section "Sums over finite sets" proves what is needed from
a smallest counterexample - strict inclusion of finite sets is well-founded, which is a fact of
the library: that a function with the fold's equations exists, that there is one only, and that
a sum grows by the row that is added. `Aggregates` then says that what the loop has added up is
the total of the rows it has seen.

`PageAsProbe` compares two formulas that the code has in two places; it leaves numbers
without a unit out, on which they differ.

`RepliesWholeOrNot` goes through the seven requests of the bulk (`SevenRequests`): names of series that
come from different responses differ (`PrefixesApart`), so that what one response writes stays
as it is when the others are read.

Only model-checked is what TLAPS has no rules for, liveness under fairness and ENABLED:
`ReclaimedByReloads`, `SettlesOnConfig`, `EventuallyCached`, `Terminates`, `LastHupLoaded`,
`AnsweredIfClosesReturn`, `AnsweredAnyway`. Every invariant and action property that a run
checks is a theorem. The type invariants of `Orchestrator`, `Requests` and `ConfigLoad` are
proved and no longer part of a run.

## 5. Assumptions about the outside, and what is not modelled

- The Neo4j driver: a call returns when its context expires; a wait for a connection
  fails at the acquisition timeout and is not retried; `Close` takes no time in
  `DriverPool` (in the code it runs under `Pool.mu`; `Requests` is about one that blocks).
- Database names are unique in `SHOW DATABASES`, as they are on a single server; the keys of
  a map and the ids of transactions are unique; a row's columns have the types their
  query gives them.
- `apoc.monitor.kernel` dates a kernel later than 1e10 ms after 1970 (in April of that
  year) and not after 1e10 s: outside that range milliseconds and seconds cannot be told
  apart, and `KernelDated` would not hold.
- A reply of Jolokia is a list, and the numbers in it are integers after scaling
  (`ReplyAssumption`); transactions come in one row per database and status, finitely many,
  with counts and times that are not negative (`TxAssumption`), which is what the query's
  grouping gives.
- The process owns its secret and certificate files.
- The Go runtime may or may not notice concurrent map writes; both are modelled.
- Not modelled: YAML parsing and environment expansion beyond its failing; logging;
  `/health` and the landing page; flags; `attribute_errors_total`; the JSON output and the
  escaping of labels of `/slow-queries`; the translation of records into rows; the
  collectors that copy one column into one gauge (`server`, `apoc_store`, `apoc_tx`,
  `apoc_ids`), which have no case to get wrong; certificates and handshakes; build
  information. Read-only operations (`Pool.Size` but for its lock) and code without a
  caller (`InvalidateCapabilities`) have no action.
- Seen while modelling, and not a run: nothing but a later reload closes a retired driver,
  whereas docs/CONFIGURATION.md:157 says it "is closed after a 30s grace window" (so
  `ReclaimedByReloads` has later reloads as its premise); the pool's key leaves the database
  out, so targets of one server that differ only in it share the first one's (so `OwnServer`
  is about servers); a rotation between the two readings of `Get` leaves a driver with the new
  password under the old one's key, so that after a rotation back the server refuses that
  driver, though the comment at driver.go:49 has drivers shared by those with the same
  password; `CloseAll`, which "closes every driver" (pool.go:113), leaves open one that a probe in
  flight makes after it has let go of the lock; `default_target` may have `auth: none` and serve any
  address (config.go:266,414), which docs/CONFIGURATION.md:136 and config.go:370 rule out, and neither
  its module nor its jolokia block is validated (`VerdictExact` names the three); no address is
  validated, so one that makes no URI is accepted, and its probes fail (`LoadedIsUsable` exempts
  them); an elapsed time that is a number is milliseconds, or nanoseconds, to the page and seconds
  to the probe (`SlowAsProbed` exempts it);
  the reload timestamp gauge never changes, though its help text says "Unix timestamp of
  the last successful config (re)load" (main.go:182); a module's timeout may exceed
  `global.scrape_timeout`; negative timeouts and limits are accepted (`ConfigLoad` has them;
  `Orchestrator` starts from positive timeouts); a `ProcessCpuLoad` below 0, by which the JVM
  says that it does not know, is exported under a help text that says 0 to 1, whereas a
  negative load average or maximum is left out.

## 6. Plan

Done: the pool with its abstract specification, the capability cache, the
orchestrator, the reloads, the loading of files, the HTTP side with its metrics and its
lock, the series of the row collectors, of Jolokia and of the slow-query page; theorems
about each of them.

Open, in this order:

1. *Exporter*: `DriverPool` with `ConfigReload`'s reloaders, so that overlapping reloads
   reconcile in either order with either configuration, and a lease theorem for it.
2. *Liveness under a lease*: `AnsweredIfClosesReturn` with the several drivers of one sweep.
3. *Jolokia*: the retry-free transport against its own timeout and the probe's, composed
   with `Orchestrator`.

----------------------------- MODULE DriverPool -----------------------------
(***************************************************************************)
(* The pool of Neo4j drivers (internal/neo4jclient/pool.go) with the       *)
(* goroutines that use it: probes, which take a driver out of the pool and *)
(* query through it until their context expires; reloaders (the SIGHUP     *)
(* goroutine and the /-/reload handlers), which swap the configuration and *)
(* then reconcile the pool with it; and main, which closes every driver on *)
(* its way out.                                                            *)
(*                                                                         *)
(* Pool.mu makes the body of Get, of Reconcile and the swap of CloseAll    *)
(* atomic.  What those calls do outside the lock - read the configuration, *)
(* read the password file, read the clock - are steps of their own.        *)
(***************************************************************************)
EXTENDS Naturals, FiniteSets

CONSTANTS
  Probe,         \* the requests to /probe and /slow-queries that can be in flight
  Reloader,      \* the SIGHUP goroutine and the /-/reload handlers
  Driver,        \* the driver objects NewDriver can return (bounds the run)
  NoDriver,
  Target,        \* records [uri, secret, database]; uri stands for the scheme,
                 \* the address, the username and the auth mode
  NoTarget,
  Password,
  FromFile,      \* the secret of a target that has a password_file
  Unreadable,    \* what reading a missing password file yields
  FileContent,   \* what the password file may hold, Unreadable included
  Config,        \* the configurations that may be loaded:
                 \* [listed |-> targets:, discovered |-> what default_target serves]
  Budget,        \* the timeouts a probe's context may be given
  Grace,         \* Pool.Grace
  LockDelay,     \* the longest wait between time.Now() and Pool.mu in Reconcile
  MaxTime        \* bound on the clock

ASSUME TargetAssumption ==
  \A t \in Target : t.secret \in Password \cup {FromFile}

ASSUME SecretAssumption ==
  /\ FromFile \notin Password
  /\ Unreadable \notin Password
  /\ FileContent \subseteq Password \cup {Unreadable}

ASSUME ConfigAssumption ==
  \A c \in Config : c.listed \subseteq Target /\ c.discovered \subseteq Target

ASSUME TimeAssumption ==
  Grace \in Nat /\ LockDelay \in Nat /\ MaxTime \in Nat /\ Budget \subseteq Nat

ASSUME DriverAssumption == NoDriver \notin Driver

VARIABLES
  config,        \* the active configuration (Manager.current)
  passwordFile,  \* the content of the password file
  now,           \* the clock
  phase,         \* where main is: serving, stopping, closing or exited
  \* the pool
  entries,       \* Pool.entries: the driver under each key, or NoDriver
  stale,         \* Pool.stale
  closing,       \* the drivers CloseAll has taken and not closed yet
  \* the drivers
  status,        \* unused, open or closed
  bolt,          \* Entry.Bolt and Entry.Address: what the driver was built from
  \* the probes
  pc, target, key, driver, deadline,
  \* the reloaders
  rpc, keep, at

poolVars == <<entries, stale, closing>>
driverVars == <<status, bolt>>
probeVars == <<pc, target, key, driver, deadline>>
reloaderVars == <<rpc, keep, at>>
environmentVars == <<config, passwordFile, now, phase>>
vars == <<environmentVars, poolVars, driverVars, probeVars, reloaderVars>>

-----------------------------------------------------------------------------
(* What a target's settings resolve to.                                    *)

URI == {t.uri : t \in Target}

Key == [uri : URI, secret : Password]

\* What a driver is built from: a target with its secret resolved.
Bolt == [uri : URI, secret : Password, database : {t.database : t \in Target}]

\* Mutant: the password file is not read.
ResolveUnread(t) == t.secret

\* The password of t: the one in the configuration, or what the file holds now.
ResolveBoltPassword(t) == IF t.secret = FromFile THEN passwordFile ELSE t.secret

Readable(t) == ResolveBoltPassword(t) # Unreadable

\* Mutant: the key leaves the address out.
AuthHashBySecret(t) == [uri |-> CHOOSE u \in URI : TRUE, secret |-> ResolveBoltPassword(t)]

\* The pool key of t.  The database is not part of it.
AuthHash(t) == [uri |-> t.uri, secret |-> ResolveBoltPassword(t)]

\* The targets a probe can ask for under configuration c.
Reachable(c) == c.listed \cup c.discovered

\* The keys Reconcile keeps: those of the listed targets whose password it can
\* read.  A default_target contributes none.
KeptKeys(c) == {AuthHash(t) : t \in {u \in c.listed : Readable(u)}}

Pooled == {entries[k] : k \in Key} \ {NoDriver}

StaleDrivers == {s.driver : s \in stale}

-----------------------------------------------------------------------------
TypeOK ==
  /\ config \in Config
  /\ passwordFile \in FileContent
  /\ now \in 0 .. MaxTime
  /\ phase \in {"serving", "stopping", "closing", "exited"}
  /\ entries \in [Key -> Driver \cup {NoDriver}]
  /\ stale \in SUBSET [driver : Driver, deadline : Nat]
  /\ closing \in SUBSET Driver
  /\ status \in [Driver -> {"unused", "open", "closed"}]
  /\ bolt \in [Driver -> Bolt \cup {NoTarget}]
  /\ pc \in [Probe -> {"idle", "found", "hashed", "using"}]
  /\ target \in [Probe -> Target \cup {NoTarget}]
  /\ key \in [Probe -> Key \cup {NoTarget}]
  /\ driver \in [Probe -> Driver \cup {NoDriver}]
  /\ deadline \in [Probe -> Nat]
  /\ rpc \in [Reloader -> {"idle", "loaded", "keyed"}]
  /\ keep \in [Reloader -> SUBSET Key]
  /\ at \in [Reloader -> Nat]

Init ==
  /\ config \in Config
  /\ passwordFile \in FileContent
  /\ now = 0
  /\ phase = "serving"
  /\ entries = [k \in Key |-> NoDriver]
  /\ stale = {}
  /\ closing = {}
  /\ status = [d \in Driver |-> "unused"]
  /\ bolt = [d \in Driver |-> NoTarget]
  /\ pc = [p \in Probe |-> "idle"]
  /\ target = [p \in Probe |-> NoTarget]
  /\ key = [p \in Probe |-> NoTarget]
  /\ driver = [p \in Probe |-> NoDriver]
  /\ deadline = [p \in Probe |-> 0]
  /\ rpc = [r \in Reloader |-> "idle"]
  /\ keep = [r \in Reloader |-> {}]
  /\ at = [r \in Reloader |-> 0]

-----------------------------------------------------------------------------
(* A probe: Handler.ServeHTTP up to pool.Get, then the use of the entry.   *)

\* The handler returns and the probe's locals die.
Forget(p) ==
  /\ pc' = [pc EXCEPT ![p] = "idle"]
  /\ target' = [target EXCEPT ![p] = NoTarget]
  /\ key' = [key EXCEPT ![p] = NoTarget]
  /\ driver' = [driver EXCEPT ![p] = NoDriver]
  /\ deadline' = [deadline EXCEPT ![p] = 0]

\* Takes the active configuration, finds the target in it and starts the
\* context's timeout.
BeginProbe(p) ==
  /\ phase = "serving"
  /\ pc[p] = "idle"
  /\ \E t \in Reachable(config) : target' = [target EXCEPT ![p] = t]
  /\ \E b \in Budget : deadline' = [deadline EXCEPT ![p] = now + b]
  /\ pc' = [pc EXCEPT ![p] = "found"]
  /\ UNCHANGED <<key, driver, environmentVars, poolVars, driverVars, reloaderVars>>

\* Pool.Get computes the key before it takes the lock.
HashTarget(p) ==
  /\ pc[p] = "found"
  /\ Readable(target[p])
  /\ key' = [key EXCEPT ![p] = AuthHash(target[p])]
  /\ pc' = [pc EXCEPT ![p] = "hashed"]
  /\ UNCHANGED <<target, driver, deadline, environmentVars, poolVars,
                 driverVars, reloaderVars>>

\* The password file cannot be read: Get fails and so does the probe.
HashFails(p) ==
  /\ pc[p] = "found"
  /\ ~Readable(target[p])
  /\ Forget(p)
  /\ UNCHANGED <<environmentVars, poolVars, driverVars, reloaderVars>>

\* Get under the lock finds an entry.
GetHit(p) ==
  /\ pc[p] = "hashed"
  /\ entries[key[p]] # NoDriver
  /\ driver' = [driver EXCEPT ![p] = entries[key[p]]]
  /\ pc' = [pc EXCEPT ![p] = "using"]
  /\ UNCHANGED <<target, key, deadline, environmentVars, poolVars, driverVars,
                 reloaderVars>>

\* Get under the lock finds none.  NewDriver resolves the password again, and
\* the new entry goes under the key computed earlier.
GetMiss(p) ==
  /\ pc[p] = "hashed"
  /\ entries[key[p]] = NoDriver
  /\ Readable(target[p])
  /\ \E d \in Driver :
       /\ status[d] = "unused"
       /\ status' = [status EXCEPT ![d] = "open"]
       /\ bolt' = [bolt EXCEPT ![d] = [uri      |-> target[p].uri,
                                       secret   |-> ResolveBoltPassword(target[p]),
                                       database |-> target[p].database]]
       /\ entries' = [entries EXCEPT ![key[p]] = d]
       /\ driver' = [driver EXCEPT ![p] = d]
  /\ pc' = [pc EXCEPT ![p] = "using"]
  /\ UNCHANGED <<target, key, deadline, environmentVars, stale, closing,
                 reloaderVars>>

\* NewDriver cannot read the password that authHash read, or the address makes no
\* URI, which nobody has looked at before.
GetFails(p) ==
  /\ pc[p] = "hashed"
  /\ entries[key[p]] = NoDriver
  /\ Forget(p)
  /\ UNCHANGED <<environmentVars, poolVars, driverVars, reloaderVars>>

\* The collectors have returned and the response is written.
FinishProbe(p) ==
  /\ pc[p] = "using"
  /\ Forget(p)
  /\ UNCHANGED <<environmentVars, poolVars, driverVars, reloaderVars>>

-----------------------------------------------------------------------------
(* A reload: Manager.Reload, then pool.Reconcile(ctx, mgr.Get().Targets).  *)

\* Manager.Reload succeeds; a failed one changes nothing and is not followed
\* by Reconcile.
Reload(r) ==
  /\ phase # "exited"
  /\ rpc[r] = "idle"
  /\ config' \in Config
  /\ rpc' = [rpc EXCEPT ![r] = "loaded"]
  /\ UNCHANGED <<passwordFile, now, phase, poolVars, driverVars, probeVars, keep, at>>

\* Reconcile is called with the configuration active by then, hashes its
\* listed targets and reads the clock, all before it takes the lock.
ComputeKeep(r) ==
  /\ rpc[r] = "loaded"
  /\ keep' = [keep EXCEPT ![r] = KeptKeys(config)]
  /\ at' = [at EXCEPT ![r] = now]
  /\ rpc' = [rpc EXCEPT ![r] = "keyed"]
  /\ UNCHANGED <<environmentVars, poolVars, driverVars, probeVars>>

\* Mutants of the sweep: the kept keys are dropped, a deleted entry is not queued,
\* a queued one is not deleted, the deadline is ignored, the comparison is swapped.
DroppedInverted(r) == {k \in keep[r] : entries[k] # NoDriver}
RetiredNone(r) == {}
RemainingAll(r) == entries
DueAlways(r) == stale
DueSwapped(r) == {s \in stale : at[r] < s.deadline}

\* The keys r's sweep drops from the map.
Dropped(r) == {k \in Key \ keep[r] : entries[k] # NoDriver}

\* Their drivers, as they enter the stale list.
Retired(r) ==
  [driver : {entries[k] : k \in Dropped(r)}, deadline : {at[r] + Grace}]

\* The map without them.
Remaining(r) == [k \in Key |-> IF k \in Dropped(r) THEN NoDriver ELSE entries[k]]

\* The stale drivers r's sweep closes: now.After(s.deadline).
Due(r) == {s \in stale : at[r] > s.deadline}

\* Reconcile under the lock: entries without a kept key become stale, and the
\* stale ones that are due are closed.
Sweep(r) ==
  /\ rpc[r] = "keyed"
  /\ stale' = (stale \ Due(r)) \cup Retired(r)
  /\ entries' = Remaining(r)
  /\ status' = [d \in Driver |->
                  IF d \in {s.driver : s \in Due(r)} THEN "closed" ELSE status[d]]
  /\ rpc' = [rpc EXCEPT ![r] = "idle"]
  /\ keep' = [keep EXCEPT ![r] = {}]
  /\ at' = [at EXCEPT ![r] = 0]
  /\ UNCHANGED <<environmentVars, closing, bolt, probeVars>>

-----------------------------------------------------------------------------
(* Shutdown: srv.Shutdown makes ListenAndServe return, main returns, and   *)
(* the deferred CloseAll runs.  Nothing waits for the probes in flight.    *)

StopServing ==
  /\ phase = "serving"
  /\ phase' = "stopping"
  /\ UNCHANGED <<config, passwordFile, now, poolVars, driverVars, probeVars,
                 reloaderVars>>

\* Mutant: CloseAll forgets the stale list.
TakenLive == Pooled

\* What CloseAll takes out of the pool.
Taken == Pooled \cup StaleDrivers

\* CloseAll under the lock.  The map it leaves is empty but in use: a probe may still
\* put a driver into it, which nobody will close.
TakeAll ==
  /\ phase = "stopping"
  /\ phase' = "closing"
  /\ closing' = Taken
  /\ entries' = [k \in Key |-> NoDriver]
  /\ stale' = {}
  /\ UNCHANGED <<config, passwordFile, now, driverVars, probeVars, reloaderVars>>

\* CloseAll without the lock: close them one after the other.
CloseOne(d) ==
  /\ phase = "closing"
  /\ d \in closing
  /\ closing' = closing \ {d}
  /\ status' = [status EXCEPT ![d] = "closed"]
  /\ UNCHANGED <<environmentVars, entries, stale, bolt, probeVars, reloaderVars>>

\* The process ends, with every goroutine in it.
Exit ==
  /\ phase = "closing"
  /\ closing = {}
  /\ phase' = "exited"
  /\ pc' = [p \in Probe |-> "idle"]
  /\ target' = [p \in Probe |-> NoTarget]
  /\ key' = [p \in Probe |-> NoTarget]
  /\ driver' = [p \in Probe |-> NoDriver]
  /\ deadline' = [p \in Probe |-> 0]
  /\ rpc' = [r \in Reloader |-> "idle"]
  /\ keep' = [r \in Reloader |-> {}]
  /\ at' = [r \in Reloader |-> 0]
  /\ UNCHANGED <<config, passwordFile, now, poolVars, driverVars>>

Exited == phase = "exited" /\ UNCHANGED vars

-----------------------------------------------------------------------------
(* The environment.                                                        *)

\* Time passes, but not while a reloader has been waiting for Pool.mu for
\* LockDelay already.
Tick ==
  /\ phase # "exited"
  /\ now < MaxTime
  /\ \A r \in Reloader : rpc[r] = "keyed" => now < at[r] + LockDelay
  /\ now' = now + 1
  /\ UNCHANGED <<config, passwordFile, phase, poolVars, driverVars, probeVars,
                 reloaderVars>>

\* Somebody rotates the password file, or takes it away.
RotatePassword ==
  /\ phase # "exited"
  /\ passwordFile' \in FileContent \ {passwordFile}
  /\ UNCHANGED <<config, now, phase, poolVars, driverVars, probeVars, reloaderVars>>

-----------------------------------------------------------------------------
ProbeStep(p) ==
  \/ HashTarget(p) \/ HashFails(p)
  \/ GetHit(p) \/ GetMiss(p) \/ GetFails(p)
  \/ FinishProbe(p)

ReconcileStep(r) == ComputeKeep(r) \/ Sweep(r)

MainStep == TakeAll \/ (\E d \in Driver : CloseOne(d)) \/ Exit

Next ==
  \/ \E p \in Probe : BeginProbe(p) \/ ProbeStep(p)
  \/ \E r \in Reloader : Reload(r) \/ ReconcileStep(r)
  \/ StopServing \/ MainStep \/ Exited
  \/ Tick \/ RotatePassword

Spec == Init /\ [][Next]_vars

\* Goroutines that can run do run.  Time passes whatever the reloaders do, so the
\* clock's fairness is strong: a wait for the lock disables Tick only for a while.
\* Nobody is obliged to send a probe, to reload, to rotate a password or to stop
\* the exporter.
FairSpec ==
  /\ Spec
  /\ \A p \in Probe : WF_vars(ProbeStep(p))
  /\ \A r \in Reloader : WF_vars(ReconcileStep(r))
  /\ WF_vars(MainStep)
  /\ SF_vars(Tick)

-----------------------------------------------------------------------------
(* Properties.                                                             *)

\* p is querying through its driver and its context has not expired.
InFlight(p) == pc[p] = "using" /\ now < deadline[p]

\* Until main starts closing the pool, no probe whose context is still running
\* has its driver closed under it: the grace period of Reconcile outlasts every
\* probe that got the entry before the reload (pool.go:98-109).
NoUseAfterClose ==
  phase \in {"serving", "stopping"} =>
    \A p \in Probe : InFlight(p) => status[driver[p]] = "open"

\* Every open driver is in exactly one place - under one key of the map, in the stale
\* list once, or in CloseAll's hands - and everything in those places is open.  No
\* reload or miss drops a driver or files it twice, so that until main closes the pool
\* each is where a reload or CloseAll finds it; what a probe puts into the map after
\* that, nobody does (pool.go:70-111, 115-128).
HeldOnce ==
  /\ {d \in Driver : status[d] = "open"} = Pooled \cup StaleDrivers \cup closing
  /\ Pooled \cap (StaleDrivers \cup closing) = {}
  /\ StaleDrivers \cap closing = {}
  /\ \A k1, k2 \in Key : entries[k1] = entries[k2] => k1 = k2 \/ entries[k1] = NoDriver
  /\ \A s1, s2 \in stale : s1.driver = s2.driver => s1 = s2

\* Whatever is open before CloseAll takes the map and the stale list, retired drivers
\* included, is closed when the process ends.  A driver that a probe in flight makes
\* after that is not: CloseAll does not know it (pool.go:114-128, main.go:57).
ClosedAtExit ==
  \A d \in Driver :
    [](phase \in {"serving", "stopping"} /\ status[d] = "open"
         => [](phase = "exited" => status[d] = "closed"))

\* A probe queries the server of the target it has looked up, through a driver that
\* another probe may have made for another target, another configuration or another
\* content of the password file.  The database may be another target's: the key leaves
\* it out (driver.go:59, pool.go:65-81).
OwnServer == \A p \in Probe : pc[p] = "using" => bolt[driver[p]].uri = target[p].uri

\* The pool as DriverLease sees it.
LifeOf(d) ==
  IF status[d] # "open" THEN status[d]
  ELSE IF d \in Pooled THEN "live" ELSE "retired"

LeaseLife == [d \in Driver |-> LifeOf(d)]
LeaseHeld == [p \in Probe |-> IF InFlight(p) THEN driver[p] ELSE NoDriver]
LeaseStopped == phase \in {"closing", "exited"}

Lease == INSTANCE DriverLease WITH
  life <- LeaseLife, lease <- LeaseHeld, stopped <- LeaseStopped

\* The pool implements the abstract lease: a retired driver is never handed out
\* again and is closed only when no unexpired probe holds it.
ImplementsLease == Lease!Spec

\* If reloads keep coming, a driver whose grace period ends within the run's
\* clock is eventually closed: Reconcile is the only thing that closes it
\* (pool.go:102-110).
ReclaimedByReloads ==
  ([]<><<\E r \in Reloader : Sweep(r)>>_vars) =>
    \A d \in Driver :
      (\E s \in stale : s.driver = d /\ s.deadline < MaxTime) ~> (status[d] = "closed")

\* If the configuration stops changing while reloads keep coming, the pool ends
\* up without an entry for a target that configuration cannot reach, although a
\* probe that looked its target up before the change may put one back after the
\* reload's sweep (handler.go:74, pool.go:96-101).
SettlesOnConfig ==
  \A c \in Config :
    (<>[](config = c) /\ []<><<\E r \in Reloader : Sweep(r)>>_vars) =>
      <>[](\A k \in Key :
             entries[k] # NoDriver => k.uri \in {t.uri : t \in Reachable(c)})

-----------------------------------------------------------------------------
(* What the documentation says, and the code does not do.                  *)

\* cmd/neo4j-exporter/main.go:133, "SIGINT/SIGTERM -> graceful shutdown": main
\* does not close the drivers of probes that are still in flight.
GracefulShutdown ==
  phase \in {"closing", "exited"} =>
    \A p \in Probe : InFlight(p) => status[driver[p]] = "open"

=============================================================================

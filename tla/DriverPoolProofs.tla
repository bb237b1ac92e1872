-------------------------- MODULE DriverPoolProofs --------------------------
(***************************************************************************)
(* Theorems about DriverPool, for any number of probes, reloaders, drivers *)
(* and targets and any configurations, timeouts and clock bound.           *)
(*                                                                         *)
(* TypeOK is inductive with LocalsOK, which says what a goroutine's locals *)
(* hold at each of its steps; HeldOnce is inductive given those.           *)
(***************************************************************************)
EXTENDS DriverPool, TLAPS

\* What a probe knows at each step of its request.
LocalsOK ==
  \A p \in Probe :
    /\ pc[p] # "idle" => target[p] \in Target
    /\ pc[p] \in {"hashed", "using"} => key[p] \in Key
    /\ pc[p] = "using" => driver[p] \in Driver

\* Resolving a readable target's secret yields a password, so that its hash is
\* a key and its driver's settings are in Bolt.
LEMMA ResolvedSecret ==
  ASSUME NEW t \in Target, passwordFile \in FileContent, Readable(t)
  PROVE  /\ ResolveBoltPassword(t) \in Password
         /\ AuthHash(t) \in Key
<1>1. ResolveBoltPassword(t) \in Password
  BY TargetAssumption, SecretAssumption DEF Readable, ResolveBoltPassword
<1>2. t.uri \in URI
  BY DEF URI
<1> QED
  BY <1>1, <1>2 DEF AuthHash, Key

\* Reconcile's keep set holds keys only.
LEMMA KeptKeysAreKeys ==
  ASSUME config \in Config, passwordFile \in FileContent
  PROVE  KeptKeys(config) \subseteq Key
<1>1. ASSUME NEW t \in config.listed, Readable(t) PROVE AuthHash(t) \in Key
  <2>1. t \in Target
    BY ConfigAssumption
  <2> QED
    BY <2>1, <1>1, ResolvedSecret
<1> QED
  BY <1>1 DEF KeptKeys

THEOREM InitTypes == Init => TypeOK /\ LocalsOK
  BY TimeAssumption DEF Init, TypeOK, LocalsOK

\* A step of a probe keeps every variable in its type and the locals meaningful.
LEMMA ProbeStepTypes ==
  ASSUME TypeOK, LocalsOK, NEW p \in Probe, BeginProbe(p) \/ ProbeStep(p)
  PROVE  TypeOK' /\ LocalsOK'
<1>1. CASE BeginProbe(p)
  <2>1. PICK t \in Reachable(config) : target' = [target EXCEPT ![p] = t]
    BY <1>1 DEF BeginProbe
  <2>2. PICK b \in Budget : deadline' = [deadline EXCEPT ![p] = now + b]
    BY <1>1 DEF BeginProbe
  <2>3. t \in Target /\ now + b \in Nat
    BY ConfigAssumption, TimeAssumption DEF TypeOK, Reachable
  <2> QED
    BY <1>1, <2>1, <2>2, <2>3
    DEF BeginProbe, TypeOK, LocalsOK, environmentVars, poolVars, driverVars, reloaderVars
<1>2. CASE HashTarget(p)
  <2>1. AuthHash(target[p]) \in Key
    BY <1>2, ResolvedSecret DEF HashTarget, TypeOK, LocalsOK
  <2> QED
    BY <1>2, <2>1
    DEF HashTarget, TypeOK, LocalsOK, environmentVars, poolVars, driverVars, reloaderVars
<1>3. CASE GetHit(p)
  <2>1. key[p] \in Key /\ entries[key[p]] \in Driver
    BY <1>3 DEF GetHit, TypeOK, LocalsOK
  <2> QED
    BY <1>3, <2>1
    DEF GetHit, TypeOK, LocalsOK, environmentVars, poolVars, driverVars, reloaderVars
<1>4. CASE GetMiss(p)
  <2> DEFINE built == [uri      |-> target[p].uri,
                       secret   |-> ResolveBoltPassword(target[p]),
                       database |-> target[p].database]
  <2>1. PICK d \in Driver :
          /\ status' = [status EXCEPT ![d] = "open"]
          /\ bolt' = [bolt EXCEPT ![d] = built]
          /\ entries' = [entries EXCEPT ![key[p]] = d]
          /\ driver' = [driver EXCEPT ![p] = d]
    BY <1>4 DEF GetMiss
  <2>2. key[p] \in Key /\ target[p] \in Target
    BY <1>4 DEF GetMiss, LocalsOK
  <2>3. built \in Bolt
    BY <1>4, <2>2, ResolvedSecret DEF GetMiss, TypeOK, Bolt, URI
  <2> QED
    BY <1>4, <2>1, <2>2, <2>3
    DEF GetMiss, TypeOK, LocalsOK, environmentVars, reloaderVars
<1>5. CASE HashFails(p) \/ GetFails(p) \/ FinishProbe(p)
  BY <1>5
  DEF HashFails, GetFails, FinishProbe, Forget, TypeOK, LocalsOK, environmentVars,
      poolVars, driverVars, reloaderVars
<1> QED
  BY <1>1, <1>2, <1>3, <1>4, <1>5 DEF ProbeStep

\* So does a step of a reloader.
LEMMA ReloaderStepTypes ==
  ASSUME TypeOK, LocalsOK, NEW r \in Reloader, Reload(r) \/ ReconcileStep(r)
  PROVE  TypeOK' /\ LocalsOK'
<1>1. CASE Reload(r)
  BY <1>1 DEF Reload, TypeOK, LocalsOK, poolVars, driverVars, probeVars
<1>2. CASE ComputeKeep(r)
  <2>1. KeptKeys(config) \in SUBSET Key
    BY KeptKeysAreKeys DEF TypeOK
  <2>2. now \in Nat
    BY TimeAssumption DEF TypeOK
  <2> QED
    BY <1>2, <2>1, <2>2
    DEF ComputeKeep, TypeOK, LocalsOK, environmentVars, poolVars, driverVars, probeVars
<1>3. CASE Sweep(r)
  <2>1. Retired(r) \in SUBSET [driver : Driver, deadline : Nat]
    BY TimeAssumption DEF Retired, Dropped, TypeOK
  <2>2. Remaining(r) \in [Key -> Driver \cup {NoDriver}]
    BY DEF Remaining, TypeOK
  <2> QED
    BY <1>3, <2>1, <2>2
    DEF Sweep, TypeOK, LocalsOK, environmentVars, poolVars, driverVars, probeVars
<1> QED
  BY <1>1, <1>2, <1>3 DEF ReconcileStep

\* And the steps of main and of the environment.
LEMMA MainStepTypes ==
  ASSUME TypeOK, LocalsOK,
         StopServing \/ MainStep \/ Exited \/ Tick \/ RotatePassword
  PROVE  TypeOK' /\ LocalsOK'
<1>1. CASE StopServing
  BY <1>1 DEF StopServing, TypeOK, LocalsOK, poolVars, driverVars, probeVars, reloaderVars
<1>2. CASE TakeAll
  <2>1. Pooled \cup StaleDrivers \in SUBSET Driver
    BY DEF Pooled, StaleDrivers, TypeOK
  <2> QED
    BY <1>2, <2>1
    DEF TakeAll, Taken, TypeOK, LocalsOK, driverVars, probeVars, reloaderVars
<1>3. ASSUME NEW d \in Driver, CloseOne(d) PROVE TypeOK' /\ LocalsOK'
  BY <1>3 DEF CloseOne, TypeOK, LocalsOK, environmentVars, probeVars, reloaderVars
<1>4. CASE Exit
  BY <1>4 DEF Exit, TypeOK, LocalsOK, poolVars, driverVars
<1>5. CASE Exited
  BY <1>5 DEF Exited, TypeOK, LocalsOK, vars, environmentVars, poolVars, driverVars,
      probeVars, reloaderVars
<1>6. CASE Tick
  <2>1. now' \in 0 .. MaxTime
    BY <1>6, TimeAssumption DEF Tick, TypeOK
  <2> QED
    BY <1>6, <2>1 DEF Tick, TypeOK, LocalsOK, poolVars, driverVars, probeVars, reloaderVars
<1>7. CASE RotatePassword
  BY <1>7 DEF RotatePassword, TypeOK, LocalsOK, poolVars, driverVars, probeVars, reloaderVars
<1> QED
  BY <1>1, <1>2, <1>3, <1>4, <1>5, <1>6, <1>7 DEF MainStep

LEMMA NextTypes == TypeOK /\ LocalsOK /\ [Next]_vars => TypeOK' /\ LocalsOK'
<1> SUFFICES ASSUME TypeOK, LocalsOK, [Next]_vars PROVE TypeOK' /\ LocalsOK'
  OBVIOUS
<1>1. CASE UNCHANGED vars
  BY <1>1 DEF TypeOK, LocalsOK, vars, environmentVars, poolVars, driverVars, probeVars,
      reloaderVars
<1>2. CASE Next
  BY <1>2, ProbeStepTypes, ReloaderStepTypes, MainStepTypes DEF Next
<1> QED
  BY <1>1, <1>2

LEMMA TypesHold == Spec => [](TypeOK /\ LocalsOK)
  BY InitTypes, NextTypes, PTL DEF Spec

\* Every variable always has its type, whatever the interleaving.
THEOREM TypeCorrect == Spec => []TypeOK
  BY TypesHold, PTL

-----------------------------------------------------------------------------
(* No driver is lost or filed twice.                                       *)

\* A step that leaves the pool and the drivers alone.
LEMMA HeldOnceUnchanged ==
  ASSUME HeldOnce, UNCHANGED <<entries, stale, closing, status>>
  PROVE  HeldOnce'
  BY DEF HeldOnce, Pooled, StaleDrivers

\* A driver added to the map by a miss was unused, so it was nowhere before.
LEMMA HeldOnceGetMiss ==
  ASSUME TypeOK, LocalsOK, HeldOnce, NEW p \in Probe, GetMiss(p)
  PROVE  HeldOnce'
<1>1. PICK d \in Driver :
        /\ status[d] = "unused"
        /\ status' = [status EXCEPT ![d] = "open"]
        /\ entries' = [entries EXCEPT ![key[p]] = d]
  BY DEF GetMiss
<1>2. key[p] \in Key /\ entries[key[p]] = NoDriver /\ UNCHANGED <<stale, closing>>
  BY DEF GetMiss, LocalsOK
<1>3. d \notin Pooled \cup StaleDrivers \cup closing
  BY <1>1 DEF HeldOnce
<1>4. Pooled' = Pooled \cup {d}
  BY <1>1, <1>2, DriverAssumption DEF Pooled, TypeOK
<1>5. StaleDrivers' = StaleDrivers
  BY <1>2 DEF StaleDrivers
<1>6. {e \in Driver : status'[e] = "open"} = {e \in Driver : status[e] = "open"} \cup {d}
  BY <1>1 DEF TypeOK
<1>7. \A k \in Key : entries[k] # d
  BY <1>3, DriverAssumption DEF Pooled
<1>8. \A k1, k2 \in Key :
        entries'[k1] = entries'[k2] => k1 = k2 \/ entries'[k1] = NoDriver
  BY <1>1, <1>2, <1>7 DEF HeldOnce, TypeOK
<1> QED
  BY <1>2, <1>3, <1>4, <1>5, <1>6, <1>8 DEF HeldOnce

\* A sweep moves drivers from the map to the stale list and closes the due ones.
LEMMA HeldOnceSweep ==
  ASSUME TypeOK, HeldOnce, NEW r \in Reloader, Sweep(r)
  PROVE  HeldOnce'
<1> DEFINE dropped == {entries[k] : k \in Dropped(r)}
           due == {s.driver : s \in Due(r)}
<1>1. dropped \subseteq Pooled
  BY DEF Dropped, Pooled
<1>2. Pooled' = Pooled \ dropped
  BY DEF Sweep, Remaining, Dropped, Pooled, HeldOnce
<1>3. StaleDrivers' = (StaleDrivers \ due) \cup dropped
  <2>1. {s.driver : s \in Retired(r)} = dropped
    <3>1. \A d \in dropped : [driver |-> d, deadline |-> at[r] + Grace] \in Retired(r)
      BY DEF Retired
    <3>2. \A s \in Retired(r) : s.driver \in dropped
      BY DEF Retired
    <3>3. \A d \in dropped : \E s \in Retired(r) : s.driver = d
      BY <3>1
    <3> QED
      BY <3>2, <3>3
  <2>2. {s.driver : s \in stale \ Due(r)} = StaleDrivers \ due
    BY DEF Due, StaleDrivers, HeldOnce
  <2>3. StaleDrivers' = {s.driver : s \in stale \ Due(r)} \cup {s.driver : s \in Retired(r)}
    BY DEF Sweep, StaleDrivers
  <2> QED
    BY <2>1, <2>2, <2>3
<1>4. due \subseteq StaleDrivers
  BY DEF Due, StaleDrivers
<1>5. {d \in Driver : status'[d] = "open"} = {d \in Driver : status[d] = "open"} \ due
  BY DEF Sweep, TypeOK
<1>6. closing' = closing
  BY DEF Sweep
<1>7. \A k1, k2 \in Key :
        entries'[k1] = entries'[k2] => k1 = k2 \/ entries'[k1] = NoDriver
  BY DEF Sweep, Remaining, HeldOnce
<1>8. \A s1, s2 \in stale' : s1.driver = s2.driver => s1 = s2
  <2> SUFFICES ASSUME NEW s1 \in stale', NEW s2 \in stale', s1.driver = s2.driver
               PROVE  s1 = s2
    OBVIOUS
  <2>1. CASE s1 \in stale /\ s2 \in stale
    BY <2>1 DEF HeldOnce
  <2>2. CASE s1 \in Retired(r) /\ s2 \in Retired(r)
    BY <2>2 DEF Retired
  <2>3. \A s \in stale : s.driver \notin dropped
    BY <1>1 DEF HeldOnce, StaleDrivers
  <2>4. \A s \in Retired(r) : s.driver \in dropped
    BY DEF Retired
  <2> QED
    BY <2>1, <2>2, <2>3, <2>4 DEF Sweep
<1> QED
  BY <1>1, <1>2, <1>3, <1>4, <1>5, <1>6, <1>7, <1>8 DEF HeldOnce

\* CloseAll takes what is in the map and the stale list, and closes one by one.
LEMMA HeldOnceCloseAll ==
  ASSUME TypeOK, HeldOnce, closing # {} => phase = "closing",
         TakeAll \/ \E d \in Driver : CloseOne(d)
  PROVE  HeldOnce'
<1>1. CASE TakeAll
  <2>1. Pooled' = {} /\ StaleDrivers' = {} /\ closing' = Pooled \cup StaleDrivers
    BY <1>1 DEF TakeAll, Taken, Pooled, StaleDrivers
  <2>2. closing = {} /\ status' = status /\ stale' = {} /\ entries' = [k \in Key |-> NoDriver]
    BY <1>1 DEF TakeAll, driverVars
  <2> QED
    BY <2>1, <2>2 DEF HeldOnce
<1>2. ASSUME NEW d \in Driver, CloseOne(d) PROVE HeldOnce'
  <2>1. /\ closing' = closing \ {d} /\ d \in closing
        /\ Pooled' = Pooled /\ StaleDrivers' = StaleDrivers
        /\ UNCHANGED <<entries, stale>>
    BY <1>2 DEF CloseOne, Pooled, StaleDrivers
  <2>2. {e \in Driver : status'[e] = "open"} = {e \in Driver : status[e] = "open"} \ {d}
    BY <1>2 DEF CloseOne, TypeOK
  <2> QED
    BY <2>1, <2>2 DEF HeldOnce
<1> QED
  BY <1>1, <1>2

\* CloseAll's drivers are there only while it runs.
ClosingOK == closing # {} => phase = "closing"

PoolInv == TypeOK /\ LocalsOK /\ HeldOnce /\ ClosingOK

LEMMA InitHeldOnce == Init => HeldOnce /\ ClosingOK
  BY DEF Init, HeldOnce, Pooled, StaleDrivers, ClosingOK

LEMMA NextHeldOnce ==
  ASSUME PoolInv, [Next]_vars
  PROVE  HeldOnce' /\ ClosingOK'
<1> USE DEF PoolInv
<1>1. CASE UNCHANGED vars
  BY <1>1, HeldOnceUnchanged DEF vars, environmentVars, poolVars, driverVars, ClosingOK
<1>2. ASSUME NEW p \in Probe, BeginProbe(p) \/ ProbeStep(p)
      PROVE  HeldOnce' /\ ClosingOK'
  <2>1. CASE GetMiss(p)
    BY <2>1, HeldOnceGetMiss DEF GetMiss, ClosingOK, environmentVars
  <2>2. CASE ~GetMiss(p)
    BY <1>2, <2>2, HeldOnceUnchanged
    DEF ProbeStep, BeginProbe, HashTarget, HashFails, GetHit, GetFails, FinishProbe,
        environmentVars, poolVars, driverVars, ClosingOK
  <2> QED
    BY <2>1, <2>2
<1>3. ASSUME NEW r \in Reloader, Reload(r) \/ ReconcileStep(r)
      PROVE  HeldOnce' /\ ClosingOK'
  <2>1. CASE Sweep(r)
    BY <2>1, HeldOnceSweep DEF Sweep, ClosingOK, environmentVars
  <2>2. CASE ~Sweep(r)
    BY <1>3, <2>2, HeldOnceUnchanged
    DEF ReconcileStep, Reload, ComputeKeep, environmentVars, poolVars, driverVars, ClosingOK
  <2> QED
    BY <2>1, <2>2
<1>4. CASE TakeAll \/ \E d \in Driver : CloseOne(d)
  <2>1. HeldOnce'
    BY <1>4, HeldOnceCloseAll DEF ClosingOK
  <2> QED
    BY <1>4, <2>1 DEF TakeAll, CloseOne, environmentVars, ClosingOK
<1>5. CASE StopServing \/ Exit \/ Exited \/ Tick \/ RotatePassword
  BY <1>5, HeldOnceUnchanged
  DEF StopServing, Exit, Exited, Tick, RotatePassword, vars, environmentVars, poolVars,
      driverVars, ClosingOK
<1> QED
  BY <1>1, <1>2, <1>3, <1>4, <1>5 DEF Next, MainStep

LEMMA PoolInvHolds == Spec => []PoolInv
<1>1. Init => PoolInv
  BY InitTypes, InitHeldOnce DEF PoolInv
<1>2. PoolInv /\ [Next]_vars => PoolInv'
  BY NextTypes, NextHeldOnce DEF PoolInv
<1> QED
  BY <1>1, <1>2, PTL DEF Spec

\* No interleaving of misses, sweeps and CloseAll takes an open driver out of the map
\* without filing it, files one in two places or leaves a closed one where a probe
\* could get it.  It does not say that somebody still empties the place.
THEOREM DriversHeldOnce == Spec => []HeldOnce
<1>1. PoolInv => HeldOnce
  BY DEF PoolInv
<1> QED
  BY <1>1, PoolInvHolds, PTL

-----------------------------------------------------------------------------
(* No probe loses its driver before its context expires.                   *)
(*                                                                         *)
(* The argument: a probe's deadline is at most Grace - LockDelay from now  *)
(* (DeadlineInv); a sweep that retires the probe's driver read the clock   *)
(* at most LockDelay ago (ClockInv), so the deadline it gives the driver   *)
(* is no earlier than the probe's (StaleInv); and a sweep closes a driver  *)
(* only after that deadline.                                               *)

\* Every probe timeout, with the wait for the lock, fits in the grace period.
BudgetFits == \A b \in Budget : b + LockDelay <= Grace

DeadlineInv == \A p \in Probe : pc[p] # "idle" => deadline[p] + LockDelay <= now + Grace

ClockInv == \A r \in Reloader : rpc[r] = "keyed" => at[r] <= now /\ now <= at[r] + LockDelay

StaleInv ==
  \A p \in Probe, s \in stale :
    pc[p] = "using" /\ s.driver = driver[p] => deadline[p] <= s.deadline

DrainInv == DeadlineInv /\ ClockInv /\ StaleInv /\ NoUseAfterClose

\* A step of the probe p: it takes only drivers that are not stale.
LEMMA DrainProbeStep ==
  ASSUME BudgetFits, PoolInv, PoolInv', DrainInv,
         NEW p \in Probe, BeginProbe(p) \/ ProbeStep(p)
  PROVE  DrainInv'
<1> USE TimeAssumption DEF PoolInv, TypeOK, LocalsOK, DrainInv
<1>1. CASE BeginProbe(p)
  <2>1. PICK b \in Budget : deadline' = [deadline EXCEPT ![p] = now + b]
    BY <1>1 DEF BeginProbe
  <2>2. b + LockDelay <= Grace /\ b \in Nat
    BY DEF BudgetFits
  <2>3. DeadlineInv'
    BY <1>1, <2>1, <2>2 DEF BeginProbe, DeadlineInv, environmentVars
  <2>4. ClockInv'
    BY <1>1 DEF BeginProbe, ClockInv, environmentVars, reloaderVars
  <2>5. StaleInv'
    BY <1>1, <2>1 DEF BeginProbe, StaleInv, poolVars
  <2>6. NoUseAfterClose'
    BY <1>1, <2>1
    DEF BeginProbe, NoUseAfterClose, InFlight, environmentVars, driverVars
  <2> QED
    BY <2>3, <2>4, <2>5, <2>6
<1>2. CASE GetHit(p)
  <2>1. entries[key[p]] \in Pooled
    BY <1>2 DEF GetHit, Pooled
  <2>2. entries[key[p]] \notin StaleDrivers /\ status[entries[key[p]]] = "open"
    BY <2>1 DEF HeldOnce
  <2>3. StaleInv'
    BY <1>2, <2>2 DEF GetHit, StaleInv, StaleDrivers, poolVars
  <2>4. NoUseAfterClose'
    BY <1>2, <2>2 DEF GetHit, NoUseAfterClose, InFlight, environmentVars, driverVars
  <2> QED
    BY <1>2, <2>3, <2>4
    DEF GetHit, DeadlineInv, ClockInv, environmentVars, reloaderVars
<1>3. CASE GetMiss(p)
  <2>1. PICK d \in Driver :
          /\ status[d] = "unused"
          /\ status' = [status EXCEPT ![d] = "open"]
          /\ driver' = [driver EXCEPT ![p] = d]
    BY <1>3 DEF GetMiss
  <2>2. d \notin StaleDrivers
    BY <2>1 DEF HeldOnce
  <2>3. StaleInv'
    BY <1>3, <2>1, <2>2 DEF GetMiss, StaleInv, StaleDrivers
  <2>4. NoUseAfterClose'
    BY <1>3, <2>1 DEF GetMiss, NoUseAfterClose, InFlight, environmentVars
  <2> QED
    BY <1>3, <2>3, <2>4
    DEF GetMiss, DeadlineInv, ClockInv, environmentVars, reloaderVars
<1>4. CASE HashTarget(p) \/ HashFails(p) \/ GetFails(p) \/ FinishProbe(p)
  <2>1. /\ UNCHANGED <<now, phase, stale, status, rpc, at>>
        /\ pc'[p] # "using"
        /\ pc'[p] # "idle" => pc[p] # "idle" /\ deadline'[p] = deadline[p]
        /\ \A q \in Probe \ {p} : /\ pc'[q] = pc[q]
                                  /\ driver'[q] = driver[q]
                                  /\ deadline'[q] = deadline[q]
    BY <1>4
    DEF HashTarget, HashFails, GetFails, FinishProbe, Forget, environmentVars, poolVars,
        driverVars, reloaderVars
  <2> QED
    BY <2>1 DEF DeadlineInv, ClockInv, StaleInv, NoUseAfterClose, InFlight
<1> QED
  BY <1>1, <1>2, <1>3, <1>4 DEF ProbeStep

\* A sweep by r.
LEMMA DrainSweep ==
  ASSUME PoolInv, PoolInv', DrainInv, NEW r \in Reloader, Sweep(r)
  PROVE  DrainInv'
<1> USE TimeAssumption DEF PoolInv, TypeOK, LocalsOK, DrainInv
<1>1. at[r] <= now /\ now <= at[r] + LockDelay
  BY DEF Sweep, ClockInv
<1>2. StaleInv'
  <2> SUFFICES ASSUME NEW p \in Probe, NEW s \in stale', pc[p] = "using", s.driver = driver[p]
               PROVE  deadline[p] <= s.deadline
    BY DEF StaleInv, Sweep, probeVars
  <2>1. CASE s \in stale
    BY <2>1 DEF StaleInv
  <2>2. CASE s \in Retired(r)
    <3>1. s.deadline = at[r] + Grace
      BY <2>2 DEF Retired
    <3>2. deadline[p] + LockDelay <= now + Grace
      BY DEF DeadlineInv
    <3> QED
      BY <1>1, <3>1, <3>2
  <2> QED
    BY <2>1, <2>2 DEF Sweep
<1>3. NoUseAfterClose'
  <2> SUFFICES ASSUME phase \in {"serving", "stopping"},
                      NEW p \in Probe, pc[p] = "using", now < deadline[p]
               PROVE  status'[driver[p]] = "open"
    BY DEF NoUseAfterClose, InFlight, Sweep, environmentVars, probeVars
  <2>1. status[driver[p]] = "open"
    BY DEF NoUseAfterClose, InFlight
  <2>2. ASSUME NEW s \in Due(r), s.driver = driver[p] PROVE FALSE
    <3>1. s \in stale /\ at[r] > s.deadline
      BY DEF Due
    <3>2. deadline[p] <= s.deadline
      BY <2>2, <3>1 DEF StaleInv
    <3> QED
      BY <1>1, <3>1, <3>2
  <2> QED
    BY <2>1, <2>2 DEF Sweep
<1>4. DeadlineInv' /\ ClockInv'
  BY DEF Sweep, DeadlineInv, ClockInv, environmentVars, probeVars
<1> QED
  BY <1>2, <1>3, <1>4

\* The other steps of reloaders, main and the environment.
LEMMA DrainOtherSteps ==
  ASSUME PoolInv, PoolInv', DrainInv,
         \/ \E r \in Reloader : Reload(r) \/ ComputeKeep(r)
         \/ StopServing \/ MainStep \/ Exited \/ Tick \/ RotatePassword
         \/ UNCHANGED vars
  PROVE  DrainInv'
<1> USE TimeAssumption DEF PoolInv, TypeOK, DrainInv
<1>1. ASSUME NEW r \in Reloader, Reload(r) \/ ComputeKeep(r) PROVE DrainInv'
  BY <1>1
  DEF Reload, ComputeKeep, DeadlineInv, ClockInv, StaleInv, NoUseAfterClose, InFlight,
      environmentVars, poolVars, driverVars, probeVars
<1>2. CASE StopServing \/ RotatePassword \/ Exited \/ UNCHANGED vars
  BY <1>2
  DEF StopServing, RotatePassword, Exited, vars, DeadlineInv, ClockInv, StaleInv,
      NoUseAfterClose, InFlight, environmentVars, poolVars, driverVars, probeVars, reloaderVars
<1>3. CASE Tick
  BY <1>3
  DEF Tick, DeadlineInv, ClockInv, StaleInv, NoUseAfterClose, InFlight, poolVars, driverVars,
      probeVars, reloaderVars
<1>4. CASE TakeAll
  BY <1>4
  DEF TakeAll, DeadlineInv, ClockInv, StaleInv, NoUseAfterClose, driverVars, probeVars,
      reloaderVars
<1>5. ASSUME NEW d \in Driver, CloseOne(d) PROVE DrainInv'
  BY <1>5
  DEF CloseOne, DeadlineInv, ClockInv, StaleInv, NoUseAfterClose, environmentVars, probeVars,
      reloaderVars
<1>6. CASE Exit
  BY <1>6
  DEF Exit, DeadlineInv, ClockInv, StaleInv, NoUseAfterClose, poolVars, driverVars
<1> QED
  BY <1>1, <1>2, <1>3, <1>4, <1>5, <1>6 DEF MainStep

LEMMA DrainInvHolds ==
  ASSUME BudgetFits
  PROVE  Spec => []DrainInv
<1>1. Init => DrainInv
  BY DEF Init, DrainInv, DeadlineInv, ClockInv, StaleInv, NoUseAfterClose, InFlight
<1>2. PoolInv /\ PoolInv' /\ DrainInv /\ [Next]_vars => DrainInv'
  BY BudgetFits, DrainProbeStep, DrainSweep, DrainOtherSteps DEF Next, ReconcileStep
<1> QED
  BY <1>1, <1>2, PoolInvHolds, PTL DEF Spec

\* A reload never closes the driver of a probe that is still running: drivers
\* drain, provided the longest timeout and the wait for the lock fit in Grace.
THEOREM ProbesDrain ==
  ASSUME BudgetFits
  PROVE  Spec => []NoUseAfterClose
<1>1. DrainInv => NoUseAfterClose
  BY DEF DrainInv
<1> QED
  BY <1>1, DrainInvHolds, BudgetFits, PTL

-----------------------------------------------------------------------------
(* Every probe queries its own target's server.                            *)
(*                                                                         *)
(* An entry's driver was made for its key's server (EntryServer) and a     *)
(* probe's key names its target's server (KeyServer); what a driver was    *)
(* built from changes only when it is made, and a driver that is in use or *)
(* in the map has been made already (UsedInv, HeldOnce).                   *)

EntryServer == \A k \in Key : entries[k] # NoDriver => bolt[entries[k]].uri = k.uri

KeyServer == \A p \in Probe : pc[p] \in {"hashed", "using"} => key[p].uri = target[p].uri

UsedInv == \A p \in Probe : pc[p] = "using" => status[driver[p]] # "unused"

ServerInv == EntryServer /\ KeyServer /\ UsedInv /\ OwnServer

\* The step that makes a driver.
LEMMA ServerGetMiss ==
  ASSUME PoolInv, PoolInv', ServerInv, NEW p \in Probe, GetMiss(p)
  PROVE  ServerInv'
<1> USE DEF PoolInv, TypeOK, LocalsOK, ServerInv
<1> DEFINE built == [uri      |-> target[p].uri,
                     secret   |-> ResolveBoltPassword(target[p]),
                     database |-> target[p].database]
<1>1. PICK d \in Driver :
        /\ status[d] = "unused"
        /\ status' = [status EXCEPT ![d] = "open"]
        /\ bolt' = [bolt EXCEPT ![d] = built]
        /\ entries' = [entries EXCEPT ![key[p]] = d]
        /\ driver' = [driver EXCEPT ![p] = d]
  BY DEF GetMiss
<1>2. /\ pc[p] = "hashed" /\ pc' = [pc EXCEPT ![p] = "using"]
      /\ UNCHANGED <<target, key>> /\ key[p] \in Key
  BY DEF GetMiss
<1>3. bolt'[d].uri = target[p].uri /\ \A e \in Driver \ {d} : bolt'[e] = bolt[e]
  BY <1>1
<1>4. \A k \in Key : entries[k] # d
  BY <1>1, DriverAssumption DEF HeldOnce, Pooled
<1>5. \A q \in Probe : pc[q] = "using" => driver[q] # d
  BY <1>1 DEF UsedInv
<1>6. key[p].uri = target[p].uri
  BY <1>2 DEF KeyServer
<1>7. EntryServer'
  BY <1>1, <1>2, <1>3, <1>4, <1>6 DEF EntryServer
<1>8. KeyServer'
  BY <1>2 DEF KeyServer
<1>9. UsedInv'
  BY <1>1, <1>2 DEF UsedInv
<1>10. OwnServer'
  BY <1>1, <1>2, <1>3, <1>5 DEF OwnServer
<1> QED
  BY <1>7, <1>8, <1>9, <1>10

\* The other steps of a probe.
LEMMA ServerProbeStep ==
  ASSUME PoolInv, PoolInv', ServerInv, NEW p \in Probe, BeginProbe(p) \/ ProbeStep(p)
  PROVE  ServerInv'
<1> USE DEF PoolInv, TypeOK, LocalsOK, ServerInv
<1>1. CASE GetMiss(p)
  BY <1>1, ServerGetMiss
<1>2. CASE GetHit(p)
  <2>1. /\ pc[p] = "hashed" /\ pc' = [pc EXCEPT ![p] = "using"] /\ key[p] \in Key
        /\ driver' = [driver EXCEPT ![p] = entries[key[p]]] /\ entries[key[p]] # NoDriver
        /\ UNCHANGED <<target, key, entries, bolt, status>>
    BY <1>2 DEF GetHit, poolVars, driverVars
  <2>2. bolt[entries[key[p]]].uri = target[p].uri
    BY <2>1 DEF EntryServer, KeyServer
  <2>3. status[entries[key[p]]] = "open"
    BY <2>1 DEF HeldOnce, Pooled
  <2> QED
    BY <2>1, <2>2, <2>3 DEF EntryServer, KeyServer, UsedInv, OwnServer
<1>3. CASE BeginProbe(p) \/ HashFails(p) \/ GetFails(p) \/ FinishProbe(p)
  <2>1. /\ pc'[p] \in {"idle", "found"} /\ UNCHANGED <<entries, bolt, status>>
        /\ \A q \in Probe \ {p} : /\ pc'[q] = pc[q] /\ driver'[q] = driver[q]
                                  /\ key'[q] = key[q] /\ target'[q] = target[q]
    BY <1>3
    DEF BeginProbe, HashFails, GetFails, FinishProbe, Forget, poolVars, driverVars
  <2> QED
    BY <2>1 DEF EntryServer, KeyServer, UsedInv, OwnServer
<1>4. CASE HashTarget(p)
  <2>1. /\ pc'[p] = "hashed" /\ key'[p].uri = target[p].uri
        /\ UNCHANGED <<entries, bolt, status, target, driver>>
        /\ \A q \in Probe \ {p} : pc'[q] = pc[q] /\ key'[q] = key[q]
    BY <1>4 DEF HashTarget, AuthHash, poolVars, driverVars
  <2> QED
    BY <2>1 DEF EntryServer, KeyServer, UsedInv, OwnServer
<1> QED
  BY <1>1, <1>2, <1>3, <1>4 DEF ProbeStep

\* Nobody else makes a driver, fills an entry or touches a probe that goes on.
LEMMA ServerOtherSteps ==
  ASSUME PoolInv, PoolInv', ServerInv,
         \/ \E r \in Reloader : Reload(r) \/ ReconcileStep(r)
         \/ StopServing \/ MainStep \/ Exited \/ Tick \/ RotatePassword
         \/ UNCHANGED vars
  PROVE  ServerInv'
<1> USE DEF PoolInv, TypeOK, LocalsOK, ServerInv
<1> DEFINE frame ==
             /\ UNCHANGED bolt
             /\ \A k \in Key : entries'[k] \in {entries[k], NoDriver}
             /\ \A d \in Driver : status'[d] \in {status[d], "closed"}
             /\ \/ UNCHANGED <<pc, target, key, driver>>
                \/ \A p \in Probe : pc'[p] = "idle"
<1>1. frame
  <2>1. ASSUME NEW r \in Reloader, Sweep(r) PROVE frame
    BY <2>1 DEF Sweep, Remaining, probeVars
  <2>2. ASSUME NEW d \in Driver, CloseOne(d) PROVE frame
    BY <2>2 DEF CloseOne, probeVars
  <2>3. ASSUME \/ \E r \in Reloader : Reload(r) \/ ComputeKeep(r)
               \/ StopServing \/ TakeAll \/ Exit \/ Exited \/ Tick \/ RotatePassword
               \/ UNCHANGED vars
        PROVE  frame
    BY <2>3
    DEF Reload, ComputeKeep, StopServing, TakeAll, Exit, Exited, Tick, RotatePassword, vars,
        environmentVars, poolVars, driverVars, probeVars
  <2> QED
    BY <2>1, <2>2, <2>3 DEF ReconcileStep, MainStep
<1> QED
  BY <1>1 DEF EntryServer, KeyServer, UsedInv, OwnServer

\* A probe never queries another target's server, whichever probe made the driver it
\* shares and however often the configuration and the password file change meanwhile.
THEOREM ProbesOwnServer == Spec => []OwnServer
<1>1. Init => ServerInv
  BY DEF Init, ServerInv, EntryServer, KeyServer, UsedInv, OwnServer
<1>2. PoolInv /\ PoolInv' /\ ServerInv /\ [Next]_vars => ServerInv'
  BY ServerProbeStep, ServerOtherSteps DEF Next
<1>3. ServerInv => OwnServer
  BY DEF ServerInv
<1> QED
  BY <1>1, <1>2, <1>3, PoolInvHolds, PTL DEF Spec

-----------------------------------------------------------------------------
(* What is open before CloseAll is closed when the process ends.           *)
(*                                                                         *)
(* Once TakeAll is over, a driver that was open before it is closed or is  *)
(* still in CloseAll's hands (Doomed): nothing reopens it, and nothing but *)
(* its Close takes it out of them.  Exit waits for closing to be empty.    *)

Doomed(d) ==
  /\ status[d] # "unused"
  /\ phase \in {"closing", "exited"} => status[d] = "closed" \/ d \in closing

\* A driver that has been made stays made, and stays doomed.
LEMMA DoomedStays ==
  ASSUME PoolInv, NEW d \in Driver, Doomed(d), [Next]_vars
  PROVE  Doomed(d)'
<1> USE DEF PoolInv, TypeOK, Doomed
<1>1. ASSUME NEW p \in Probe, BeginProbe(p) \/ ProbeStep(p) PROVE Doomed(d)'
  <2>1. CASE GetMiss(p)
    BY <2>1 DEF GetMiss, environmentVars
  <2>2. CASE ~GetMiss(p)
    BY <1>1, <2>2
    DEF ProbeStep, BeginProbe, HashTarget, HashFails, GetHit, GetFails, FinishProbe,
        environmentVars, poolVars, driverVars
  <2> QED
    BY <2>1, <2>2
<1>2. ASSUME NEW r \in Reloader, Sweep(r) PROVE Doomed(d)'
  BY <1>2 DEF Sweep, environmentVars
<1>3. CASE TakeAll
  <2>1. status[d] = "closed" \/ d \in Taken
    BY <1>3 DEF TakeAll, Taken, HeldOnce, ClosingOK
  <2> QED
    BY <1>3, <2>1 DEF TakeAll, driverVars
<1>4. ASSUME NEW e \in Driver, CloseOne(e) PROVE Doomed(d)'
  BY <1>4 DEF CloseOne, environmentVars
<1>5. CASE Exit
  BY <1>5 DEF Exit, poolVars, driverVars
<1>6. ASSUME \/ \E r \in Reloader : Reload(r) \/ ComputeKeep(r)
             \/ StopServing \/ Exited \/ Tick \/ RotatePassword
             \/ UNCHANGED vars
      PROVE  Doomed(d)'
  BY <1>6
  DEF Reload, ComputeKeep, StopServing, Exited, Tick, RotatePassword, vars,
      environmentVars, poolVars, driverVars
<1> QED
  BY <1>1, <1>2, <1>3, <1>4, <1>5, <1>6 DEF Next, MainStep, ReconcileStep

\* Every driver that is open before CloseAll takes the map and the stale list is
\* closed when the process has ended, whatever probes and reloaders do meanwhile.
THEOREM ClosedAtShutdown == Spec => ClosedAtExit
<1> SUFFICES ASSUME NEW d \in Driver
             PROVE  Spec => [](phase \in {"serving", "stopping"} /\ status[d] = "open"
                                 => [](phase = "exited" => status[d] = "closed"))
  BY DEF ClosedAtExit
<1>1. phase \in {"serving", "stopping"} /\ status[d] = "open" => Doomed(d)
  BY DEF Doomed
<1>2. PoolInv /\ Doomed(d) /\ [Next]_vars => Doomed(d)'
  BY DoomedStays
<1>3. PoolInv /\ Doomed(d) => (phase = "exited" => status[d] = "closed")
  BY DEF PoolInv, Doomed, ClosingOK
<1> QED
  BY <1>1, <1>2, <1>3, PoolInvHolds, PTL DEF Spec

=============================================================================

------------------------ MODULE DriverPoolRefinement ------------------------
(***************************************************************************)
(* DriverPool implements DriverLease: every step of the pool, its probes   *)
(* and its reloaders is a step of the abstract lease or leaves it alone.   *)
(***************************************************************************)
EXTENDS DriverPoolProofs

LeaseView == <<LeaseLife, LeaseHeld, LeaseStopped>>

\* A step the lease does not see.
LEMMA Unseen ==
  ASSUME UNCHANGED <<entries, status, now, phase>>,
         \A p \in Probe : /\ InFlight(p)' = InFlight(p)
                          /\ InFlight(p) => driver'[p] = driver[p]
  PROVE  UNCHANGED LeaseView
<1>1. LeaseLife' = LeaseLife
  BY DEF LeaseLife, LifeOf, Pooled
<1>2. LeaseHeld' = LeaseHeld
  BY DEF LeaseHeld
<1>3. LeaseStopped' = LeaseStopped
  BY DEF LeaseStopped
<1> QED
  BY <1>1, <1>2, <1>3 DEF LeaseView

\* The probe's steps up to the lock, and the steps that fail.
LEMMA UnseenProbeSteps ==
  ASSUME PoolInv, NEW p \in Probe,
         BeginProbe(p) \/ HashTarget(p) \/ HashFails(p) \/ GetFails(p)
  PROVE  UNCHANGED LeaseView
<1> USE DEF PoolInv, TypeOK
<1>1. /\ UNCHANGED <<entries, status, now, phase>>
      /\ pc[p] # "using" /\ pc'[p] # "using"
      /\ \A q \in Probe \ {p} : pc'[q] = pc[q] /\ deadline'[q] = deadline[q] /\ driver'[q] = driver[q]
  BY DEF BeginProbe, HashTarget, HashFails, GetFails, Forget, environmentVars, poolVars, driverVars
<1> QED
  BY <1>1, Unseen DEF InFlight

LEMMA GetHitLends ==
  ASSUME PoolInv, NEW p \in Probe, GetHit(p)
  PROVE  [Lease!Next]_LeaseView
<1> USE DEF PoolInv, TypeOK
<1> DEFINE d == entries[key[p]]
<1>1. d \in Driver /\ d \in Pooled /\ status[d] = "open"
  <2>1. d \in Pooled
    BY DEF GetHit, Pooled, LocalsOK
  <2> QED
    BY <2>1 DEF HeldOnce
<1>2. LeaseLife' = LeaseLife /\ LeaseStopped' = LeaseStopped
  BY DEF GetHit, LeaseLife, LifeOf, Pooled, LeaseStopped, environmentVars, poolVars, driverVars
<1>3. LeaseLife[d] = "live" /\ LeaseHeld[p] = NoDriver
  BY <1>1 DEF LeaseLife, LifeOf, LeaseHeld, InFlight, GetHit
<1>4. LeaseHeld' = IF now < deadline[p] THEN [LeaseHeld EXCEPT ![p] = d] ELSE LeaseHeld
  BY DEF GetHit, LeaseHeld, InFlight, environmentVars
<1>5. CASE now < deadline[p]
  BY <1>1, <1>2, <1>3, <1>4, <1>5 DEF Lease!Next, Lease!Lend
<1>6. CASE ~(now < deadline[p])
  BY <1>2, <1>4, <1>6 DEF LeaseView
<1> QED
  BY <1>5, <1>6

LEMMA GetMissOpens ==
  ASSUME PoolInv, NEW p \in Probe, GetMiss(p)
  PROVE  [Lease!Next]_LeaseView
<1> USE DEF PoolInv, TypeOK
<1>1. PICK d \in Driver :
        /\ status[d] = "unused"
        /\ status' = [status EXCEPT ![d] = "open"]
        /\ entries' = [entries EXCEPT ![key[p]] = d]
        /\ driver' = [driver EXCEPT ![p] = d]
  BY DEF GetMiss
<1>2. Pooled' = Pooled \cup {d}
  BY <1>1, DriverAssumption DEF GetMiss, Pooled, LocalsOK
<1>3. LeaseLife' = [LeaseLife EXCEPT ![d] = "live"]
  BY <1>1, <1>2 DEF LeaseLife, LifeOf
<1>4. LeaseLife[d] = "unused" /\ LeaseHeld[p] = NoDriver
  BY <1>1 DEF LeaseLife, LifeOf, LeaseHeld, InFlight, GetMiss
<1>5. LeaseHeld' \in {LeaseHeld, [LeaseHeld EXCEPT ![p] = d]}
  <2>1. \A q \in Probe \ {p} : /\ InFlight(q)' = InFlight(q)
                               /\ driver'[q] = driver[q]
    BY <1>1 DEF GetMiss, InFlight, environmentVars
  <2>2. driver'[p] = d
    BY <1>1
  <2>3. CASE InFlight(p)'
    <3>1. LeaseHeld' = [LeaseHeld EXCEPT ![p] = d]
      BY <2>1, <2>2, <2>3 DEF LeaseHeld
    <3> QED
      BY <3>1
  <2>4. CASE ~InFlight(p)'
    <3>1. LeaseHeld' = LeaseHeld
      BY <1>4, <2>1, <2>4 DEF LeaseHeld
    <3> QED
      BY <3>1
  <2> QED
    BY <2>3, <2>4
<1>6. LeaseStopped' = LeaseStopped
  BY DEF GetMiss, LeaseStopped, environmentVars
<1> QED
  BY <1>3, <1>4, <1>5, <1>6 DEF Lease!Next, Lease!Open

\* The end of a probe, of its context's time, or of the process.
LEMMA StepsThatReturn ==
  ASSUME PoolInv, (\E p \in Probe : FinishProbe(p)) \/ Tick \/ Exit
  PROVE  [Lease!Next]_LeaseView
<1> USE DEF PoolInv, TypeOK
<1> DEFINE ended == {p \in Probe : InFlight(p) /\ ~InFlight(p)'}
<1>1. LeaseLife' = LeaseLife /\ LeaseStopped' = LeaseStopped
  BY DEF FinishProbe, Tick, Exit, LeaseLife, LifeOf, Pooled, LeaseStopped, environmentVars,
     poolVars, driverVars
<1>2. \A p \in Probe : InFlight(p)' => InFlight(p) /\ driver'[p] = driver[p]
  BY DEF FinishProbe, Forget, Tick, Exit, InFlight, environmentVars, probeVars
<1>3. LeaseHeld' = [p \in Probe |-> IF p \in ended THEN NoDriver ELSE LeaseHeld[p]]
  BY <1>2 DEF LeaseHeld
<1>4. Lease!Return(ended)
  BY <1>1, <1>3 DEF Lease!Return
<1>5. ended \in SUBSET Probe
  OBVIOUS
<1> QED
  BY <1>4, <1>5 DEF Lease!Next

LEMMA SweepReconciles ==
  ASSUME PoolInv, DrainInv, NEW r \in Reloader, Sweep(r)
  PROVE  [Lease!Next]_LeaseView
<1> USE DEF PoolInv, TypeOK
<1> DEFINE dropped == {entries[k] : k \in Dropped(r)}
           due == {s.driver : s \in Due(r)}
<1>1. dropped \subseteq Lease!InState("live")
  BY DEF Dropped, HeldOnce, Pooled, Lease!InState, LeaseLife, LifeOf
<1>2. due \subseteq Lease!InState("retired")
  BY DEF Due, HeldOnce, StaleDrivers, Lease!InState, LeaseLife, LifeOf
<1>3. due \cap Lease!Held = {}
  <2> SUFFICES ASSUME NEW s \in Due(r), NEW p \in Probe, InFlight(p), driver[p] = s.driver
               PROVE  FALSE
    BY DriverAssumption DEF Lease!Held, LeaseHeld, Due
  <2>1. s \in stale /\ at[r] > s.deadline /\ at[r] <= now
    BY DEF Due, DrainInv, ClockInv, Sweep
  <2>2. deadline[p] <= s.deadline
    BY <2>1 DEF DrainInv, StaleInv, InFlight
  <2> QED
    BY <2>1, <2>2, TimeAssumption DEF InFlight
<1>4. Pooled' = Pooled \ dropped
  BY DEF Sweep, Remaining, Dropped, Pooled, HeldOnce
<1>5. LeaseLife' = [d \in Driver |-> IF d \in dropped THEN "retired"
                                     ELSE IF d \in due THEN "closed" ELSE LeaseLife[d]]
  <2>1. dropped \cap due = {}
    BY <1>1, <1>2 DEF Lease!InState
  <2>2. \A d \in Driver : status'[d] = IF d \in due THEN "closed" ELSE status[d]
    BY DEF Sweep
  <2>3. \A d \in dropped : status[d] = "open" /\ d \in Pooled
    BY DEF HeldOnce, Dropped, Pooled
  <2> QED
    BY <1>4, <2>1, <2>2, <2>3 DEF LeaseLife, LifeOf
<1>6. LeaseHeld' = LeaseHeld /\ LeaseStopped' = LeaseStopped
  BY DEF Sweep, LeaseHeld, LeaseStopped, InFlight, environmentVars, probeVars
<1>7. dropped \in SUBSET Driver /\ due \in SUBSET Driver
  BY <1>1, <1>2 DEF Lease!InState
<1>8. Lease!Reconcile(dropped, due)
  BY <1>1, <1>2, <1>3, <1>5, <1>6 DEF Lease!Reconcile
<1> QED
  BY <1>7, <1>8 DEF Lease!Next

LEMMA CloseAllStops ==
  ASSUME PoolInv, TakeAll \/ \E d \in Driver : CloseOne(d)
  PROVE  [Lease!Next]_LeaseView
<1> USE DEF PoolInv, TypeOK
<1>1. CASE TakeAll
  <2>1. Pooled' = {}
    BY <1>1 DEF TakeAll, Taken, Pooled
  <2>2. LeaseLife' = [d \in Driver |-> IF LeaseLife[d] = "live" THEN "retired" ELSE LeaseLife[d]]
    BY <1>1, <2>1 DEF TakeAll, Taken, LeaseLife, LifeOf, driverVars
  <2>3. LeaseHeld' = LeaseHeld /\ ~LeaseStopped /\ LeaseStopped'
    BY <1>1 DEF TakeAll, LeaseHeld, InFlight, LeaseStopped, probeVars
  <2> QED
    BY <2>2, <2>3 DEF Lease!Next, Lease!Stop
<1>2. ASSUME NEW d \in Driver, CloseOne(d) PROVE Lease!CloseAtStop(d)
  <2>1. status[d] = "open" /\ d \notin Pooled
    BY <1>2 DEF CloseOne, HeldOnce
  <2>2. LeaseLife' = [LeaseLife EXCEPT ![d] = "closed"] /\ LeaseLife[d] = "retired"
    <3>1. Pooled' = Pooled /\ status' = [status EXCEPT ![d] = "closed"]
      BY <1>2 DEF CloseOne, Pooled
    <3>2. LifeOf(d) = "retired" /\ LifeOf(d)' = "closed"
      BY <2>1, <3>1 DEF LifeOf
    <3>3. \A e \in Driver \ {d} : LifeOf(e)' = LifeOf(e)
      BY <3>1 DEF LifeOf
    <3> QED
      BY <3>2, <3>3 DEF LeaseLife
  <2>3. LeaseHeld' = LeaseHeld /\ LeaseStopped /\ LeaseStopped' = LeaseStopped
    BY <1>2 DEF CloseOne, LeaseHeld, InFlight, LeaseStopped, environmentVars, probeVars
  <2> QED
    BY <2>2, <2>3 DEF Lease!CloseAtStop
<1> QED
  BY <1>1, <1>2 DEF Lease!Next

LEMMA UnseenOtherSteps ==
  ASSUME PoolInv,
         \/ \E r \in Reloader : Reload(r) \/ ComputeKeep(r)
         \/ StopServing \/ Exited \/ RotatePassword \/ UNCHANGED vars
  PROVE  UNCHANGED LeaseView
<1>1. CASE StopServing
  BY <1>1
  DEF StopServing, LeaseView, LeaseLife, LifeOf, Pooled, LeaseHeld, InFlight, LeaseStopped,
      poolVars, driverVars, probeVars
<1>2. CASE ~StopServing
  <2>1. UNCHANGED <<entries, status, now, phase, pc, deadline, driver>>
    BY <1>2
    DEF Reload, ComputeKeep, Exited, RotatePassword, vars, environmentVars, poolVars, driverVars,
        probeVars
  <2> QED
    BY <2>1, Unseen DEF InFlight
<1> QED
  BY <1>1, <1>2

\* The pool keeps the abstract lease's promise for any number of probes, reloads
\* and drivers: what a reload retires is never lent again and is closed only when
\* no probe whose context still runs holds it.
THEOREM PoolImplementsLease ==
  ASSUME BudgetFits
  PROVE  Spec => ImplementsLease
<1>1. Init => Lease!Init
  BY DEF Init, Lease!Init, LeaseLife, LifeOf, LeaseHeld, InFlight, LeaseStopped
<1>2. PoolInv /\ DrainInv /\ [Next]_vars => [Lease!Next]_LeaseView
  BY UnseenProbeSteps, GetHitLends, GetMissOpens, StepsThatReturn, SweepReconciles,
     CloseAllStops, UnseenOtherSteps
  DEF Next, ProbeStep, ReconcileStep, MainStep
<1>3. PoolInv /\ DrainInv /\ [Next]_vars => [Lease!Next]_(Lease!leaseVars)
  BY <1>2 DEF LeaseView, Lease!leaseVars
<1>4. Spec => []DrainInv
  BY DrainInvHolds, BudgetFits
<1> QED
  BY <1>1, <1>3, <1>4, PoolInvHolds, PTL DEF Spec, ImplementsLease, Lease!Spec

-----------------------------------------------------------------------------
(* What follows for the pool.                                              *)

LEMMA LeaseHeldOpen == Lease!Spec => []Lease!HeldOpen
<1> USE DriverAssumption
<1>1. Lease!Init => Lease!HeldOpen
  BY DEF Lease!Init, Lease!HeldOpen
<1>2. Lease!HeldOpen /\ [Lease!Next]_(Lease!leaseVars) => Lease!HeldOpen'
  <2> SUFFICES ASSUME Lease!HeldOpen, [Lease!Next]_(Lease!leaseVars) PROVE Lease!HeldOpen'
    OBVIOUS
  <2> USE DEF Lease!HeldOpen
  <2>1. CASE UNCHANGED Lease!leaseVars
    BY <2>1 DEF Lease!leaseVars
  <2>2. ASSUME NEW p \in Probe, NEW d \in Driver, Lease!Open(p, d) PROVE Lease!HeldOpen'
    BY <2>2 DEF Lease!Open
  <2>3. ASSUME NEW p \in Probe, NEW d \in Driver, Lease!Lend(p, d) PROVE Lease!HeldOpen'
    BY <2>3 DEF Lease!Lend
  <2>4. ASSUME NEW P \in SUBSET Probe, Lease!Return(P) PROVE Lease!HeldOpen'
    BY <2>4 DEF Lease!Return
  <2>5. ASSUME NEW R \in SUBSET Driver, NEW C \in SUBSET Driver, Lease!Reconcile(R, C)
        PROVE  Lease!HeldOpen'
    BY <2>5 DEF Lease!Reconcile, Lease!InState, Lease!Held
  <2>6. CASE Lease!Stop
    BY <2>6 DEF Lease!Stop
  <2>7. ASSUME NEW d \in Driver, Lease!CloseAtStop(d) PROVE Lease!HeldOpen'
    BY <2>7 DEF Lease!CloseAtStop
  <2> QED
    BY <2>1, <2>2, <2>3, <2>4, <2>5, <2>6, <2>7 DEF Lease!Next
<1> QED
  BY <1>1, <1>2, PTL DEF Lease!Spec

LEMMA LeaseOnlyDrains == Lease!Spec => Lease!OnlyDrains
<1> USE DriverAssumption
<1> DEFINE Drains == \A d \in Driver :
             LeaseLife[d] \in {"retired", "closed"} =>
               /\ Lease!Holders(d)' \subseteq Lease!Holders(d)
               /\ LeaseLife'[d] \in {LeaseLife[d], "closed"}
<1>1. Lease!HeldOpen /\ [Lease!Next]_(Lease!leaseVars) => [Drains]_(Lease!leaseVars)
  <2> SUFFICES ASSUME Lease!HeldOpen, Lease!Next,
                      NEW d \in Driver, LeaseLife[d] \in {"retired", "closed"}
               PROVE  /\ Lease!Holders(d)' \subseteq Lease!Holders(d)
                      /\ LeaseLife'[d] \in {LeaseLife[d], "closed"}
    OBVIOUS
  <2> USE DEF Lease!HeldOpen, Lease!Holders
  <2>1. ASSUME NEW p \in Probe, NEW e \in Driver, Lease!Open(p, e)
        PROVE  Lease!Holders(d)' \subseteq Lease!Holders(d) /\ LeaseLife'[d] = LeaseLife[d]
    BY <2>1 DEF Lease!Open
  <2>2. ASSUME NEW p \in Probe, NEW e \in Driver, Lease!Lend(p, e)
        PROVE  Lease!Holders(d)' \subseteq Lease!Holders(d) /\ LeaseLife'[d] = LeaseLife[d]
    BY <2>2 DEF Lease!Lend
  <2>3. ASSUME NEW P \in SUBSET Probe, Lease!Return(P)
        PROVE  Lease!Holders(d)' \subseteq Lease!Holders(d) /\ LeaseLife'[d] = LeaseLife[d]
    BY <2>3 DEF Lease!Return
  <2>4. ASSUME NEW R \in SUBSET Driver, NEW C \in SUBSET Driver, Lease!Reconcile(R, C)
        PROVE  /\ Lease!Holders(d)' \subseteq Lease!Holders(d)
               /\ LeaseLife'[d] \in {LeaseLife[d], "closed"}
    BY <2>4 DEF Lease!Reconcile, Lease!InState
  <2>5. CASE Lease!Stop
    BY <2>5 DEF Lease!Stop
  <2>6. ASSUME NEW e \in Driver, Lease!CloseAtStop(e)
        PROVE  /\ Lease!Holders(d)' \subseteq Lease!Holders(d)
               /\ LeaseLife'[d] \in {LeaseLife[d], "closed"}
    BY <2>6 DEF Lease!CloseAtStop
  <2> QED
    BY <2>1, <2>2, <2>3, <2>4, <2>5, <2>6 DEF Lease!Next
<1>2. Lease!OnlyDrains <=> [][Drains]_(Lease!leaseVars)
  BY DEF Lease!OnlyDrains
<1> HIDE DEF Drains
<1> QED
  BY <1>1, <1>2, LeaseHeldOpen, PTL DEF Lease!Spec

\* Under a budget that fits the grace, a driver that a reload has retired gets no new
\* user: the probes that were running on it when it left the map are all it will ever
\* have, and it is not put back into the map.  So they drain (docs/CONFIGURATION.md:157).
THEOREM RetiredDriversDrain ==
  ASSUME BudgetFits
  PROVE  Spec => Lease!OnlyDrains
  BY PoolImplementsLease, LeaseOnlyDrains, BudgetFits, PTL DEF ImplementsLease

=============================================================================

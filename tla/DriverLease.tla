---------------------------- MODULE DriverLease -----------------------------
(***************************************************************************)
(* What the driver pool promises its users, without clocks, keys or lists: *)
(* a driver is lent to any number of probes while it is live, reloads      *)
(* retire drivers, a retired driver is never lent again, and it is closed  *)
(* only once no probe holds it (docs/CONFIGURATION.md:157, "so in-flight   *)
(* probes drain cleanly").  Shutdown is the exception: once the pool is    *)
(* stopped its drivers are closed whoever holds them.                      *)
(***************************************************************************)
CONSTANTS Probe, Driver, NoDriver

VARIABLES
  life,     \* unused, live, retired or closed
  lease,    \* the driver a probe holds, or NoDriver
  stopped

leaseVars == <<life, lease, stopped>>

Init ==
  /\ life = [d \in Driver |-> "unused"]
  /\ lease = [p \in Probe |-> NoDriver]
  /\ stopped = FALSE

InState(s) == {d \in Driver : life[d] = s}

Held == {lease[p] : p \in Probe} \ {NoDriver}

\* A probe opens a driver; its context may have expired by then.
Open(p, d) ==
  /\ life[d] = "unused"
  /\ lease[p] = NoDriver
  /\ life' = [life EXCEPT ![d] = "live"]
  /\ lease' \in {lease, [lease EXCEPT ![p] = d]}
  /\ UNCHANGED stopped

Lend(p, d) ==
  /\ life[d] = "live"
  /\ lease[p] = NoDriver
  /\ lease' = [lease EXCEPT ![p] = d]
  /\ UNCHANGED <<life, stopped>>

\* Some probes finish, or their contexts expire.
Return(P) ==
  /\ UNCHANGED <<life, stopped>>
  /\ lease' = [p \in Probe |-> IF p \in P THEN NoDriver ELSE lease[p]]

\* A reload retires some live drivers and closes some retired ones nobody holds.
Reconcile(R, C) ==
  /\ R \subseteq InState("live")
  /\ C \subseteq InState("retired") \ Held
  /\ life' = [d \in Driver |-> IF d \in R THEN "retired"
                               ELSE IF d \in C THEN "closed" ELSE life[d]]
  /\ UNCHANGED <<lease, stopped>>

Stop ==
  /\ ~stopped
  /\ stopped' = TRUE
  /\ life' = [d \in Driver |-> IF life[d] = "live" THEN "retired" ELSE life[d]]
  /\ UNCHANGED lease

CloseAtStop(d) ==
  /\ stopped
  /\ life[d] = "retired"
  /\ life' = [life EXCEPT ![d] = "closed"]
  /\ UNCHANGED <<lease, stopped>>

Next ==
  \/ \E P \in SUBSET Probe : Return(P)
  \/ \E p \in Probe, d \in Driver : Open(p, d) \/ Lend(p, d)
  \/ \E R, C \in SUBSET Driver : Reconcile(R, C)
  \/ Stop
  \/ \E d \in Driver : CloseAtStop(d)

Spec == Init /\ [][Next]_leaseVars

-----------------------------------------------------------------------------
(* What follows from it.                                                   *)

Holders(d) == {p \in Probe : lease[p] = d}

\* A probe holds a driver that is open: live, or retired and kept for it.
HeldOpen ==
  /\ lease \in [Probe -> Driver \cup {NoDriver}]
  /\ life \in [Driver -> {"unused", "live", "retired", "closed"}]
  /\ ~stopped => \A p \in Probe : lease[p] # NoDriver => life[lease[p]] \in {"live", "retired"}

\* Once a driver is retired its holders can only become fewer, whatever reloads,
\* probes and shutdown do, and it never gets a new life.
OnlyDrains ==
  [][\A d \in Driver :
       life[d] \in {"retired", "closed"} =>
         /\ Holders(d)' \subseteq Holders(d)
         /\ life'[d] \in {life[d], "closed"}]_leaseVars

=============================================================================

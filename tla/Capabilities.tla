---------------------------- MODULE Capabilities ----------------------------
(***************************************************************************)
(* The capability cache of one pool entry                                  *)
(* (internal/neo4jclient/capabilities.go): every probe of the target asks  *)
(* it which APOC procedures the server has.  The first probes to find the  *)
(* cache empty each run three queries with Entry.mu released, and each     *)
(* stores what it found, over whatever another stored meanwhile.           *)
(*                                                                         *)
(* A query is lost when the server, the network or the 5 s context of the  *)
(* call (orchestrator.go:60) fails it.  Only the first query's loss makes  *)
(* the call fail; the others' losses are swallowed.                        *)
(***************************************************************************)
EXTENDS Naturals

CONSTANTS
  Probe,        \* the goroutines that call Capabilities on the entry
  Version,      \* what RETURN apoc.version() detects: APOC Core
  Procedure,    \* the procedures SHOW PROCEDURES is asked for
  NoCaps,       \* the nil *Capabilities
  MaxReloads    \* bound on the configuration reloads

ASSUME CapabilityAssumption ==
  Version \notin Procedure /\ MaxReloads \in Nat

Capability == Procedure \cup {Version}

\* A Capabilities value.  probedAt counts reloads where the code keeps the time.
CapsValue == [has : SUBSET Capability, probedAt : 0 .. MaxReloads]

ASSUME NoCapsAssumption == NoCaps \notin CapsValue

VARIABLES
  installed,    \* what the server has now
  reloads,      \* the reloads so far
  caps,         \* Entry.caps
  pc,           \* where each call is
  local,        \* the value a call is building
  expired,      \* whether a call's context has expired
  answer,       \* what a call returned; NoCaps stands for an error
  began,        \* the reloads there had been when the call was made
  \* history
  ever,         \* everything the server has had since the entry was created
  disturbed     \* a query was lost, or the server's plugins changed

serverVars == <<installed, ever>>
callVars == <<pc, local, expired, answer, began>>
vars == <<serverVars, callVars, reloads, caps, disturbed>>

Querying == {"components", "version", "procedures"}

TypeOK ==
  /\ installed \subseteq Capability
  /\ reloads \in 0 .. MaxReloads
  /\ caps \in CapsValue \cup {NoCaps}
  /\ pc \in [Probe -> {"idle", "store", "answered"} \cup Querying]
  /\ local \in [Probe -> CapsValue \cup {NoCaps}]
  /\ expired \in [Probe -> BOOLEAN]
  /\ answer \in [Probe -> CapsValue \cup {NoCaps}]
  /\ began \in [Probe -> 0 .. MaxReloads]
  /\ ever \subseteq Capability
  /\ disturbed \in BOOLEAN

Init ==
  /\ installed \in SUBSET Capability
  /\ reloads = 0
  /\ caps = NoCaps
  /\ pc = [p \in Probe |-> "idle"]
  /\ local = [p \in Probe |-> NoCaps]
  /\ expired = [p \in Probe |-> FALSE]
  /\ answer = [p \in Probe |-> NoCaps]
  /\ began = [p \in Probe |-> 0]
  /\ ever = installed
  /\ disturbed = FALSE

-----------------------------------------------------------------------------
(* One call of Capabilities.                                               *)

\* The cache is filled: the call returns it.
Hit(p) ==
  /\ pc[p] = "idle"
  /\ caps # NoCaps
  /\ pc' = [pc EXCEPT ![p] = "answered"]
  /\ answer' = [answer EXCEPT ![p] = caps]
  /\ began' = [began EXCEPT ![p] = reloads]
  /\ UNCHANGED <<local, expired, serverVars, reloads, caps, disturbed>>

\* The cache is empty: the call will query the server.
Miss(p) ==
  /\ pc[p] = "idle"
  /\ caps = NoCaps
  /\ pc' = [pc EXCEPT ![p] = "components"]
  /\ local' = [local EXCEPT ![p] = [has |-> {}, probedAt |-> reloads]]
  /\ began' = [began EXCEPT ![p] = reloads]
  /\ UNCHANGED <<expired, answer, serverVars, reloads, caps, disturbed>>

ComponentsAnswered(p) ==
  /\ pc[p] = "components"
  /\ ~expired[p]
  /\ pc' = [pc EXCEPT ![p] = "version"]
  /\ UNCHANGED <<local, expired, answer, began, serverVars, reloads, caps, disturbed>>

\* dbms.components() is lost: the call fails and caches nothing.
ComponentsLost(p) ==
  /\ pc[p] = "components"
  /\ pc' = [pc EXCEPT ![p] = "answered"]
  /\ local' = [local EXCEPT ![p] = NoCaps]
  /\ UNCHANGED <<expired, answer, began, serverVars, reloads, caps, disturbed>>

\* Mutants of what a query adds: a row is taken for the names in it, rows are not
\* looked at, rows replace what an earlier query found.
FoundRow(p, asked) == [local[p] EXCEPT !.has = @ \cup {installed \cap asked}]
FoundAll(p, asked) == [local[p] EXCEPT !.has = @ \cup asked]
FoundLast(p, asked) == [local[p] EXCEPT !.has = installed \cap asked]

\* The value p builds once a query for asked has been answered.
Found(p, asked) == [local[p] EXCEPT !.has = @ \cup (installed \cap asked)]

\* RETURN apoc.version(): an error says that APOC is absent.
VersionAnswered(p) ==
  /\ pc[p] = "version"
  /\ ~expired[p]
  /\ local' = [local EXCEPT ![p] = Found(p, {Version})]
  /\ pc' = [pc EXCEPT ![p] = "procedures"]
  /\ UNCHANGED <<expired, answer, began, serverVars, reloads, caps, disturbed>>

\* SHOW PROCEDURES.
ProceduresAnswered(p) ==
  /\ pc[p] = "procedures"
  /\ ~expired[p]
  /\ local' = [local EXCEPT ![p] = Found(p, Procedure)]
  /\ pc' = [pc EXCEPT ![p] = "store"]
  /\ UNCHANGED <<expired, answer, began, serverVars, reloads, caps, disturbed>>

\* Either of the two is lost: the call goes on as if the server had nothing.
QueryLost(p) ==
  /\ \/ pc[p] = "version" /\ pc' = [pc EXCEPT ![p] = "procedures"]
     \/ pc[p] = "procedures" /\ pc' = [pc EXCEPT ![p] = "store"]
  /\ disturbed' = TRUE
  /\ UNCHANGED <<local, expired, answer, began, serverVars, reloads, caps>>

\* Mutant: the value is returned and not cached.
StoreNothing(p) == caps

\* What the cache holds once p has stored: p's value, whatever was there.
Stored(p) == local[p]

Store(p) ==
  /\ pc[p] = "store"
  /\ caps' = Stored(p)
  /\ answer' = [answer EXCEPT ![p] = local[p]]
  /\ pc' = [pc EXCEPT ![p] = "answered"]
  /\ UNCHANGED <<local, expired, began, serverVars, reloads, disturbed>>

\* The probe is over, and its locals with it.
Return(p) ==
  /\ pc[p] = "answered"
  /\ pc' = [pc EXCEPT ![p] = "idle"]
  /\ local' = [local EXCEPT ![p] = NoCaps]
  /\ expired' = [expired EXCEPT ![p] = FALSE]
  /\ answer' = [answer EXCEPT ![p] = NoCaps]
  /\ began' = [began EXCEPT ![p] = 0]
  /\ UNCHANGED <<serverVars, reloads, caps, disturbed>>

-----------------------------------------------------------------------------
(* The environment.                                                        *)

\* The context of p's call expires: no query is answered from here on.
Expire(p) ==
  /\ pc[p] \in Querying
  /\ ~expired[p]
  /\ expired' = [expired EXCEPT ![p] = TRUE]
  /\ UNCHANGED <<pc, local, answer, began, serverVars, reloads, caps, disturbed>>

\* Plugins are installed or removed.
ChangePlugins ==
  /\ installed' \in SUBSET Capability \ {installed}
  /\ ever' = ever \cup installed'
  /\ disturbed' = TRUE
  /\ UNCHANGED <<callVars, reloads, caps>>

\* A reload that keeps the entry.  Neither Manager.Reload nor Pool.Reconcile
\* calls InvalidateCapabilities.
Reload ==
  /\ reloads < MaxReloads
  /\ reloads' = reloads + 1
  /\ UNCHANGED <<serverVars, callVars, caps, disturbed>>

-----------------------------------------------------------------------------
CallStep(p) ==
  \/ ComponentsAnswered(p) \/ ComponentsLost(p)
  \/ VersionAnswered(p) \/ ProceduresAnswered(p) \/ QueryLost(p)
  \/ Store(p) \/ Return(p)

Begin(p) == Hit(p) \/ Miss(p)

Next ==
  \/ \E p \in Probe : Begin(p) \/ CallStep(p) \/ Expire(p)
  \/ ChangePlugins
  \/ Reload

Spec == Init /\ [][Next]_vars

\* A call that was made is carried on to its end.
FairSpec == Spec /\ \A p \in Probe : WF_vars(CallStep(p))

-----------------------------------------------------------------------------
(* Properties.                                                             *)

\* No probe is told, and the cache does not hold, that the server has something
\* it never had: an auto collector is not run against a procedure that was never
\* there (orchestrator.go:140-158), however calls and plugin changes interleave.
NothingInvented ==
  /\ caps # NoCaps => caps.has \subseteq ever
  /\ \A p \in Probe : answer[p] # NoCaps => answer[p].has \subseteq ever

\* As long as no query was lost and no plugin changed, every answer is exactly
\* what the server has, also when several first calls probe and store at the same
\* time (capabilities.go:28-80).
ExactUnlessDisturbed ==
  ~disturbed =>
    /\ caps # NoCaps => caps.has = installed
    /\ \A p \in Probe : answer[p] # NoCaps => answer[p].has = installed

\* If probes keep coming and from some time on dbms.components() is not lost, the
\* cache is eventually filled, so that a server that was down when the exporter
\* first met it gets its auto collectors later.
EventuallyCached ==
  (/\ []<><<\E p \in Probe : Begin(p)>>_vars
   /\ <>[][\A p \in Probe : ~ComponentsLost(p)]_vars) => <>(caps # NoCaps)

-----------------------------------------------------------------------------
(* What the documentation says, and the code does not do.                  *)

\* CHANGELOG.md:30, "reload invalidates the cache", and docs/CONFIGURATION.md:65,
\* "probes capabilities once per Neo4j instance at first contact (and again on
\* reload)": a probe that starts after a reload gets capabilities probed after it.
ReloadInvalidates ==
  \A p \in Probe : answer[p] # NoCaps => answer[p].probedAt >= began[p]

=============================================================================

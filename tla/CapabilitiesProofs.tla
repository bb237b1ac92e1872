------------------------- MODULE CapabilitiesProofs -------------------------
(***************************************************************************)
(* Theorems about Capabilities, for any number of probes and procedures.   *)
(***************************************************************************)
EXTENDS Capabilities, TLAPS

\* A call that queries or is about to store is building a value.
LocalsOK ==
  \A p \in Probe : pc[p] \in Querying \cup {"store"} => local[p] \in CapsValue

\* Nothing holds more than the server has had.
EverInv ==
  /\ installed \subseteq ever
  /\ \A p \in Probe :
       pc[p] \in Querying \cup {"store"} => local[p].has \subseteq ever

\* What an undisturbed call has found after each of its queries.
FoundInv ==
  ~disturbed =>
    \A p \in Probe :
      /\ pc[p] \in {"components", "version"} => local[p].has = {}
      /\ pc[p] = "procedures" => local[p].has = installed \cap {Version}
      /\ pc[p] = "store" => local[p].has = installed

CacheInv ==
  TypeOK /\ LocalsOK /\ EverInv /\ NothingInvented /\ FoundInv /\ ExactUnlessDisturbed

-----------------------------------------------------------------------------
LEMMA FoundType ==
  ASSUME NEW p \in Probe, local[p] \in CapsValue, NEW asked \in SUBSET Capability
  PROVE  /\ Found(p, asked) \in CapsValue
         /\ Found(p, asked) # NoCaps
         /\ Found(p, asked).has = local[p].has \cup (installed \cap asked)
  BY NoCapsAssumption DEF Found, CapsValue

LEMMA InitCacheInv == Init => CacheInv
<1> SUFFICES ASSUME Init PROVE CacheInv
  OBVIOUS
<1>1. disturbed \in BOOLEAN
  BY DEF Init
<1>2. TypeOK
  BY <1>1, CapabilityAssumption DEF Init, TypeOK
<1> QED
  BY <1>2
  DEF Init, CacheInv, LocalsOK, EverInv, NothingInvented, FoundInv,
      ExactUnlessDisturbed, Querying

-----------------------------------------------------------------------------
LEMMA BeginInv ==
  ASSUME CacheInv, NEW p \in Probe, Begin(p)
  PROVE  CacheInv'
<1> USE DEF CacheInv, serverVars
<1>1. CASE Hit(p)
  <2>1. TypeOK' /\ LocalsOK'
    BY <1>1 DEF Hit, TypeOK, LocalsOK, Querying
  <2>2. EverInv' /\ NothingInvented'
    BY <1>1 DEF Hit, TypeOK, EverInv, NothingInvented, Querying
  <2>3. FoundInv' /\ ExactUnlessDisturbed'
    BY <1>1 DEF Hit, TypeOK, FoundInv, ExactUnlessDisturbed
  <2> QED
    BY <2>1, <2>2, <2>3
<1>2. CASE Miss(p)
  <2> DEFINE empty == [has |-> {}, probedAt |-> reloads]
  <2>1. empty \in CapsValue /\ empty.has = {}
    BY DEF CapsValue, TypeOK
  <2>2. /\ local' = [local EXCEPT ![p] = empty]
        /\ pc' = [pc EXCEPT ![p] = "components"]
        /\ began' = [began EXCEPT ![p] = reloads]
        /\ UNCHANGED <<expired, answer, installed, ever, reloads, caps, disturbed>>
    BY <1>2 DEF Miss
  <2> HIDE DEF empty
  <2>3. TypeOK' /\ LocalsOK'
    BY <2>1, <2>2 DEF TypeOK, LocalsOK, Querying
  <2>4. EverInv' /\ NothingInvented'
    BY <2>1, <2>2 DEF TypeOK, EverInv, NothingInvented, Querying
  <2>5. FoundInv' /\ ExactUnlessDisturbed'
    BY <2>1, <2>2 DEF TypeOK, FoundInv, ExactUnlessDisturbed
  <2> QED
    BY <2>3, <2>4, <2>5
<1> QED
  BY <1>1, <1>2 DEF Begin

\* A query is answered: what it adds is what the server has of it.
LEMMA AnsweredInv ==
  ASSUME CacheInv, NEW p \in Probe, VersionAnswered(p) \/ ProceduresAnswered(p)
  PROVE  CacheInv'
<1> DEFINE asked == IF pc[p] = "version" THEN {Version} ELSE Procedure
           next == IF pc[p] = "version" THEN "procedures" ELSE "store"
           found == Found(p, asked)
<1> USE DEF CacheInv, serverVars
<1>1. /\ pc[p] \in {"version", "procedures"}
      /\ local' = [local EXCEPT ![p] = found]
      /\ pc' = [pc EXCEPT ![p] = next]
      /\ UNCHANGED <<expired, answer, began, installed, ever, reloads, caps, disturbed>>
  BY DEF VersionAnswered, ProceduresAnswered
<1>2. local[p] \in CapsValue
  BY <1>1 DEF LocalsOK, Querying
<1>3. asked \in SUBSET Capability
  BY DEF Capability
<1>4. /\ found \in CapsValue
      /\ found.has = local[p].has \cup (installed \cap asked)
  BY <1>2, <1>3, FoundType
<1>5. pc[p] = "version" => next = "procedures" /\ asked = {Version}
  OBVIOUS
<1>6. pc[p] = "procedures" => next = "store" /\ asked = Procedure
  OBVIOUS
<1> HIDE DEF asked, next, found
<1>7. TypeOK' /\ LocalsOK'
  BY <1>1, <1>4, <1>5, <1>6 DEF TypeOK, LocalsOK, Querying
<1>8. EverInv' /\ NothingInvented'
  BY <1>1, <1>4, <1>5, <1>6 DEF TypeOK, EverInv, NothingInvented, Querying
<1>9. FoundInv' /\ ExactUnlessDisturbed'
  <2>1. installed = (installed \cap {Version}) \cup (installed \cap Procedure)
    BY DEF TypeOK, Capability
  <2> QED
    BY <1>1, <1>4, <1>5, <1>6, <2>1 DEF TypeOK, FoundInv, ExactUnlessDisturbed
<1> QED
  BY <1>7, <1>8, <1>9

LEMMA CallStepInv ==
  ASSUME CacheInv, NEW p \in Probe, CallStep(p)
  PROVE  CacheInv'
<1> USE DEF CacheInv, serverVars
<1>1. CASE ComponentsAnswered(p)
  BY <1>1
  DEF ComponentsAnswered, TypeOK, LocalsOK, EverInv, NothingInvented, FoundInv,
      ExactUnlessDisturbed, Querying
<1>2. CASE ComponentsLost(p)
  BY <1>2
  DEF ComponentsLost, TypeOK, LocalsOK, EverInv, NothingInvented, FoundInv,
      ExactUnlessDisturbed, Querying
<1>3. CASE QueryLost(p)
  <2>1. disturbed' \in BOOLEAN /\ disturbed'
    BY <1>3 DEF QueryLost
  <2> QED
    BY <1>3, <2>1
    DEF QueryLost, TypeOK, LocalsOK, EverInv, NothingInvented, FoundInv,
        ExactUnlessDisturbed, Querying
<1>4. CASE Store(p)
  <2>1. local[p] \in CapsValue /\ pc[p] = "store"
    BY <1>4 DEF Store, LocalsOK
  <2>2. TypeOK' /\ LocalsOK'
    BY <1>4, <2>1 DEF Store, Stored, TypeOK, LocalsOK, Querying
  <2>3. EverInv' /\ NothingInvented'
    BY <1>4, <2>1 DEF Store, Stored, TypeOK, EverInv, NothingInvented, Querying
  <2>4. FoundInv' /\ ExactUnlessDisturbed'
    BY <1>4, <2>1 DEF Store, Stored, TypeOK, FoundInv, ExactUnlessDisturbed
  <2> QED
    BY <2>2, <2>3, <2>4
<1>5. CASE Return(p)
  BY <1>5, CapabilityAssumption
  DEF Return, TypeOK, LocalsOK, EverInv, NothingInvented, FoundInv,
      ExactUnlessDisturbed, Querying
<1> QED
  BY <1>1, <1>2, <1>3, <1>4, <1>5, AnsweredInv DEF CallStep

LEMMA EnvironmentInv ==
  ASSUME CacheInv, (\E p \in Probe : Expire(p)) \/ ChangePlugins \/ Reload
  PROVE  CacheInv'
<1> USE DEF CacheInv, callVars, serverVars
<1>1. ASSUME NEW p \in Probe, Expire(p) PROVE CacheInv'
  BY <1>1
  DEF Expire, TypeOK, LocalsOK, EverInv, NothingInvented, FoundInv,
      ExactUnlessDisturbed, Querying
<1>2. CASE ChangePlugins
  <2>1. disturbed' \in BOOLEAN /\ disturbed'
    BY <1>2 DEF ChangePlugins
  <2>2. TypeOK'
    BY <1>2, <2>1 DEF ChangePlugins, TypeOK
  <2> QED
    BY <1>2, <2>1, <2>2
    DEF ChangePlugins, LocalsOK, EverInv, NothingInvented, FoundInv, ExactUnlessDisturbed
<1>3. CASE Reload
  BY <1>3, CapabilityAssumption
  DEF Reload, TypeOK, LocalsOK, EverInv, NothingInvented, FoundInv, ExactUnlessDisturbed
<1> QED
  BY <1>1, <1>2, <1>3

LEMMA CacheInvHolds == Spec => []CacheInv
<1>1. CacheInv /\ [Next]_vars => CacheInv'
  <2> SUFFICES ASSUME CacheInv, [Next]_vars PROVE CacheInv'
    OBVIOUS
  <2>1. CASE UNCHANGED vars
    BY <2>1
    DEF vars, serverVars, callVars, CacheInv, TypeOK, LocalsOK, EverInv,
        NothingInvented, FoundInv, ExactUnlessDisturbed
  <2>2. CASE Next
    BY <2>2, BeginInv, CallStepInv, EnvironmentInv DEF Next
  <2> QED
    BY <2>1, <2>2
<1> QED
  BY InitCacheInv, <1>1, PTL DEF Spec

-----------------------------------------------------------------------------
\* Every reachable state is well typed.
THEOREM CacheTypeCorrect == Spec => []TypeOK
<1>1. CacheInv => TypeOK
  BY DEF CacheInv
<1> QED
  BY CacheInvHolds, <1>1, PTL

\* No interleaving of first calls, lost queries and plugin changes makes a probe
\* believe in a procedure the server never had (capabilities.go:20-82).
THEOREM CapabilitiesWereThere == Spec => []NothingInvented
<1>1. CacheInv => NothingInvented
  BY DEF CacheInv
<1> QED
  BY CacheInvHolds, <1>1, PTL

\* Without a lost query or a plugin change every answer is exact, however many
\* calls race to fill the cache (capabilities.go:28-80).
THEOREM UndisturbedAnswersAreExact == Spec => []ExactUnlessDisturbed
<1>1. CacheInv => ExactUnlessDisturbed
  BY DEF CacheInv
<1> QED
  BY CacheInvHolds, <1>1, PTL

=============================================================================

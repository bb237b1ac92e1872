------------------------- MODULE ConfigReloadProofs -------------------------
(***************************************************************************)
(* Theorems about ConfigReload, for any number of reloaders and probes and *)
(* any contents of the two files.                                          *)
(*                                                                         *)
(* NeverOlder needs that a reloader between its read and its swap holds    *)
(* Manager.mu, so that nobody else has swapped since (LockInv, EditInv).   *)
(* ListedTargetHasModule needs that whatever a probe holds was validated   *)
(* (ProbeInv).                                                             *)
(***************************************************************************)
EXTENDS ConfigReload, TLAPS

Locked == {"locked", "read", "expanded"}

\* Manager.Reload runs under Manager.mu.
LockInv == \A r \in Reloader : rpc[r] \in Locked => mu = r

\* What is being loaded is not older than what is active.
EditInv ==
  /\ current.edit <= edits
  /\ \A r \in Reloader :
       rpc[r] \in {"read", "expanded"} =>
         /\ current.edit <= loading[r].edit
         /\ loading[r].edit <= edits

\* What a probe holds at each step of its request.
ProbeInv ==
  \A p \in Probe :
    ppc[p] # "idle" =>
      /\ conf[p] \in Config
      /\ Valid(conf[p].text)
      /\ asks[p] \in Request
      /\ ppc[p] = "found" =>
           \/ asks[p].module # Unset
           \/ conf[p].text.target[asks[p].target] = Absent
           \/ module[p] \in ModulesOf(p)

ReloadInv == TypeOK /\ LockInv /\ EditInv /\ Valid(current.text) /\ ProbeInv

-----------------------------------------------------------------------------
\* The module FindTarget finds is a name of Module, or the target is not there.
LEMMA FoundModule ==
  ASSUME NEW t \in Text, NEW n \in Name
  PROVE  FindTarget(t, n) \in Module \cup {Absent}
  BY TextAssumption, NameAssumption DEF FindTarget

\* For a listed target of a validated configuration it is one that is defined
\* there: the target's, or the default one.
LEMMA ListedFindsModule ==
  ASSUME NEW t \in Text, Valid(t), NEW n \in Name, t.target[n] # Absent
  PROVE  FindTarget(t, n) \in t.modules
  BY TextAssumption, NameAssumption DEF FindTarget, Valid

LEMMA EditsAreNumbers == MaxEdits \in Nat
  BY TextAssumption

LEMMA InitReloadInv == Init => ReloadInv /\ ListedTargetHasModule
<1> SUFFICES ASSUME Init PROVE ReloadInv /\ ListedTargetHasModule
  OBVIOUS
<1>1. TypeOK
  <2>1. current \in Config
    BY EditsAreNumbers DEF Init, Config
  <2>2. Nothing \in [text : Text \cup {Absent}, secret : Secret \cup {Absent}, edit : 0 .. MaxEdits]
    BY EditsAreNumbers DEF Nothing
  <2>3. asked \in BOOLEAN
    BY DEF Init
  <2> QED
    BY <2>1, <2>2, <2>3, EditsAreNumbers DEF Init, TypeOK
<1>2. LockInv /\ EditInv
  BY EditsAreNumbers DEF Init, LockInv, EditInv, Locked
<1>3. Valid(current.text)
  BY DEF Init, Loads
<1>4. ProbeInv /\ ListedTargetHasModule
  BY DEF Init, ProbeInv, ListedTargetHasModule
<1> QED
  BY <1>1, <1>2, <1>3, <1>4 DEF ReloadInv

-----------------------------------------------------------------------------
\* The steps of a reload: types, and what becomes active.
LEMMA ReloadStepInv ==
  ASSUME ReloadInv, NEW r \in Reloader, Lock(r) \/ ReloadStep(r)
  PROVE  /\ TypeOK' /\ LockInv' /\ EditInv' /\ Valid(current.text)'
         /\ current'.edit >= current.edit
<1> USE EditsAreNumbers, NameAssumption
    DEF ReloadInv, TypeOK, LockInv, EditInv, Locked, At, fileVars, probeVars
<1>1. CASE Lock(r)
  BY <1>1 DEF Lock, MuFree, Config
<1>2. CASE ReadConfig(r)
  <2>1. /\ loading' = [loading EXCEPT ![r] = [text |-> file, secret |-> Absent, edit |-> edits]]
        /\ rpc' = [rpc EXCEPT ![r] = "read"] /\ rpc[r] = "locked"
        /\ UNCHANGED <<file, secret, edits, current, mu, pending, ppc, conf, asks, module, asked>>
    BY <1>2 DEF ReadConfig
  <2>2. TypeOK'
    BY <2>1
  <2>3. LockInv' /\ EditInv'
    BY <2>1 DEF Config
  <2> QED
    BY <2>1, <2>2, <2>3 DEF Config
<1>3. CASE ExpandSecrets(r)
  BY <1>3 DEF ExpandSecrets, Config
<1>4. CASE Swap(r)
  <2>1. loading[r] \in Config /\ Valid(loading[r].text)
    BY <1>4 DEF Swap, Loads, Config
  <2>2. /\ current' = loading[r] /\ mu' = NoOne
        /\ loading' = [loading EXCEPT ![r] = Nothing]
        /\ rpc' = [rpc EXCEPT ![r] = "reconcile"] /\ rpc[r] = "expanded"
        /\ UNCHANGED <<file, secret, edits, pending, ppc, conf, asks, module, asked>>
    BY <1>4 DEF Swap
  <2>3. \A q \in Reloader : rpc[q] \in Locked => q = r
    BY <2>2
  <2>4. TypeOK'
    BY <2>1, <2>2 DEF Nothing
  <2>5. LockInv' /\ EditInv' /\ current'.edit >= current.edit
    BY <2>1, <2>2, <2>3 DEF Config
  <2> QED
    BY <2>1, <2>2, <2>4, <2>5
<1>5. CASE ReloadFails(r)
  <2>1. /\ mu' = NoOne
        /\ loading' = [loading EXCEPT ![r] = Nothing]
        /\ rpc' = [rpc EXCEPT ![r] = "idle"] /\ rpc[r] \in Locked
        /\ UNCHANGED <<file, secret, edits, current, pending, ppc, conf, asks, module, asked>>
    BY <1>5 DEF ReloadFails
  <2>2. TypeOK'
    BY <2>1 DEF Nothing
  <2>3. LockInv' /\ EditInv'
    BY <2>1 DEF Config
  <2> QED
    BY <2>1, <2>2, <2>3 DEF Config
<1>6. CASE Reconcile(r)
  BY <1>6 DEF Reconcile, Config
<1> QED
  BY <1>1, <1>2, <1>3, <1>4, <1>5, <1>6 DEF ReloadStep

\* The steps that start a reload or edit a file.
LEMMA OutsideStepInv ==
  ASSUME ReloadInv,
         SendHup \/ ReceiveHup \/ (\E r \in Reloader : PostReload(r)) \/ Edit
  PROVE  /\ TypeOK' /\ LockInv' /\ EditInv' /\ Valid(current.text)'
         /\ current'.edit >= current.edit
<1> USE EditsAreNumbers, NameAssumption
    DEF ReloadInv, TypeOK, LockInv, EditInv, Locked, At, fileVars, reloadVars, probeVars
<1>1. CASE SendHup
  BY <1>1 DEF SendHup, PendingAfterSignal, Config
<1>2. CASE ReceiveHup
  BY <1>2 DEF ReceiveHup, Config
<1>3. ASSUME NEW r \in Reloader, PostReload(r)
      PROVE  /\ TypeOK' /\ LockInv' /\ EditInv' /\ Valid(current.text)'
             /\ current'.edit >= current.edit
  BY <1>3 DEF PostReload, Config
<1>4. CASE Edit
  <2>1. /\ edits' = edits + 1 /\ edits < MaxEdits
        /\ file' \in Text \cup {Absent} /\ secret' \in Secret \cup {Absent}
        /\ asked' = FALSE
        /\ UNCHANGED <<current, mu, pending, rpc, loading, ppc, conf, asks, module>>
    BY <1>4 DEF Edit
  <2>2. TypeOK'
    <3>1. edits' \in 0 .. MaxEdits
      BY <2>1
    <3>2. asked' \in BOOLEAN
      BY <2>1
    <3> QED
      BY <2>1, <3>1, <3>2
  <2>3. LockInv' /\ EditInv'
    BY <2>1 DEF Config
  <2> QED
    BY <2>1, <2>2, <2>3 DEF Config
<1> QED
  BY <1>1, <1>2, <1>3, <1>4

\* None of these touches a probe.
LEMMA ProbesUntouched ==
  ASSUME ReloadInv, ListedTargetHasModule, UNCHANGED probeVars
  PROVE  ProbeInv' /\ ListedTargetHasModule'
  BY DEF ReloadInv, ProbeInv, ListedTargetHasModule, ModulesOf, probeVars

-----------------------------------------------------------------------------
\* The steps of a probe.
LEMMA ProbeStepInv ==
  ASSUME ReloadInv, ListedTargetHasModule, NEW p \in Probe,
         TakeConfig(p) \/ LookUpTarget(p) \/ LookUpModule(p) \/ Respond(p)
  PROVE  ReloadInv' /\ ListedTargetHasModule' /\ current' = current
<1>1. UNCHANGED <<fileVars, reloadVars, asked>>
  BY DEF TakeConfig, LookUpTarget, LookUpModule, Respond
<1>2. LockInv' /\ EditInv' /\ Valid(current.text)' /\ current' = current
  BY <1>1 DEF ReloadInv, LockInv, EditInv, fileVars, reloadVars
<1>3. TypeOK' /\ ProbeInv' /\ ListedTargetHasModule'
  <2> USE NameAssumption
      DEF ReloadInv, TypeOK, ProbeInv, ListedTargetHasModule, ModulesOf, fileVars,
          reloadVars
  <2>1. CASE TakeConfig(p)
    BY <2>1 DEF TakeConfig
  <2>2. CASE LookUpTarget(p)
    <3> DEFINE m == FindTarget(conf[p].text, asks[p].target)
    <3>1. /\ conf[p] \in Config /\ conf[p].text \in Text
          /\ asks[p].target \in Name /\ asks[p].module \in Module \cup {Unset}
      BY <2>2 DEF LookUpTarget, Config, Request
    <3>2. m \in Module \cup {Absent}
      BY <3>1, FoundModule
    <3>3. conf[p].text.target[asks[p].target] # Absent => m \in conf[p].text.modules
      BY <2>2, <3>1, ListedFindsModule DEF LookUpTarget
    <3>4. CASE m = Absent
      BY <2>2, <3>4 DEF LookUpTarget
    <3>5. CASE m # Absent
      <4> HIDE DEF m
      <4>1. /\ ppc' = [ppc EXCEPT ![p] = "found"]
            /\ module' = [module EXCEPT ![p] =
                            IF asks[p].module = Unset THEN m ELSE asks[p].module]
            /\ UNCHANGED <<fileVars, reloadVars, conf, asks, asked>>
        BY <2>2, <3>5 DEF LookUpTarget, m
      <4> QED
        BY <2>2, <3>1, <3>2, <3>3, <3>5, <4>1 DEF LookUpTarget
    <3> QED
      BY <3>4, <3>5
  <2>3. CASE LookUpModule(p)
    BY <2>3 DEF LookUpModule
  <2>4. CASE Respond(p)
    BY <2>4 DEF Respond
  <2> QED
    BY <2>1, <2>2, <2>3, <2>4
<1> QED
  BY <1>2, <1>3 DEF ReloadInv

LEMMA NextReloadInv ==
  ASSUME ReloadInv, ListedTargetHasModule, [Next]_vars
  PROVE  ReloadInv' /\ ListedTargetHasModule' /\ current'.edit >= current.edit
<1>0. current.edit \in Nat
  BY EditsAreNumbers DEF ReloadInv, TypeOK, Config
<1>1. CASE \E r \in Reloader : Lock(r) \/ ReloadStep(r)
  <2>1. UNCHANGED probeVars
    BY <1>1
    DEF Lock, ReloadStep, ReadConfig, ExpandSecrets, Swap, ReloadFails, Reconcile
  <2> QED
    BY <1>1, <2>1, ReloadStepInv, ProbesUntouched DEF ReloadInv
<1>2. CASE SendHup \/ ReceiveHup \/ (\E r \in Reloader : PostReload(r)) \/ Edit
  <2>1. UNCHANGED probeVars
    BY <1>2 DEF SendHup, ReceiveHup, PostReload, Edit
  <2> QED
    BY <1>2, <2>1, OutsideStepInv, ProbesUntouched DEF ReloadInv
<1>3. CASE \E p \in Probe :
             TakeConfig(p) \/ LookUpTarget(p) \/ LookUpModule(p) \/ Respond(p)
  BY <1>0, <1>3, ProbeStepInv
<1>4. CASE UNCHANGED vars
  BY <1>0, <1>4
  DEF vars, fileVars, reloadVars, probeVars, ReloadInv, TypeOK, LockInv, EditInv,
      ProbeInv, ListedTargetHasModule, ModulesOf
<1> QED
  BY <1>1, <1>2, <1>3, <1>4 DEF Next

LEMMA ReloadInvHolds == Spec => [](ReloadInv /\ ListedTargetHasModule)
<1>1. ReloadInv /\ ListedTargetHasModule /\ [Next]_vars
        => (ReloadInv /\ ListedTargetHasModule)'
  BY NextReloadInv
<1> QED
  BY InitReloadInv, <1>1, PTL DEF Spec

-----------------------------------------------------------------------------
\* Every reachable state is well typed.
THEOREM ReloadTypeCorrect == Spec => []TypeOK
<1>1. ReloadInv => TypeOK
  BY DEF ReloadInv
<1> QED
  BY ReloadInvHolds, <1>1, PTL

\* A probe of a listed target that names no module never meets an undefined one
\* (handler.go:86-90), whatever reloads do meanwhile.
THEOREM ListedTargetsResolve == Spec => []ListedTargetHasModule
  BY ReloadInvHolds, PTL

\* No interleaving of reloads brings an older edit of the file back
\* (config.go:336-349).
THEOREM ReloadsMoveForward == Spec => NeverOlder
<1>1. ReloadInv /\ ListedTargetHasModule /\ [Next]_vars
        => [current'.edit >= current.edit]_vars
  BY NextReloadInv
<1> QED
  BY ReloadInvHolds, <1>1, PTL DEF Spec, NeverOlder

-----------------------------------------------------------------------------
(* No signal is lost.                                                      *)

\* What was read since the last edit is what the files hold: the secret is read after
\* the configuration, and no edit came between.
FreshInv ==
  /\ \A r \in Reloader :
       /\ rpc[r] \in {"read", "expanded"} /\ loading[r].edit = edits => loading[r].text = file
       /\ rpc[r] = "expanded" /\ loading[r].edit = edits => loading[r].secret = secret
  /\ current.edit = edits => current.text = file /\ current.secret = secret

\* A signal sent after the last edit is on its way, or what it asked for is done.
SignalInv ==
  asked /\ Loads(file, secret) =>
    \/ pending = 1
    \/ rpc[Hup] \in {"reload", "locked"}
    \/ rpc[Hup] \in {"read", "expanded"} /\ loading[Hup].edit = edits
    \/ current.edit = edits

LEMMA FreshStep ==
  ASSUME ReloadInv, FreshInv, [Next]_vars
  PROVE  FreshInv'
<1> USE EditsAreNumbers, NameAssumption DEF FreshInv, At, fileVars, reloadVars
<1>1. ASSUME NEW r \in Reloader, ReadConfig(r) PROVE FreshInv'
  BY <1>1 DEF ReadConfig, ReloadInv, TypeOK
<1>2. ASSUME NEW r \in Reloader, ExpandSecrets(r) PROVE FreshInv'
  <2>1. /\ UNCHANGED <<file, secret, edits, current>> /\ rpc[r] = "read"
        /\ loading' = [loading EXCEPT ![r].secret = secret]
        /\ rpc' = [rpc EXCEPT ![r] = "expanded"]
    BY <1>2 DEF ExpandSecrets
  <2>2. ASSUME NEW q \in Reloader
        PROVE  /\ loading'[q].text = loading[q].text /\ loading'[q].edit = loading[q].edit
               /\ loading'[q].secret = IF q = r THEN secret ELSE loading[q].secret
    BY <2>1 DEF ReloadInv, TypeOK
  <2> QED
    BY <2>1, <2>2 DEF ReloadInv, TypeOK
<1>3. ASSUME NEW r \in Reloader, Swap(r) PROVE FreshInv'
  BY <1>3 DEF Swap, ReloadInv, TypeOK
<1>4. ASSUME NEW r \in Reloader, Lock(r) \/ ReloadFails(r) \/ Reconcile(r) \/ PostReload(r)
      PROVE  FreshInv'
  BY <1>4 DEF Lock, ReloadFails, Reconcile, PostReload, ReloadInv, TypeOK
<1>5. CASE SendHup \/ ReceiveHup
  BY <1>5 DEF SendHup, ReceiveHup, ReloadInv, TypeOK
<1>6. CASE Edit
  <2>1. /\ UNCHANGED <<current, rpc, loading>> /\ edits' = edits + 1
        /\ current.edit <= edits
        /\ \A r \in Reloader : rpc[r] \in {"read", "expanded"} => loading[r].edit <= edits
    BY <1>6 DEF Edit, ReloadInv, EditInv
  <2>2. /\ edits \in Nat /\ current.edit \in Nat
        /\ \A r \in Reloader : loading[r].edit \in Nat
    BY DEF ReloadInv, TypeOK, Config
  <2> QED
    BY <2>1, <2>2
<1>7. ASSUME NEW p \in Probe, TakeConfig(p) \/ LookUpTarget(p) \/ LookUpModule(p) \/ Respond(p)
      PROVE  FreshInv'
  BY <1>7 DEF TakeConfig, LookUpTarget, LookUpModule, Respond
<1>8. CASE UNCHANGED vars
  BY <1>8 DEF vars
<1> QED
  BY <1>1, <1>2, <1>3, <1>4, <1>5, <1>6, <1>7, <1>8 DEF Next, ReloadStep

LEMMA SignalStep ==
  ASSUME ReloadInv, ListedTargetHasModule, FreshInv, SignalInv, [Next]_vars
  PROVE  SignalInv'
<1> SUFFICES ASSUME asked', Loads(file, secret)' PROVE SignalInv'
  BY DEF SignalInv
<1> USE EditsAreNumbers, NameAssumption DEF SignalInv, At, fileVars, reloadVars
<1>0. rpc \in [Reloader -> {"idle", "reload", "locked", "read", "expanded", "reconcile"}]
  BY DEF ReloadInv, TypeOK
<1>1. ASSUME NEW r \in Reloader, ReadConfig(r) PROVE SignalInv'
  BY <1>0, <1>1 DEF ReadConfig, ReloadInv, TypeOK
<1>2. ASSUME NEW r \in Reloader, ExpandSecrets(r) PROVE SignalInv'
  BY <1>0, <1>2 DEF ExpandSecrets, ReloadInv, TypeOK
<1>3. ASSUME NEW r \in Reloader, Swap(r) PROVE SignalInv'
  <2>1. /\ current' = loading[r] /\ rpc[r] = "expanded" /\ UNCHANGED <<file, secret, edits, pending, asked>>
        /\ rpc' = [rpc EXCEPT ![r] = "reconcile"]
        /\ loading' = [loading EXCEPT ![r] = Nothing]
    BY <1>3 DEF Swap
  <2>2. /\ loading[r].edit <= edits /\ current.edit <= loading[r].edit
        /\ loading[r].edit \in Nat /\ current.edit \in Nat /\ edits \in Nat
    BY <2>1 DEF ReloadInv, EditInv, TypeOK, Config
  <2>3. current.edit = edits => current'.edit = edits
    BY <2>1, <2>2
  <2>4. CASE r = Hup
    BY <1>0, <2>1, <2>3, <2>4
  <2>5. CASE r # Hup
    BY <1>0, <2>1, <2>3, <2>5 DEF ReloadInv, TypeOK
  <2> QED
    BY <2>4, <2>5
<1>4. ASSUME NEW r \in Reloader, ReloadFails(r) PROVE SignalInv'
  <2>1. /\ UNCHANGED <<file, secret, edits, current, pending, asked>>
        /\ rpc' = [rpc EXCEPT ![r] = "idle"]
        /\ loading' = [loading EXCEPT ![r] = Nothing]
        /\ \/ rpc[r] = "locked" /\ file = Absent
           \/ rpc[r] = "read" /\ secret = Absent
           \/ rpc[r] = "expanded" /\ ~Loads(loading[r].text, loading[r].secret)
    BY <1>4 DEF ReloadFails
  <2>2. Loads(file, secret) /\ file # Absent /\ secret # Absent
    BY <2>1 DEF Loads
  <2>3. CASE r = Hup
    <3>1. ~(rpc[Hup] = "expanded" /\ loading[Hup].edit = edits)
      BY <2>1, <2>2, <2>3 DEF FreshInv
    <3> QED
      BY <1>0, <2>1, <2>2, <2>3, <3>1
  <2>4. CASE r # Hup
    BY <1>0, <2>1, <2>2, <2>4 DEF ReloadInv, TypeOK
  <2> QED
    BY <2>3, <2>4
<1>5. ASSUME NEW r \in Reloader, Lock(r) \/ Reconcile(r) \/ PostReload(r) PROVE SignalInv'
  BY <1>0, <1>5 DEF Lock, Reconcile, PostReload
<1>6. CASE SendHup \/ ReceiveHup
  BY <1>0, <1>6 DEF SendHup, ReceiveHup, PendingAfterSignal
<1>7. CASE Edit
  BY <1>7 DEF Edit
<1>8. ASSUME NEW p \in Probe, TakeConfig(p) \/ LookUpTarget(p) \/ LookUpModule(p) \/ Respond(p)
      PROVE  SignalInv'
  BY <1>8 DEF TakeConfig, LookUpTarget, LookUpModule, Respond
<1>9. CASE UNCHANGED vars
  BY <1>9 DEF vars
<1> QED
  BY <1>1, <1>2, <1>3, <1>4, <1>5, <1>6, <1>7, <1>8, <1>9 DEF Next, ReloadStep

\* A SIGHUP sent after the last edit is served by a reload that sees that edit, or by
\* somebody else's that has: when the goroutine rests, what is active is what the files
\* hold, text and secret of the same moment (main.go:118-131).
THEOREM SignalsServed == Spec => []NoSignalLost
<1>1. Init => FreshInv /\ SignalInv
  BY DEF Init, FreshInv, SignalInv
<1>2. ReloadInv /\ ListedTargetHasModule /\ FreshInv /\ SignalInv /\ [Next]_vars
        => FreshInv' /\ SignalInv'
  BY FreshStep, SignalStep
<1>3. FreshInv /\ SignalInv => NoSignalLost
  BY DEF FreshInv, SignalInv, NoSignalLost
<1> QED
  BY <1>1, <1>2, <1>3, ReloadInvHolds, PTL DEF Spec

=============================================================================

-------------------------- MODULE ConfigLoadProofs --------------------------
(***************************************************************************)
(* Proofs about ConfigLoad: for any file and any disk, LoadFile accepts    *)
(* exactly the files that VerdictExact says, and what a request finds in   *)
(* the configuration it has accepted is usable and the right one.          *)
(*                                                                         *)
(* The configuration under construction is never more than a stage between *)
(* the text with its defaults, Filled, and the same with the module of     *)
(* every target filled in; what LoadFile has looked at so far is good, and *)
(* what made it stop is not.                                               *)
(***************************************************************************)
EXTENDS ConfigLoad, WellFoundedInduction, TLAPS

-----------------------------------------------------------------------------
(* The types.                                                              *)

LEMMA SeqOfFunction ==
  ASSUME NEW S, NEW n \in Nat, NEW f \in [1 .. n -> S]
  PROVE  f \in Seq(S) /\ Len(f) = n
  BY DEF Seq

LEMMA OrTyped ==
  ASSUME NEW x \in Int, NEW default \in Int \ {0}
  PROVE  Or(x, default) \in Int \ {0}
  BY DEF Or

LEMMA WithPortTyped ==
  ASSUME NEW a \in Address
  PROVE  WithPort(a) \in Address /\ WithPort(a).port \in Port /\ WithPort(a) # Empty
<1>1. a.host \in Host /\ a.port \in Port \cup {NoPort}
  BY DEF Address
<1>2. CASE a.port = NoPort
  <2>1. WithPort(a) = [host |-> a.host, port |-> BoltPort]
    BY <1>2 DEF WithPort
  <2>2. WithPort(a).port # NoPort
    BY <2>1, AddressAssumption
  <2>3. QED
    BY <1>1, <2>1, <2>2, AddressAssumption DEF Address, Empty
<1>3. CASE a.port # NoPort
  <2>1. WithPort(a) = a
    BY <1>3 DEF WithPort
  <2>2. QED
    BY <1>1, <1>3, <2>1 DEF Empty
<1>4. QED
  BY <1>2, <1>3

LEMMA EmptyTyped == Empty \in Address
  BY AddressAssumption DEF Empty, Address

LEMMA WithSchemeTyped ==
  ASSUME NEW b \in Bolt
  PROVE  WithScheme(b) \in Bolt
<1>1. /\ b.scheme \in Scheme \cup {NoScheme, "other"} /\ b.auth \in {"none", "password"}
      /\ b.username \in BOOLEAN /\ b.password \in BOOLEAN /\ b.file \in Optional(File)
  BY DEF Bolt
<1>2. (IF b.scheme = NoScheme THEN "neo4j" ELSE b.scheme) \in Scheme \cup {NoScheme, "other"}
  BY <1>1, SchemeAssumption
<1>3. QED
  BY <1>1, <1>2 DEF WithScheme, Bolt

LEMMA TargetDefaultsTyped ==
  ASSUME NEW t \in Target
  PROVE  TargetDefaults(t) \in Target
<1>1. /\ t.name \in Address /\ t.address \in Address /\ t.module \in ModuleName \cup {NoName}
      /\ t.bolt \in Bolt /\ t.jolokia \in Optional(Jolokia)
  BY DEF Target
<1>2. WithPort(t.address) \in Address /\ WithScheme(t.bolt) \in Bolt
  BY <1>1, WithPortTyped, WithSchemeTyped
<1>3. QED
  BY <1>1, <1>2 DEF TargetDefaults, Target

LEMMA WithModuleTyped ==
  ASSUME NEW c, c.default_module \in ModuleName, NEW t \in Target
  PROVE  WithModule(c, t) \in Target
<1>1. /\ t.name \in Address /\ t.address \in Address /\ t.module \in ModuleName \cup {NoName}
      /\ t.bolt \in Bolt /\ t.jolokia \in Optional(Jolokia)
  BY DEF Target
<1>2. QED
  BY <1>1 DEF WithModule, Target

LEMMA DiscoveredTyped ==
  ASSUME NEW c, c.default_module \in ModuleName, NEW t \in Target, NEW q \in Address
  PROVE  Discovered(c, t, q) \in Target
<1>1. /\ t.name \in Address /\ t.address \in Address /\ t.module \in ModuleName \cup {NoName}
      /\ t.bolt \in Bolt /\ t.jolokia \in Optional(Jolokia)
  BY DEF Target
<1>2. WithPort(q) \in Address
  BY WithPortTyped
<1>3. QED
  BY <1>1, <1>2 DEF Discovered, Target

LEMMA ModuleDefaultsTyped ==
  ASSUME NEW m \in Module, NEW timeout \in Int \ {0}
  PROVE  /\ ModuleDefaults(m, timeout) \in Module
         /\ ModuleDefaults(m, timeout).timeout # 0
         /\ ModuleDefaults(m, timeout).top # 0
         /\ ModuleDefaults(m, timeout).collectors = m.collectors
<1>1. m.timeout \in Int /\ m.top \in Int /\ m.collectors \in SUBSET STRING
  BY DEF Module
<1>2. Or(m.timeout, timeout) \in Int \ {0} /\ Or(m.top, 10) \in Int \ {0}
  BY <1>1, OrTyped
<1>3. QED
  BY <1>1, <1>2 DEF ModuleDefaults, Module

\* The settings of a file with its defaults are all set.
Set(c) ==
  /\ c.default_module \in ModuleName
  /\ \A n \in DOMAIN c.modules : c.modules[n].timeout # 0 /\ c.modules[n].top # 0

LEMMA ApplyDefaultsTyped ==
  ASSUME NEW c, Typed(c)
  PROVE  Typed(ApplyDefaults(c)) /\ Set(ApplyDefaults(c))
<1> DEFINE A == ApplyDefaults(c)
           timeout == Or(c.scrape_timeout, 10)
<1>1. timeout \in Int \ {0}
  BY OrTyped DEF Typed
<1>2. A = [default_module |-> IF c.default_module = NoName THEN DefaultModule
                              ELSE c.default_module,
           scrape_timeout |-> timeout,
           modules        |-> [n \in DOMAIN c.modules |-> ModuleDefaults(c.modules[n], timeout)],
           targets        |-> [i \in DOMAIN c.targets |-> TargetDefaults(c.targets[i])],
           default_target |-> {TargetDefaults(t) : t \in c.default_target}]
  BY DEF ApplyDefaults
<1> HIDE DEF A, timeout
<1>3. A.default_module \in ModuleName
  BY <1>2, NameAssumption DEF Typed
<1>4. \A n \in DOMAIN c.modules :
        /\ ModuleDefaults(c.modules[n], timeout) \in Module
        /\ ModuleDefaults(c.modules[n], timeout).timeout # 0
        /\ ModuleDefaults(c.modules[n], timeout).top # 0
  BY <1>1, ModuleDefaultsTyped DEF Typed
<1>5. /\ DOMAIN A.modules \subseteq ModuleName
      /\ A.modules \in [DOMAIN A.modules -> Module]
      /\ \A n \in DOMAIN A.modules : A.modules[n].timeout # 0 /\ A.modules[n].top # 0
  BY <1>2, <1>4 DEF Typed
<1>6. A.targets \in Seq(Target)
  <2>1. c.targets \in Seq(Target)
    BY DEF Typed
  <2>2. \A i \in DOMAIN c.targets : c.targets[i] \in Target
    BY <2>1
  <2>3. \A i \in DOMAIN c.targets : TargetDefaults(c.targets[i]) \in Target
    BY <2>2, TargetDefaultsTyped
  <2>4. DOMAIN c.targets = 1 .. Len(c.targets) /\ Len(c.targets) \in Nat
    BY <2>1
  <2>5. A.targets \in [1 .. Len(c.targets) -> Target]
    BY <1>2, <2>3, <2>4
  <2>6. QED
    BY <2>4, <2>5, SeqOfFunction
<1>7. A.default_target \in Optional(Target)
  <2>1. A.default_target = {TargetDefaults(t) : t \in c.default_target}
    BY <1>2
  <2>2. c.default_target \subseteq Target /\ \A x, y \in c.default_target : x = y
    BY DEF Typed, Optional
  <2>3. A.default_target \subseteq Target
    BY <2>1, <2>2, TargetDefaultsTyped
  <2>4. \A x, y \in A.default_target : x = y
    BY <2>1, <2>2
  <2>5. QED
    BY <2>3, <2>4 DEF Optional
<1>8. A.scrape_timeout \in Int
  BY <1>1, <1>2
<1>9. Typed(A)
  BY <1>2, <1>3, <1>5, <1>6, <1>7, <1>8 DEF Typed
<1>10. QED
  BY <1>3, <1>5, <1>9 DEF Set, A

-----------------------------------------------------------------------------
(* The inductive invariant.                                                *)

\* The file with its defaults, which is what validate judges.
Filled == ApplyDefaults(text)

GoodGlobal == Filled.default_module \in DOMAIN Filled.modules

GoodModule(n) == Filled.modules[n].collectors \subseteq KnownCollector

GoodTarget(i) ==
  LET t == Filled.targets[i]
  IN  /\ Named(Filled, i)
      /\ t.module \in DOMAIN Filled.modules \cup {NoName}
      /\ BoltOk(t.bolt, t.address.host \in LocalHost)
      /\ \A j \in t.jolokia : JolokiaOk(j)

GoodDefaultTarget == \A t \in Filled.default_target : DefaultTargetOk(t)

Good ==
  /\ GoodGlobal
  /\ \A n \in DOMAIN Filled.modules : GoodModule(n)
  /\ \A i \in DOMAIN Filled.targets : GoodTarget(i)
  /\ GoodDefaultTarget

\* The configuration has the modules of the targets that are checked, and is Filled
\* otherwise.
Staged ==
  /\ conf = [default_module |-> Filled.default_module,
             scrape_timeout |-> Filled.scrape_timeout,
             modules        |-> Filled.modules,
             targets        |-> [i \in DOMAIN Filled.targets |->
                                   IF i <= checked THEN WithModule(Filled, Filled.targets[i])
                                   ELSE Filled.targets[i]],
             default_target |-> Filled.default_target]
  /\ checked \in 0 .. Len(Filled.targets)

Judged ==
  /\ at = "defaulted" => checked = 0 /\ unchecked = DOMAIN Filled.modules
  /\ at = "checking" =>
       /\ GoodGlobal
       /\ unchecked \subseteq DOMAIN Filled.modules
       /\ \A n \in DOMAIN Filled.modules \ unchecked : GoodModule(n)
       /\ \A i \in 1 .. checked : GoodTarget(i)
  /\ at = "loaded" => Good /\ checked = Len(Filled.targets)
  /\ at = "rejected" => ~Good

Answered ==
  \/ query = Empty /\ answer = {}
  \/ at = "loaded" /\ query \in Address /\ answer = FindTarget(conf, query)

IInv ==
  /\ Typed(text)
  /\ insecure \in BOOLEAN
  /\ at \in Places
  /\ at = "parsed" => conf = text /\ checked = 0 /\ unchecked = {}
  /\ at # "parsed" => Staged /\ unchecked \subseteq DOMAIN Filled.modules
  /\ Judged
  /\ Answered

LEMMA FilledTyped ==
  ASSUME IInv
  PROVE  Typed(Filled) /\ Set(Filled)
  BY ApplyDefaultsTyped DEF IInv, Filled

\* What validate judges does not change.
LEMMA Rigid ==
  ASSUME UNCHANGED <<text, insecure>>
  PROVE  /\ Filled' = Filled
         /\ GoodGlobal' <=> GoodGlobal
         /\ \A n : GoodModule(n)' <=> GoodModule(n)
         /\ \A i : GoodTarget(i)' <=> GoodTarget(i)
         /\ GoodDefaultTarget' <=> GoodDefaultTarget
         /\ Good' <=> Good
<1>1. Filled' = Filled
  BY DEF Filled
<1>2. /\ GoodGlobal' <=> GoodGlobal
      /\ \A n : GoodModule(n)' <=> GoodModule(n)
  BY <1>1 DEF GoodGlobal, GoodModule
<1>3. \A f : FileOk(f)' <=> FileOk(f)
  BY DEF FileOk
<1>4. /\ \A b, local : BoltOk(b, local)' <=> BoltOk(b, local)
      /\ \A j : JolokiaOk(j)' <=> JolokiaOk(j)
  BY <1>3 DEF BoltOk, JolokiaOk
<1>5. \A i : GoodTarget(i)' <=> GoodTarget(i)
  BY <1>1, <1>4 DEF GoodTarget
<1>6. GoodDefaultTarget' <=> GoodDefaultTarget
  BY <1>1, <1>4 DEF GoodDefaultTarget, DefaultTargetOk
<1>7. QED
  BY <1>1, <1>2, <1>5, <1>6 DEF Good

LEMMA FilledTargets ==
  ASSUME Typed(text)
  PROVE  /\ DOMAIN Filled.targets = 1 .. Len(Filled.targets)
         /\ Len(Filled.targets) \in Nat
         /\ \A i \in DOMAIN Filled.targets : Filled.targets[i] \in Target
         /\ \A i \in DOMAIN Filled.targets : Filled.targets[i].address # Empty
<1>1. Filled.targets \in Seq(Target)
  BY ApplyDefaultsTyped DEF Filled, Typed
<1>2. Filled.targets = [i \in DOMAIN text.targets |-> TargetDefaults(text.targets[i])]
  BY DEF Filled, ApplyDefaults
<1>3. \A i \in DOMAIN text.targets : text.targets[i].address \in Address
  <2>1. text.targets \in Seq(Target)
    BY DEF Typed
  <2>2. \A i \in DOMAIN text.targets : text.targets[i] \in Target
    BY <2>1
  <2>3. QED
    BY <2>2 DEF Target
<1>4. \A i \in DOMAIN Filled.targets : Filled.targets[i].address = WithPort(text.targets[i].address)
  BY <1>2 DEF TargetDefaults
<1>5. \A i \in DOMAIN Filled.targets : Filled.targets[i].address # Empty
  BY <1>2, <1>3, <1>4, WithPortTyped
<1>6. QED
  BY <1>1, <1>5

\* A target is judged the same whether the modules of those before it are filled in or
\* not.
LEMMA TargetJudged ==
  ASSUME Typed(text), Staged, GoodGlobal, NEW i \in DOMAIN Filled.targets, i = checked + 1
  PROVE  TargetOk(conf, i) <=> GoodTarget(i)
<1> DEFINE u == Filled.targets[i]
           t == WithModule(conf, conf.targets[i])
<1>1. /\ DOMAIN Filled.targets = 1 .. Len(Filled.targets) /\ Len(Filled.targets) \in Nat
      /\ u.address # Empty
      /\ checked \in Nat
  BY FilledTargets DEF Staged
<1>2. conf.default_module = Filled.default_module /\ conf.modules = Filled.modules
  BY DEF Staged
<1>3. \A j \in 1 .. i - 1 : conf.targets[j].name = Filled.targets[j].name
  BY <1>1 DEF Staged, WithModule
<1>4. conf.targets[i] = u
  BY <1>1 DEF Staged
<1>5. Named(conf, i) <=> Named(Filled, i)
  BY <1>3, <1>4 DEF Named
<1>6. /\ t.address = u.address /\ t.bolt = u.bolt /\ t.jolokia = u.jolokia
      /\ t.module = IF u.module = NoName THEN Filled.default_module ELSE u.module
  BY <1>2, <1>4 DEF WithModule
<1>7. t.module \in DOMAIN conf.modules <=> u.module \in DOMAIN Filled.modules \cup {NoName}
  <2>1. DOMAIN Filled.modules \subseteq ModuleName
    BY ApplyDefaultsTyped DEF Filled, Typed
  <2>2. QED
    BY <1>2, <1>6, <2>1, NameAssumption DEF GoodGlobal
<1> HIDE DEF u, t
<1>8. TargetOk(conf, i) <=>
        /\ Named(conf, i) /\ t.address # Empty /\ t.module \in DOMAIN conf.modules
        /\ BoltOk(t.bolt, t.address.host \in LocalHost) /\ \A j \in t.jolokia : JolokiaOk(j)
  BY DEF TargetOk, t
<1>9. GoodTarget(i) <=>
        /\ Named(Filled, i) /\ u.module \in DOMAIN Filled.modules \cup {NoName}
        /\ BoltOk(u.bolt, u.address.host \in LocalHost) /\ \A j \in u.jolokia : JolokiaOk(j)
  BY DEF GoodTarget, u
<1>10. QED
  BY <1>1, <1>5, <1>6, <1>7, <1>8, <1>9

\* Filling in the modules makes the list of targets no longer.
LEMMA StagedLen ==
  ASSUME Typed(text), Staged
  PROVE  DOMAIN conf.targets = DOMAIN Filled.targets /\ Len(conf.targets) = Len(Filled.targets)
<1>1. DOMAIN Filled.targets = 1 .. Len(Filled.targets) /\ Len(Filled.targets) \in Nat
  BY FilledTargets
<1>2. conf.targets \in [1 .. Len(Filled.targets) -> {conf.targets[k] : k \in 1 .. Len(Filled.targets)}]
  BY <1>1 DEF Staged
<1>3. QED
  BY <1>1, <1>2, SeqOfFunction

LEMMA InvInit == Init => IInv
<1> SUFFICES ASSUME Init PROVE IInv
  OBVIOUS
<1>1. Typed(text)
  BY TextAssumption DEF Init
<1>2. /\ insecure \in BOOLEAN /\ at = "parsed" /\ conf = text /\ checked = 0
      /\ unchecked = {} /\ query = Empty /\ answer = {}
  BY DEF Init
<1>3. QED
  BY <1>1, <1>2 DEF IInv, Places, Judged, Answered

LEMMA DefaultsStep == IInv /\ Defaults => IInv'
<1> SUFFICES ASSUME IInv, Defaults PROVE IInv'
  OBVIOUS
<1>1. /\ at = "parsed" /\ at' = "defaulted" /\ conf' = ApplyDefaults(conf)
      /\ unchecked' = DOMAIN conf.modules
      /\ UNCHANGED <<text, insecure, checked, query, answer>>
  BY DEF Defaults
<1>2. conf = text /\ checked = 0 /\ Typed(text) /\ query = Empty /\ answer = {}
  BY <1>1 DEF IInv, Answered
<1>3. Filled' = Filled
  BY <1>1, Rigid
<1>4. DOMAIN Filled.modules = DOMAIN text.modules
  BY DEF Filled, ApplyDefaults
<1>5. Len(Filled.targets) \in Nat /\ DOMAIN Filled.targets = 1 .. Len(Filled.targets)
  BY <1>2, FilledTargets
<1>6. Staged'
  <2>1. conf' = Filled
    BY <1>1, <1>2 DEF Filled
  <2>2. Filled.targets = [i \in DOMAIN Filled.targets |-> Filled.targets[i]]
    BY DEF Filled, ApplyDefaults
  <2>3. Filled = [default_module |-> Filled.default_module,
                  scrape_timeout |-> Filled.scrape_timeout,
                  modules        |-> Filled.modules,
                  targets        |-> Filled.targets,
                  default_target |-> Filled.default_target]
    BY DEF Filled, ApplyDefaults
  <2>4. Filled.targets = [i \in DOMAIN Filled.targets |->
                            IF i <= checked THEN WithModule(Filled, Filled.targets[i])
                            ELSE Filled.targets[i]]
    BY <1>2, <1>5, <2>2
  <2>5. QED
    BY <1>1, <1>2, <1>3, <1>5, <2>1, <2>3, <2>4 DEF Staged
<1>7. QED
  BY <1>1, <1>2, <1>3, <1>4, <1>6 DEF IInv, Judged, Answered, Places

LEMMA CheckGlobalStep == IInv /\ CheckGlobal => IInv'
<1> SUFFICES ASSUME IInv, CheckGlobal PROVE IInv'
  OBVIOUS
<1>1. /\ at = "defaulted" /\ Staged /\ checked = 0 /\ unchecked = DOMAIN Filled.modules
      /\ query = Empty /\ answer = {}
      /\ UNCHANGED <<text, insecure, conf, unchecked, checked, query, answer>>
  BY DEF CheckGlobal, Reject, IInv, Judged, Answered
<1>2. conf.default_module \in DOMAIN conf.modules <=> GoodGlobal
  BY <1>1 DEF Staged, GoodGlobal
<1>3. at' = IF GoodGlobal THEN "checking" ELSE "rejected"
  BY <1>2 DEF CheckGlobal, Reject
<1>4. Filled' = Filled /\ (GoodGlobal' <=> GoodGlobal) /\ (Good' <=> Good)
  BY <1>1, Rigid
<1>5. Staged'
  BY <1>1, <1>4 DEF Staged
<1>6. Judged'
  BY <1>1, <1>3, <1>4 DEF Judged, Good
<1>7. QED
  BY <1>1, <1>3, <1>4, <1>5, <1>6 DEF IInv, Answered, Places

LEMMA CheckModuleStep == IInv /\ CheckModule => IInv'
<1> SUFFICES ASSUME IInv, CheckModule PROVE IInv'
  OBVIOUS
<1>1. /\ at = "checking" /\ Staged /\ query = Empty /\ answer = {}
      /\ UNCHANGED <<text, insecure, conf, checked, query, answer>>
      /\ unchecked \subseteq DOMAIN Filled.modules
  BY DEF CheckModule, Reject, IInv, Judged, Answered
<1>2. PICK n \in unchecked :
        IF GoodModule(n) THEN unchecked' = unchecked \ {n} /\ at' = at
        ELSE at' = "rejected" /\ unchecked' = unchecked
  BY <1>1 DEF CheckModule, Reject, Staged, GoodModule
<1>3. /\ Filled' = Filled /\ (GoodGlobal' <=> GoodGlobal) /\ (Good' <=> Good)
      /\ (\A k : GoodModule(k)' <=> GoodModule(k)) /\ (\A i : GoodTarget(i)' <=> GoodTarget(i))
  BY <1>1, Rigid
<1>4. Staged'
  BY <1>1, <1>3 DEF Staged
<1>5. Judged'
  <2>1. CASE GoodModule(n)
    BY <1>1, <1>2, <1>3, <2>1 DEF Judged, IInv
  <2>2. CASE ~GoodModule(n)
    BY <1>1, <1>2, <1>3, <2>2 DEF Judged, Good
  <2>3. QED
    BY <2>1, <2>2
<1>6. unchecked' \subseteq DOMAIN Filled.modules /\ at' \in {"checking", "rejected"}
  BY <1>1, <1>2
<1>7. QED
  BY <1>1, <1>3, <1>4, <1>5, <1>6 DEF IInv, Answered, Places

LEMMA CheckTargetStep == IInv /\ CheckTarget => IInv'
<1> SUFFICES ASSUME IInv, CheckTarget PROVE IInv'
  OBVIOUS
<1> DEFINE i == checked + 1
<1>1. /\ at = "checking" /\ Staged /\ GoodGlobal /\ query = Empty /\ answer = {}
      /\ unchecked = {} /\ Typed(text)
      /\ UNCHANGED <<text, insecure, unchecked, query, answer>>
  BY DEF CheckTarget, Reject, IInv, Judged, Answered
<1>2. /\ DOMAIN Filled.targets = 1 .. Len(Filled.targets) /\ Len(Filled.targets) \in Nat
      /\ checked \in 0 .. Len(Filled.targets)
  BY <1>1, FilledTargets DEF Staged
<1>3. DOMAIN conf.targets = DOMAIN Filled.targets /\ Len(conf.targets) = Len(Filled.targets)
  BY <1>1, StagedLen
<1>4. i \in DOMAIN Filled.targets
  BY <1>2, <1>3 DEF CheckTarget
<1>5. TargetOk(conf, i) <=> GoodTarget(i)
  BY <1>1, <1>4, TargetJudged
<1>6. /\ Filled' = Filled /\ (GoodGlobal' <=> GoodGlobal) /\ (Good' <=> Good)
      /\ (\A k : GoodModule(k)' <=> GoodModule(k)) /\ (\A k : GoodTarget(k)' <=> GoodTarget(k))
  BY <1>1, Rigid
<1>7. CASE GoodTarget(i)
  <2>1. /\ checked' = i /\ at' = at
        /\ conf' = [default_module |-> conf.default_module,
                    scrape_timeout |-> conf.scrape_timeout,
                    modules        |-> conf.modules,
                    targets        |-> [conf.targets EXCEPT ![i] = WithModule(conf, conf.targets[i])],
                    default_target |-> conf.default_target]
    BY <1>5, <1>7 DEF CheckTarget
  <2>2. WithModule(conf, conf.targets[i]) = WithModule(Filled, Filled.targets[i])
    BY <1>1, <1>2, <1>4 DEF Staged, WithModule
  <2>3. \A k \in DOMAIN Filled.targets :
          conf.targets[k] = IF k <= checked THEN WithModule(Filled, Filled.targets[k])
                            ELSE Filled.targets[k]
    BY <1>1 DEF Staged
  <2>4. [conf.targets EXCEPT ![i] = WithModule(conf, conf.targets[i])] =
          [k \in DOMAIN Filled.targets |->
             IF k <= i THEN WithModule(Filled, Filled.targets[k]) ELSE Filled.targets[k]]
    <3>1. [conf.targets EXCEPT ![i] = WithModule(conf, conf.targets[i])] =
            [k \in DOMAIN Filled.targets |->
               IF k = i THEN WithModule(Filled, Filled.targets[i]) ELSE conf.targets[k]]
      BY <1>3, <2>2
    <3>2. \A k \in DOMAIN Filled.targets :
            (IF k = i THEN WithModule(Filled, Filled.targets[i]) ELSE conf.targets[k]) =
            (IF k <= i THEN WithModule(Filled, Filled.targets[k]) ELSE Filled.targets[k])
      BY <1>2, <2>3
    <3>3. QED
      BY <3>1, <3>2
  <2>5. conf' = [default_module |-> Filled.default_module,
                 scrape_timeout |-> Filled.scrape_timeout,
                 modules        |-> Filled.modules,
                 targets        |-> [k \in DOMAIN Filled.targets |->
                                       IF k <= i THEN WithModule(Filled, Filled.targets[k])
                                       ELSE Filled.targets[k]],
                 default_target |-> Filled.default_target]
    BY <1>1, <2>1, <2>4 DEF Staged
  <2>6. Staged'
    <3>1. checked' \in 0 .. Len(Filled'.targets)
      BY <1>2, <1>4, <1>6, <2>1
    <3>2. QED
      BY <1>6, <2>1, <2>5, <3>1 DEF Staged
  <2>7. Judged'
    BY <1>1, <1>2, <1>6, <1>7, <2>1 DEF Judged, IInv
  <2>8. QED
    BY <1>1, <1>6, <2>1, <2>6, <2>7 DEF IInv, Answered, Places
<1>8. CASE ~GoodTarget(i)
  <2>1. at' = "rejected" /\ conf' = conf /\ checked' = checked
    BY <1>5, <1>8 DEF CheckTarget, Reject
  <2>2. Staged'
    BY <1>1, <1>6, <2>1 DEF Staged
  <2>3. Judged'
    BY <1>4, <1>6, <1>8, <2>1 DEF Judged, Good
  <2>4. QED
    BY <1>1, <1>6, <2>1, <2>2, <2>3 DEF IInv, Answered, Places
<1>9. QED
  BY <1>7, <1>8

LEMMA CheckDefaultTargetStep == IInv /\ CheckDefaultTarget => IInv'
<1> SUFFICES ASSUME IInv, CheckDefaultTarget PROVE IInv'
  OBVIOUS
<1>1. /\ at = "checking" /\ Staged /\ GoodGlobal /\ query = Empty /\ answer = {}
      /\ unchecked = {} /\ checked = Len(conf.targets) /\ Typed(text)
      /\ UNCHANGED <<text, insecure, conf, unchecked, checked, query, answer>>
  BY DEF CheckDefaultTarget, Reject, IInv, Judged, Answered
<1>2. /\ DOMAIN Filled.targets = 1 .. Len(Filled.targets) /\ Len(conf.targets) = Len(Filled.targets)
  BY <1>1, FilledTargets, StagedLen
<1>3. at' = IF GoodDefaultTarget THEN "loaded" ELSE "rejected"
  BY <1>1 DEF CheckDefaultTarget, Reject, Staged, GoodDefaultTarget
<1>4. /\ \A n \in DOMAIN Filled.modules : GoodModule(n)
      /\ \A i \in DOMAIN Filled.targets : GoodTarget(i)
  BY <1>1, <1>2 DEF IInv, Judged
<1>5. Good <=> GoodDefaultTarget
  BY <1>1, <1>4 DEF Good
<1>6. Filled' = Filled /\ (Good' <=> Good)
  BY <1>1, Rigid
<1>7. Staged'
  BY <1>1, <1>6 DEF Staged
<1>8. Judged'
  BY <1>1, <1>2, <1>3, <1>5, <1>6 DEF Judged
<1>9. QED
  BY <1>1, <1>3, <1>6, <1>7, <1>8 DEF IInv, Answered, Places

LEMMA LookUpStep ==
  ASSUME IInv, NEW q \in Query, LookUp(q)
  PROVE  IInv'
<1>1. /\ at = "loaded" /\ Staged /\ conf' = conf /\ query' = q
      /\ answer' = FindTarget(conf, q)
      /\ UNCHANGED <<text, insecure, at, unchecked, checked>>
  BY DEF LookUp, IInv
<1>2. Filled' = Filled /\ (Good' <=> Good)
  BY <1>1, Rigid
<1>3. Staged'
  BY <1>1, <1>2 DEF Staged
<1>4. Judged'
  BY <1>1, <1>2 DEF Judged, IInv
<1>5. q \in Address
  BY QueryAssumption
<1>6. Answered'
  BY <1>1, <1>5 DEF Answered
<1>7. QED
  BY <1>1, <1>2, <1>3, <1>4, <1>6 DEF IInv

LEMMA InvStep == IInv /\ [Next]_vars => IInv'
<1>1. IInv /\ UNCHANGED vars => IInv'
  <2> SUFFICES ASSUME IInv, UNCHANGED vars PROVE IInv'
    OBVIOUS
  <2>1. UNCHANGED <<text, insecure, conf, at, unchecked, checked, query, answer>>
    BY DEF vars
  <2>2. /\ Filled' = Filled /\ (GoodGlobal' <=> GoodGlobal) /\ (Good' <=> Good)
        /\ (\A k : GoodModule(k)' <=> GoodModule(k)) /\ (\A k : GoodTarget(k)' <=> GoodTarget(k))
    BY <2>1, Rigid
  <2>3. Staged' <=> Staged
    BY <2>1, <2>2 DEF Staged
  <2>4. Judged'
    BY <2>1, <2>2 DEF Judged, IInv
  <2>5. Answered'
    BY <2>1 DEF Answered, IInv
  <2>6. QED
    BY <2>1, <2>2, <2>3, <2>4, <2>5 DEF IInv
<1>2. QED
  BY <1>1, DefaultsStep, CheckGlobalStep, CheckModuleStep, CheckTargetStep,
     CheckDefaultTargetStep, LookUpStep DEF Next, Rejected

-----------------------------------------------------------------------------
(* What the invariant says about an accepted configuration.                *)

LEMMA Least ==
  ASSUME NEW I, I \subseteq Nat, I # {}
  PROVE  \E i \in I : \A k \in I : i <= k
<1>1. \E i \in I : \A k \in I : ~(<<k, i>> \in OpToRel(<, Nat))
  BY WFMin, NatLessThanWellFounded
<1>2. \A i, k \in I : <<k, i>> \in OpToRel(<, Nat) <=> k < i
  BY DEF OpToRel
<1>3. \E i \in I : \A k \in I : ~(k < i)
  BY <1>1, <1>2, Zenon
<1>4. QED
  BY <1>3

\* The modules of the targets are filled in, and nothing else is.
LEMMA LoadedTargets ==
  ASSUME IInv, at = "loaded"
  PROVE  /\ DOMAIN conf.targets = DOMAIN Filled.targets
         /\ DOMAIN conf.targets = 1 .. Len(conf.targets)
         /\ Len(conf.targets) \in Nat
         /\ \A i \in DOMAIN conf.targets :
              conf.targets[i] = WithModule(Filled, Filled.targets[i])
         /\ conf.default_module = Filled.default_module
         /\ conf.default_target = Filled.default_target
         /\ Good
<1>1. Typed(text) /\ Staged /\ Good /\ checked = Len(Filled.targets)
  BY DEF IInv, Judged
<1>2. DOMAIN Filled.targets = 1 .. Len(Filled.targets) /\ Len(Filled.targets) \in Nat
  BY <1>1, FilledTargets
<1>3. DOMAIN conf.targets = DOMAIN Filled.targets /\ Len(conf.targets) = Len(Filled.targets)
  BY <1>1, StagedLen
<1>4. \A i \in DOMAIN conf.targets : conf.targets[i] = WithModule(Filled, Filled.targets[i])
  BY <1>1, <1>2, <1>3 DEF Staged
<1>5. QED
  BY <1>1, <1>2, <1>3, <1>4 DEF Staged

LEMMA LoadedFields ==
  ASSUME IInv, at = "loaded", NEW i \in DOMAIN conf.targets
  PROVE  /\ conf.targets[i].name = Filled.targets[i].name
         /\ conf.targets[i].bolt = Filled.targets[i].bolt
         /\ conf.targets[i].jolokia = Filled.targets[i].jolokia
<1>1. conf.targets[i] = WithModule(Filled, Filled.targets[i])
  BY LoadedTargets
<1>2. QED
  BY <1>1 DEF WithModule

\* First finds one target, and one of the smallest index.
LEMMA FirstIs ==
  ASSUME NEW c, NEW I, I \subseteq Nat, I # {}
  PROVE  \E i \in I : (\A k \in I : i <= k) /\ First(c, I) = {c.targets[i]}
<1>1. PICK i \in I : \A k \in I : i <= k
  BY Least
<1>2. {j \in I : \A k \in I : j <= k} = {i}
  <2>1. ASSUME NEW j \in I, \A k \in I : j <= k PROVE j = i
    <3>1. j \in Nat /\ i \in Nat /\ j <= i /\ i <= j
      BY <1>1, <2>1
    <3>2. QED
      BY <3>1
  <2>2. QED
    BY <1>1, <2>1
<1>3. First(c, I) = {c.targets[i]}
  BY <1>2 DEF First
<1>4. QED
  BY <1>1, <1>3

LEMMA ByNameIs ==
  ASSUME NEW c, DOMAIN c.targets \subseteq Nat, NEW q
  PROVE  /\ ByName(c, q) \subseteq Nat /\ ByAddress(c, q) \subseteq Nat
         /\ ByName(c, q) \subseteq DOMAIN c.targets /\ ByAddress(c, q) \subseteq DOMAIN c.targets
  BY DEF ByName, ByAddress

\* What FindTarget finds is listed, or it is a copy of default_target, and then nothing
\* listed has the name or the address.
LEMMA FindTargetIs ==
  ASSUME NEW c, DOMAIN c.targets \subseteq Nat, NEW q, NEW u \in FindTarget(c, q)
  PROVE  \/ \E i \in DOMAIN c.targets : u = c.targets[i]
         \/ /\ ByName(c, q) = {} /\ ByAddress(c, q) = {}
            /\ \E t \in c.default_target : u = Discovered(c, t, q)
<1>1. CASE ByName(c, q) # {}
  <2>1. PICK i \in ByName(c, q) : First(c, ByName(c, q)) = {c.targets[i]}
    BY <1>1, FirstIs, ByNameIs
  <2>2. QED
    BY <1>1, <2>1, ByNameIs DEF FindTarget
<1>2. CASE ByName(c, q) = {} /\ ByAddress(c, q) # {}
  <2>1. PICK i \in ByAddress(c, q) : First(c, ByAddress(c, q)) = {c.targets[i]}
    BY <1>2, FirstIs, ByNameIs
  <2>2. QED
    BY <1>2, <2>1, ByNameIs DEF FindTarget
<1>3. CASE ByName(c, q) = {} /\ ByAddress(c, q) = {}
  BY <1>3 DEF FindTarget
<1>4. QED
  BY <1>1, <1>2, <1>3

\* An answer is one of the two.
LEMMA AnswerIs ==
  ASSUME IInv, at = "loaded", NEW u \in answer
  PROVE  /\ query \in Address
         /\ \/ \E i \in DOMAIN conf.targets : u = conf.targets[i]
            \/ /\ ByName(conf, query) = {} /\ ByAddress(conf, query) = {}
               /\ \E t \in conf.default_target : u = Discovered(conf, t, query)
<1>1. query \in Address /\ u \in FindTarget(conf, query)
  BY DEF IInv, Answered
<1>2. DOMAIN conf.targets \subseteq Nat
  BY LoadedTargets
<1>3. QED
  BY <1>1, <1>2, FindTargetIs

LEMMA StagedTyped ==
  ASSUME IInv, at # "parsed"
  PROVE  Typed(conf) /\ Set(conf)
<1>1. Typed(Filled) /\ Set(Filled) /\ Typed(text) /\ Staged
  BY FilledTyped DEF IInv
<1>2. /\ DOMAIN Filled.targets = 1 .. Len(Filled.targets) /\ Len(Filled.targets) \in Nat
      /\ \A i \in DOMAIN Filled.targets : Filled.targets[i] \in Target
  BY <1>1, FilledTargets
<1>3. \A i \in DOMAIN Filled.targets : WithModule(Filled, Filled.targets[i]) \in Target
  BY <1>1, <1>2, WithModuleTyped DEF Set
<1>4. conf.targets \in [1 .. Len(Filled.targets) -> Target]
  BY <1>1, <1>2, <1>3 DEF Staged
<1>5. conf.targets \in Seq(Target)
  BY <1>2, <1>4, SeqOfFunction
<1>6. /\ conf = [default_module |-> conf.default_module, scrape_timeout |-> conf.scrape_timeout,
                modules |-> conf.modules, targets |-> conf.targets,
                default_target |-> conf.default_target]
      /\ conf.default_module = Filled.default_module
      /\ conf.scrape_timeout = Filled.scrape_timeout
      /\ conf.modules = Filled.modules
      /\ conf.default_target = Filled.default_target
  BY <1>1 DEF Staged
<1>7. QED
  BY <1>1, <1>5, <1>6 DEF Typed, Set

-----------------------------------------------------------------------------
(* The theorems.                                                           *)

THEOREM Inductive == Spec => []IInv
<1>1. QED
  BY InvInit, InvStep, PTL DEF Spec

\* The types of a configuration from the file to the answer.
THEOREM ConfigTypeCorrect == Spec => []TypeOK
<1>1. IInv => TypeOK
  <2> SUFFICES ASSUME IInv PROVE TypeOK
    OBVIOUS
  <2>1. Typed(text) /\ insecure \in BOOLEAN /\ at \in Places
    BY DEF IInv
  <2>2. Typed(conf) /\ (at # "parsed" => Set(conf))
    BY StagedTyped DEF IInv
  <2>3. checked \in 0 .. Len(conf.targets)
    <3>1. CASE at = "parsed"
      <4>1. checked = 0 /\ conf.targets \in Seq(Target)
        BY <3>1, <2>2 DEF IInv, Typed
      <4>2. QED
        BY <4>1
    <3>2. CASE at # "parsed"
      BY <2>1, <3>2, StagedLen DEF IInv, Staged
    <3>3. QED
      BY <3>1, <3>2
  <2>4. unchecked \subseteq DOMAIN conf.modules
    BY DEF IInv, Staged
  <2>5. query \in Address
    BY EmptyTyped DEF IInv, Answered
  <2>6. answer \in Optional(Target)
    <3>1. CASE query = Empty /\ answer = {}
      BY <3>1 DEF Optional
    <3>2. CASE at = "loaded" /\ answer = FindTarget(conf, query)
      <4>1. /\ conf.targets \in Seq(Target) /\ conf.default_target \in Optional(Target)
            /\ conf.default_module \in ModuleName
        BY <2>2, <3>2 DEF Typed, Set
      <4>2. \A i \in DOMAIN conf.targets : conf.targets[i] \in Target
        BY <4>1
      <4>3. DOMAIN conf.targets \subseteq Nat
        BY <3>2, LoadedTargets
      <4>4. answer \subseteq Target
        BY <2>5, <3>2, <4>1, <4>2, AnswerIs, DiscoveredTyped DEF Optional
      <4>5. \A x, y \in answer : x = y
        <5>1. CASE ByName(conf, query) # {}
          BY <3>2, <4>3, <5>1, FirstIs, ByNameIs DEF FindTarget
        <5>2. CASE ByName(conf, query) = {} /\ ByAddress(conf, query) # {}
          BY <3>2, <4>3, <5>2, FirstIs, ByNameIs DEF FindTarget
        <5>3. CASE ByName(conf, query) = {} /\ ByAddress(conf, query) = {}
          BY <3>2, <4>1, <5>3 DEF FindTarget, Optional
        <5>4. QED
          BY <5>1, <5>2, <5>3
      <4>6. QED
        BY <4>4, <4>5 DEF Optional
    <3>3. QED
      BY <3>1, <3>2 DEF IInv, Answered
  <2>7. QED
    BY <2>1, <2>2, <2>3, <2>4, <2>5, <2>6 DEF TypeOK, Set
<1>2. QED
  BY <1>1, Inductive, PTL

\* The module of what is found, or of nothing.
LEMMA ModuleOfOne ==
  ASSUME NEW t
  PROVE  ModuleOf({t}) = t.module
  BY DEF ModuleOf

\* Filling in modules does not change who is found.
LEMMA FoundAsBefore ==
  ASSUME IInv, at = "loaded", NEW q
  PROVE  /\ ByName(conf, q) = ByName(Filled, q) /\ ByAddress(conf, q) = ByAddress(Filled, q)
         /\ ByName(conf, q) \subseteq DOMAIN conf.targets
         /\ ByAddress(conf, q) \subseteq DOMAIN conf.targets
         /\ DOMAIN conf.targets \subseteq Nat
<1>1. DOMAIN conf.targets = DOMAIN Filled.targets /\ DOMAIN conf.targets \subseteq Nat
  BY LoadedTargets
<1>2. ASSUME NEW i \in DOMAIN conf.targets
      PROVE  /\ conf.targets[i].name = Filled.targets[i].name
             /\ conf.targets[i].address = Filled.targets[i].address
  <2>1. conf.targets[i] = WithModule(Filled, Filled.targets[i])
    BY LoadedTargets
  <2>2. QED
    BY <2>1 DEF WithModule
<1>3. QED
  BY <1>1, <1>2 DEF ByName, ByAddress

\* The listed target that is found has, in the file, a module there is or none, and in the
\* configuration that module or the default one.
LEMMA ListedIs ==
  ASSUME IInv, at = "loaded", NEW q,
         NEW I \in {ByName(conf, q), ByAddress(conf, q)}, I # {}
  PROVE  \E i \in DOMAIN conf.targets :
           /\ First(Filled, I) = {Filled.targets[i]}
           /\ First(conf, I) = {conf.targets[i]}
           /\ Filled.targets[i].module \in DOMAIN Filled.modules \cup {NoName}
           /\ conf.targets[i].module = IF Filled.targets[i].module = NoName
                                      THEN Filled.default_module ELSE Filled.targets[i].module
<1>1. I \subseteq DOMAIN conf.targets /\ I \subseteq Nat
  BY FoundAsBefore
<1>2. PICK i \in I : (\A k \in I : i <= k) /\ First(conf, I) = {conf.targets[i]}
  BY <1>1, FirstIs
<1>3. PICK j \in I : (\A k \in I : j <= k) /\ First(Filled, I) = {Filled.targets[j]}
  BY <1>1, FirstIs
<1>4. i = j
  <2>1. i \in Nat /\ j \in Nat /\ i <= j /\ j <= i
    BY <1>1, <1>2, <1>3
  <2>2. QED
    BY <2>1
<1>5. GoodTarget(i) /\ conf.targets[i] = WithModule(Filled, Filled.targets[i])
  BY <1>1, LoadedTargets DEF Good
<1>6. QED
  BY <1>1, <1>2, <1>3, <1>4, <1>5 DEF GoodTarget, WithModule

\* What ConfigReload sees of a query.
LEMMA ViewTarget ==
  ASSUME IInv, at = "loaded", NEW q \in Address
  PROVE  \/ /\ ByName(conf, q) = {} /\ ByAddress(conf, q) = {}
            /\ View(Filled).target[q] = NoModule
         \/ \E i \in DOMAIN conf.targets :
              /\ FindTarget(conf, q) = {conf.targets[i]}
              /\ View(Filled).target[q] = Filled.targets[i].module
              /\ Filled.targets[i].module \in DOMAIN Filled.modules \cup {NoName}
              /\ conf.targets[i].module = IF Filled.targets[i].module = NoName
                                         THEN Filled.default_module
                                         ELSE Filled.targets[i].module
<1>1. View(Filled).target[q] = ModuleOf(Listed(Filled, q))
  BY DEF View
<1>2. CASE ByName(conf, q) # {}
  <2>1. Listed(Filled, q) = First(Filled, ByName(conf, q))
    BY <1>2, FoundAsBefore DEF Listed
  <2>2. FindTarget(conf, q) = First(conf, ByName(conf, q))
    BY <1>2 DEF FindTarget
  <2>3. QED
    BY <1>1, <1>2, <2>1, <2>2, ListedIs, ModuleOfOne
<1>3. CASE ByName(conf, q) = {} /\ ByAddress(conf, q) # {}
  <2>1. Listed(Filled, q) = First(Filled, ByAddress(conf, q))
    BY <1>3, FoundAsBefore DEF Listed
  <2>2. FindTarget(conf, q) = First(conf, ByAddress(conf, q))
    BY <1>3 DEF FindTarget
  <2>3. QED
    BY <1>1, <1>3, <2>1, <2>2, ListedIs, ModuleOfOne
<1>4. CASE ByName(conf, q) = {} /\ ByAddress(conf, q) = {}
  <2>1. ByName(Filled, q) = {} /\ ByAddress(Filled, q) = {}
    BY <1>4, FoundAsBefore
  <2>2. Listed(Filled, q) = {}
    BY <2>1 DEF Listed, First
  <2>3. QED
    BY <1>1, <1>4, <2>2 DEF ModuleOf
<1>5. QED
  BY <1>2, <1>3, <1>4

LEMMA ModuleNamesApart ==
  ASSUME IInv
  PROVE  NoModule \notin DOMAIN Filled.modules \cup {NoName} /\ NoName \notin DOMAIN Filled.modules
  BY FilledTyped, NameAssumption DEF Typed

\* A request gets the module that ConfigReload's look-up gives.
LEMMA ViewFinds ==
  ASSUME IInv, at = "loaded", query # Empty
  PROVE  ModuleOf(answer) = Brief!FindTarget(View(Filled), query)
<1> DEFINE V == View(Filled)
<1> SUFFICES ModuleOf(answer) = Brief!FindTarget(V, query)
  OBVIOUS
<1>1. query \in Address /\ answer = FindTarget(conf, query)
  BY DEF IInv, Answered
<1>2. V.defaultModule = Filled.default_module /\ V.defaultTarget = ModuleOf(Filled.default_target)
  BY DEF View
<1>3. Brief!FindTarget(V, query) =
        LET m == IF V.target[query] # NoModule THEN V.target[query] ELSE V.defaultTarget
        IN  IF m = NoName THEN V.defaultModule ELSE m
  BY DEF Brief!FindTarget
<1>4. conf.default_module = Filled.default_module /\ conf.default_target = Filled.default_target
  BY LoadedTargets
<1> HIDE DEF V
<1>5. CASE /\ ByName(conf, query) = {} /\ ByAddress(conf, query) = {}
           /\ V.target[query] = NoModule
  <2>1. answer = {Discovered(conf, t, query) : t \in Filled.default_target}
    BY <1>1, <1>4, <1>5 DEF FindTarget
  <2>2. CASE Filled.default_target = {}
    <3>1. answer = {} /\ V.defaultTarget = NoModule
      BY <1>2, <2>1, <2>2 DEF ModuleOf
    <3>2. ModuleOf(answer) = NoModule
      BY <3>1 DEF ModuleOf
    <3>3. QED
      BY <1>3, <1>5, <3>1, <3>2, NameAssumption
  <2>3. ASSUME NEW d \in Filled.default_target
        PROVE  ModuleOf(answer) = Brief!FindTarget(V, query)
    <3>1. Filled.default_target = {d}
      BY <2>3, FilledTyped DEF Typed, Optional
    <3>2. answer = {Discovered(conf, d, query)}
      BY <2>1, <3>1
    <3>3. ModuleOf(answer) = Discovered(conf, d, query).module
      BY <3>2, ModuleOfOne
    <3>4. V.defaultTarget = d.module
      BY <1>2, <3>1, ModuleOfOne
    <3>5. QED
      BY <1>2, <1>3, <1>4, <1>5, <3>3, <3>4 DEF Discovered
  <2>4. QED
    BY <2>2, <2>3
<1>6. ASSUME NEW i \in DOMAIN conf.targets,
             FindTarget(conf, query) = {conf.targets[i]},
             V.target[query] = Filled.targets[i].module,
             Filled.targets[i].module \in DOMAIN Filled.modules \cup {NoName},
             conf.targets[i].module = IF Filled.targets[i].module = NoName
                                      THEN Filled.default_module ELSE Filled.targets[i].module
      PROVE  ModuleOf(answer) = Brief!FindTarget(V, query)
  <2>1. ModuleOf(answer) = conf.targets[i].module
    BY <1>1, <1>6, ModuleOfOne
  <2>2. QED
    BY <1>2, <1>3, <1>6, <2>1, ModuleNamesApart
<1>7. QED
  BY <1>1, <1>5, <1>6, ViewTarget DEF V

\* What LoadFile accepts is what ConfigReload takes for valid, and look-ups agree.
THEOREM LoadedValid == Spec => []LoadedIsValid
<1>1. IInv => LoadedIsValid
  <2> SUFFICES ASSUME IInv, at = "loaded" PROVE LoadedIsValid
    BY DEF LoadedIsValid
  <2>1. Set(conf)
    BY StagedTyped
  <2>2. Staged /\ Good
    BY LoadedTargets DEF IInv
  <2>3. Brief!Valid(View(Filled))
    <3>1. Filled.default_module \in DOMAIN Filled.modules
      BY <2>2 DEF Good, GoodGlobal
    <3>2. \A q \in Address :
            View(Filled).target[q] \in DOMAIN Filled.modules \cup {NoName, NoModule}
      BY ViewTarget
    <3>3. /\ View(Filled).modules = DOMAIN Filled.modules
          /\ View(Filled).defaultModule = Filled.default_module
      BY DEF View
    <3>4. QED
      BY <3>1, <3>2, <3>3 DEF Brief!Valid
  <2>4. ASSUME NEW i \in DOMAIN conf.targets
        PROVE  conf.targets[i].module \in DOMAIN conf.modules
    <3>1. GoodTarget(i) /\ conf.targets[i] = WithModule(Filled, Filled.targets[i])
      BY LoadedTargets DEF Good
    <3>2. conf.modules = Filled.modules
      BY <2>2 DEF Staged
    <3>3. Filled.targets[i].module \in DOMAIN Filled.modules \cup {NoName}
      BY <3>1 DEF GoodTarget
    <3>4. Filled.default_module \in DOMAIN Filled.modules
      BY <2>2 DEF Good, GoodGlobal
    <3>5. QED
      BY <3>1, <3>2, <3>3, <3>4 DEF WithModule
  <2>5. QED
    BY <2>1, <2>3, <2>4, ViewFinds DEF LoadedIsValid, Set, Filled
<1>2. QED
  BY <1>1, Inductive, PTL

\* Credentials go to the address they are meant for.
THEOREM CredentialsOwn == Spec => []OwnCredentials
<1>1. IInv => OwnCredentials
  <2> SUFFICES ASSUME IInv, at = "loaded", NEW u \in answer,
                      ~ \E i \in DOMAIN conf.targets : u = conf.targets[i]
               PROVE  /\ u.address = WithPort(query)
                      /\ \A i \in DOMAIN conf.targets :
                           conf.targets[i].address # u.address /\ conf.targets[i].name # query
                      /\ \E d \in conf.default_target :
                           /\ u.bolt = d.bolt /\ u.jolokia = d.jolokia
                           /\ u.module = IF d.module = NoName THEN conf.default_module
                                         ELSE d.module
    BY DEF OwnCredentials
  <2>1. PICK d \in conf.default_target : u = Discovered(conf, d, query)
    BY AnswerIs
  <2>2. ByName(conf, query) = {} /\ ByAddress(conf, query) = {}
    BY AnswerIs
  <2>3. /\ u.address = WithPort(query) /\ u.bolt = d.bolt /\ u.jolokia = d.jolokia
        /\ u.module = IF d.module = NoName THEN conf.default_module ELSE d.module
    BY <2>1 DEF Discovered
  <2>4. QED
    BY <2>2, <2>3 DEF ByName, ByAddress
<1>2. QED
  BY <1>1, Inductive, PTL

\* The mode of a file that is let in without --config.allow-insecure-secret-files allows
\* its owner to read it.
LEMMA FileReadable ==
  ASSUME NEW f, FileOk(f), ~insecure
  PROVE  Readable(f)
  BY DEF FileOk, ModeAllowed, Readable

LEMMA BoltBuilds ==
  ASSUME NEW b, NEW local, BoltOk(b, local), ~insecure
  PROVE  \A a \in UriAddress : DriverBuilds(a, b)
<1>1. b.scheme \in Scheme
  BY DEF BoltOk
<1>2. CASE b.auth = "none"
  BY <1>1, <1>2 DEF DriverBuilds
<1>3. CASE b.auth # "none"
  BY <1>1, <1>3, FileReadable DEF DriverBuilds, BoltOk, PasswordResolves
<1>4. QED
  BY <1>2, <1>3

LEMMA JolokiaBuilds ==
  ASSUME NEW j, JolokiaOk(j), ~insecure, \A t \in j.tls : TLSBuilds(t)
  PROVE  ClientBuilds(j)
<1>1. \A a \in j.auth : PasswordResolves(a)
  BY FileReadable DEF JolokiaOk, PasswordResolves
<1>2. QED
  BY <1>1 DEF JolokiaOk, ClientBuilds

\* With what LoadFile has accepted a probe can make its driver, at any address that
\* makes a URI.
THEOREM LoadedUsable == Spec => []LoadedIsUsable
<1>1. IInv => LoadedIsUsable
  <2> SUFFICES ASSUME IInv, at = "loaded", ~insecure, NEW u \in answer
               PROVE  /\ u.address \in UriAddress => DriverBuilds(u.address, u.bolt)
                      /\ (\E i \in DOMAIN conf.targets : u = conf.targets[i]) =>
                           \A j \in u.jolokia :
                             (\A s \in j.tls : TLSBuilds(s)) => ClientBuilds(j)
    BY DEF LoadedIsUsable
  <2>1. Good
    BY LoadedTargets
  <2>2. ASSUME NEW i \in DOMAIN conf.targets, u = conf.targets[i]
        PROVE  /\ u.address \in UriAddress => DriverBuilds(u.address, u.bolt)
               /\ \A j \in u.jolokia : JolokiaOk(j)
    <3>1. u.bolt = Filled.targets[i].bolt /\ u.jolokia = Filled.targets[i].jolokia
      BY <2>2, LoadedFields
    <3>2. GoodTarget(i)
      BY <2>1, LoadedTargets DEF Good
    <3>3. /\ BoltOk(u.bolt, Filled.targets[i].address.host \in LocalHost)
          /\ \A j \in u.jolokia : JolokiaOk(j)
      BY <3>1, <3>2 DEF GoodTarget
    <3>4. QED
      BY <3>3, BoltBuilds
  <2>3. ASSUME ~ \E i \in DOMAIN conf.targets : u = conf.targets[i]
        PROVE  u.address \in UriAddress => DriverBuilds(u.address, u.bolt)
    <3>1. PICK d \in conf.default_target : u = Discovered(conf, d, query)
      BY <2>3, AnswerIs
    <3>2. u.bolt = d.bolt
      BY <3>1 DEF Discovered
    <3>3. BoltOk(d.bolt, TRUE)
      BY <2>1, LoadedTargets DEF Good, GoodDefaultTarget, DefaultTargetOk
    <3>4. QED
      BY <3>2, <3>3, BoltBuilds
  <2>4. QED
    BY <2>2, <2>3, JolokiaBuilds
<1>2. QED
  BY <1>1, Inductive, PTL

\* Every listed target can be asked for.
THEOREM TargetsReachable == Spec => []ListedReachable
<1>1. IInv => ListedReachable
  <2> SUFFICES ASSUME IInv, at = "loaded", NEW i \in DOMAIN conf.targets
               PROVE  /\ query = conf.targets[i].name => answer = {conf.targets[i]}
                      /\ WithPort(query) = conf.targets[i].address /\ query # Empty =>
                           \E j \in DOMAIN conf.targets :
                             /\ answer = {conf.targets[j]}
                             /\ \/ conf.targets[j].name = query
                                \/ conf.targets[j].address = conf.targets[i].address /\ j <= i
    BY DEF ListedReachable
  <2>1. /\ DOMAIN conf.targets = DOMAIN Filled.targets /\ DOMAIN conf.targets = 1 .. Len(conf.targets)
        /\ Len(conf.targets) \in Nat /\ Good
        /\ \A k \in DOMAIN conf.targets : conf.targets[k].name = Filled.targets[k].name
    BY LoadedTargets, LoadedFields
  <2>2. ByName(conf, query) \subseteq Nat /\ ByAddress(conf, query) \subseteq Nat
    BY <2>1, ByNameIs
  <2>3. \A k \in DOMAIN conf.targets :
          /\ conf.targets[k].name # Empty
          /\ \A j \in 1 .. k - 1 : conf.targets[j].name # conf.targets[k].name
    <3>1. ASSUME NEW k \in DOMAIN conf.targets PROVE Named(Filled, k)
      BY <2>1 DEF Good, GoodTarget
    <3>2. ASSUME NEW k \in DOMAIN conf.targets, NEW j \in 1 .. k - 1
          PROVE  j \in DOMAIN conf.targets
      BY <2>1
    <3>3. QED
      BY <2>1, <3>1, <3>2 DEF Named
  <2>4. \A j, k \in DOMAIN conf.targets : conf.targets[j].name = conf.targets[k].name => j = k
    <3>1. SUFFICES ASSUME NEW j \in DOMAIN conf.targets, NEW k \in DOMAIN conf.targets, j < k
                   PROVE  conf.targets[j].name # conf.targets[k].name
      BY <2>1
    <3>2. j \in 1 .. k - 1
      BY <2>1, <3>1
    <3>3. QED
      BY <2>3, <3>2
  <2>5. query # Empty => answer = FindTarget(conf, query)
    BY DEF IInv, Answered
  <2>6. ASSUME query = conf.targets[i].name PROVE answer = {conf.targets[i]}
    <3>1. i \in ByName(conf, query) /\ \A j \in ByName(conf, query) : j = i
      BY <2>4, <2>6 DEF ByName
    <3>2. PICK j \in ByName(conf, query) : First(conf, ByName(conf, query)) = {conf.targets[j]}
      BY <2>2, <3>1, FirstIs
    <3>3. query # Empty
      BY <2>3, <2>6
    <3>4. QED
      BY <2>5, <3>1, <3>2, <3>3 DEF FindTarget
  <2>7. ASSUME WithPort(query) = conf.targets[i].address, query # Empty
        PROVE  \E j \in DOMAIN conf.targets :
                 /\ answer = {conf.targets[j]}
                 /\ \/ conf.targets[j].name = query
                    \/ conf.targets[j].address = conf.targets[i].address /\ j <= i
    <3>1. CASE ByName(conf, query) # {}
      <4>1. PICK j \in ByName(conf, query) : First(conf, ByName(conf, query)) = {conf.targets[j]}
        BY <2>2, <3>1, FirstIs
      <4>2. j \in DOMAIN conf.targets /\ conf.targets[j].name = query
        BY DEF ByName
      <4>3. QED
        BY <2>5, <2>7, <3>1, <4>1, <4>2 DEF FindTarget
    <3>2. CASE ByName(conf, query) = {}
      <4>1. i \in ByAddress(conf, query)
        BY <2>7 DEF ByAddress
      <4>2. PICK j \in ByAddress(conf, query) :
              /\ \A k \in ByAddress(conf, query) : j <= k
              /\ First(conf, ByAddress(conf, query)) = {conf.targets[j]}
        BY <2>2, <4>1, FirstIs
      <4>3. j \in DOMAIN conf.targets /\ conf.targets[j].address = conf.targets[i].address /\ j <= i
        BY <2>7, <4>1, <4>2 DEF ByAddress
      <4>4. QED
        BY <2>5, <2>7, <3>2, <4>1, <4>2, <4>3 DEF FindTarget
    <3>3. QED
      BY <3>1, <3>2
  <2>8. QED
    BY <2>6, <2>7
<1>2. QED
  BY <1>1, Inductive, PTL

\* The four modes of the configuration reference are those that LoadFile allows.
LEMMA ModesDocumented ==
  ASSUME NEW f \in DOMAIN Disk
  PROVE  ModeAllowed(Disk[f]) <=> Disk[f] \in DocumentedModes
<1>1. Disk[f] \in DocumentedModes => ModeAllowed(Disk[f])
  BY DEF DocumentedModes, ModeAllowed
<1>2. ASSUME ModeAllowed(Disk[f]) PROVE Disk[f] \in DocumentedModes
  <2> DEFINE mode == Disk[f]
  <2>1. mode \subseteq {"ur", "uw", "gr"} /\ "ur" \in mode
    BY <1>2 DEF ModeAllowed
  <2> HIDE DEF mode
  <2>2. CASE "uw" \in mode /\ "gr" \in mode
    <3>1. mode = {"ur", "uw", "gr"}
      BY <2>1, <2>2
    <3>2. QED
      BY <3>1 DEF DocumentedModes, mode
  <2>3. CASE "uw" \in mode /\ "gr" \notin mode
    <3>1. mode = {"ur", "uw"}
      BY <2>1, <2>3
    <3>2. QED
      BY <3>1 DEF DocumentedModes, mode
  <2>4. CASE "uw" \notin mode /\ "gr" \in mode
    <3>1. mode = {"ur", "gr"}
      BY <2>1, <2>4
    <3>2. QED
      BY <3>1 DEF DocumentedModes, mode
  <2>5. CASE "uw" \notin mode /\ "gr" \notin mode
    <3>1. mode = {"ur"}
      BY <2>1, <2>5
    <3>2. QED
      BY <3>1 DEF DocumentedModes, mode
  <2>6. QED
    BY <2>2, <2>3, <2>4, <2>5
<1>3. QED
  BY <1>1, <1>2

LEMMA FileJudged ==
  ASSUME NEW f
  PROVE  FileOk(f) <=> f \in DOMAIN Disk /\ (insecure \/ Disk[f] \in DocumentedModes)
  BY ModesDocumented DEF FileOk

\* What validateBolt accepts of a listed target on host h, and of default_target.
LEMMA BoltJudged ==
  ASSUME NEW b, NEW h
  PROVE  /\ BoltOk(b, h \in LocalHost) <=>
              /\ b.scheme \in Scheme
              /\ b.auth = "none" => h \in LocalHost
              /\ b.auth = "none" \/ (Secret(b) /\ ~(b.password /\ b.file # {}))
         /\ BoltOk(b, TRUE) <=>
              /\ b.scheme \in Scheme
              /\ b.auth = "none" \/ (Secret(b) /\ ~(b.password /\ b.file # {}))
<1>1. (\A f \in b.file : FileOk(f)) <=>
        (\A f \in b.file : f \in DOMAIN Disk /\ (insecure \/ Disk[f] \in DocumentedModes))
  BY FileJudged
<1>2. CASE b.auth = "none"
  BY <1>2 DEF BoltOk
<1>3. CASE b.auth # "none"
  BY <1>1, <1>3 DEF BoltOk, Secret
<1>4. QED
  BY <1>2, <1>3

LEMMA JolokiaJudged ==
  ASSUME NEW j
  PROVE  JolokiaOk(j) <=> j.url /\ \A a \in j.auth : Secret(a)
<1>1. ASSUME NEW a
      PROVE  (\A f \in a.file : FileOk(f)) <=>
               (\A f \in a.file : f \in DOMAIN Disk /\ (insecure \/ Disk[f] \in DocumentedModes))
  BY FileJudged
<1>2. QED
  BY <1>1 DEF JolokiaOk, Secret

\* LoadFile accepts exactly what the reference allows and the three mistakes in
\* default_target that it overlooks.
THEOREM VerdictsExact == Spec => []VerdictExact
<1>1. ASSUME IInv PROVE Good <=> Proper(Filled)
  <2> DEFINE F == Filled
             G(i) == /\ F.targets[i].name # Empty
                     /\ F.targets[i].bolt.auth = "none" => F.targets[i].address.host \in LocalHost
                     /\ BoltProper(F.targets[i].bolt)
                     /\ TargetProper(F, F.targets[i])
             Before(i) == \A j \in 1 .. i - 1 : F.targets[j].name # F.targets[i].name
  <2>1. DOMAIN F.targets = 1 .. Len(F.targets) /\ Len(F.targets) \in Nat
    BY <1>1, FilledTargets DEF IInv
  <2>2. ASSUME NEW i \in DOMAIN F.targets
        PROVE  GoodTarget(i) <=> G(i) /\ Before(i)
    <3> DEFINE t == F.targets[i]
    <3>1. BoltOk(t.bolt, t.address.host \in LocalHost) <=>
            BoltProper(t.bolt) /\ (t.bolt.auth = "none" => t.address.host \in LocalHost)
      BY BoltJudged DEF BoltProper
    <3>2. (\A j \in t.jolokia : JolokiaOk(j)) <=> \A j \in t.jolokia : JolokiaProper(j)
      BY JolokiaJudged DEF JolokiaProper
    <3>3. Named(F, i) <=> t.name # Empty /\ Before(i)
      BY DEF Named
    <3>4. GoodTarget(i) <=>
            /\ Named(F, i) /\ t.module \in DOMAIN F.modules \cup {NoName}
            /\ BoltOk(t.bolt, t.address.host \in LocalHost) /\ \A j \in t.jolokia : JolokiaOk(j)
      BY DEF GoodTarget
    <3>5. QED
      BY <3>1, <3>2, <3>3, <3>4 DEF TargetProper
  <2>3. GoodDefaultTarget <=> \A t \in F.default_target : BoltProper(t.bolt)
    BY BoltJudged DEF GoodDefaultTarget, DefaultTargetOk, BoltProper
  <2>4. (\A i \in DOMAIN F.targets : Before(i)) <=>
          (\A i, j \in DOMAIN F.targets : F.targets[i].name = F.targets[j].name => i = j)
    <3>1. ASSUME \A i \in DOMAIN F.targets : Before(i),
                 NEW i \in DOMAIN F.targets, NEW j \in DOMAIN F.targets,
                 F.targets[i].name = F.targets[j].name
          PROVE  i = j
      <4>1. i \in Nat /\ j \in Nat /\ 1 <= i /\ 1 <= j
        BY <2>1
      <4>2. CASE i < j
        <5>1. i \in 1 .. j - 1
          BY <4>1, <4>2
        <5>2. QED
          BY <3>1, <5>1
      <4>3. CASE j < i
        <5>1. j \in 1 .. i - 1
          BY <4>1, <4>3
        <5>2. QED
          BY <3>1, <5>1
      <4>4. QED
        BY <4>1, <4>2, <4>3
    <3>2. ASSUME \A i, j \in DOMAIN F.targets : F.targets[i].name = F.targets[j].name => i = j,
                 NEW i \in DOMAIN F.targets, NEW j \in 1 .. i - 1
          PROVE  F.targets[j].name # F.targets[i].name
      <4>1. j \in DOMAIN F.targets /\ j # i
        BY <2>1
      <4>2. QED
        BY <3>2, <4>1
    <3>3. QED
      BY <3>1, <3>2
  <2> HIDE DEF F
  <2>5. Proper(F) <=>
          /\ F.default_module \in DOMAIN F.modules
          /\ \A n \in DOMAIN F.modules : F.modules[n].collectors \subseteq KnownCollector
          /\ \A i, j \in DOMAIN F.targets : F.targets[i].name = F.targets[j].name => i = j
          /\ \A i \in DOMAIN F.targets : G(i)
          /\ \A t \in F.default_target : BoltProper(t.bolt)
    BY DEF Proper
  <2>6. Good <=>
          /\ F.default_module \in DOMAIN F.modules
          /\ \A n \in DOMAIN F.modules : F.modules[n].collectors \subseteq KnownCollector
          /\ \A i \in DOMAIN F.targets : GoodTarget(i)
          /\ GoodDefaultTarget
    BY DEF Good, GoodGlobal, GoodModule, F
  <2> HIDE DEF G, Before
  <2>7. Good <=> Proper(F)
    BY <2>2, <2>3, <2>4, <2>5, <2>6
  <2>8. QED
    BY <2>7 DEF F
<1>2. IInv => VerdictExact
  <2>1. Proper(Filled) <=>
          \/ WellFormed(Filled)
          \/ Proper(Filled) /\ \E t \in Filled.default_target : ~DefaultTargetProper(Filled, t)
    BY DEF WellFormed
  <2>2. QED
    BY <1>1, <2>1 DEF IInv, Judged, VerdictExact, Filled
<1>3. QED
  BY <1>2, Inductive, PTL

=============================================================================

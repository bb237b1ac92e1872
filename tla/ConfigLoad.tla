----------------------------- MODULE ConfigLoad -----------------------------
(***************************************************************************)
(* How a configuration file becomes the active configuration               *)
(* (internal/config/config.go): LoadFile fills in the defaults and         *)
(* validates what it has got, and FindTarget and Module answer a request   *)
(* from the result.                                                        *)
(*                                                                         *)
(* Go visits the modules, a map, in any order and stops at the first       *)
(* mistake; targets are visited in the order of the file.  What may be     *)
(* missing in the file - a default_target, a password file, a jolokia      *)
(* block - is a set of at most one element.                                *)
(***************************************************************************)
EXTENDS Integers, Sequences

CONSTANTS
  Text,            \* parsed files: records [default_module, scrape_timeout,
                   \* modules, targets, default_target]
  Query,           \* what a request may ask for, see Address
  ModuleName,      \* names of modules, without NoName
  NoName,          \* the empty name
  NoModule,        \* of a target that is not found
  Host, Port,
  NoHost,          \* of an address with nothing before the colon
  NoPort,          \* of an address without a colon
  BoltPort,        \* 7687
  UriAddress,      \* the addresses that make a URI when a scheme is put before them
  KnownCollector,  \* the names knownCollector knows
  LocalHost,       \* the hosts isLocalhostAddr takes for this one
  Scheme,          \* the six schemes of Bolt
  NoScheme,        \* of a target that names none
  File,            \* the secret and certificate files
  Disk,            \* function from the files that exist to their permissions,
                   \* sets of bits of Bit
  Pem              \* the files with certificates or keys in them

\* Permission bits: user, group, others; read, write, execute.
Bit == {"ur", "uw", "ux", "gr", "gw", "gx", "or", "ow", "ox"}

\* The default of default_module is a module of that name.
DefaultModule == "default"

ASSUME NameAssumption ==
  /\ NoName \notin ModuleName /\ DefaultModule \in ModuleName
  /\ NoModule \notin ModuleName \cup {NoName}

ASSUME DiskAssumption == Disk \in [DOMAIN Disk -> SUBSET Bit]

\* An address, a target's name and a query are texts, which are compared with each
\* other: what is before the colon, and what follows it, if there is one.
Address == [host : Host, port : Port \cup {NoPort}]

\* collectors holds the names in the collectors and per_collector_timeout blocks;
\* top stands for the settings of slow_query with a default; 0 is not set, and nothing
\* keeps any of them from being negative.
Module == [timeout : Int, top : Int, collectors : SUBSET STRING]

Optional(S) == {X \in SUBSET S : \A x, y \in X : x = y}

\* username and password tell whether the text gives one.
Bolt == [scheme : Scheme \cup {NoScheme, "other"}, auth : {"none", "password"},
         username : BOOLEAN, password : BOOLEAN, file : Optional(File)]

JolokiaAuth == [username : BOOLEAN, password : BOOLEAN, file : Optional(File)]

TLS == [ca : Optional(File), cert : Optional(File), key : Optional(File)]

Jolokia == [url : BOOLEAN, auth : Optional(JolokiaAuth), tls : Optional(TLS)]

Target == [name : Address, address : Address, module : ModuleName \cup {NoName},
           bolt : Bolt, jolokia : Optional(Jolokia)]

ASSUME QueryAssumption == Query \subseteq Address

\* An address may be empty.
ASSUME AddressAssumption == NoHost \in Host /\ BoltPort \in Port /\ NoPort \notin Port

ASSUME SchemeAssumption == NoScheme \notin Scheme /\ "neo4j" \in Scheme

\* The types of a parsed file.
Typed(c) ==
  /\ c = [default_module |-> c.default_module, scrape_timeout |-> c.scrape_timeout,
          modules |-> c.modules, targets |-> c.targets, default_target |-> c.default_target]
  /\ c.default_module \in ModuleName \cup {NoName}
  /\ c.scrape_timeout \in Int
  /\ DOMAIN c.modules \subseteq ModuleName
  /\ c.modules \in [DOMAIN c.modules -> Module]
  /\ c.targets \in Seq(Target)
  /\ c.default_target \in Optional(Target)

ASSUME TextAssumption == \A c \in Text : Typed(c)

VARIABLES
  text,       \* what the file says
  insecure,   \* allowInsecureSecretFiles
  conf,       \* the Config under construction
  at,         \* where LoadFile is
  unchecked,  \* the modules it has not looked at
  checked,    \* how many targets it has
  query,      \* the last look-up, once the configuration is loaded
  answer      \* and the target it has found

vars == <<text, insecure, conf, at, unchecked, checked, query, answer>>

-----------------------------------------------------------------------------
(* applyDefaults.                                                          *)

\* Mutant: the default is set where there is a value.
OrSwapped(x, default) == IF x = 0 THEN x ELSE default

Or(x, default) == IF x = 0 THEN default ELSE x

\* An address without a colon gets the port of Bolt.
WithPort(a) == IF a.port = NoPort THEN [host |-> a.host, port |-> BoltPort] ELSE a

WithScheme(b) ==
  [scheme |-> IF b.scheme = NoScheme THEN "neo4j" ELSE b.scheme, auth |-> b.auth,
   username |-> b.username, password |-> b.password, file |-> b.file]

TargetDefaults(t) ==
  [name |-> t.name, address |-> WithPort(t.address), module |-> t.module,
   bolt |-> WithScheme(t.bolt), jolokia |-> t.jolokia]

ModuleDefaults(m, timeout) ==
  [timeout |-> Or(m.timeout, timeout), top |-> Or(m.top, 10), collectors |-> m.collectors]

ApplyDefaults(c) ==
  LET timeout == Or(c.scrape_timeout, 10)
  IN  [default_module |-> IF c.default_module = NoName THEN DefaultModule
                          ELSE c.default_module,
       scrape_timeout |-> timeout,
       modules        |-> [n \in DOMAIN c.modules |-> ModuleDefaults(c.modules[n], timeout)],
       targets        |-> [i \in DOMAIN c.targets |-> TargetDefaults(c.targets[i])],
       default_target |-> {TargetDefaults(t) : t \in c.default_target}]

-----------------------------------------------------------------------------
(* validate.                                                               *)

\* Mutant: only the bits of others are looked at.
ModeOthers(mode) == mode \cap {"or", "ow", "ox"} = {}

\* mode &^ 0640 == 0 && mode & 0400 != 0
ModeAllowed(mode) == mode \subseteq {"ur", "uw", "gr"} /\ "ur" \in mode

\* checkSecretFileMode
FileOk(f) == f \in DOMAIN Disk /\ (ModeAllowed(Disk[f]) \/ insecure)

\* Mutant: a password without a source is let through.
BoltOkSourceless(b, local) ==
  /\ b.scheme \in Scheme
  /\ IF b.auth = "none" THEN local
     ELSE /\ b.username
          /\ ~(b.password /\ b.file # {})
          /\ \A f \in b.file : FileOk(f)

\* validateBolt: no authentication only on this host, else a user name and
\* either a password or a file of the right mode.
BoltOk(b, local) ==
  /\ b.scheme \in Scheme
  /\ IF b.auth = "none" THEN local
     ELSE /\ b.username
          /\ b.password \/ b.file # {}
          /\ ~(b.password /\ b.file # {})
          /\ \A f \in b.file : FileOk(f)

\* validateJolokia: here a password and a file may both be given.
JolokiaOk(j) ==
  /\ j.url
  /\ \A a \in j.auth :
       /\ a.username
       /\ a.password \/ a.file # {}
       /\ \A f \in a.file : FileOk(f)

\* The module of a target that names none is set to the default one.
WithModule(c, t) ==
  [name |-> t.name, address |-> t.address,
   module |-> IF t.module = NoName THEN c.default_module ELSE t.module,
   bolt |-> t.bolt, jolokia |-> t.jolokia]

Empty == [host |-> NoHost, port |-> NoPort]

\* Target i has a name that none of those before it has.
Named(c, i) ==
  /\ c.targets[i].name # Empty
  /\ \A j \in 1 .. i - 1 : c.targets[j].name # c.targets[i].name

TargetOk(c, i) ==
  LET t == WithModule(c, c.targets[i])
  IN  /\ Named(c, i)
      /\ t.address # Empty
      /\ t.module \in DOMAIN c.modules
      /\ BoltOk(t.bolt, t.address.host \in LocalHost)
      /\ \A j \in t.jolokia : JolokiaOk(j)

\* The module of a default_target is not looked at, nor is its jolokia block, and
\* its label counts as this host.
DefaultTargetOk(t) == BoltOk(t.bolt, TRUE)

-----------------------------------------------------------------------------
(* FindTarget.                                                             *)

ByName(c, q) == {i \in DOMAIN c.targets : c.targets[i].name = q}

ByAddress(c, q) == {i \in DOMAIN c.targets : c.targets[i].address = WithPort(q)}

\* The target of the smallest index.
First(c, I) == {c.targets[i] : i \in {j \in I : \A k \in I : j <= k}}

\* Mutant: default_target keeps the address of its own.
DiscoveredElsewhere(c, t, q) ==
  [name |-> t.name, address |-> t.address,
   module |-> IF t.module = NoName THEN c.default_module ELSE t.module,
   bolt |-> t.bolt, jolokia |-> t.jolokia]

\* A copy of default_target t for the address that was asked for.
Discovered(c, t, q) ==
  [name    |-> t.name,
   address |-> WithPort(q),
   module  |-> IF t.module = NoName THEN c.default_module ELSE t.module,
   bolt    |-> t.bolt,
   jolokia |-> t.jolokia]

\* Mutant: addresses before names.
FindByAddressFirst(c, q) ==
  IF ByAddress(c, q) # {} THEN First(c, ByAddress(c, q))
  ELSE IF ByName(c, q) # {} THEN First(c, ByName(c, q))
  ELSE {Discovered(c, t, q) : t \in c.default_target}

\* Names before addresses, addresses before default_target.
FindTarget(c, q) ==
  IF ByName(c, q) # {} THEN First(c, ByName(c, q))
  ELSE IF ByAddress(c, q) # {} THEN First(c, ByAddress(c, q))
  ELSE {Discovered(c, t, q) : t \in c.default_target}

-----------------------------------------------------------------------------
(* What a probe does with the target it has found.                         *)

\* The process owns the files.
Readable(f) == f \in DOMAIN Disk /\ "ur" \in Disk[f]

\* ResolveBoltPassword and ResolveJolokiaPassword find a password.
PasswordResolves(a) == a.password \/ (a.file # {} /\ \A f \in a.file : Readable(f))

\* BuildTLSConfig has no reason to fail.
TLSBuilds(t) ==
  /\ t.ca \cup t.cert \cup t.key \subseteq {f \in Pem : Readable(f)}
  /\ t.cert = {} <=> t.key = {}

\* NewDriver has no reason to fail: it finds the password, and the Neo4j driver knows
\* the scheme and can parse the URI.
DriverBuilds(address, b) ==
  /\ b.auth = "none" \/ PasswordResolves(b)
  /\ b.scheme \in Scheme
  /\ address \in UriAddress

\* jolokiaclient.New has no reason to fail.
ClientBuilds(j) ==
  /\ j.url
  /\ \A t \in j.tls : TLSBuilds(t)
  /\ \A a \in j.auth : PasswordResolves(a)

-----------------------------------------------------------------------------
(* LoadFile and the requests that follow.                                  *)

Init ==
  /\ text \in Text
  /\ insecure \in BOOLEAN
  /\ conf = text
  /\ at = "parsed"
  /\ unchecked = {}
  /\ checked = 0
  /\ query = Empty
  /\ answer = {}

Reject ==
  /\ at' = "rejected"
  /\ UNCHANGED <<text, insecure, conf, unchecked, checked, query, answer>>

\* yaml.Unmarshal has succeeded.
Defaults ==
  /\ at = "parsed"
  /\ conf' = ApplyDefaults(conf)
  /\ unchecked' = DOMAIN conf.modules
  /\ at' = "defaulted"
  /\ UNCHANGED <<text, insecure, checked, query, answer>>

\* There is a module, and default_module is one; an empty map fails both ways.
CheckGlobal ==
  /\ at = "defaulted"
  /\ IF conf.default_module \in DOMAIN conf.modules
     THEN /\ at' = "checking"
          /\ UNCHANGED <<text, insecure, conf, unchecked, checked, query, answer>>
     ELSE Reject

CheckModule ==
  /\ at = "checking"
  /\ \E n \in unchecked :
       IF conf.modules[n].collectors \subseteq KnownCollector
       THEN /\ unchecked' = unchecked \ {n}
            /\ UNCHANGED <<text, insecure, conf, at, checked, query, answer>>
       ELSE Reject

CheckTarget ==
  /\ at = "checking"
  /\ unchecked = {}
  /\ checked < Len(conf.targets)
  /\ LET i == checked + 1
     IN  IF TargetOk(conf, i)
         THEN /\ checked' = i
              /\ conf' = [default_module |-> conf.default_module,
                          scrape_timeout |-> conf.scrape_timeout,
                          modules        |-> conf.modules,
                          targets        |-> [conf.targets EXCEPT ![i] =
                                                WithModule(conf, conf.targets[i])],
                          default_target |-> conf.default_target]
              /\ UNCHANGED <<text, insecure, at, unchecked, query, answer>>
         ELSE Reject

CheckDefaultTarget ==
  /\ at = "checking"
  /\ unchecked = {}
  /\ checked = Len(conf.targets)
  /\ IF \A t \in conf.default_target : DefaultTargetOk(t)
     THEN /\ at' = "loaded"
          /\ UNCHANGED <<text, insecure, conf, unchecked, checked, query, answer>>
     ELSE Reject

\* A request asks for q.
LookUp(q) ==
  /\ at = "loaded"
  /\ query' = q
  /\ answer' = FindTarget(conf, q)
  /\ UNCHANGED <<text, insecure, conf, at, unchecked, checked>>

Rejected == at = "rejected" /\ UNCHANGED vars

Next ==
  \/ Defaults \/ CheckGlobal \/ CheckModule \/ CheckTarget \/ CheckDefaultTarget
  \/ \E q \in Query : LookUp(q)
  \/ Rejected

Spec == Init /\ [][Next]_vars

-----------------------------------------------------------------------------
(* Properties.                                                             *)

Places == {"parsed", "defaulted", "checking", "loaded", "rejected"}

\* The types; no setting with a default is 0 once the defaults are filled in.
TypeOK ==
  /\ Typed(text)
  /\ insecure \in BOOLEAN
  /\ Typed(conf)
  /\ at \in Places
  /\ unchecked \subseteq DOMAIN conf.modules
  /\ checked \in 0 .. Len(conf.targets)
  /\ query \in Address
  /\ answer \in Optional(Target)
  /\ at # "parsed" => \A n \in DOMAIN conf.modules :
                       conf.modules[n].timeout # 0 /\ conf.modules[n].top # 0

\* The four modes of docs/CONFIGURATION.md:132.
DocumentedModes == {{"ur"}, {"ur", "gr"}, {"ur", "uw"}, {"ur", "uw", "gr"}}

\* What the configuration reference asks of a file of secrets, a jolokia block, any
\* bolt block, and a target.
Secret(a) ==
  /\ a.username
  /\ a.password \/ a.file # {}
  /\ \A f \in a.file : f \in DOMAIN Disk /\ (insecure \/ Disk[f] \in DocumentedModes)

JolokiaProper(j) == j.url /\ \A a \in j.auth : Secret(a)

BoltProper(b) ==
  /\ b.scheme \in Scheme
  /\ b.auth = "none" \/ (Secret(b) /\ ~(b.password /\ b.file # {}))

TargetProper(c, t) ==
  /\ t.module \in DOMAIN c.modules \cup {NoName}
  /\ \A j \in t.jolokia : JolokiaProper(j)

\* A file whose default_target has a proper bolt block at least.
Proper(c) ==
  /\ c.default_module \in DOMAIN c.modules
  /\ \A n \in DOMAIN c.modules : c.modules[n].collectors \subseteq KnownCollector
  /\ \A i, j \in DOMAIN c.targets : c.targets[i].name = c.targets[j].name => i = j
  /\ \A i \in DOMAIN c.targets :
       LET t == c.targets[i]
       IN  /\ t.name # Empty
           /\ t.bolt.auth = "none" => t.address.host \in LocalHost
           /\ BoltProper(t.bolt)
           /\ TargetProper(c, t)
  /\ \A t \in c.default_target : BoltProper(t.bolt)

\* What else the reference asks of a default_target, which serves addresses that are
\* not local (docs/CONFIGURATION.md:136, config.go:370).
DefaultTargetProper(c, t) == t.bolt.auth # "none" /\ TargetProper(c, t)

WellFormed(c) == Proper(c) /\ \A t \in c.default_target : DefaultTargetProper(c, t)

\* LoadFile accepts exactly the files that the reference allows, in whatever order Go
\* visits the modules and whichever mistake it meets first, and besides those whose
\* only mistake is one of three in default_target: auth none, which its label lets
\* pass for any address (config.go:265-269, 413-416), a module that is not defined, or
\* a jolokia block that lacks something.  Nor does it ask that a target has an address,
\* since the default port has made one of nothing by then (config.go:213, 246).
VerdictExact ==
  at \in {"loaded", "rejected"} =>
    LET c == ApplyDefaults(text)
    IN  at = "loaded" <=>
          WellFormed(c) \/ (Proper(c) /\ \E t \in c.default_target : ~DefaultTargetProper(c, t))

\* The text of ConfigReload that stands for c.
Brief == INSTANCE Lookup
  WITH Name <- Address, Module <- ModuleName, Unset <- NoName, Absent <- NoModule

ModuleOf(T) == IF T = {} THEN NoModule ELSE CHOOSE m \in {t.module : t \in T} : TRUE

Listed(c, q) == First(c, IF ByName(c, q) # {} THEN ByName(c, q) ELSE ByAddress(c, q))

View(c) ==
  [parses        |-> TRUE,
   modules       |-> DOMAIN c.modules,
   defaultModule |-> c.default_module,
   target        |-> [q \in Address |-> ModuleOf(Listed(c, q))],
   defaultTarget |-> ModuleOf(c.default_target)]

\* An accepted configuration is what its readers take it for: no timeout or limit is
\* left at 0, what ConfigReload sees of the file is valid, and whichever target a
\* request finds has the module that ConfigReload's look-up gives, which is defined
\* for every listed one (config.go:182-196, 249-255, 265-269, 277-299).
LoadedIsValid ==
  at = "loaded" =>
    /\ \A n \in DOMAIN conf.modules : conf.modules[n].timeout # 0 /\ conf.modules[n].top # 0
    /\ Brief!Valid(View(ApplyDefaults(text)))
    /\ query # Empty =>
         ModuleOf(answer) = Brief!FindTarget(View(ApplyDefaults(text)), query)
    /\ \A t \in answer : t \in {conf.targets[i] : i \in DOMAIN conf.targets} =>
         t.module \in DOMAIN conf.modules

\* Whatever a request asks an accepted configuration for, the driver of the target it
\* gets can be built, unless the address makes no URI, which nothing looks at: neither
\* validate for a listed target nor FindTarget for the address of a request.  So can
\* the Jolokia client of a listed target, unless its TLS settings are wrong, which
\* validate does not look at either.  A password file that was let in with
\* --config.allow-insecure-secret-files may be unreadable
\* (config.go:246-268, 277-299, driver.go:24-35, orchestrator.go:73).
LoadedIsUsable ==
  at = "loaded" /\ ~insecure =>
    \A t \in answer :
      /\ t.address \in UriAddress => DriverBuilds(t.address, t.bolt)
      /\ (\E i \in DOMAIN conf.targets : t = conf.targets[i]) =>
           \A j \in t.jolokia : (\A s \in j.tls : TLSBuilds(s)) => ClientBuilds(j)

\* Every listed target is found by its name, even where that is the address of
\* another one, and by its address unless somebody else has that name or, earlier
\* in the file, that address (config.go:277-290).
ListedReachable ==
  at = "loaded" =>
    \A i \in DOMAIN conf.targets :
      LET t == conf.targets[i]
      IN  /\ query = t.name => answer = {t}
          /\ WithPort(query) = t.address /\ query # Empty =>
               \E j \in DOMAIN conf.targets :
                 /\ answer = {conf.targets[j]}
                 /\ conf.targets[j].name = query
                    \/ (conf.targets[j].address = t.address /\ j <= i)

\* The credentials of a listed target go to its own address only, and those of
\* default_target exactly to the address that was asked for, which no listed target
\* has; the module such a target gets is the default one if it names none
\* (config.go:291-299).
OwnCredentials ==
  at = "loaded" =>
    \A u \in answer :
      \/ \E i \in DOMAIN conf.targets : u = conf.targets[i]
      \/ /\ u.address = WithPort(query)
         /\ \A i \in DOMAIN conf.targets :
              conf.targets[i].address # u.address /\ conf.targets[i].name # query
         /\ \E d \in conf.default_target :
              /\ u.bolt = d.bolt /\ u.jolokia = d.jolokia
              /\ u.module = IF d.module = NoName THEN conf.default_module ELSE d.module

=============================================================================

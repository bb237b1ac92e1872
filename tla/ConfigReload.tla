---------------------------- MODULE ConfigReload ----------------------------
(***************************************************************************)
(* The active configuration (internal/config/config.go, Manager) with      *)
(* those that change it - the goroutine that SIGHUP wakes through a        *)
(* channel of capacity one and the /-/reload handlers                      *)
(* (cmd/neo4j-exporter/main.go:96-131) - and the probes that read it       *)
(* (internal/probe/handler.go:66-90).                                      *)
(*                                                                         *)
(* A reload reads the configuration file and then the secret files it      *)
(* refers to, under Manager.mu; both may be edited at any moment.          *)
(***************************************************************************)
EXTENDS Naturals, Lookup

CONSTANTS
  Reloader,    \* the goroutines that call Manager.Reload
  Hup,         \* the one SIGHUP wakes; the others are /-/reload handlers
  NoOne,       \* nobody holds Manager.mu
  Probe,       \* the requests to /probe in flight
  Text,        \* the contents of the configuration file: records [parses,
               \* modules, defaultModule, target, defaultTarget]
  Secret,      \* the contents of the secret file
  MaxEdits     \* bound on the edits of the two files

ASSUME NameAssumption ==
  /\ Hup \in Reloader
  /\ NoOne \notin Reloader
  /\ Unset # Absent
  /\ {Unset, Absent} \cap Module = {}
  /\ Absent \notin Text \cup Secret

ASSUME TextAssumption ==
  /\ MaxEdits \in Nat
  /\ Text \subseteq [parses        : BOOLEAN,
                     modules       : SUBSET Module,
                     defaultModule : Module,
                     target        : [Name -> Module \cup {Unset, Absent}],
                     defaultTarget : Module \cup {Unset, Absent}]

\* A loaded configuration, with the edit its file was at.
Config == [text : Text, secret : Secret, edit : 0 .. MaxEdits]

VARIABLES
  file,      \* the configuration file
  secret,    \* the secret file
  edits,     \* the edits of either so far
  current,   \* Manager.current
  mu,        \* who holds Manager.mu
  pending,   \* the signals in hupCh
  rpc,       \* where each reloader is
  loading,   \* what LoadFile has read so far
  ppc,       \* where each probe is
  conf,      \* the configuration a probe took
  asks,      \* the target and module of its request
  module,    \* the module it has resolved
  asked      \* history: a SIGHUP was sent after the last edit

fileVars == <<file, secret, edits>>
reloadVars == <<current, mu, pending, rpc, loading>>
probeVars == <<ppc, conf, asks, module>>
vars == <<fileVars, reloadVars, probeVars, asked>>

Request == [target : Name, module : Module \cup {Unset}]

TypeOK ==
  /\ file \in Text \cup {Absent}
  /\ secret \in Secret \cup {Absent}
  /\ edits \in 0 .. MaxEdits
  /\ current \in Config
  /\ mu \in Reloader \cup {NoOne}
  /\ pending \in {0, 1}
  /\ rpc \in [Reloader -> {"idle", "reload", "locked", "read", "expanded", "reconcile"}]
  /\ loading \in [Reloader -> [text   : Text \cup {Absent},
                               secret : Secret \cup {Absent},
                               edit   : 0 .. MaxEdits]]
  /\ ppc \in [Probe -> {"idle", "looking", "found", "running", "no_target", "no_module"}]
  /\ conf \in [Probe -> Config \cup {Absent}]
  /\ asks \in [Probe -> Request \cup {Absent}]
  /\ module \in [Probe -> Module \cup {Unset}]
  /\ asked \in BOOLEAN

-----------------------------------------------------------------------------
(* Loading a file.                                                         *)

Loads(t, s) == t # Absent /\ s # Absent /\ t.parses /\ Valid(t)

Nothing == [text |-> Absent, secret |-> Absent, edit |-> 0]

\* main has loaded the file.
Init ==
  /\ file \in Text
  /\ secret \in Secret
  /\ Loads(file, secret)
  /\ edits = 0
  /\ current = [text |-> file, secret |-> secret, edit |-> 0]
  /\ mu = NoOne
  /\ pending = 0
  /\ rpc = [r \in Reloader |-> "idle"]
  /\ loading = [r \in Reloader |-> Nothing]
  /\ ppc = [p \in Probe |-> "idle"]
  /\ conf = [p \in Probe |-> Absent]
  /\ asks = [p \in Probe |-> Absent]
  /\ module = [p \in Probe |-> Unset]
  /\ asked = FALSE

-----------------------------------------------------------------------------
(* Reloads.                                                                *)

At(r, here, there) == rpc[r] = here /\ rpc' = [rpc EXCEPT ![r] = there]

\* Mutants: the channel takes every signal; it has no buffer, so that a signal
\* sent to a busy goroutine is lost.
PendingCounted == pending + 1
PendingUnbuffered == IF rpc[Hup] = "idle" THEN 1 ELSE pending

\* What hupCh holds after a signal: one that finds it full is dropped.
PendingAfterSignal == 1

SendHup ==
  /\ pending' = PendingAfterSignal
  /\ asked' = TRUE
  /\ UNCHANGED <<fileVars, current, mu, rpc, loading, probeVars>>

\* The goroutine takes a signal from the channel.
ReceiveHup ==
  /\ pending = 1
  /\ At(Hup, "idle", "reload")
  /\ pending' = 0
  /\ UNCHANGED <<fileVars, current, mu, loading, probeVars, asked>>

\* POST /-/reload.
PostReload(r) ==
  /\ r # Hup
  /\ At(r, "idle", "reload")
  /\ UNCHANGED <<fileVars, current, mu, pending, loading, probeVars, asked>>

\* Mutant: reloads are not serialised.
MuNotNeeded == TRUE

MuFree == mu = NoOne

Lock(r) ==
  /\ At(r, "reload", "locked")
  /\ MuFree
  /\ mu' = r
  /\ UNCHANGED <<fileVars, current, pending, loading, probeVars, asked>>

ReadConfig(r) ==
  /\ At(r, "locked", "read")
  /\ file # Absent
  /\ loading' = [loading EXCEPT ![r] = [text |-> file, secret |-> Absent, edit |-> edits]]
  /\ UNCHANGED <<fileVars, current, mu, pending, probeVars, asked>>

\* ${file:...} is replaced by what the secret file holds now.
ExpandSecrets(r) ==
  /\ At(r, "read", "expanded")
  /\ secret # Absent
  /\ loading' = [loading EXCEPT ![r].secret = secret]
  /\ UNCHANGED <<fileVars, current, mu, pending, probeVars, asked>>

\* The configuration parses and validates: it becomes the active one.
Swap(r) ==
  /\ At(r, "expanded", "reconcile")
  /\ Loads(loading[r].text, loading[r].secret)
  /\ current' = loading[r]
  /\ loading' = [loading EXCEPT ![r] = Nothing]
  /\ mu' = NoOne
  /\ UNCHANGED <<fileVars, pending, probeVars, asked>>

\* A file cannot be read, or what it holds is refused: the reload fails.
ReloadFails(r) ==
  /\ \/ At(r, "locked", "idle") /\ file = Absent
     \/ At(r, "read", "idle") /\ secret = Absent
     \/ At(r, "expanded", "idle") /\ ~Loads(loading[r].text, loading[r].secret)
  /\ loading' = [loading EXCEPT ![r] = Nothing]
  /\ mu' = NoOne
  /\ UNCHANGED <<fileVars, current, pending, probeVars, asked>>

\* pool.Reconcile with the active configuration (see DriverPool).
Reconcile(r) ==
  /\ At(r, "reconcile", "idle")
  /\ UNCHANGED <<fileVars, current, mu, pending, loading, probeVars, asked>>

-----------------------------------------------------------------------------
(* Probes.                                                                 *)

\* The handler takes the active configuration.
TakeConfig(p) ==
  /\ ppc[p] = "idle"
  /\ \E q \in Request : asks' = [asks EXCEPT ![p] = q]
  /\ conf' = [conf EXCEPT ![p] = current]
  /\ ppc' = [ppc EXCEPT ![p] = "looking"]
  /\ UNCHANGED <<fileVars, reloadVars, module, asked>>

\* It looks the target up, and takes its module unless the request names one.
LookUpTarget(p) ==
  /\ ppc[p] = "looking"
  /\ LET m == FindTarget(conf[p].text, asks[p].target)
     IN  \/ /\ m = Absent
            /\ ppc' = [ppc EXCEPT ![p] = "no_target"]
            /\ UNCHANGED module
         \/ /\ m # Absent
            /\ ppc' = [ppc EXCEPT ![p] = "found"]
            /\ module' = [module EXCEPT ![p] =
                            IF asks[p].module = Unset THEN m ELSE asks[p].module]
  /\ UNCHANGED <<fileVars, reloadVars, conf, asks, asked>>

\* Mutant: the module comes from the configuration that is active by now.
ModulesNow(p) == current.text.modules

ModulesOf(p) == conf[p].text.modules

LookUpModule(p) ==
  /\ ppc[p] = "found"
  /\ ppc' = [ppc EXCEPT ![p] = IF module[p] \in ModulesOf(p) THEN "running" ELSE "no_module"]
  /\ UNCHANGED <<fileVars, reloadVars, conf, asks, module, asked>>

\* The response is written.
Respond(p) ==
  /\ ppc[p] \in {"running", "no_target", "no_module"}
  /\ ppc' = [ppc EXCEPT ![p] = "idle"]
  /\ conf' = [conf EXCEPT ![p] = Absent]
  /\ asks' = [asks EXCEPT ![p] = Absent]
  /\ module' = [module EXCEPT ![p] = Unset]
  /\ UNCHANGED <<fileVars, reloadVars, asked>>

-----------------------------------------------------------------------------
(* The environment.                                                        *)

\* Somebody edits one of the files, or takes it away.
Edit ==
  /\ edits < MaxEdits
  /\ edits' = edits + 1
  /\ \/ file' \in Text \cup {Absent} /\ UNCHANGED secret
     \/ secret' \in Secret \cup {Absent} /\ UNCHANGED file
  /\ asked' = FALSE
  /\ UNCHANGED <<reloadVars, probeVars>>

-----------------------------------------------------------------------------
ReloadStep(r) ==
  ReadConfig(r) \/ ExpandSecrets(r) \/ Swap(r) \/ ReloadFails(r) \/ Reconcile(r)

Next ==
  \/ SendHup \/ ReceiveHup
  \/ \E r \in Reloader : PostReload(r) \/ Lock(r) \/ ReloadStep(r)
  \/ \E p \in Probe :
       TakeConfig(p) \/ LookUpTarget(p) \/ LookUpModule(p) \/ Respond(p)
  \/ Edit

Spec == Init /\ [][Next]_vars

\* The goroutines run, and sync.Mutex lets nobody wait for ever.
FairSpec ==
  /\ Spec
  /\ WF_vars(ReceiveHup)
  /\ \A r \in Reloader : WF_vars(ReloadStep(r)) /\ SF_vars(Lock(r))

-----------------------------------------------------------------------------
(* Properties.                                                             *)

\* A probe that names no module and asks for a listed target never gets "module
\* not defined" (handler.go:86-90), however reloads that rename modules interleave
\* with it and whatever invalid files they meet: what it takes is one validated
\* configuration, and it looks at no other.
ListedTargetHasModule ==
  \A p \in Probe :
    ppc[p] = "no_module" =>
      asks[p].module # Unset \/ conf[p].text.target[asks[p].target] = Absent

\* Concurrent reloads never bring an older edit of the file back: the read and the
\* swap are under one lock (config.go:336-349).
NeverOlder == [][current'.edit >= current.edit]_vars

\* When the goroutine that SIGHUP wakes has nothing left to do, no signal that was sent
\* after the last edit has been lost, although one that finds the channel full is
\* dropped and /-/reload handlers load other states of the files in between: if the
\* files load, they are active, both as they are now (main.go:118-131,
\* config.go:330-350).
NoSignalLost ==
  asked /\ Loads(file, secret) /\ pending = 0 /\ rpc[Hup] \in {"idle", "reconcile"} =>
    current.text = file /\ current.secret = secret

\* A SIGHUP is never in vain although the channel coalesces signals: if one is sent
\* after the last edit and the files load, they become the active configuration
\* (main.go:118-131).
LastHupLoaded ==
  (asked /\ Loads(file, secret))
    ~> (~asked \/ (current.text = file /\ current.secret = secret))

=============================================================================

--------------------------- MODULE MCOrchestrator ---------------------------
(***************************************************************************)
(* Values for the constants of Orchestrator.                               *)
(***************************************************************************)
EXTENDS Orchestrator

CONSTANTS bolt, jolokia, kernel

\* The bolt collector verifies the connectivity, then runs a query.
MCRounds == [c \in Collector |-> IF c = bolt THEN 2 ELSE 1]

Modes(off, auto) ==
  [c \in Collector |-> IF c \in off THEN "false" ELSE IF c \in auto THEN "auto" ELSE "true"]

Default(t) == [c \in Collector |-> t]

\* Everything on; one collector with a timeout above the probe's; no bolt.
Everything == [timeout |-> 2, mode |-> Modes({}, {kernel}), per |-> Default(0)]
LongCollector ==
  [timeout |-> 2, mode |-> Modes({}, {}), per |-> [Default(1) EXCEPT ![jolokia] = 3]]
NoBolt == [timeout |-> 1, mode |-> Modes({bolt}, {kernel}), per |-> Default(0)]

MCModule == {Everything, LongCollector, NoBolt}
OneModule == {Everything}

=============================================================================

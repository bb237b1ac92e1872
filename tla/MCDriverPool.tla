---------------------------- MODULE MCDriverPool ----------------------------
(***************************************************************************)
(* Values for the constants of DriverPool.                                 *)
(***************************************************************************)
EXTENDS DriverPool, TLC

CONSTANTS
  a, b,               \* addresses
  literal, old, new   \* passwords: one in the configuration, two in the file

\* Two targets at two addresses, and a second database at the first address.
TA  == [uri |-> a, secret |-> literal, database |-> "neo4j"]
TA2 == [uri |-> a, secret |-> literal, database |-> "sales"]
TB  == [uri |-> b, secret |-> FromFile, database |-> "neo4j"]

MCTarget == {TA, TA2, TB}

\* A reload may replace a by b; b's configuration serves a,
\* with another database, through default_target.
ListsA == [listed |-> {TA}, discovered |-> {}]
ListsB == [listed |-> {TB}, discovered |-> {}]
ListsBDiscoversA == [listed |-> {TB}, discovered |-> {TA2}]

SwapConfig == {ListsA, ListsB}
MCConfig == {ListsA, ListsBDiscoversA}

MCSymmetry ==
  Permutations(Probe) \cup Permutations(Reloader) \cup Permutations(Driver)

=============================================================================

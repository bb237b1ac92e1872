--------------------------- MODULE MCConfigReload ---------------------------
(***************************************************************************)
(* Values for the constants of ConfigReload.                               *)
(***************************************************************************)
EXTENDS ConfigReload

CONSTANTS listed, other, fast, full

\* A module is renamed, with the target that uses it.
Before ==
  [parses |-> TRUE, modules |-> {fast}, defaultModule |-> fast,
   target |-> [n \in Name |-> IF n = listed THEN fast ELSE Absent],
   defaultTarget |-> Absent]
After ==
  [parses |-> TRUE, modules |-> {full}, defaultModule |-> full,
   target |-> [n \in Name |-> IF n = listed THEN Unset ELSE Absent],
   defaultTarget |-> fast]

\* The rename is forgotten in the target; the file is cut short.
Dangling == [After EXCEPT !.target = Before.target]
Broken == [After EXCEPT !.parses = FALSE]

MCText == {Before, After, Dangling, Broken}

=============================================================================

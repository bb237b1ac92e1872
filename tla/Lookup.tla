------------------------------- MODULE Lookup -------------------------------
(***************************************************************************)
(* What the module of a probe depends on in a configuration                *)
(* (internal/config/config.go): a text is a record [parses, modules,       *)
(* defaultModule, target, defaultTarget] that gives every query the module *)
(* of the listed target it finds.  ConfigReload reloads such texts;        *)
(* ConfigLoad has the files they abstract from.                            *)
(***************************************************************************)
CONSTANTS
  Name,        \* what ?target= may ask for
  Module,      \* module names
  Unset,       \* a module name left empty
  Absent       \* no such target, or no such file

\* validate: the default module and every module a target names are defined.
\* What default_target names is not looked at.
Valid(t) ==
  /\ t.modules # {}
  /\ t.defaultModule \in t.modules
  /\ \A n \in Name : t.target[n] \in t.modules \cup {Unset, Absent}

\* The module of the target query finds in t, Unset if it names none, or Absent:
\* a listed target without a module has the default one since validate.
FindTarget(t, query) ==
  LET m == IF t.target[query] # Absent THEN t.target[query] ELSE t.defaultTarget
  IN  IF m = Unset THEN t.defaultModule ELSE m

=============================================================================

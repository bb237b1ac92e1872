------------------------------- MODULE Coerce -------------------------------
(***************************************************************************)
(* How the exporter reads a number out of a value that the driver or       *)
(* Jolokia has decoded (internal/collector/coerce.go,                      *)
(* internal/collector/apoc_kernel.go, internal/probe/slowqueries.go).      *)
(*                                                                         *)
(* A value has a type and a number n: of a Go duration it is the           *)
(* nanoseconds, of a time or a date the seconds, of a bool 0 or 1.  A      *)
(* Cypher duration has months, days, seconds and nanoseconds instead.      *)
(* Every number that an operator below yields is Giga times the code's, so *)
(* that no nanosecond is lost; fractions of a number are left out.         *)
(***************************************************************************)
EXTENDS Integers

CONSTANTS
  Kilo,    \* 1000
  Giga,    \* 1e9
  Large,   \* 1e10: a time above it is taken for milliseconds
  Day,     \* 86400
  Month    \* 2629746

ASSUME UnitAssumption ==
  /\ {Kilo, Giga, Large, Day, Month} \subseteq Nat \ {0}
  /\ Large % Kilo = 0
  /\ Giga % Kilo = 0

\* text_number and text_date are strings that parse as such, text is any other.
Types == {"nil", "bool", "int", "float", "duration", "go_duration", "time",
          "text_number", "text_date", "text", "other"}

Value == [type : Types \ {"duration"}, n : Int]
         \cup [type : {"duration"}, months : Int, days : Int, seconds : Int, nanos : Int]

AsFloat64(v) ==
  CASE v.type = "duration" ->
         Giga * (v.months * Month + v.days * Day + v.seconds) + v.nanos
    [] v.type = "go_duration" -> v.n
    [] v.type \in {"bool", "int", "float", "text_number"} -> Giga * v.n
    [] OTHER -> 0

\* Mutant: seconds in the last second before the limit are taken for milliseconds.
AsUnixSecondsLate(v) ==
  IF v.type \in {"time", "text_date"} THEN Giga * v.n
  ELSE IF AsFloat64(v) >= Giga * Large THEN AsFloat64(v) \div Kilo ELSE AsFloat64(v)

\* A time, a date without a zone, seconds, or milliseconds, told from seconds by size.
AsUnixSeconds(v) ==
  IF v.type \in {"time", "text_date"} THEN Giga * v.n
  ELSE IF AsFloat64(v) > Giga * Large THEN AsFloat64(v) \div Kilo
  ELSE AsFloat64(v)

\* Mutant: a Cypher duration is not known (CHANGELOG.md:12).
DurSecondsByGo(v) ==
  CASE v.type = "go_duration" -> v.n
    [] v.type \in {"int", "float"} -> v.n * (Giga \div Kilo)
    [] OTHER -> 0

\* The page's own conversion.  A number without a unit is milliseconds, a large
\* fraction nanoseconds.
DurSeconds(v) ==
  CASE v.type = "duration" ->
         Giga * (v.months * Month + v.days * Day + v.seconds) + v.nanos
    [] v.type = "go_duration" -> v.n
    [] v.type = "float" /\ v.n > Giga -> v.n
    [] v.type = "int" \/ (v.type = "float" /\ v.n <= Giga) -> v.n * (Giga \div Kilo)
    [] OTHER -> 0

\* The forms in which apoc.monitor.kernel and the driver may give the instant t, over
\* their versions.
Encodings(t) ==
  {[type |-> "time", n |-> t], [type |-> "text_date", n |-> t],
   [type |-> "int", n |-> t], [type |-> "text_number", n |-> t],
   [type |-> "int", n |-> Kilo * t], [type |-> "float", n |-> Kilo * t],
   [type |-> "text_number", n |-> Kilo * t]}

=============================================================================

------------------------------- MODULE Series -------------------------------
(***************************************************************************)
(* What the loops that turn a result into series have in common.  The      *)
(* server orders its rows, and Go the keys of a map, as they like, so each *)
(* loop takes its rows in any order.                                       *)
(*                                                                         *)
(* gauge is what has been put into the registry, or written to the page: a *)
(* value under each tuple of a metric and its labels.                      *)
(***************************************************************************)
EXTENDS Naturals, FiniteSets

VARIABLES
  loop,     \* which of the loops this is
  rows,     \* the rows of the result
  todo,     \* those the loop has not come to
  taken,    \* how many it has
  agg,      \* what it aggregates on the way
  gauge,
  done

vars == <<loop, rows, todo, taken, agg, gauge, done>>

\* A loop over the rows R.
Start(name, R) ==
  /\ loop = name
  /\ rows = R
  /\ todo = R
  /\ taken = 0
  /\ agg = <<>>
  /\ gauge = <<>>
  /\ done = FALSE

\* f with the value of g wherever g has one.
Put(f, g) ==
  [k \in DOMAIN f \cup DOMAIN g |-> IF k \in DOMAIN g THEN g[k] ELSE f[k]]

\* One series.
One(k, v) == [x \in {k} |-> v]

Take(r) ==
  /\ ~done
  /\ r \in todo
  /\ todo' = todo \ {r}
  /\ taken' = taken + 1
  /\ UNCHANGED <<loop, rows>>

\* What follows the loop: the aggregates become series.
Emit(series) ==
  /\ todo = {}
  /\ ~done
  /\ done' = TRUE
  /\ gauge' = Put(gauge, series)
  /\ UNCHANGED <<loop, rows, todo, taken, agg>>

Finished == done /\ UNCHANGED vars

\* The series of a metric.
SeriesOf(metric) == {k \in DOMAIN gauge : k[1] = metric}

=============================================================================

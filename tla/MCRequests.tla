----------------------------- MODULE MCRequests -----------------------------
(***************************************************************************)
(* Requests for targets and modules that are and are not there, and two    *)
(* configurations to switch between.                                       *)
(***************************************************************************)
EXTENDS Requests, TLC

N(v) == [kind |-> "number", value |-> v]
Absent == [kind |-> "absent", value |-> 0]
Malformed == [kind |-> "malformed", value |-> 0]
NaN == [kind |-> "nan", value |-> 0]

Probe(t, m) == [kind |-> "probe", target |-> t, module |-> m]
Slow(t, top, min, format) ==
  [kind |-> "slow", target |-> t, top |-> top, min |-> min, format |-> format]

MCAsk ==
  {Probe("", ""), Probe("x", ""), Probe("t", ""), Probe("t", "quiet"), Probe("d", "")}
  \cup {Slow("", Absent, Absent, "text"), Slow("t", Absent, Absent, "openmetrics_info"),
        Slow("d", N(5), N(1), "text")}
  \cup {Slow("t", p, N(1), "text") : p \in {Malformed, N(0), N(1), N(1000), N(1001)}}
  \cup {Slow("t", N(5), p, "other") : p \in {Malformed, NaN, N(-1), N(0)}}
  \cup {[kind |-> "reload", post |-> b] : b \in BOOLEAN}
  \cup {[kind |-> "ready"], [kind |-> "metrics"]}

M(bolt, slow, top, min) == [bolt |-> bolt, slow |-> slow, top |-> top, min |-> min]

\* t is listed, d is served through a default_target whose module is not defined.
MCConfig ==
  {[targets |-> "t" :> "default" @@ "d" :> "gone",
    modules |-> "default" :> M(TRUE, TRUE, 1001, N(-2)) @@ "quiet" :> M(FALSE, FALSE, 10, N(5))],
   [targets |-> "t" :> "quiet",
    modules |-> "quiet" :> M(FALSE, TRUE, -1, NaN)]}

=============================================================================

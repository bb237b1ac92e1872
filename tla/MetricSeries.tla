---------------------------- MODULE MetricSeries ----------------------------
(***************************************************************************)
(* The loops of RowSeries, JolokiaSeries and SlowSeries together: each     *)
(* behaviour is one of them over one result.                               *)
(***************************************************************************)
EXTENDS RowSeries, JolokiaSeries, SlowSeries

SeriesInit == Init \/ JolokiaInit \/ GCInit \/ SlowInit

SeriesNext == Next \/ JolokiaNext \/ SlowNext

SeriesSpec == SeriesInit /\ [][SeriesNext]_vars

=============================================================================

----------------------------- MODULE RateMetricMC -----------------------------
(* RateMetric on small instances: overlapping calls of get_stats. *)
EXTENDS RateMetric, TLC

CONSTANTS c1, c2, f1

TwoCallers == {c1, c2}
OneCounter == {f1}

(* Callers are interchangeable: nothing orders or names them. *)
CallerSymmetry == Permutations(TwoCallers)
===============================================================================

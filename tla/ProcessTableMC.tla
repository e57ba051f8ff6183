---------------------------- MODULE ProcessTableMC ----------------------------
(* ProcessTable on small instances. *)
EXTENDS ProcessTable, TLC

CONSTANTS c1, c2, p1, p2

TwoCallers == {c1, c2}
OnePid == {p1}
TwoPids == {p1, p2}

(* Neither callers nor pids are told apart by anything in the model. *)
CallerPidSymmetry == Permutations(TwoCallers) \cup Permutations(TwoPids)
===============================================================================

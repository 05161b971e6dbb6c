---------------------------- MODULE MCTimerList ----------------------------
(* Instances of TimerList for TLC: which address malloc returns does not   *)
(* matter.                                                                 *)
EXTENDS TimerList, TLC

Symmetry == Permutations(Nodes)
=============================================================================

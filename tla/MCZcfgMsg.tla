----------------------------- MODULE MCZcfgMsg -----------------------------
(* Instances of ZcfgMsg for TLC: thread ids are interchangeable model      *)
(* values.                                                                 *)
EXTENDS ZcfgMsg, TLC

Symmetry == Permutations(Threads)
=============================================================================

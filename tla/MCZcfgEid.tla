----------------------------- MODULE MCZcfgEid -----------------------------
(* Instances of ZcfgEid for TLC: thread ids are interchangeable model      *)
(* values.                                                                 *)
EXTENDS ZcfgEid, TLC

Symmetry == Permutations(Threads)
=============================================================================

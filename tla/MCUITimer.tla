----------------------------- MODULE MCUITimer -----------------------------
(* Instances of UITimer for TLC: addresses and client threads are          *)
(* interchangeable model values.                                           *)
EXTENDS UITimer, TLC

Symmetry == Permutations(Ptr) \cup Permutations(Clients)
=============================================================================

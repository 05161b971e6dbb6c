------------------------------- MODULE MCMtkTx -------------------------------
(* Instances of MtkTx for TLC. Once dma_refcnt is not the number of open    *)
(* devices any more the properties promise nothing: such a state is checked *)
(* and not gone on from.                                                    *)
EXTENDS MtkTx

Counted == Drift = 0
=============================================================================

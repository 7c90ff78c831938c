---------------------------- MODULE MCTxnManager ----------------------------
(***************************************************************************)
(* Instances of TxnManager for TLC; the .cfg files name the partitions,    *)
(* the faults and the bounds.                                              *)
(***************************************************************************)
EXTENDS TxnManager
=============================================================================

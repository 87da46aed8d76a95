----------------------------- MODULE MCTxBuilder -----------------------------
(***************************************************************************)
(* The instance of TxBuilder that TLC checks: 4-bit integers, so that sums *)
(* of two amounts wrap, and an activation height below the target heights. *)
(***************************************************************************)
EXTENDS TxBuilder

MCKind == {"spend", "wasmSpend", "shield", "wasmShield"}
=============================================================================

------------------------------ MODULE MCWallet -------------------------------
(***************************************************************************)
(* The instance of Wallet that TLC checks: a vault of two parties, whose   *)
(* second one has an encrypted keystore, and two outputs, so that a third  *)
(* spend has nothing left but what the first two have spent.               *)
(***************************************************************************)
EXTENDS Wallet

CONSTANTS o1, o2

MCValue == (o1 :> 5) @@ (o2 :> 3)
=============================================================================

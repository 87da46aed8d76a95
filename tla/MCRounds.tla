------------------------------ MODULE MCRounds -------------------------------
(***************************************************************************)
(* The instance of Rounds that TLC checks: every ceremony with three       *)
(* parties, so that a round has two messages to collect.                   *)
(***************************************************************************)
EXTENDS Rounds

MCKind == {"froztImport", "fromtImport", "froztSign", "fromtSign", "froztSpend", "fromtSpend"}
=============================================================================

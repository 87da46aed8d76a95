------------------------------- MODULE MCBlame -------------------------------
(***************************************************************************)
(* Blame as TLC runs it: blame.cfg gives the instance.                     *)
(***************************************************************************)
EXTENDS Blame
=============================================================================

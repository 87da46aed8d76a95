------------------------------ MODULE MCSession ------------------------------
(***************************************************************************)
(* Session as TLC runs it.  Parties are numbers, whose order the code uses *)
(* (the smallest one coordinates), so they are no symmetry set; every      *)
(* session_*.cfg gives the constants of its own instance.                  *)
(***************************************************************************)
EXTENDS Session
=============================================================================

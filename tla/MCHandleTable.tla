---------------------------- MODULE MCHandleTable ----------------------------
(***************************************************************************)
(* The instance of HandleTable that TLC checks: two threads and four       *)
(* objects of two types, so that a handle is looked up with a wrong type.  *)
(***************************************************************************)
EXTENDS HandleTable, TLC

CONSTANTS t1, t2, nonce1, nonce2, nonce3, session1

MCThread == {t1, t2}
MCObj == {nonce1, nonce2, nonce3, session1}
MCType == {"nonces", "session"}
MCTypeOf == [o \in MCObj |-> IF o = session1 THEN "session" ELSE "nonces"]

MCSymmetry == Permutations(Thread) \cup Permutations({nonce1, nonce2, nonce3})
=============================================================================

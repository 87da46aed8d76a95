-------------------------------- MODULE MCFfi --------------------------------
(***************************************************************************)
(* The instance of Ffi that TLC checks: two threads, up to three objects   *)
(* of a type, and a table that two of them fill, so that a call that took  *)
(* one secret may find no room for the next.                               *)
(***************************************************************************)
EXTENDS Ffi, TLC

CONSTANTS t1, t2, s1, s2, a1, a2, a3, b1

MCThread == {t1, t2}
MCObj == {s1, s2, a1, a2, a3, b1}
MCType == {"Session", "Secret1", "Secret2"}
MCTypeOf == [o \in MCObj |-> CASE o \in {s1, s2} -> "Session"
                               [] o \in {a1, a2, a3} -> "Secret1"
                               [] OTHER -> "Secret2"]

\* What the table last returned to a thread is read within the step only.
MCView == <<last, hmap, guard, fate, misuse, surface, call, given, js, proto, outs>>

MCSymmetry == Permutations(Thread) \cup Permutations({s1, s2}) \cup Permutations({a1, a2, a3})
=============================================================================

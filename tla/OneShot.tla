------------------------------- MODULE OneShot -------------------------------
(***************************************************************************)
(* What the libraries promise about a secret they hand out as a handle or  *)
(* as a JavaScript object: signing nonces, a DKG round secret, a spend     *)
(* machine or a session is issued once, used for at most one output, and   *)
(* never used after it was lost.                                           *)
(***************************************************************************)
CONSTANT Secret

VARIABLE stage  \* where each secret is: "unborn", "issued", "used" or "lost"

Init == stage = [s \in Secret |-> "unborn"]

Move(s, from, to) ==
    /\ stage[s] \in from
    /\ stage' = [stage EXCEPT ![s] = to]

Issue(s) == Move(s, {"unborn"}, "issued")
Use(s) == Move(s, {"issued"}, "used")

\* Several are lost at once when a call fails that holds one and has created
\* another.
Lose(S) ==
    /\ \A s \in S : stage[s] \in {"unborn", "issued"}
    /\ stage' = [s \in Secret |-> IF s \in S THEN "lost" ELSE stage[s]]

Next ==
    \/ \E s \in Secret : Issue(s) \/ Use(s)
    \/ \E S \in SUBSET Secret : Lose(S)

Spec == Init /\ [][Next]_stage
=============================================================================

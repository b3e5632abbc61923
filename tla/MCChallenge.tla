----------------------------- MODULE MCChallenge -----------------------------
(***************************************************************************)
(* An instance of Challenge: two questions, of which the second manifest   *)
(* revises one and drops the other; two aliases and a wrong answer; one    *)
(* attempt at the base cooldown, doubled once up to a cap below the double *)
(* of it.                                                                  *)
(***************************************************************************)
EXTENDS Challenge, TLC

CONSTANTS q1, q2, alias1, alias2, wrong

MCQuestion == {q1, q2}
MCAnswer == {alias1, alias2, wrong}
MCAccepted == {alias1, alias2}
MCManifests == {q1 :> 1 @@ q2 :> 1, q1 :> 2 @@ q2 :> 0}

Symmetry == Permutations(Request) \cup Permutations(MCAccepted)
=============================================================================

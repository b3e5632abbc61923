---------------------------- MODULE MCQueryPanel ----------------------------
(***************************************************************************)
(* An instance of QueryPanel: two texts, to edit back and forth, and none. *)
(***************************************************************************)
EXTENDS QueryPanel, TLC

CONSTANTS q1, q2

MCQuery == {q1, q2, Blank}

Symmetry == Permutations({q1, q2})
=============================================================================

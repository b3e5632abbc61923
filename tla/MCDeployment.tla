---------------------------- MODULE MCDeployment ----------------------------
(***************************************************************************)
(* An instance of Deployment: two datasets, of which one manifest drops    *)
(* the second, and the options they are indexed by change from one         *)
(* manifest to another. Three versions of a file let it be edited between  *)
(* its signature and its import, and once more.                            *)
(***************************************************************************)
EXTENDS Deployment

CONSTANTS d1, d2, p1

MCDataset == {d1, d2}
MCManifests == {
  [datasets |-> {d1, d2}, paths |-> {p1}, fullText |-> TRUE],
  [datasets |-> {d1},     paths |-> {},   fullText |-> TRUE],
  [datasets |-> {d1, d2}, paths |-> {},   fullText |-> FALSE]}

=============================================================================

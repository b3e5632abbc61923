-------------------------- MODULE MCIngestPipeline --------------------------
(***************************************************************************)
(* An instance of IngestPipeline: the inputs are those in which the        *)
(* failures and the order they are met in make a difference. The longest   *)
(* ones are longer than the window of two workers.                         *)
(***************************************************************************)
EXTENDS IngestPipeline, TLC

(* An input of n records: those of the set bad fail to be prepared, and so *)
(* on; the first record and those of new take part in field discovery.     *)
Of(n, bad, unparsable, unwritable, new, decodes) ==
  [fate    |-> [r \in 1..n |-> IF r \in bad THEN "bad"
                               ELSE IF r \in unparsable THEN "unparsable"
                               ELSE IF r \in unwritable THEN "unwritable"
                               ELSE "good"],
   full    |-> ({1} \cup new) \cap 1..n,
   decodes |-> decodes]

MCInputs == {
  Of(0, {}, {}, {}, {}, TRUE),
  Of(0, {}, {}, {}, {}, FALSE),
  Of(9, {}, {}, {}, {}, TRUE),            (* longer than the window         *)
  Of(5, {}, {}, {}, {4}, TRUE),           (* a late unseen set of keys      *)
  Of(5, {2, 3}, {}, {}, {}, TRUE),        (* two workers fail               *)
  Of(9, {4, 8}, {}, {6}, {}, TRUE),       (* likewise, and the window fills *)
  Of(5, {3}, {5}, {}, {}, TRUE),          (* fails behind the decoder       *)
  Of(5, {5}, {}, {4}, {}, FALSE),         (* a batch, a record, the decoder *)
  Of(5, {4}, {}, {}, {5}, TRUE),          (* fails while discovery waits    *)
  Of(4, {}, {}, {}, {}, FALSE)}

Symmetry == Permutations(Worker)
=============================================================================

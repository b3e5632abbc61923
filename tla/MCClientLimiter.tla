--------------------------- MODULE MCClientLimiter ---------------------------
(***************************************************************************)
(* An instance of ClientLimiter for TLC: one client can fill its slot and  *)
(* its queue and still be refused, while another client creates and        *)
(* deletes its own entry. The proofs cover larger ones.                    *)
(***************************************************************************)
EXTENDS ClientLimiter
=============================================================================

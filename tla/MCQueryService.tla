--------------------------- MODULE MCQueryService ---------------------------
(***************************************************************************)
(* Instances of QueryService. In MCQueryService.cfg the pool has one       *)
(* connection more than a client may run queries, in the smallest numbers  *)
(* (with a file on three cores the code has 3 and 2); two handlers take    *)
(* either connection after each other, so an interrupt that is late meets  *)
(* the other's query. In MCQueryServicePool2.cfg the numbers are those of  *)
(* the code on a machine with one or two cores: readerConnections is       *)
(* max(2, min(GOMAXPROCS, 4)), and maxClientQueries is 2.                  *)
(***************************************************************************)
EXTENDS QueryService, TLC

(* For invariants alone.                                                   *)
Symmetry == Permutations(Query) \cup Permutations(Client) \cup Permutations(Conn)

(* For liveness, and the fairness it needs, too: they are about each       *)
(* handler, so handlers are not permuted, but name no client and no        *)
(* connection, so that a behaviour and its image satisfy the same of them. *)
ClientsAndConnections == Permutations(Client) \cup Permutations(Conn)
=============================================================================

---------------------------- MODULE QueryService ----------------------------
(***************************************************************************)
(* The local query endpoints as limitClientQueries serves them: every      *)
(* request passes admission control, runs its handler while it owns one of *)
(* its client's slots, and competes there for the connections of the query *)
(* pool that Open of internal/database/database.go sized.                  *)
(***************************************************************************)
EXTENDS QueryExecution, FiniteSets

CONSTANTS
  Client,      (* client keys                                               *)
  MaxRunning,  (* maxClientQueries                                          *)
  MaxWaiting   (* maxClientWaiting                                          *)

ASSUME ServiceAssumption == MaxRunning \in Nat

VARIABLES admitted, running, reply  (* see AdmissionControl                 *)

Limiter == INSTANCE AdmissionControl WITH Request <- Query

limiterVars == <<admitted, running, reply>>
serviceVars == <<vars, limiterVars>>

ServiceInit == Init /\ Limiter!Init

-----------------------------------------------------------------------------

(* Mutant: an endpoint whose handler is not wrapped in limitClientQueries. *)
ArriveUnwrapped(q, c) ==
  /\ Limiter!Outside(q)
  /\ admitted' = [admitted EXCEPT ![c] = @ \cup {q}]
  /\ running' = [running EXCEPT ![c] = @ \cup {q}]
  /\ reply' = [reply EXCEPT ![q] = "none"]
  /\ Handle(q)

Arrive(q, c) ==
  /\ Limiter!Admit(q, c) \/ Limiter!Refuse(q, c)
  /\ UNCHANGED vars

(* acquire returns true and next(w, r) is called.                          *)
Start(q, c) == Limiter!Start(q, c) /\ Handle(q)

(* next(w, r) returns, the response written.                               *)
Answer(q, c) == Limiter!Answer(q, c) /\ Respond(q)

(* release, or acquire giving up.                                          *)
Leave(q, c) ==
  /\ Limiter!Stop(q, c) \/ Limiter!Depart(q, c)
  /\ UNCHANGED vars

Serve(q) == Step(q) /\ UNCHANGED limiterVars

ServiceNext ==
  \E q \in Query :
    \/ \E c \in Client :
         Arrive(q, c) \/ Start(q, c) \/ Answer(q, c) \/ Leave(q, c)
    \/ Serve(q)

ServiceSpec == ServiceInit /\ [][ServiceNext]_serviceVars

(* The fairness of the handlers; whoever waits for a slot may wait.        *)
FairServiceSpec == ServiceSpec /\ \A q \in Query : FairQuery(q)

-----------------------------------------------------------------------------
(* Properties                                                              *)

Connections(c) == {conn[q] : q \in running[c]} \ {None}

(* What maxClientQueries is for: a client looping slow queries cannot hold *)
(* every query connection and lock everyone else out of the deployment     *)
(* (the comment of client_limit.go:13-15).                                 *)
OneClientLeavesAConnection == \A c \in Client : Connections(c) # Conn

(* A connection, be it for a query or for a validation, is only held on    *)
(* behalf of a client that owns a slot, so a request that is answered,     *)
(* refused or gave up holds none and no watchdog of it is left.            *)
ConnectionNeedsSlot ==
  \A q \in Query :
    conn[q] # None \/ watchdog[q] # "off"
      => \E c \in Client : q \in running[c] /\ reply[q] = "none"

=============================================================================

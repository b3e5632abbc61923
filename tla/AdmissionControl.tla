-------------------------- MODULE AdmissionControl --------------------------
(***************************************************************************)
(* What the per-client query limiter of internal/api/client_limit.go       *)
(* promises to the requests that pass through it, without the mutex, the   *)
(* channels and the map it is built from:                                  *)
(*                                                                         *)
(*   - a client has at most MaxRunning queries running and MaxWaiting more *)
(*     waiting or on their way out;                                        *)
(*   - a request is refused at once only when its client is at that limit; *)
(*   - an admitted request runs at most once, and every admitted request   *)
(*     eventually departs, answered.                                       *)
(*                                                                         *)
(* ClientLimiter is shown to implement this specification, and states what *)
(* is assumed of the constants.                                            *)
(***************************************************************************)
EXTENDS Integers, FiniteSets

CONSTANTS
  Client,      (* the client keys limitClientQueries derives from requests  *)
  Request,     (* the HTTP requests that may be in flight at the same time  *)
  MaxRunning,  (* maxClientQueries                                          *)
  MaxWaiting   (* maxClientWaiting                                          *)

VARIABLES
  admitted,  (* the requests of each client the limiter counts              *)
  running,   (* the requests of each client that own one of its slots       *)
  reply      (* what each request has been answered, "none" before that     *)

vars == <<admitted, running, reply>>

MaxAdmitted == MaxRunning + MaxWaiting

Reply == {"none", "busy", "served"}

Outside(r) == \A c \in Client : r \notin admitted[c]

Init ==
  /\ admitted = [c \in Client |-> {}]
  /\ running  = [c \in Client |-> {}]
  /\ reply    = [r \in Request |-> "none"]

-----------------------------------------------------------------------------

Admit(r, c) ==
  /\ Outside(r)
  /\ Cardinality(admitted[c]) < MaxAdmitted
  /\ admitted' = [admitted EXCEPT ![c] = @ \cup {r}]
  /\ reply' = [reply EXCEPT ![r] = "none"]
  /\ UNCHANGED running

Refuse(r, c) ==
  /\ Outside(r)
  /\ Cardinality(admitted[c]) = MaxAdmitted
  /\ reply' = [reply EXCEPT ![r] = "busy"]
  /\ UNCHANGED <<admitted, running>>

Start(r, c) ==
  /\ r \in admitted[c] \ running[c]
  /\ reply[r] = "none"
  /\ Cardinality(running[c]) < MaxRunning
  /\ running' = [running EXCEPT ![c] = @ \cup {r}]
  /\ UNCHANGED <<admitted, reply>>

Answer(r, c) ==
  /\ r \in running[c]
  /\ reply[r] = "none"
  /\ reply' = [reply EXCEPT ![r] = "served"]
  /\ UNCHANGED <<admitted, running>>

Stop(r, c) ==
  /\ r \in running[c]
  /\ reply[r] = "served"
  /\ running' = [running EXCEPT ![c] = @ \ {r}]
  /\ UNCHANGED <<admitted, reply>>

Depart(r, c) ==
  /\ r \in admitted[c] \ running[c]
  /\ admitted' = [admitted EXCEPT ![c] = @ \ {r}]
  /\ reply' = [reply EXCEPT ![r] = IF @ = "none" THEN "busy" ELSE @]
  /\ UNCHANGED running

Progress(r) == \E c \in Client : Answer(r, c) \/ Stop(r, c) \/ Depart(r, c)

Next ==
  \E r \in Request, c \in Client :
    \/ Admit(r, c)
    \/ Refuse(r, c)
    \/ Start(r, c)
    \/ Answer(r, c)
    \/ Stop(r, c)
    \/ Depart(r, c)

SafetySpec == Init /\ [][Next]_vars

(* No request stays for ever: it is answered, gives its slot back and      *)
(* departs. Nothing promises that a waiting request is ever started.       *)
Spec == SafetySpec /\ \A r \in Request : WF_vars(Progress(r))

=============================================================================

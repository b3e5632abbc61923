---------------------------- MODULE ClientLimiter ----------------------------
(***************************************************************************)
(* The per-client query limiter of internal/api/client_limit.go and the    *)
(* middleware limitClientQueries that wraps every query handler with it.   *)
(*                                                                         *)
(* One process per HTTP request. A critical section of l.mu never blocks   *)
(* inside, so each is one step; between two of them, and around the        *)
(* channel operations, every interleaving is possible. The clientSlots     *)
(* objects are heap addresses: a new one is any address that neither the   *)
(* map nor a goroutine refers to. A goroutine that dereferences a nil      *)
(* *clientSlots panics; here it is stuck, which ReleaseNeverBlocks forbids.*)
(***************************************************************************)
EXTENDS Integers, FiniteSets

CONSTANTS
  Client,      (* client keys                                               *)
  Request,     (* HTTP requests that may be in flight at the same time      *)
  Slot,        (* addresses of clientSlots objects                          *)
  None,        (* the nil *clientSlots                                      *)
  MaxRunning,  (* maxClientQueries                                          *)
  MaxWaiting   (* maxClientWaiting                                          *)

ASSUME LimitsAssumption ==
  /\ MaxRunning \in Nat \ {0}
  /\ MaxWaiting \in Nat

ASSUME RequestAssumption == IsFiniteSet(Request)

ASSUME NoneAssumption == None \notin Slot

VARIABLES
  clients,  (* l.clients: the slots of each client, None when absent        *)
  tokens,   (* len(slots.running) of each clientSlots                       *)
  users,    (* slots.users of each clientSlots                              *)
  pc,       (* where each request is                                        *)
  client,   (* the client key of each request                               *)
  slots,    (* the local variable slots of acquire and of release           *)
  reply,    (* what the request was answered: 429 is "busy"                 *)
  home      (* history: the clientSlots whose users counts the request      *)

vars == <<clients, tokens, users, pc, client, slots, reply, home>>

MaxAdmitted == MaxRunning + MaxWaiting

PC == {"idle",        (* not in flight                                      *)
       "select",      (* acquire: blocked in select                         *)
       "abandoning",  (* acquire: gave up, about to leave                   *)
       "serving",     (* acquire returned true, the handler runs            *)
       "releasing",   (* release: about to look its client up               *)
       "receiving",   (* release: at <-slots.running                        *)
       "departing"}   (* release: about to leave                            *)

Reply == {"none", "busy", "served"}

Init ==
  /\ clients = [c \in Client |-> None]
  /\ tokens  = [s \in Slot |-> 0]
  /\ users   = [s \in Slot |-> 0]
  /\ pc      = [r \in Request |-> "idle"]
  /\ client  \in [Request -> Client]
  /\ slots   = [r \in Request |-> None]
  /\ reply   = [r \in Request |-> "none"]
  /\ home    = [r \in Request |-> None]

-----------------------------------------------------------------------------
(* acquire                                                                 *)

Unreachable(s) ==
  /\ \A c \in Client : clients[c] # s
  /\ \A r \in Request : slots[r] # s /\ home[r] # s

(* The request is answered 429 at once when its client's slots object      *)
(* counts too many users.                                                  *)
RefuseAbove(limit, r, c) ==
  /\ pc[r] = "idle"
  /\ clients[c] # None
  /\ users[clients[c]] >= limit
  /\ client' = [client EXCEPT ![r] = c]
  /\ reply' = [reply EXCEPT ![r] = "busy"]
  /\ UNCHANGED <<clients, tokens, users, pc, slots, home>>

(* Mutant: no queue, only the running queries are allowed for.             *)
RefuseWithoutQueue(r, c) == RefuseAbove(MaxRunning, r, c)

(* The first critical section of acquire at the limit.                     *)
Refuse(r, c) == RefuseAbove(MaxAdmitted, r, c)

(* The part the two ways of being admitted share: the request is counted   *)
(* in s and goes on to wait for one of its tokens.                         *)
Enter(r, c, s) ==
  /\ pc' = [pc EXCEPT ![r] = "select"]
  /\ client' = [client EXCEPT ![r] = c]
  /\ slots' = [slots EXCEPT ![r] = s]
  /\ home' = [home EXCEPT ![r] = s]
  /\ reply' = [reply EXCEPT ![r] = "none"]

JoinCounting(increment, r, c) ==
  LET s == clients[c] IN
  /\ pc[r] = "idle"
  /\ s # None
  /\ users[s] < MaxAdmitted
  /\ users' = [users EXCEPT ![s] = @ + increment]
  /\ Enter(r, c, s)
  /\ UNCHANGED <<clients, tokens>>

(* Mutant: slots.users++ is only done for a new entry.                     *)
JoinUncounted(r, c) == JoinCounting(0, r, c)

(* The first critical section of acquire for a client that has an entry.   *)
Join(r, c) == JoinCounting(1, r, c)

(* The first critical section of acquire for a client without an entry: a  *)
(* new clientSlots is stored for it. users is 0, below any limit.          *)
Create(r, c, s) ==
  /\ pc[r] = "idle"
  /\ clients[c] = None
  /\ Unreachable(s)
  /\ clients' = [clients EXCEPT ![c] = s]
  /\ tokens' = [tokens EXCEPT ![s] = 0]
  /\ users' = [users EXCEPT ![s] = 1]
  /\ Enter(r, c, s)

(* select: the send into slots.running goes through.                       *)
TakeSlot(r) ==
  /\ pc[r] = "select"
  /\ tokens[slots[r]] < MaxRunning
  /\ tokens' = [tokens EXCEPT ![slots[r]] = @ + 1]
  /\ pc' = [pc EXCEPT ![r] = "serving"]
  /\ slots' = [slots EXCEPT ![r] = None]
  /\ UNCHANGED <<clients, users, client, reply, home>>

(* select: the timer fires or the request's context ends. select picks any *)
(* ready case, so this may happen although a slot is free.                 *)
GiveUp(r) ==
  /\ pc[r] = "select"
  /\ pc' = [pc EXCEPT ![r] = "abandoning"]
  /\ UNCHANGED <<clients, tokens, users, client, slots, reply, home>>

-----------------------------------------------------------------------------
(* The handler, release and leave                                          *)

(* next(w, r) returns or panics; the deferred release runs either way.     *)
Finish(r) ==
  /\ pc[r] = "serving"
  /\ pc' = [pc EXCEPT ![r] = "releasing"]
  /\ reply' = [reply EXCEPT ![r] = "served"]
  /\ UNCHANGED <<clients, tokens, users, client, slots, home>>

(* release: the critical section that looks the client's slots up again.   *)
LookUp(r) ==
  /\ pc[r] = "releasing"
  /\ slots' = [slots EXCEPT ![r] = clients[client[r]]]
  /\ pc' = [pc EXCEPT ![r] = "receiving"]
  /\ UNCHANGED <<clients, tokens, users, client, reply, home>>

(* release: <-slots.running, outside the mutex.                            *)
Receive(r) ==
  /\ pc[r] = "receiving"
  /\ slots[r] # None
  /\ tokens[slots[r]] > 0
  /\ tokens' = [tokens EXCEPT ![slots[r]] = @ - 1]
  /\ pc' = [pc EXCEPT ![r] = "departing"]
  /\ UNCHANGED <<clients, users, client, slots, reply, home>>

(* Mutant: the entry goes as soon as no query of the client runs.          *)
LastUserByTokens(s) == tokens[s] = 0

(* Mutant: the count is compared before it is decremented.                 *)
LastUserTooLate(s) == users[s] = 0

(* leave: slots.users-- reaches 0.                                         *)
LastUser(s) == users[s] - 1 = 0

(* leave, called by acquire when it gave up and by release.                *)
Leave(r) ==
  LET s == slots[r] IN
  /\ pc[r] \in {"abandoning", "departing"}
  /\ users' = [users EXCEPT ![s] = @ - 1]
  /\ clients' = IF LastUser(s)
                  THEN [clients EXCEPT ![client[r]] = None]
                  ELSE clients
  /\ reply' = IF pc[r] = "abandoning" THEN [reply EXCEPT ![r] = "busy"]
                                      ELSE reply
  /\ pc' = [pc EXCEPT ![r] = "idle"]
  /\ slots' = [slots EXCEPT ![r] = None]
  /\ home' = [home EXCEPT ![r] = None]
  /\ UNCHANGED <<tokens, client>>

-----------------------------------------------------------------------------

Arrive(r, c) == Refuse(r, c) \/ Join(r, c) \/ \E s \in Slot : Create(r, c, s)

(* The steps a request takes by itself once it is in flight.               *)
Proceed(r) ==
  \/ GiveUp(r)
  \/ Finish(r)
  \/ LookUp(r)
  \/ Receive(r)
  \/ Leave(r)

Next ==
  \E r \in Request :
    \/ \E c \in Client : Arrive(r, c)
    \/ TakeSlot(r)
    \/ Proceed(r)

Spec == Init /\ [][Next]_vars

(* The timer of acquire fires after maxClientWait, the context of a query  *)
(* ends after its own timeout, and a runnable goroutine is scheduled. No   *)
(* fairness is assumed of arrivals, nor of getting a slot.                 *)
Fairness == \A r \in Request : WF_vars(Proceed(r))

FairSpec == Spec /\ Fairness

-----------------------------------------------------------------------------
(* Properties                                                              *)

Holding == {"serving", "releasing", "receiving"}

Members(s) == {r \in Request : home[r] = s}

Holders(s) == {r \in Members(s) : pc[r] \in Holding}

InFlight(c) == {r \in Request : client[r] = c /\ pc[r] # "idle"}

Running(c) == {r \in InFlight(c) : pc[r] \in Holding}

TypeOK ==
  /\ clients \in [Client -> Slot \cup {None}]
  /\ tokens  \in [Slot -> Nat]
  /\ users   \in [Slot -> Nat]
  /\ pc      \in [Request -> PC]
  /\ client  \in [Request -> Client]
  /\ slots   \in [Request -> Slot \cup {None}]
  /\ reply   \in [Request -> Reply]
  /\ home    \in [Request -> Slot \cup {None}]

(* release looks its client up by name, long after acquire stored a token  *)
(* in the slots it had looked up then. The two are the same object: leave  *)
(* never deletes, and acquire never recreates, the entry of a client that  *)
(* still has a request between acquire and leave.                          *)
OneGeneration ==
  \A r \in Request : pc[r] # "idle" => clients[client[r]] = home[r]

(* release receives from a channel that holds its own token, so it neither *)
(* blocks nor dereferences a missing entry.                                *)
ReleaseNeverBlocks ==
  \A r \in Request :
    pc[r] = "receiving" => slots[r] # None /\ tokens[slots[r]] > 0

(* A client never runs more than maxClientQueries queries, counted over    *)
(* every clientSlots object it ever had.                                   *)
RunningBounded == \A c \in Client : Cardinality(Running(c)) <= MaxRunning

(* At most maxClientWaiting more queries of a client are inside the        *)
(* limiter, so its queue of goroutines is bounded.                         *)
AdmittedBounded == \A c \in Client : Cardinality(InFlight(c)) <= MaxAdmitted

(* The map holds an entry for exactly the clients with a query in flight:  *)
(* no address that once asked stays in memory.                             *)
NoIdleEntries == \A c \in Client : clients[c] # None <=> InFlight(c) # {}

(* The two counters count: users the requests between acquire and leave,   *)
(* the channel the requests between their send and their receive.          *)
CountersExact ==
  \A s \in Slot : /\ users[s] = Cardinality(Members(s))
                  /\ tokens[s] = Cardinality(Holders(s))

(* Every request that enters the limiter comes out of it, answered.        *)
EveryRequestLeaves ==
  \A r \in Request : pc[r] = "select" ~> pc[r] = "idle" /\ reply[r] # "none"

-----------------------------------------------------------------------------
(* The limiter implements admission control: a request is admitted from    *)
(* acquire's first critical section to leave's, and running from the send  *)
(* into the channel to the receive from it.                                *)
Control == INSTANCE AdmissionControl WITH
  admitted <- [c \in Client |-> InFlight(c)],
  running  <- [c \in Client |-> Running(c)]

(* Every behaviour of the limiter is one of AdmissionControl, fairness     *)
(* included: bounded running and waiting queries, a 429 only at the limit  *)
(* or after a wait, and every admitted request departs.                    *)
ImplementsAdmissionControl == Control!Spec

=============================================================================

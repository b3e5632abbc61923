------------------------- MODULE ClientLimiterProofs -------------------------
(***************************************************************************)
(* Proofs about ClientLimiter for every set of clients, every finite set   *)
(* of requests and every value of the two limits.                          *)
(***************************************************************************)
EXTENDS ClientLimiter, FiniteSetTheorems, TLAPS

(***************************************************************************)
(* The inductive invariant. OneGeneration alone is not inductive: it needs *)
(* that a goroutine's local copy of the slots pointer agrees with the      *)
(* object that counts it, that two clients never share an object, that the *)
(* counters are exact (so that users reaches 0 only when nobody is left)   *)
(* and that an entry is in use.                                            *)
(***************************************************************************)
HomeInv == \A r \in Request : home[r] = None <=> pc[r] = "idle"

LocalInv ==
  \A r \in Request :
    pc[r] \in {"select", "abandoning", "receiving", "departing"}
      => slots[r] = home[r]

Disjoint ==
  \A c, d \in Client : clients[c] # None /\ clients[c] = clients[d] => c = d

EntriesInUse ==
  \A c \in Client : clients[c] # None => users[clients[c]] > 0

LimitsKept ==
  \A s \in Slot : users[s] <= MaxAdmitted /\ tokens[s] <= MaxRunning

IInv ==
  /\ TypeOK
  /\ OneGeneration
  /\ HomeInv
  /\ LocalInv
  /\ Disjoint
  /\ EntriesInUse
  /\ CountersExact
  /\ LimitsKept

-----------------------------------------------------------------------------
(* Lemmas on the finite sets the counters count                            *)

LEMMA MembersFinite ==
  ASSUME NEW s
  PROVE  /\ IsFiniteSet(Members(s)) /\ IsFiniteSet(Holders(s))
         /\ Cardinality(Members(s)) \in Nat /\ Cardinality(Holders(s)) \in Nat
<1>1. Members(s) \in SUBSET Request /\ Holders(s) \in SUBSET Request
  BY DEF Members, Holders
<1>2. IsFiniteSet(Members(s)) /\ IsFiniteSet(Holders(s))
  BY <1>1, FS_Subset, RequestAssumption
<1>3. QED
  BY <1>2, FS_CardinalityType


(* The initial state satisfies the inductive invariant.                    *)
LEMMA InitIInv == Init => IInv
<1> SUFFICES ASSUME Init PROVE IInv
  OBVIOUS
<1>1. TypeOK
  BY DEF Init, TypeOK, PC, Reply
<1>2. OneGeneration /\ HomeInv /\ LocalInv /\ Disjoint /\ EntriesInUse
  BY DEF Init, OneGeneration, HomeInv, LocalInv, Disjoint, EntriesInUse
<1>3. CountersExact
  <2> SUFFICES ASSUME NEW s \in Slot
               PROVE  users[s] = Cardinality(Members(s))
                      /\ tokens[s] = Cardinality(Holders(s))
    BY DEF CountersExact
  <2>1. Members(s) = {} /\ Holders(s) = {}
    BY NoneAssumption DEF Init, Members, Holders
  <2>2. QED
    BY <2>1, FS_EmptySet DEF Init
<1>4. LimitsKept
  BY LimitsAssumption DEF Init, LimitsKept, MaxAdmitted
<1>5. QED
  BY <1>1, <1>2, <1>3, <1>4 DEF IInv


(* How the cardinality of a finite set changes when at most one element    *)
(* enters or leaves it.                                                    *)
LEMMA CountChange ==
  ASSUME NEW S, NEW T, NEW r, IsFiniteSet(S), IsFiniteSet(T),
         S \ {r} = T \ {r}
  PROVE  Cardinality(T) = Cardinality(S) + (IF r \in T THEN 1 ELSE 0)
                                         - (IF r \in S THEN 1 ELSE 0)
<1>1. Cardinality(S) \in Nat /\ Cardinality(T) \in Nat
  BY FS_CardinalityType
<1>2. Cardinality(S \ {r}) = IF r \in S THEN Cardinality(S) - 1
                                        ELSE Cardinality(S)
  BY FS_RemoveElement
<1>3. Cardinality(T \ {r}) = IF r \in T THEN Cardinality(T) - 1
                                        ELSE Cardinality(T)
  BY FS_RemoveElement
<1>0. Cardinality(S \ {r}) = Cardinality(T \ {r})
  OBVIOUS
<1>4. CASE r \in S /\ r \in T
  BY <1>0, <1>1, <1>2, <1>3, <1>4
<1>5. CASE r \in S /\ r \notin T
  <2>1. Cardinality(S \ {r}) = Cardinality(S) - 1
    BY <1>2, <1>5
  <2>2. Cardinality(T \ {r}) = Cardinality(T)
    BY <1>3, <1>5
  <2>3. QED
    BY <2>1, <2>2, <1>0, <1>1, <1>5
<1>6. CASE r \notin S /\ r \in T
  BY <1>0, <1>1, <1>2, <1>3, <1>6
<1>7. CASE r \notin S /\ r \notin T
  BY <1>0, <1>1, <1>2, <1>3, <1>7
<1>8. QED
  BY <1>4, <1>5, <1>6, <1>7

(* A step that moves only request r changes the sets counted by s by r.    *)
LEMMA Recount ==
  ASSUME NEW s, NEW r \in Request,
         \A q \in Request \ {r} : home'[q] = home[q] /\ pc'[q] = pc[q]
  PROVE  /\ Cardinality(Members(s)') = Cardinality(Members(s))
              + (IF home'[r] = s THEN 1 ELSE 0)
              - (IF home[r] = s THEN 1 ELSE 0)
         /\ Cardinality(Holders(s)') = Cardinality(Holders(s))
              + (IF home'[r] = s /\ pc'[r] \in Holding THEN 1 ELSE 0)
              - (IF home[r] = s /\ pc[r] \in Holding THEN 1 ELSE 0)
<1>1. IsFiniteSet(Members(s)) /\ IsFiniteSet(Holders(s))
  BY MembersFinite
<1>2. IsFiniteSet(Members(s)') /\ IsFiniteSet(Holders(s)')
  <2>1. Members(s)' \in SUBSET Request /\ Holders(s)' \in SUBSET Request
    BY DEF Members, Holders
  <2>2. QED
    BY <2>1, FS_Subset, RequestAssumption
<1>3. Members(s) \ {r} = Members(s)' \ {r}
  BY DEF Members
<1>4. Holders(s) \ {r} = Holders(s)' \ {r}
  BY DEF Members, Holders, Holding
<1>5. /\ r \in Members(s) <=> home[r] = s
      /\ r \in Members(s)' <=> home'[r] = s
      /\ r \in Holders(s) <=> home[r] = s /\ pc[r] \in Holding
      /\ r \in Holders(s)' <=> home'[r] = s /\ pc'[r] \in Holding
  BY DEF Members, Holders, Holding
<1>6. Cardinality(Members(s)') = Cardinality(Members(s))
        + (IF r \in Members(s)' THEN 1 ELSE 0)
        - (IF r \in Members(s) THEN 1 ELSE 0)
  BY <1>1, <1>2, <1>3, CountChange
<1>7. Cardinality(Holders(s)') = Cardinality(Holders(s))
        + (IF r \in Holders(s)' THEN 1 ELSE 0)
        - (IF r \in Holders(s) THEN 1 ELSE 0)
  BY <1>1, <1>2, <1>4, CountChange
<1>8. QED
  BY <1>5, <1>6, <1>7


(* A request in flight makes the counters of its slots positive.           *)
LEMMA CountedPositive ==
  ASSUME IInv, NEW r \in Request, pc[r] # "idle"
  PROVE  /\ home[r] \in Slot
         /\ users[home[r]] > 0
         /\ pc[r] \in Holding => tokens[home[r]] > 0
<1>1. home[r] \in Slot
  BY DEF IInv, TypeOK, HomeInv
<1>2. r \in Members(home[r]) /\ (pc[r] \in Holding => r \in Holders(home[r]))
  BY DEF Members, Holders
<1>3. /\ IsFiniteSet(Members(home[r])) /\ Cardinality(Members(home[r])) \in Nat
      /\ IsFiniteSet(Holders(home[r])) /\ Cardinality(Holders(home[r])) \in Nat
  BY MembersFinite
<1>4. Cardinality(Members(home[r])) # 0
  BY <1>2, <1>3, FS_EmptySet
<1>5. pc[r] \in Holding => Cardinality(Holders(home[r])) # 0
  BY <1>2, <1>3, FS_EmptySet
<1>6. /\ users[home[r]] = Cardinality(Members(home[r]))
      /\ tokens[home[r]] = Cardinality(Holders(home[r]))
  BY <1>1 DEF IInv, CountersExact
<1>7. QED
  BY <1>1, <1>3, <1>4, <1>5, <1>6

(* The last user of a slots object is alone in it.                         *)
LEMMA LastUserAlone ==
  ASSUME IInv, NEW r \in Request, NEW s \in Slot, home[r] = s, users[s] = 1,
         NEW q \in Request, home[q] = s
  PROVE  q = r
<1>1. IsFiniteSet(Members(s)) /\ Cardinality(Members(s)) = 1
  BY MembersFinite DEF IInv, CountersExact
<1>2. PICK x : Members(s) = {x}
  BY <1>1, FS_Singleton
<1>3. r \in Members(s) /\ q \in Members(s)
  BY DEF Members
<1>4. QED
  BY <1>2, <1>3

-----------------------------------------------------------------------------
(* Each action preserves the inductive invariant                           *)

LEMMA RefuseIInv ==
  ASSUME IInv, NEW r \in Request, NEW c \in Client, Refuse(r, c)
  PROVE  IInv'
<1>1. TypeOK'
  BY DEF IInv, TypeOK, Refuse, RefuseAbove, Reply
<1>2. OneGeneration'
  BY DEF IInv, TypeOK, OneGeneration, Refuse, RefuseAbove
<1>3. HomeInv' /\ LocalInv' /\ Disjoint' /\ EntriesInUse' /\ LimitsKept'
  BY DEF IInv, HomeInv, LocalInv, Disjoint, EntriesInUse, LimitsKept,
         MaxAdmitted, Refuse, RefuseAbove
<1>4. CountersExact'
  BY DEF IInv, CountersExact, Members, Holders, Holding, Refuse, RefuseAbove
<1>5. QED
  BY <1>1, <1>2, <1>3, <1>4 DEF IInv

LEMMA JoinIInv ==
  ASSUME IInv, NEW r \in Request, NEW c \in Client, Join(r, c)
  PROVE  IInv'
<1> DEFINE s == clients[c]
<1>0. s \in Slot /\ pc[r] = "idle" /\ home[r] = None
  BY DEF IInv, TypeOK, HomeInv, Join, JoinCounting
<1>1. TypeOK'
  BY <1>0 DEF IInv, TypeOK, Join, JoinCounting, Enter, PC, Reply
<1>2. OneGeneration'
  BY <1>0 DEF IInv, TypeOK, OneGeneration, Join, JoinCounting, Enter
<1>3. HomeInv' /\ LocalInv'
  BY <1>0, NoneAssumption DEF IInv, TypeOK, HomeInv, LocalInv, Join, JoinCounting, Enter
<1>4. Disjoint' /\ EntriesInUse'
  BY <1>0 DEF IInv, TypeOK, Disjoint, EntriesInUse, Join, JoinCounting
<1>5. LimitsKept'
  BY <1>0, LimitsAssumption
  DEF IInv, TypeOK, LimitsKept, MaxAdmitted, Join, JoinCounting
<1>6. CountersExact'
  <2> SUFFICES ASSUME NEW t \in Slot
               PROVE  users'[t] = Cardinality(Members(t)')
                      /\ tokens'[t] = Cardinality(Holders(t)')
    BY DEF CountersExact
  <2>1. \A q \in Request \ {r} : home'[q] = home[q] /\ pc'[q] = pc[q]
    BY DEF IInv, TypeOK, Join, JoinCounting, Enter
  <2>2. home'[r] = s /\ pc'[r] = "select"
    BY DEF IInv, TypeOK, Join, JoinCounting, Enter
  <2>3. /\ users[t] = Cardinality(Members(t)) /\ tokens[t] = Cardinality(Holders(t))
        /\ users[t] \in Nat /\ tokens[t] \in Nat
    BY DEF IInv, TypeOK, CountersExact
  <2>4. /\ Cardinality(Members(t)') = users[t] + (IF s = t THEN 1 ELSE 0)
        /\ Cardinality(Holders(t)') = tokens[t]
    BY <2>1, <2>2, <2>3, <1>0, Recount, NoneAssumption DEF Holding
  <2>5. users'[t] = users[t] + (IF s = t THEN 1 ELSE 0) /\ tokens' = tokens
    BY <1>0, <2>3 DEF IInv, TypeOK, Join, JoinCounting
  <2>6. QED
    BY <2>3, <2>4, <2>5
<1>7. QED
  BY <1>1, <1>2, <1>3, <1>4, <1>5, <1>6 DEF IInv


LEMMA CreateIInv ==
  ASSUME IInv, NEW r \in Request, NEW c \in Client, NEW s \in Slot,
         Create(r, c, s)
  PROVE  IInv'
<1>0. /\ pc[r] = "idle" /\ home[r] = None /\ clients[c] = None
      /\ \A d \in Client : clients[d] # s
      /\ \A q \in Request : home[q] # s
  BY DEF IInv, HomeInv, Create, Unreachable
<1>1. TypeOK'
  BY <1>0 DEF IInv, TypeOK, Create, Enter, PC, Reply
<1>2. OneGeneration'
  BY <1>0 DEF IInv, TypeOK, OneGeneration, HomeInv, Create, Enter
<1>3. HomeInv' /\ LocalInv'
  BY <1>0, NoneAssumption DEF IInv, TypeOK, HomeInv, LocalInv, Create, Enter
<1>4. Disjoint' /\ EntriesInUse'
  BY <1>0 DEF IInv, TypeOK, Disjoint, EntriesInUse, Create
<1>5. LimitsKept'
  BY <1>0, LimitsAssumption
  DEF IInv, TypeOK, LimitsKept, MaxAdmitted, Create
<1>6. CountersExact'
  <2> SUFFICES ASSUME NEW t \in Slot
               PROVE  users'[t] = Cardinality(Members(t)')
                      /\ tokens'[t] = Cardinality(Holders(t)')
    BY DEF CountersExact
  <2>1. \A q \in Request \ {r} : home'[q] = home[q] /\ pc'[q] = pc[q]
    BY DEF IInv, TypeOK, Create, Enter
  <2>2. home'[r] = s /\ pc'[r] = "select"
    BY DEF IInv, TypeOK, Create, Enter
  <2>3. /\ users[t] = Cardinality(Members(t)) /\ tokens[t] = Cardinality(Holders(t))
        /\ users[t] \in Nat /\ tokens[t] \in Nat
    BY DEF IInv, TypeOK, CountersExact
  <2>4. /\ Cardinality(Members(t)') = users[t] + (IF s = t THEN 1 ELSE 0)
        /\ Cardinality(Holders(t)') = tokens[t]
    BY <2>1, <2>2, <2>3, <1>0, Recount, NoneAssumption DEF Holding
  <2>5. t = s => users[t] = 0 /\ tokens[t] = 0
    BY <2>3, <1>0, FS_EmptySet DEF Members, Holders
  <2>6. /\ users'[t] = IF t = s THEN 1 ELSE users[t]
        /\ tokens'[t] = IF t = s THEN 0 ELSE tokens[t]
    BY DEF IInv, TypeOK, Create
  <2>7. QED
    BY <2>3, <2>4, <2>5, <2>6
<1>7. QED
  BY <1>1, <1>2, <1>3, <1>4, <1>5, <1>6 DEF IInv

LEMMA TakeSlotIInv ==
  ASSUME IInv, NEW r \in Request, TakeSlot(r)
  PROVE  IInv'
<1> DEFINE s == home[r]
<1>0. /\ s \in Slot /\ slots[r] = s /\ pc[r] = "select"
      /\ tokens[s] \in Nat /\ tokens[s] < MaxRunning
  BY CountedPositive DEF IInv, TypeOK, LocalInv, TakeSlot
<1>1. TypeOK'
  BY <1>0 DEF IInv, TypeOK, TakeSlot, PC
<1>2. OneGeneration' /\ HomeInv' /\ LocalInv'
  BY <1>0 DEF IInv, TypeOK, OneGeneration, HomeInv, LocalInv, TakeSlot
<1>3. Disjoint' /\ EntriesInUse'
  BY DEF IInv, Disjoint, EntriesInUse, TakeSlot
<1>4. LimitsKept'
  BY <1>0, LimitsAssumption DEF IInv, TypeOK, LimitsKept, MaxAdmitted, TakeSlot
<1>5. CountersExact'
  <2> SUFFICES ASSUME NEW t \in Slot
               PROVE  users'[t] = Cardinality(Members(t)')
                      /\ tokens'[t] = Cardinality(Holders(t)')
    BY DEF CountersExact
  <2>1. \A q \in Request \ {r} : home'[q] = home[q] /\ pc'[q] = pc[q]
    BY DEF IInv, TypeOK, TakeSlot
  <2>2. home'[r] = s /\ pc'[r] = "serving"
    BY DEF IInv, TypeOK, TakeSlot
  <2>3. /\ users[t] = Cardinality(Members(t)) /\ tokens[t] = Cardinality(Holders(t))
        /\ users[t] \in Nat /\ tokens[t] \in Nat
    BY DEF IInv, TypeOK, CountersExact
  <2>4. /\ Cardinality(Members(t)') = users[t]
        /\ Cardinality(Holders(t)') = tokens[t] + (IF s = t THEN 1 ELSE 0)
    BY <2>1, <2>2, <2>3, <1>0, Recount DEF Holding
  <2>5. /\ users' = users
        /\ tokens'[t] = tokens[t] + (IF s = t THEN 1 ELSE 0)
    BY <1>0, <2>3 DEF IInv, TypeOK, TakeSlot
  <2>6. QED
    BY <2>3, <2>4, <2>5
<1>6. QED
  BY <1>1, <1>2, <1>3, <1>4, <1>5 DEF IInv

(* GiveUp, Finish and LookUp move a request without touching a counter.    *)
LEMMA UncountedIInv ==
  ASSUME IInv, NEW r \in Request, GiveUp(r) \/ Finish(r) \/ LookUp(r)
  PROVE  IInv'
<1>1. TypeOK'
  BY DEF IInv, TypeOK, GiveUp, Finish, LookUp, PC, Reply
<1>2. OneGeneration' /\ HomeInv'
  BY DEF IInv, TypeOK, OneGeneration, HomeInv, GiveUp, Finish, LookUp
<1>3. LocalInv'
  BY DEF IInv, TypeOK, OneGeneration, LocalInv, GiveUp, Finish, LookUp
<1>4. Disjoint' /\ EntriesInUse' /\ LimitsKept'
  BY DEF IInv, Disjoint, EntriesInUse, LimitsKept, MaxAdmitted,
         GiveUp, Finish, LookUp
<1>5. CountersExact'
  <2>1. home' = home /\ tokens' = tokens /\ users' = users
    BY DEF GiveUp, Finish, LookUp
  <2>2. \A q \in Request : pc'[q] \in Holding <=> pc[q] \in Holding
    BY DEF IInv, TypeOK, GiveUp, Finish, LookUp, Holding
  <2>3. \A t \in Slot : Members(t)' = Members(t) /\ Holders(t)' = Holders(t)
    BY <2>1, <2>2 DEF Members, Holders, Holding
  <2>4. QED
    BY <2>1, <2>3 DEF IInv, CountersExact
<1>6. QED
  BY <1>1, <1>2, <1>3, <1>4, <1>5 DEF IInv


LEMMA ReceiveIInv ==
  ASSUME IInv, NEW r \in Request, Receive(r)
  PROVE  IInv'
<1> DEFINE s == home[r]
<1>0. /\ s \in Slot /\ slots[r] = s /\ pc[r] = "receiving"
      /\ tokens[s] \in Nat /\ tokens[s] > 0
  BY CountedPositive DEF IInv, TypeOK, LocalInv, Receive
<1>1. TypeOK'
  BY <1>0 DEF IInv, TypeOK, Receive, PC
<1>2. OneGeneration' /\ HomeInv' /\ LocalInv'
  BY <1>0 DEF IInv, TypeOK, OneGeneration, HomeInv, LocalInv, Receive
<1>3. Disjoint' /\ EntriesInUse'
  BY DEF IInv, Disjoint, EntriesInUse, Receive
<1>4. LimitsKept'
  BY <1>0, LimitsAssumption DEF IInv, TypeOK, LimitsKept, MaxAdmitted, Receive
<1>5. CountersExact'
  <2> SUFFICES ASSUME NEW t \in Slot
               PROVE  users'[t] = Cardinality(Members(t)')
                      /\ tokens'[t] = Cardinality(Holders(t)')
    BY DEF CountersExact
  <2>1. \A q \in Request \ {r} : home'[q] = home[q] /\ pc'[q] = pc[q]
    BY DEF IInv, TypeOK, Receive
  <2>2. home'[r] = s /\ pc'[r] = "departing"
    BY DEF IInv, TypeOK, Receive
  <2>3. /\ users[t] = Cardinality(Members(t)) /\ tokens[t] = Cardinality(Holders(t))
        /\ users[t] \in Nat /\ tokens[t] \in Nat
    BY DEF IInv, TypeOK, CountersExact
  <2>r. /\ Cardinality(Members(t)') = Cardinality(Members(t))
              + (IF home'[r] = t THEN 1 ELSE 0)
              - (IF home[r] = t THEN 1 ELSE 0)
        /\ Cardinality(Holders(t)') = Cardinality(Holders(t))
              + (IF home'[r] = t /\ pc'[r] \in Holding THEN 1 ELSE 0)
              - (IF home[r] = t /\ pc[r] \in Holding THEN 1 ELSE 0)
    BY <2>1, Recount
  <2>h. pc'[r] \notin Holding /\ pc[r] \in Holding
    BY <2>2, <1>0 DEF Holding
  <2>4. /\ Cardinality(Members(t)') = users[t]
        /\ Cardinality(Holders(t)') = tokens[t] - (IF s = t THEN 1 ELSE 0)
    BY <2>r, <2>h, <2>2, <2>3
  <2>5. /\ users' = users
        /\ tokens'[t] = tokens[t] - (IF s = t THEN 1 ELSE 0)
    BY <1>0, <2>3 DEF IInv, TypeOK, Receive
  <2>6. QED
    BY <2>3, <2>4, <2>5
<1>6. QED
  BY <1>1, <1>2, <1>3, <1>4, <1>5 DEF IInv

LEMMA LeaveIInv ==
  ASSUME IInv, NEW r \in Request, Leave(r)
  PROVE  IInv'
<1> DEFINE s == home[r]
<1>0. /\ s \in Slot /\ slots[r] = s /\ pc[r] \in {"abandoning", "departing"}
      /\ clients[client[r]] = s /\ client[r] \in Client
      /\ users[s] \in Nat /\ users[s] > 0
  BY CountedPositive DEF IInv, TypeOK, LocalInv, OneGeneration, Leave, LastUser
<1>1. TypeOK'
  BY <1>0 DEF IInv, TypeOK, Leave, LastUser, PC, Reply
<1>2. HomeInv' /\ LocalInv'
  BY <1>0 DEF IInv, TypeOK, HomeInv, LocalInv, Leave, LastUser
<1>3. OneGeneration'
  <2> SUFFICES ASSUME NEW q \in Request, pc'[q] # "idle"
               PROVE  clients'[client[q]] = home'[q]
    BY DEF OneGeneration, Leave, LastUser
  <2>1. q # r /\ pc[q] # "idle" /\ home'[q] = home[q]
    BY DEF IInv, TypeOK, Leave, LastUser
  <2>2. clients[client[q]] = home[q] /\ home[q] \in Slot /\ client[q] \in Client
    BY <2>1, CountedPositive DEF IInv, TypeOK, OneGeneration
  <2>3. CASE users[s] # 1
    <3>1. clients' = clients
      BY <2>3, <1>0 DEF Leave, LastUser
    <3>2. QED
      BY <3>1, <2>1, <2>2
  <2>4. CASE users[s] = 1
    <3>1. home[q] # s
      BY <2>1, <2>4, <1>0, LastUserAlone
    <3>2. client[q] # client[r]
      BY <3>1, <2>2, <1>0
    <3>3. clients'[client[q]] = clients[client[q]]
      BY <3>2, <2>2, <1>0 DEF IInv, TypeOK, Leave, LastUser
    <3>4. QED
      BY <3>3, <2>1, <2>2
  <2>5. QED
    BY <2>3, <2>4
<1>4. Disjoint'
  BY <1>0 DEF IInv, TypeOK, Disjoint, Leave, LastUser
<1>5. EntriesInUse'
  <2> SUFFICES ASSUME NEW d \in Client, clients'[d] # None
               PROVE  users'[clients'[d]] > 0
    BY DEF EntriesInUse
  <2>1. clients'[d] = clients[d] /\ (d = client[r] => users[s] # 1)
    BY <1>0 DEF IInv, TypeOK, Leave, LastUser
  <2>2. clients[d] \in Slot /\ users[clients[d]] \in Nat /\ users[clients[d]] > 0
    BY <2>1 DEF IInv, TypeOK, EntriesInUse
  <2>3. clients[d] = s => d = client[r]
    BY <1>0, NoneAssumption DEF IInv, Disjoint
  <2>4. users'[clients[d]] = IF clients[d] = s THEN users[s] - 1
                                               ELSE users[clients[d]]
    BY <1>0, <2>2 DEF IInv, TypeOK, Leave, LastUser
  <2>5. QED
    BY <2>1, <2>2, <2>3, <2>4
<1>6. LimitsKept'
  BY <1>0, LimitsAssumption DEF IInv, TypeOK, LimitsKept, MaxAdmitted, Leave, LastUser
<1>7. CountersExact'
  <2> SUFFICES ASSUME NEW t \in Slot
               PROVE  users'[t] = Cardinality(Members(t)')
                      /\ tokens'[t] = Cardinality(Holders(t)')
    BY DEF CountersExact
  <2>1. \A q \in Request \ {r} : home'[q] = home[q] /\ pc'[q] = pc[q]
    BY DEF IInv, TypeOK, Leave, LastUser
  <2>2. home'[r] = None /\ pc'[r] = "idle"
    BY DEF IInv, TypeOK, Leave, LastUser
  <2>3. /\ users[t] = Cardinality(Members(t)) /\ tokens[t] = Cardinality(Holders(t))
        /\ users[t] \in Nat /\ tokens[t] \in Nat
    BY DEF IInv, TypeOK, CountersExact
  <2>4. /\ Cardinality(Members(t)') = users[t] - (IF s = t THEN 1 ELSE 0)
        /\ Cardinality(Holders(t)') = tokens[t]
    BY <2>1, <2>2, <2>3, <1>0, Recount, NoneAssumption DEF Holding
  <2>5. /\ users'[t] = users[t] - (IF s = t THEN 1 ELSE 0)
        /\ tokens' = tokens
    BY <1>0, <2>3 DEF IInv, TypeOK, Leave, LastUser
  <2>6. QED
    BY <2>3, <2>4, <2>5
<1>8. QED
  BY <1>1, <1>2, <1>3, <1>4, <1>5, <1>6, <1>7 DEF IInv

(* The inductive step.                                                     *)
LEMMA NextIInv == IInv /\ [Next]_vars => IInv'
<1> SUFFICES ASSUME IInv, [Next]_vars PROVE IInv'
  OBVIOUS
<1>1. CASE UNCHANGED vars
  <2>1. TypeOK' /\ OneGeneration' /\ HomeInv' /\ LocalInv'
    BY <1>1 DEF vars, IInv, TypeOK, OneGeneration, HomeInv, LocalInv
  <2>2. Disjoint' /\ EntriesInUse' /\ LimitsKept'
    BY <1>1 DEF vars, IInv, Disjoint, EntriesInUse, LimitsKept, MaxAdmitted
  <2>3. CountersExact'
    BY <1>1 DEF vars, IInv, CountersExact, Members, Holders, Holding
  <2>4. QED
    BY <2>1, <2>2, <2>3 DEF IInv
<1>2. CASE Next
  <2>1. PICK r \in Request :
          (\E c \in Client : Arrive(r, c)) \/ TakeSlot(r) \/ Proceed(r)
    BY <1>2 DEF Next
  <2>2. CASE \E c \in Client : Arrive(r, c)
    BY <2>2, RefuseIInv, JoinIInv, CreateIInv DEF Arrive
  <2>3. CASE TakeSlot(r)
    BY <2>3, TakeSlotIInv
  <2>4. CASE Proceed(r)
    BY <2>4, UncountedIInv, ReceiveIInv, LeaveIInv DEF Proceed
  <2>5. QED
    BY <2>1, <2>2, <2>3, <2>4
<1>3. QED
  BY <1>1, <1>2

LEMMA LimiterInductive == Spec => []IInv
<1>1. QED
  BY InitIInv, NextIInv, PTL DEF Spec

-----------------------------------------------------------------------------
(* What the inductive invariant says of a client                           *)

(* The requests of a client are the ones its slots object counts.          *)
LEMMA ClientSets ==
  ASSUME IInv, NEW c \in Client
  PROVE  IF clients[c] = None
           THEN InFlight(c) = {} /\ Running(c) = {}
           ELSE /\ clients[c] \in Slot
                /\ InFlight(c) = Members(clients[c])
                /\ Running(c) = Holders(clients[c])
<1>1. CASE clients[c] = None
  <2>1. InFlight(c) = {}
    BY <1>1 DEF IInv, OneGeneration, HomeInv, InFlight
  <2>2. QED
    BY <1>1, <2>1 DEF Running
<1>2. CASE clients[c] # None
  <2>1. clients[c] \in Slot
    BY <1>2 DEF IInv, TypeOK
  <2>2. ASSUME NEW q \in Request
        PROVE  client[q] = c /\ pc[q] # "idle" <=> home[q] = clients[c]
    <3>1. client[q] \in Client
      BY DEF IInv, TypeOK
    <3>2. client[q] = c /\ pc[q] # "idle" => home[q] = clients[c]
      BY DEF IInv, OneGeneration
    <3>3. ASSUME home[q] = clients[c]
          PROVE  client[q] = c /\ pc[q] # "idle"
      <4>1. pc[q] # "idle"
        BY <3>3, <1>2 DEF IInv, HomeInv
      <4>2. clients[client[q]] = clients[c]
        BY <3>3, <4>1 DEF IInv, OneGeneration
      <4>3. QED
        BY <4>1, <4>2, <3>1, <1>2 DEF IInv, Disjoint
    <3>4. QED
      BY <3>2, <3>3
  <2>3. InFlight(c) = Members(clients[c])
    BY <2>2 DEF InFlight, Members
  <2>4. Running(c) = Holders(clients[c])
    BY <2>3 DEF Running, Holders
  <2>5. QED
    BY <1>2, <2>1, <2>3, <2>4
<1>3. QED
  BY <1>1, <1>2

(* The state's types (the pc of a request, the counters never negative).   *)
THEOREM TypeCorrect == Spec => []TypeOK
<1>1. IInv => TypeOK
  BY DEF IInv
<1>2. QED
  BY <1>1, LimiterInductive, PTL

(* release finds the very object its acquire stored a token in, and that   *)
(* object's counters count exactly the requests between the two.           *)
THEOREM SameSlots == Spec => [](OneGeneration /\ CountersExact)
<1>1. IInv => OneGeneration /\ CountersExact
  BY DEF IInv
<1>2. QED
  BY <1>1, LimiterInductive, PTL

(* The deferred release of limitClientQueries neither panics on a missing  *)
(* entry nor blocks on an empty channel.                                   *)
THEOREM ReleaseSafe == Spec => []ReleaseNeverBlocks
<1>1. IInv => ReleaseNeverBlocks
  <2> SUFFICES ASSUME IInv, NEW r \in Request, pc[r] = "receiving"
               PROVE  slots[r] # None /\ tokens[slots[r]] > 0
    BY DEF ReleaseNeverBlocks
  <2>1. slots[r] = home[r]
    BY DEF IInv, LocalInv
  <2>2. home[r] \in Slot /\ tokens[home[r]] > 0
    BY CountedPositive DEF Holding
  <2>3. QED
    BY <2>1, <2>2, NoneAssumption
<1>2. QED
  BY <1>1, LimiterInductive, PTL

(* At most maxClientQueries queries of one client run and at most          *)
(* maxClientWaiting more are inside the limiter.                           *)
THEOREM LimitsHold == Spec => [](RunningBounded /\ AdmittedBounded)
<1>1. IInv => RunningBounded /\ AdmittedBounded
  <2> SUFFICES ASSUME IInv, NEW c \in Client
               PROVE  /\ Cardinality(Running(c)) <= MaxRunning
                      /\ Cardinality(InFlight(c)) <= MaxAdmitted
    BY DEF RunningBounded, AdmittedBounded
  <2>1. CASE clients[c] = None
    BY <2>1, ClientSets, FS_EmptySet, LimitsAssumption DEF MaxAdmitted
  <2>2. CASE clients[c] # None
    BY <2>2, ClientSets DEF IInv, CountersExact, LimitsKept
  <2>3. QED
    BY <2>1, <2>2
<1>2. QED
  BY <1>1, LimiterInductive, PTL

(* The map keeps an entry for exactly the clients with a query in flight.  *)
THEOREM NoLeak == Spec => []NoIdleEntries
<1>1. IInv => NoIdleEntries
  <2> SUFFICES ASSUME IInv, NEW c \in Client
               PROVE  clients[c] # None <=> InFlight(c) # {}
    BY DEF NoIdleEntries
  <2>1. CASE clients[c] = None
    BY <2>1, ClientSets
  <2>2. CASE clients[c] # None
    <3>1. Cardinality(Members(clients[c])) > 0
      BY <2>2, ClientSets DEF IInv, EntriesInUse, CountersExact
    <3>2. Members(clients[c]) # {}
      BY <3>1, FS_EmptySet
    <3>3. QED
      BY <2>2, <3>2, ClientSets
  <2>3. QED
    BY <2>1, <2>2
<1>2. QED
  BY <1>1, LimiterInductive, PTL


-----------------------------------------------------------------------------
(* The limiter implements the safety part of AdmissionControl              *)

(* A request has been answered exactly from the return of its handler on.  *)
ReplyInv ==
  \A r \in Request :
    /\ pc[r] \in {"select", "abandoning", "serving"} => reply[r] = "none"
    /\ pc[r] \in {"releasing", "receiving", "departing"} => reply[r] = "served"

LEMMA ReplyInvariant == Spec => []ReplyInv
<1>1. Init => ReplyInv
  BY DEF Init, ReplyInv
<1>2. TypeOK /\ ReplyInv /\ [Next]_vars => ReplyInv'
  <2> SUFFICES ASSUME TypeOK, ReplyInv, [Next]_vars PROVE ReplyInv'
    OBVIOUS
  <2>1. CASE UNCHANGED vars
    BY <2>1 DEF vars, ReplyInv
  <2>2. CASE Next
    <3>1. PICK r \in Request :
            (\E c \in Client : Arrive(r, c)) \/ TakeSlot(r) \/ Proceed(r)
      BY <2>2 DEF Next
    <3>2. CASE \E c \in Client : Arrive(r, c)
      BY <3>2 DEF Arrive, Refuse, RefuseAbove, Join, JoinCounting, Create, Enter, TypeOK, ReplyInv
    <3>3. CASE TakeSlot(r)
      BY <3>3 DEF TakeSlot, TypeOK, ReplyInv
    <3>4. CASE Proceed(r)
      BY <3>4 DEF Proceed, GiveUp, Finish, LookUp, Receive, Leave, LastUser, TypeOK,
                  ReplyInv
    <3>5. QED
      BY <3>1, <3>2, <3>3, <3>4
  <2>3. QED
    BY <2>1, <2>2
<1>3. QED
  BY <1>1, <1>2, TypeCorrect, PTL DEF Spec

(* The instance has its own copy of Cardinality, which is the same one.    *)
LEMMA SameCardinality == \A S : Control!Cardinality(S) = Cardinality(S)
BY DEF Cardinality, Control!Cardinality

LEMMA MapInit == Init => Control!Init
<1>1. Init => \A c \in Client : InFlight(c) = {} /\ Running(c) = {}
  BY DEF Init, InFlight, Running
<1>2. QED
  BY <1>1 DEF Init, Control!Init

LEMMA MapRefuse ==
  ASSUME IInv, NEW r \in Request, NEW c \in Client, Refuse(r, c)
  PROVE  Control!Refuse(r, c)
<1>1. Control!Outside(r)
  BY DEF Control!Outside, InFlight, Refuse, RefuseAbove
<1>2. Cardinality(InFlight(c)) = MaxAdmitted
  <2>1. clients[c] \in Slot /\ InFlight(c) = Members(clients[c])
    BY ClientSets DEF Refuse, RefuseAbove
  <2>2. /\ users[clients[c]] >= MaxAdmitted /\ users[clients[c]] <= MaxAdmitted
        /\ users[clients[c]] \in Nat
        /\ users[clients[c]] = Cardinality(Members(clients[c]))
    BY <2>1 DEF IInv, TypeOK, LimitsKept, CountersExact, Refuse, RefuseAbove
  <2>3. QED
    BY <2>1, <2>2, LimitsAssumption DEF MaxAdmitted
<1>3. \A d \in Client : InFlight(d)' = InFlight(d) /\ Running(d)' = Running(d)
  <2>1. \A q \in Request : pc'[q] = pc[q] /\ (pc[q] # "idle" => client'[q] = client[q])
    BY DEF IInv, TypeOK, Refuse, RefuseAbove
  <2>2. \A d \in Client : InFlight(d)' = InFlight(d)
    BY <2>1 DEF InFlight
  <2>3. \A d \in Client : Running(d)' = Running(d)
    <3>1. \A q \in Request : pc'[q] \in Holding <=> pc[q] \in Holding
      BY <2>1
    <3>2. \A d \in Client : InFlight(d) \subseteq Request
      BY DEF InFlight
    <3>3. QED
      BY <2>2, <3>1, <3>2 DEF Running, Holding
  <2>4. QED
    BY <2>2, <2>3
<1>4. reply' = [reply EXCEPT ![r] = "busy"]
  BY DEF Refuse, RefuseAbove
<1>5. Control!Cardinality(InFlight(c)) = Control!MaxAdmitted
  BY <1>2, SameCardinality DEF Control!MaxAdmitted, MaxAdmitted
<1>6. QED
  BY <1>1, <1>3, <1>4, <1>5 DEF Control!Refuse

LEMMA MapAdmit ==
  ASSUME IInv, NEW r \in Request, NEW c \in Client,
         Join(r, c) \/ \E s \in Slot : Create(r, c, s)
  PROVE  Control!Admit(r, c)
<1>0. /\ pc[r] = "idle"
      /\ pc' = [pc EXCEPT ![r] = "select"]
      /\ client' = [client EXCEPT ![r] = c]
      /\ reply' = [reply EXCEPT ![r] = "none"]
  BY DEF Join, JoinCounting, Create, Enter
<1>1. Control!Outside(r)
  BY <1>0 DEF Control!Outside, InFlight
<1>2. Cardinality(InFlight(c)) < MaxAdmitted
  <2>1. CASE clients[c] = None
    BY <2>1, ClientSets, FS_EmptySet, LimitsAssumption DEF MaxAdmitted
  <2>2. CASE clients[c] # None
    BY <2>2, ClientSets DEF IInv, CountersExact, Join, JoinCounting, Create
  <2>3. QED
    BY <2>1, <2>2
<1>3. \A d \in Client :
        /\ InFlight(d)' = IF d = c THEN InFlight(d) \cup {r} ELSE InFlight(d)
        /\ Running(d)' = Running(d)
  <2>1. \A q \in Request \ {r} : pc'[q] = pc[q] /\ client'[q] = client[q]
    BY <1>0 DEF IInv, TypeOK
  <2>2. pc'[r] = "select" /\ client'[r] = c
    BY <1>0 DEF IInv, TypeOK
  <2>3. \A d \in Client :
          InFlight(d)' = IF d = c THEN InFlight(d) \cup {r} ELSE InFlight(d)
    BY <2>1, <2>2, <1>0 DEF InFlight
  <2>4. \A d \in Client : Running(d)' = Running(d)
    BY <2>1, <2>2, <1>0 DEF InFlight, Running, Holding
  <2>5. QED
    BY <2>3, <2>4
<1>4. Control!Cardinality(InFlight(c)) < Control!MaxAdmitted
  BY <1>2, SameCardinality DEF Control!MaxAdmitted, MaxAdmitted
<1>5. QED
  BY <1>0, <1>1, <1>3, <1>4 DEF Control!Admit


LEMMA MapTakeSlot ==
  ASSUME IInv, ReplyInv, NEW r \in Request, TakeSlot(r)
  PROVE  Control!Start(r, client[r])
<1> DEFINE c == client[r]
<1>0. /\ c \in Client /\ pc[r] = "select" /\ reply[r] = "none"
      /\ clients[c] \in Slot /\ slots[r] = clients[c]
  BY CountedPositive DEF IInv, TypeOK, OneGeneration, LocalInv, ReplyInv, TakeSlot
<1>1. r \in InFlight(c) \ Running(c)
  BY <1>0 DEF InFlight, Running, Holding
<1>2. Cardinality(Running(c)) < MaxRunning
  BY <1>0, ClientSets, NoneAssumption DEF IInv, CountersExact, TakeSlot
<1>3. /\ \A q \in Request \ {r} : pc'[q] = pc[q]
      /\ pc'[r] = "serving" /\ client' = client /\ reply' = reply
  BY DEF IInv, TypeOK, TakeSlot
<1>4. \A d \in Client : InFlight(d)' = InFlight(d)
  BY <1>0, <1>3 DEF InFlight
<1>5. \A d \in Client :
        Running(d)' = IF d = c THEN Running(d) \cup {r} ELSE Running(d)
  BY <1>0, <1>3 DEF InFlight, Running, Holding
<1>6. Control!Cardinality(Running(c)) < MaxRunning
  BY <1>2, SameCardinality
<1>7. QED
  BY <1>0, <1>1, <1>3, <1>4, <1>5, <1>6 DEF Control!Start

LEMMA MapStutter ==
  ASSUME IInv, NEW r \in Request, GiveUp(r) \/ LookUp(r)
  PROVE  UNCHANGED Control!vars
<1>1. /\ client' = client /\ reply' = reply
      /\ \A q \in Request : (pc'[q] = "idle" <=> pc[q] = "idle")
                            /\ (pc'[q] \in Holding <=> pc[q] \in Holding)
  BY DEF IInv, TypeOK, GiveUp, LookUp, Holding
<1>2. \A d \in Client : InFlight(d)' = InFlight(d)
  BY <1>1 DEF InFlight
<1>3. \A d \in Client : Running(d)' = Running(d)
  BY <1>1 DEF InFlight, Running, Holding
<1>4. QED
  BY <1>1, <1>2, <1>3 DEF Control!vars

LEMMA MapFinish ==
  ASSUME IInv, ReplyInv, NEW r \in Request, Finish(r)
  PROVE  Control!Answer(r, client[r])
<1>1. client[r] \in Client /\ r \in Running(client[r]) /\ reply[r] = "none"
  BY DEF IInv, TypeOK, ReplyInv, Finish, InFlight, Running, Holding
<1>2. /\ client' = client /\ reply' = [reply EXCEPT ![r] = "served"]
      /\ \A q \in Request : (pc'[q] = "idle" <=> pc[q] = "idle")
                            /\ (pc'[q] \in Holding <=> pc[q] \in Holding)
  BY DEF IInv, TypeOK, Finish, Holding
<1>3. \A d \in Client : InFlight(d)' = InFlight(d)
  BY <1>2 DEF InFlight
<1>4. \A d \in Client : Running(d)' = Running(d)
  BY <1>2 DEF InFlight, Running, Holding
<1>5. QED
  BY <1>1, <1>2, <1>3, <1>4 DEF Control!Answer

LEMMA MapReceive ==
  ASSUME IInv, ReplyInv, NEW r \in Request, Receive(r)
  PROVE  Control!Stop(r, client[r])
<1> DEFINE c == client[r]
<1>1. c \in Client /\ r \in Running(c) /\ reply[r] = "served"
  BY DEF IInv, TypeOK, ReplyInv, Receive, InFlight, Running, Holding
<1>2. /\ \A q \in Request \ {r} : pc'[q] = pc[q]
      /\ pc[r] = "receiving" /\ pc'[r] = "departing"
      /\ client' = client /\ reply' = reply
  BY DEF IInv, TypeOK, Receive
<1>3. \A d \in Client : InFlight(d)' = InFlight(d)
  BY <1>2 DEF InFlight
<1>4. \A d \in Client :
        Running(d)' = IF d = c THEN Running(d) \ {r} ELSE Running(d)
  BY <1>2 DEF InFlight, Running, Holding
<1>5. QED
  BY <1>1, <1>2, <1>3, <1>4 DEF Control!Stop

LEMMA MapLeave ==
  ASSUME IInv, ReplyInv, NEW r \in Request, Leave(r)
  PROVE  Control!Depart(r, client[r])
<1> DEFINE c == client[r]
<1>1. c \in Client /\ r \in InFlight(c) \ Running(c)
  BY DEF IInv, TypeOK, Leave, LastUser, InFlight, Running, Holding
<1>2. /\ \A q \in Request \ {r} : pc'[q] = pc[q]
      /\ pc[r] \in {"abandoning", "departing"} /\ pc'[r] = "idle"
      /\ client' = client
  BY DEF IInv, TypeOK, Leave, LastUser
<1>3. \A d \in Client :
        InFlight(d)' = IF d = c THEN InFlight(d) \ {r} ELSE InFlight(d)
  BY <1>2 DEF InFlight
<1>4. \A d \in Client : Running(d)' = Running(d)
  BY <1>2 DEF InFlight, Running, Holding
<1>5. reply' = [reply EXCEPT ![r] = IF @ = "none" THEN "busy" ELSE @]
  BY DEF IInv, TypeOK, ReplyInv, Leave, LastUser
<1>6. QED
  BY <1>1, <1>3, <1>4, <1>5 DEF Control!Depart

LEMMA MapNext == IInv /\ ReplyInv /\ [Next]_vars => [Control!Next]_(Control!vars)
<1> SUFFICES ASSUME IInv, ReplyInv, [Next]_vars
             PROVE  [Control!Next]_(Control!vars)
  OBVIOUS
<1>0. \A q \in Request : client[q] \in Client
  BY DEF IInv, TypeOK
<1>1. CASE UNCHANGED vars
  <2>1. \A d \in Client : InFlight(d)' = InFlight(d)
    BY <1>1 DEF vars, InFlight
  <2>2. \A d \in Client : Running(d)' = Running(d)
    BY <1>1 DEF vars, InFlight, Running, Holding
  <2>3. QED
    BY <1>1, <2>1, <2>2 DEF vars, Control!vars
<1>2. CASE Next
  <2>1. PICK r \in Request :
          (\E c \in Client : Arrive(r, c)) \/ TakeSlot(r) \/ Proceed(r)
    BY <1>2 DEF Next
  <2>2. CASE \E c \in Client : Arrive(r, c)
    BY <2>2, MapRefuse, MapAdmit DEF Arrive, Control!Next
  <2>3. CASE TakeSlot(r)
    BY <2>3, <1>0, MapTakeSlot DEF Control!Next
  <2>4. CASE Proceed(r)
    BY <2>4, <1>0, MapStutter, MapFinish, MapReceive, MapLeave
    DEF Proceed, Control!Next
  <2>5. QED
    BY <2>1, <2>2, <2>3, <2>4
<1>3. QED
  BY <1>1, <1>2

(* Every step of the limiter is a step of AdmissionControl or a stutter:   *)
(* what the mutex, the map and the channels do to requests is admission    *)
(* control with the two limits. (Its fairness is checked by TLC only.)     *)
THEOREM Refinement == Spec => Control!SafetySpec
<1>1. QED
  BY MapInit, MapNext, LimiterInductive, ReplyInvariant, PTL
  DEF Spec, Control!SafetySpec

=============================================================================

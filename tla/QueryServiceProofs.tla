------------------------- MODULE QueryServiceProofs -------------------------
(***************************************************************************)
(* First about query execution alone, for any number of handlers, of       *)
(* connections and of discovery queries: an interrupt only ever reaches    *)
(* the query whose deadline it is for, and the watchdog of a call is gone  *)
(* before its connection goes back to the pool.                            *)
(* Then about its composition with the limiter, for any number of clients: *)
(* a connection is only held on behalf of a client that owns a slot, so    *)
(* that no client can hold the whole pool as long as the pool is larger    *)
(* than maxClientQueries. The deadline of a call stops its statement.      *)
(* Last, the functions SQLite calls back, as far as they are written       *)
(* without recursion: moves of arrays, bins, sketches, address ranges.     *)
(***************************************************************************)
EXTENDS QueryService, ArrayMoves, Sketches, AddressRanges,
        FiniteSetTheorems, SequenceTheorems, WellFoundedInduction, TLAPS

(* The places of a handler between the connection it takes and gives back; *)
(* a watchdog lives in those of RunQuery only, after its handle is read.   *)
Watched == {"prepared", "stepping", "closing", "joining"}
Holding == Watched \cup {"connected", "preparing"}

(* A connection has one holder, and no handler holds one outside RunQuery  *)
(* and PrepareContext.                                                     *)
HeldOnce ==
  /\ \A q \in Query : conn[q] \in Conn <=> pc[q] \in Holding
  /\ \A p, q \in Query : p # q /\ conn[p] \in Conn => conn[p] # conn[q]

(* A watchdog belongs to a call that is under way, and interrupts what the *)
(* call holds; it has begun to only when the context has ended.            *)
WatchdogOfCall ==
  \A q \in Query : watchdog[q] # "off" =>
    /\ pc[q] \in Watched
    /\ conn[q] = handle[q]
    /\ watchdog[q] # "armed" => Ended(q)

(* Once a statement has begun, the flag of its connection was set for it:  *)
(* what an earlier holder left there is forgotten. Nobody sets it for a    *)
(* validation.                                                             *)
FlagOfCall ==
  \A q \in Query :
    /\ pc[q] = "stepping" /\ interrupted[conn[q]] => Ended(q)
    /\ pc[q] = "preparing" => ~interrupted[conn[q]]

(* A validation never comes to RunQuery.                                   *)
KindOfCall == \A q \in Query : pc[q] \in Watched => kind[q] # "validation"

IInv == /\ TypeOK /\ HeldOnce /\ WatchdogOfCall
        /\ FlagOfCall /\ KindOfCall /\ OnlyOwnDeadline

-----------------------------------------------------------------------------
(* Lemmas on query execution: no step of a call breaks IInv                *)

(* What follows a call is not a place where a connection is held.          *)
LEMMA AfterCallPlace ==
  ASSUME NEW q \in Query, NEW res
  PROVE  AfterCall(q, res) \in {"compiling", "answering"}
BY DEF AfterCall

LEMMA InitInvariant == Init => IInv
BY ExecutionAssumption
   DEF Init, IInv, TypeOK, PC, Context, Kind, HeldOnce, Holding, Watched,
       WatchdogOfCall, FlagOfCall, KindOfCall, OnlyOwnDeadline, Ended

(* The steps of a handler outside RunQuery, where it has no watchdog.      *)
LEMMA HandlerStep ==
  ASSUME IInv, NEW q \in Query,
         \/ Handle(q)
         \/ \E k \in Kind : Call(q, k)
         \/ Respond(q)
  PROVE  IInv'
<1> USE ExecutionAssumption DEF IInv, TypeOK, PC, Context, Kind
<1>1. CASE Handle(q)
  BY <1>1 DEF Handle, Goto, callVars, watchVars, HeldOnce, Holding, Watched,
              WatchdogOfCall, FlagOfCall, KindOfCall, OnlyOwnDeadline, Ended
<1>2. CASE \E k \in Kind : Call(q, k)
  <2> PICK k \in Kind : Call(q, k)
    BY <1>2
  <2>1. TypeOK'
    BY DEF Call, Goto, watchVars
  <2>2. HeldOnce'
    BY DEF Call, Goto, watchVars, HeldOnce, Holding, Watched
  <2>3. WatchdogOfCall' /\ FlagOfCall' /\ KindOfCall'
    BY DEF Call, Goto, watchVars, WatchdogOfCall, FlagOfCall, KindOfCall,
           Watched, Ended
  <2>4. OnlyOwnDeadline'
    BY DEF Call, Goto, OnlyOwnDeadline, Ended
  <2> QED BY <2>1, <2>2, <2>3, <2>4
<1>3. CASE Respond(q)
  BY <1>3 DEF Respond, Goto, watchVars, HeldOnce, Holding, Watched,
              WatchdogOfCall, FlagOfCall, KindOfCall, OnlyOwnDeadline, Ended
<1> QED BY <1>1, <1>2, <1>3

(* A context that ends stays so until its call is over.                    *)
LEMMA DeadlineStep ==
  ASSUME IInv, NEW q \in Query, Deadline(q) \/ SubDeadline(q)
  PROVE  IInv'
BY DEF Deadline, SubDeadline, watchVars, IInv, TypeOK, PC, Context, Kind,
       HeldOnce, Holding, Watched, WatchdogOfCall, FlagOfCall, KindOfCall,
       OnlyOwnDeadline, Ended

(* A connection is taken, or none is.                                      *)
LEMMA ConnectStep ==
  ASSUME IInv, NEW q \in Query,
         ConnectFails(q) \/ \E c \in Conn : Connect(q, c)
  PROVE  IInv'
<1> USE ExecutionAssumption DEF IInv, TypeOK, PC, Context, Kind
<1>1. CASE ConnectFails(q)
  <2>1. AfterCall(q, "error") = "answering"
    BY DEF AfterCall
  <2> QED
    BY <1>1, <2>1
       DEF ConnectFails, Goto, callVars, watchVars, HeldOnce, Holding,
           Watched, WatchdogOfCall, FlagOfCall, KindOfCall, OnlyOwnDeadline,
           Ended
<1>2. ASSUME NEW c \in Conn, Connect(q, c)
      PROVE  IInv'
  <2>1. TypeOK'
    BY <1>2 DEF Connect, Goto, callVars, watchVars
  <2>2. HeldOnce'
    BY <1>2 DEF Connect, Free, Goto, HeldOnce, Holding, Watched
  <2>3. WatchdogOfCall' /\ FlagOfCall' /\ KindOfCall' /\ OnlyOwnDeadline'
    BY <1>2 DEF Connect, Goto, callVars, watchVars, WatchdogOfCall,
                FlagOfCall, KindOfCall, OnlyOwnDeadline, Watched, Ended
  <2> QED BY <2>1, <2>2, <2>3
<1> QED BY <1>1, <1>2

(* A connection is taken and given back with no watchdog, by a validation  *)
(* or because the handle does not show: the flag a validation clears only  *)
(* matters to the one holder of the connection.                            *)
LEMMA UnwatchedStep ==
  ASSUME IInv, NEW q \in Query, Prepare(q) \/ Prepared(q) \/ NoHandle(q)
  PROVE  IInv'
<1> USE ExecutionAssumption DEF IInv, TypeOK, PC, Context, Kind
<1>1. CASE Prepare(q)
  <2>1. conn[q] \in Conn
    BY <1>1 DEF Prepare, HeldOnce, Holding, Watched
  <2>2. TypeOK' /\ HeldOnce'
    BY <1>1, <2>1 DEF Prepare, Goto, callVars, watchVars, HeldOnce, Holding,
                      Watched
  <2>3. WatchdogOfCall' /\ KindOfCall' /\ OnlyOwnDeadline'
    BY <1>1 DEF Prepare, Goto, callVars, watchVars, WatchdogOfCall,
                KindOfCall, OnlyOwnDeadline, Watched, Ended
  <2>4. FlagOfCall'
    BY <1>1, <2>1 DEF Prepare, Goto, callVars, FlagOfCall, Ended
  <2> QED BY <2>2, <2>3, <2>4
<1>2. CASE Prepared(q)
  <2>1. PICK res \in {"ok", "error"} : result' = [result EXCEPT ![q] = res]
    BY <1>2 DEF Prepared, Parsed, FlagOfCall
  <2>2. TypeOK' /\ HeldOnce'
    BY <1>2, <2>1 DEF Prepared, Goto, callVars, watchVars, HeldOnce, Holding,
                      Watched
  <2>3. WatchdogOfCall' /\ FlagOfCall' /\ KindOfCall' /\ OnlyOwnDeadline'
    BY <1>2, <2>1 DEF Prepared, Goto, callVars, watchVars, WatchdogOfCall,
                      FlagOfCall, KindOfCall, OnlyOwnDeadline, Watched, Ended
  <2> QED BY <2>2, <2>3
<1>3. CASE NoHandle(q)
  <2>1. AfterCall(q, "error") = "answering"
    BY DEF AfterCall
  <2>2. TypeOK' /\ HeldOnce'
    BY <1>3, <2>1 DEF NoHandle, Goto, callVars, watchVars, HeldOnce, Holding,
                      Watched
  <2>3. WatchdogOfCall' /\ FlagOfCall' /\ KindOfCall' /\ OnlyOwnDeadline'
    BY <1>3, <2>1 DEF NoHandle, Goto, callVars, watchVars, WatchdogOfCall,
                      FlagOfCall, KindOfCall, OnlyOwnDeadline, Watched, Ended
  <2> QED BY <2>2, <2>3
<1> QED BY <1>1, <1>2, <1>3

(* The statement: its first step forgets the flag, which only matters to   *)
(* the one holder of the connection.                                       *)
LEMMA StatementStep ==
  ASSUME IInv, NEW q \in Query,
         Watch(q) \/ FirstStep(q) \/ Complete(q) \/ Stop(q) \/ Close(q)
  PROVE  IInv'
<1> USE ExecutionAssumption DEF IInv, TypeOK, PC, Context, Kind
<1>1. CASE Watch(q)
  <2>1. conn[q] \in Conn
    BY <1>1 DEF Watch, StartWatchdog, HeldOnce, Holding
  <2> QED
    BY <1>1, <2>1
       DEF Watch, StartWatchdog, Goto, callVars, HeldOnce, Holding, Watched,
           WatchdogOfCall, FlagOfCall, KindOfCall, OnlyOwnDeadline, Ended
<1>2. CASE FirstStep(q)
  <2>1. conn[q] \in Conn
    BY <1>2 DEF FirstStep, HeldOnce, Holding, Watched
  <2>2. TypeOK' /\ HeldOnce'
    BY <1>2, <2>1 DEF FirstStep, Goto, callVars, watchVars, HeldOnce,
                      Holding, Watched
  <2>3. WatchdogOfCall' /\ KindOfCall' /\ OnlyOwnDeadline'
    BY <1>2 DEF FirstStep, Goto, callVars, watchVars, WatchdogOfCall,
                KindOfCall, OnlyOwnDeadline, Watched, Ended
  <2>4. FlagOfCall'
    BY <1>2, <2>1 DEF FirstStep, Goto, callVars, FlagOfCall, Ended
  <2> QED BY <2>2, <2>3, <2>4
<1>3. CASE Complete(q)
  BY <1>3 DEF Complete, Goto, callVars, watchVars, HeldOnce, Holding, Watched,
              WatchdogOfCall, FlagOfCall, KindOfCall, OnlyOwnDeadline, Ended
<1>4. CASE Stop(q)
  BY <1>4 DEF Stop, Goto, callVars, watchVars, HeldOnce, Holding, Watched,
              WatchdogOfCall, FlagOfCall, KindOfCall, OnlyOwnDeadline, Ended
<1>5. CASE Close(q)
  BY <1>5 DEF Close, Goto, callVars, HeldOnce, Holding, Watched,
              WatchdogOfCall, FlagOfCall, KindOfCall, OnlyOwnDeadline, Ended
<1> QED BY <1>1, <1>2, <1>3, <1>4, <1>5

(* The connection is given back by a call whose watchdog is gone.          *)
LEMMA ReturnStep ==
  ASSUME IInv, NEW q \in Query, Return(q)
  PROVE  IInv'
<1> USE ExecutionAssumption DEF IInv, TypeOK, PC, Context, Kind
<1>1. /\ AfterCall(q, result[q]) \in {"compiling", "answering"}
      /\ pc[q] = "joining" /\ watchdog[q] = "off"
      /\ conn' = [conn EXCEPT ![q] = None]
      /\ pc' = [pc EXCEPT ![q] = AfterCall(q, result[q])]
      /\ UNCHANGED <<callVars, result, watchVars, driver, interrupted>>
  BY AfterCallPlace DEF Return, ReturnWhen, Goto
<1>2. TypeOK'
  BY <1>1 DEF callVars, watchVars
<1>3. HeldOnce'
  BY <1>1 DEF HeldOnce, Holding, Watched
<1>4. WatchdogOfCall' /\ FlagOfCall' /\ KindOfCall' /\ OnlyOwnDeadline'
  BY <1>1 DEF callVars, watchVars, WatchdogOfCall, FlagOfCall, KindOfCall,
              OnlyOwnDeadline, Watched, Ended
<1> QED BY <1>2, <1>3, <1>4

(* Whoever interrupts a connection does it to the query that holds it, and *)
(* for its deadline.                                                       *)
LEMMA InterruptStep ==
  ASSUME IInv, NEW q \in Query,
         \/ WatchdogWakes(q) \/ Interrupt(q) \/ Tick(q) \/ WatchdogStops(q)
         \/ DriverInterrupt(q)
  PROVE  IInv'
<1> USE ExecutionAssumption DEF IInv, TypeOK, PC, Context, Kind
<1>1. CASE WatchdogWakes(q)
  BY <1>1 DEF WatchdogWakes, WatchdogGoto, callVars, HeldOnce, Holding,
              Watched, WatchdogOfCall, FlagOfCall, KindOfCall,
              OnlyOwnDeadline, Ended
<1>2. CASE Interrupt(q)
  <2>1. conn[q] \in Conn /\ conn[q] = handle[q] /\ Ended(q)
    BY <1>2 DEF Interrupt, WatchdogOfCall, HeldOnce, Holding, Watched
  <2>2. TypeOK' /\ HeldOnce'
    BY <1>2, <2>1 DEF Interrupt, WatchdogGoto, callVars, HeldOnce, Holding,
                      Watched
  <2>3. WatchdogOfCall' /\ KindOfCall' /\ OnlyOwnDeadline'
    BY <1>2, <2>1 DEF Interrupt, WatchdogGoto, callVars, WatchdogOfCall,
                      KindOfCall, OnlyOwnDeadline, Watched, Ended
  <2>4. FlagOfCall'
    <3>1. pc[q] # "preparing"
      BY <1>2 DEF Interrupt, WatchdogOfCall, Watched
    <3>2. ASSUME NEW p \in Query, p # q, pc[p] \in {"stepping", "preparing"}
          PROVE  interrupted[conn[p]]' = interrupted[conn[p]]
      <4>1. conn[p] # handle[q] /\ conn[p] \in Conn
        BY <2>1, <3>2 DEF HeldOnce, Holding, Watched
      <4> QED BY <1>2, <4>1 DEF Interrupt
    <3> QED
      BY <1>2, <2>1, <3>1, <3>2 DEF Interrupt, callVars, FlagOfCall, Ended
  <2> QED BY <2>2, <2>3, <2>4
<1>3. CASE Tick(q)
  BY <1>3 DEF Tick, WatchdogGoto, callVars, HeldOnce, Holding, Watched,
              WatchdogOfCall, FlagOfCall, KindOfCall, OnlyOwnDeadline, Ended
<1>4. CASE WatchdogStops(q)
  BY <1>4 DEF WatchdogStops, WatchdogGoto, callVars, HeldOnce, Holding,
              Watched, WatchdogOfCall, FlagOfCall, KindOfCall,
              OnlyOwnDeadline, Ended
<1>5. CASE DriverInterrupt(q)
  <2>1. conn[q] \in Conn /\ Ended(q)
    BY <1>5 DEF DriverInterrupt, HeldOnce, Holding, Watched
  <2>2. TypeOK' /\ HeldOnce'
    BY <1>5, <2>1 DEF DriverInterrupt, callVars, watchVars, HeldOnce, Holding,
                      Watched
  <2>3. WatchdogOfCall' /\ KindOfCall' /\ OnlyOwnDeadline'
    BY <1>5 DEF DriverInterrupt, callVars, watchVars, WatchdogOfCall,
                KindOfCall, OnlyOwnDeadline, Watched, Ended
  <2>4. FlagOfCall'
    <3>1. pc[q] # "preparing"
      BY <1>5 DEF DriverInterrupt
    <3>2. ASSUME NEW p \in Query, p # q, pc[p] \in {"stepping", "preparing"}
          PROVE  interrupted[conn[p]]' = interrupted[conn[p]]
      <4>1. conn[p] # conn[q] /\ conn[p] \in Conn
        BY <2>1, <3>2 DEF HeldOnce, Holding, Watched
      <4> QED BY <1>5, <4>1 DEF DriverInterrupt
    <3> QED
      BY <1>5, <2>1, <3>1, <3>2 DEF DriverInterrupt, callVars, FlagOfCall, Ended
  <2> QED BY <2>2, <2>3, <2>4
<1> QED BY <1>1, <1>2, <1>3, <1>4, <1>5

LEMMA StutterStep == IInv /\ UNCHANGED vars => IInv'
BY DEF vars, callVars, watchVars, IInv, TypeOK, PC, Context, Kind, HeldOnce,
       Holding, Watched, WatchdogOfCall, FlagOfCall, KindOfCall,
       OnlyOwnDeadline, Ended

(* A step of a handler, wherever it is called from.                        *)
LEMMA QueryStep ==
  ASSUME IInv, NEW q \in Query, Handle(q) \/ Respond(q) \/ Step(q)
  PROVE  IInv'
BY HandlerStep, DeadlineStep, ConnectStep, UnwatchedStep, StatementStep,
   ReturnStep, InterruptStep
   DEF Step, Progress, Watchdog

(* The invariant gives what the runs check.                                *)
LEMMA InvariantImplies ==
  IInv => TypeOK /\ OnlyOwnDeadline /\ WatchdogOwnsConnection
BY DEF IInv, WatchdogOfCall, WatchdogOwnsConnection

LEMMA Inductive == Spec => []IInv
<1>1. IInv /\ [Next]_vars => IInv'
  BY QueryStep, StutterStep DEF Next
<1> QED BY InitInvariant, <1>1, PTL DEF Spec

-----------------------------------------------------------------------------
(* Theorems on query execution                                             *)

(* The variables of query execution keep their types.                      *)
THEOREM TypeCorrect == Spec => []TypeOK
BY Inductive, InvariantImplies, PTL

(* No interrupt sent for an earlier user of a connection reaches a query   *)
(* of RunQuery, only its own deadline does; and none reaches a validation. *)
THEOREM NoForeignInterrupt == Spec => []OnlyOwnDeadline
BY Inductive, InvariantImplies, PTL

(* The watchdog of RunQuery has ended whenever the connection it would     *)
(* interrupt is no longer the one its query holds.                         *)
THEOREM WatchdogConfined == Spec => []WatchdogOwnsConnection
BY Inductive, InvariantImplies, PTL
-----------------------------------------------------------------------------
(* The service                                                             *)

-----------------------------------------------------------------------------
(* What the deadline of a query rests on                                   *)

(* As long as a statement may run its watchdog is there, aimed at its      *)
(* connection and not told to stop; and whoever waits for a watchdog has   *)
(* told it to.                                                             *)
WatchdogLives ==
  \A q \in Query :
    /\ pc[q] \in {"prepared", "stepping", "closing"} =>
         watchdog[q] # "off" /\ handle[q] = conn[q] /\ ~done[q]
    /\ pc[q] = "joining" => watchdog[q] = "off" \/ done[q]
    /\ done[q] => pc[q] = "joining" /\ watchdog[q] # "off"

LEMMA InitLives == Init => WatchdogLives
BY DEF Init, WatchdogLives

LEMMA LivesStep ==
  ASSUME IInv, WatchdogLives, NEW q \in Query,
         Handle(q) \/ Respond(q) \/ Step(q)
  PROVE  WatchdogLives'
<1> USE DEF IInv, TypeOK, PC, WatchdogLives
<1>1. CASE \/ Handle(q) \/ Respond(q) \/ Deadline(q) \/ SubDeadline(q)
           \/ \E k \in Kind : Call(q, k)
  BY <1>1 DEF Handle, Respond, Call, Deadline, SubDeadline, Goto, callVars,
              watchVars
<1>2. CASE \/ \E c \in Conn : Connect(q, c)
           \/ Prepare(q) \/ Watch(q) \/ FirstStep(q)
  BY <1>2 DEF Connect, Prepare, Watch, StartWatchdog, FirstStep, Goto,
              callVars, watchVars
<1>3. CASE ConnectFails(q) \/ Prepared(q) \/ NoHandle(q) \/ Return(q)
  <2>1. PICK label \in {"compiling", "answering"} : Goto(q, label)
    BY <1>3, AfterCallPlace
       DEF ConnectFails, Prepared, NoHandle, Return, ReturnWhen
  <2>2. UNCHANGED watchVars
        /\ (UNCHANGED conn \/ conn' = [conn EXCEPT ![q] = None])
    BY <1>3 DEF ConnectFails, Prepared, NoHandle, Return, ReturnWhen
  <2>3. pc[q] \in {"connecting", "connected", "preparing", "joining"}
        /\ (pc[q] = "joining" => watchdog[q] = "off")
    BY <1>3 DEF ConnectFails, Prepared, NoHandle, Return, ReturnWhen
  <2>4. ~done[q]
    BY <2>3 DEF WatchdogOfCall, Watched
  <2> QED
    BY <2>1, <2>2, <2>3, <2>4 DEF Goto, watchVars
<1>4. CASE Complete(q) \/ Stop(q) \/ Close(q)
  BY <1>4 DEF Complete, Stop, Close, Goto, callVars, watchVars
<1>5. CASE Watchdog(q) \/ WatchdogStops(q) \/ DriverInterrupt(q)
  BY <1>5 DEF Watchdog, WatchdogWakes, Interrupt, Tick, WatchdogStops,
              DriverInterrupt, WatchdogGoto, callVars, watchVars
<1> QED
  BY <1>1, <1>2, <1>3, <1>4, <1>5 DEF Step, Progress

(* No query runs without a watchdog that will stop it, and no call waits   *)
(* for a watchdog that does not know: what RunQuery defers cannot hang.    *)
THEOREM WatchdogStays == Spec => []WatchdogLives
<1>1. IInv /\ WatchdogLives /\ [Next]_vars => WatchdogLives'
  <2> SUFFICES ASSUME IInv, WatchdogLives, UNCHANGED vars PROVE WatchdogLives'
    BY LivesStep DEF Next
  <2> QED
    BY DEF vars, watchVars, WatchdogLives
<1> QED
  BY Inductive, InitLives, <1>1, PTL DEF Spec

(* How many steps of its watchdog a statement is from its interrupt.       *)
UntilInterrupt(q) ==
  IF interrupted[conn[q]] THEN 0
  ELSE IF watchdog[q] = "interrupting" THEN 1 ELSE 2

InterruptNears(q) ==
  pc[q] = "stepping" /\ pc[q]' = "stepping" /\ Ended(q) =>
    /\ UntilInterrupt(q)' <= UntilInterrupt(q)
    /\ Watchdog(q) /\ UntilInterrupt(q) # 0 =>
         UntilInterrupt(q)' < UntilInterrupt(q)

(* What the steps of another call leave alone.                             *)
LEMMA OtherCall ==
  ASSUME IInv, NEW q \in Query, NEW p \in Query, p # q, pc[q] = "stepping",
         Handle(p) \/ Respond(p) \/ Step(p)
  PROVE  /\ watchdog[q]' = watchdog[q] /\ conn[q]' = conn[q]
         /\ interrupted[conn[q]] => interrupted[conn[q]]'
<1> USE DEF IInv, TypeOK, PC
<1>1. conn[q] \in Conn
  BY DEF HeldOnce, Holding, Watched
<1>2. CASE \/ Handle(p) \/ Respond(p) \/ Deadline(p) \/ SubDeadline(p)
           \/ \E k \in Kind : Call(p, k)
  BY <1>2 DEF Handle, Respond, Call, Deadline, SubDeadline, callVars, watchVars
<1>3. CASE \/ \E c \in Conn : Connect(p, c)
           \/ ConnectFails(p) \/ Prepared(p) \/ NoHandle(p) \/ Watch(p)
           \/ Complete(p) \/ Stop(p) \/ Close(p) \/ Return(p)
  BY <1>3 DEF Connect, ConnectFails, Prepared, NoHandle, Watch, StartWatchdog,
              Complete, Stop, Close, Return, ReturnWhen, callVars, watchVars
<1>4. CASE Prepare(p) \/ FirstStep(p)
  <2>1. conn[p] \in Conn /\ conn[p] # conn[q]
    BY <1>4 DEF Prepare, FirstStep, HeldOnce, Holding, Watched
  <2>2. /\ interrupted' = [interrupted EXCEPT ![conn[p]] = FALSE]
        /\ UNCHANGED <<watchdog, conn>>
    BY <1>4 DEF Prepare, FirstStep, watchVars
  <2> QED
    BY <1>1, <2>1, <2>2
<1>5. CASE Watchdog(p) \/ WatchdogStops(p) \/ DriverInterrupt(p)
  BY <1>1, <1>5 DEF Watchdog, WatchdogWakes, Interrupt, Tick, WatchdogStops,
                    DriverInterrupt, WatchdogGoto, callVars, watchVars
<1> QED
  BY <1>2, <1>3, <1>4, <1>5 DEF Step, Progress

(* A step of a watchdog shows in its state.                                *)
LEMMA WatchdogMoves ==
  ASSUME IInv, NEW q \in Query, Watchdog(q)
  PROVE  watchdog[q]' # watchdog[q]
BY DEF IInv, TypeOK, Watchdog, WatchdogWakes, Interrupt, Tick, WatchdogGoto

LEMMA Nears ==
  ASSUME IInv, WatchdogLives, NEW q \in Query, NEW p \in Query,
         Handle(p) \/ Respond(p) \/ Step(p)
  PROVE  InterruptNears(q)
<1> SUFFICES ASSUME pc[q] = "stepping", pc[q]' = "stepping", Ended(q)
             PROVE  /\ UntilInterrupt(q)' <= UntilInterrupt(q)
                    /\ Watchdog(q) /\ UntilInterrupt(q) # 0 =>
                         UntilInterrupt(q)' < UntilInterrupt(q)
  BY DEF InterruptNears
<1>1. CASE p # q
  BY <1>1, OtherCall, WatchdogMoves DEF UntilInterrupt
<1>2. CASE p = q
  <2> USE DEF IInv, TypeOK
  <2>1. conn[q] \in Conn /\ handle[q] = conn[q] /\ ~done[q]
    BY DEF HeldOnce, Holding, Watched, WatchdogLives
  <2>2. CASE Deadline(q) \/ SubDeadline(q) \/ DriverInterrupt(q)
    <3>1. watchdog[q]' = watchdog[q] /\ conn[q]' = conn[q]
          /\ (interrupted[conn[q]] => interrupted[conn[q]]')
      BY <2>1, <2>2 DEF Deadline, SubDeadline, DriverInterrupt, watchVars
    <3> QED
      BY <3>1, WatchdogMoves DEF UntilInterrupt
  <2>3. CASE WatchdogWakes(q) \/ Tick(q)
    <3>1. /\ watchdog[q] # "interrupting" /\ watchdog[q]' = "interrupting"
          /\ conn[q]' = conn[q] /\ interrupted' = interrupted
      BY <2>3 DEF WatchdogWakes, Tick, WatchdogGoto
    <3> QED
      BY <3>1 DEF UntilInterrupt
  <2>4. CASE Interrupt(q)
    <3>1. conn[q]' = conn[q] /\ interrupted[conn[q]]'
      BY <2>1, <2>4 DEF Interrupt
    <3> QED
      BY <3>1 DEF UntilInterrupt
  <2>5. ~WatchdogStops(q)
    BY <2>1 DEF WatchdogStops
  <2>6. ~Handle(q) /\ ~Respond(q)
        /\ ~ \E k \in Kind : Call(q, k)
    BY DEF Handle, Respond, Call
  <2>7. ~Progress(q) /\ ~Complete(q)
    <3>1. \A label : Goto(q, label) => label = "stepping"
      BY DEF Goto
    <3>2. /\ ~ \E c \in Conn : Connect(q, c)
          /\ ~ConnectFails(q) /\ ~Prepare(q) /\ ~Prepared(q) /\ ~NoHandle(q)
          /\ ~Watch(q) /\ ~FirstStep(q) /\ ~Close(q) /\ ~Return(q)
      BY DEF Connect, ConnectFails, Prepare, Prepared, NoHandle, Watch,
             StartWatchdog, FirstStep, Close, Return, ReturnWhen
    <3>3. ~Complete(q) /\ ~Stop(q)
      BY <3>1 DEF Complete, Stop
    <3> QED
      BY <3>2, <3>3 DEF Progress
  <2> QED
    BY <1>2, <2>2, <2>3, <2>4, <2>5, <2>6, <2>7 DEF Step, Watchdog
<1> QED
  BY <1>1, <1>2

(* While a statement runs on after the end of its context, nobody takes    *)
(* its interrupt away, not another call and not its own driver, and every  *)
(* step of its watchdog brings it nearer: at most two of them, the wake-up *)
(* or tick and the interrupt, and SQLite's next check ends the statement.  *)
THEOREM DeadlineStopsStatement ==
  Spec => [][\A q \in Query : InterruptNears(q)]_vars
<1>1. IInv /\ WatchdogLives /\ [Next]_vars =>
        [\A q \in Query : InterruptNears(q)]_vars
  BY Nears DEF Next
<1> QED
  BY Inductive, WatchdogStays, <1>1, PTL DEF Spec

(* A request is counted for one client, and runs only if it is counted.    *)
CountedOnce ==
  /\ admitted \in [Client -> SUBSET Query]
  /\ running \in [Client -> SUBSET Query]
  /\ reply \in [Query -> Limiter!Reply]
  /\ \A c \in Client : running[c] \subseteq admitted[c]
  /\ \A c, d \in Client : c # d => admitted[c] \cap admitted[d] = {}

(* The handlers that run are within the limit of their client.             *)
WithinLimit ==
  \A c \in Client : IsFiniteSet(running[c]) /\ Cardinality(running[c]) <= MaxRunning

(* A handler runs between the slot its request was given and its answer.   *)
HandlerNeedsSlot ==
  \A q \in Query : pc[q] # "idle" =>
    reply[q] = "none" /\ \E c \in Client : q \in running[c]

SInv == IInv /\ CountedOnce /\ WithinLimit /\ HandlerNeedsSlot

-----------------------------------------------------------------------------
(* Lemmas on the service                                                   *)

(* The instance has its own copy of Cardinality, which is the same one.    *)
LEMMA SameCardinality == \A S : Limiter!Cardinality(S) = Cardinality(S)
BY DEF Cardinality, Limiter!Cardinality

LEMMA ServiceInitInvariant == ServiceInit => SInv
<1> SUFFICES ASSUME ServiceInit PROVE SInv
  OBVIOUS
<1>1. IInv
  BY InitInvariant DEF ServiceInit
<1>2. CountedOnce
  BY DEF ServiceInit, Limiter!Init, Limiter!Reply, CountedOnce
<1>3. WithinLimit
  BY FS_EmptySet, ServiceAssumption DEF ServiceInit, Limiter!Init, WithinLimit
<1>4. HandlerNeedsSlot
  BY DEF ServiceInit, Init, HandlerNeedsSlot
<1> QED BY <1>1, <1>2, <1>3, <1>4 DEF SInv

(* A handler that is not counted is not running.                           *)
LEMMA OutsideIdle ==
  ASSUME SInv, NEW q \in Query, Limiter!Outside(q)
  PROVE  pc[q] = "idle"
BY DEF SInv, CountedOnce, HandlerNeedsSlot, Limiter!Outside

LEMMA ArriveStep ==
  ASSUME SInv, NEW q \in Query, NEW c \in Client, Arrive(q, c)
  PROVE  SInv'
<1>1. IInv'
  BY StutterStep DEF Arrive, SInv
<1>2. UNCHANGED <<running, pc>> /\ pc[q] = "idle" /\ Limiter!Outside(q)
  BY OutsideIdle DEF Arrive, Limiter!Admit, Limiter!Refuse, vars
<1>3. CountedOnce'
  <2>1. CASE Limiter!Admit(q, c)
    BY <1>2, <2>1 DEF SInv, CountedOnce, Limiter!Admit, Limiter!Outside,
                      Limiter!Reply
  <2>2. CASE Limiter!Refuse(q, c)
    BY <2>2 DEF SInv, CountedOnce, Limiter!Refuse, Limiter!Reply
  <2> QED BY <2>1, <2>2 DEF Arrive
<1>4. WithinLimit'
  BY <1>2 DEF SInv, WithinLimit
<1>5. HandlerNeedsSlot'
  <2>1. \A p \in Query : p # q => reply'[p] = reply[p]
    BY DEF SInv, CountedOnce, Arrive, Limiter!Admit, Limiter!Refuse
  <2> QED BY <1>2, <2>1 DEF SInv, HandlerNeedsSlot
<1> QED BY <1>1, <1>3, <1>4, <1>5 DEF SInv

LEMMA StartStep ==
  ASSUME SInv, NEW q \in Query, NEW c \in Client, Start(q, c)
  PROVE  SInv'
<1>1. IInv'
  BY QueryStep DEF Start, SInv
<1>2. /\ q \in admitted[c] /\ q \notin running[c] /\ reply[q] = "none"
      /\ Cardinality(running[c]) < MaxRunning
      /\ running' = [running EXCEPT ![c] = @ \cup {q}]
      /\ UNCHANGED <<admitted, reply>>
  BY SameCardinality DEF Start, Limiter!Start
<1>3. CountedOnce'
  BY <1>2 DEF SInv, CountedOnce
<1>4. WithinLimit'
  <2>1. /\ IsFiniteSet(running[c]) /\ Cardinality(running[c]) \in Nat
        /\ IsFiniteSet(running[c] \cup {q})
        /\ Cardinality(running[c] \cup {q}) = Cardinality(running[c]) + 1
    BY <1>2, FS_AddElement, FS_CardinalityType DEF SInv, WithinLimit
  <2>2. Cardinality(running[c] \cup {q}) <= MaxRunning
    BY <1>2, <2>1, ServiceAssumption
  <2>3. \A d \in Client : running'[d] = IF d = c THEN running[c] \cup {q}
                                        ELSE running[d]
    BY <1>2 DEF SInv, CountedOnce
  <2> QED BY <2>1, <2>2, <2>3 DEF SInv, WithinLimit
<1>5. HandlerNeedsSlot'
  <2>1. q \in running'[c] /\ \A d \in Client : running[d] \subseteq running'[d]
    BY <1>2 DEF SInv, CountedOnce
  <2>2. \A p \in Query : p # q => pc'[p] = pc[p]
    BY DEF Start, Handle, Goto, SInv, IInv, TypeOK
  <2> QED BY <1>2, <2>1, <2>2 DEF SInv, HandlerNeedsSlot
<1> QED BY <1>1, <1>3, <1>4, <1>5 DEF SInv

LEMMA AnswerStep ==
  ASSUME SInv, NEW q \in Query, NEW c \in Client, Answer(q, c)
  PROVE  SInv'
<1>1. IInv'
  BY QueryStep DEF Answer, SInv
<1>2. /\ reply' = [reply EXCEPT ![q] = "served"]
      /\ UNCHANGED <<admitted, running>>
      /\ pc' = [pc EXCEPT ![q] = "idle"]
  BY DEF Answer, Limiter!Answer, Respond, Goto
<1>3. CountedOnce' /\ WithinLimit'
  BY <1>2 DEF SInv, CountedOnce, WithinLimit, Limiter!Reply
<1>4. HandlerNeedsSlot'
  BY <1>2 DEF SInv, HandlerNeedsSlot, CountedOnce, IInv, TypeOK
<1> QED BY <1>1, <1>3, <1>4 DEF SInv

(* A request that gives its slot back has been answered, and one that      *)
(* departs without a slot has no handler: it would own one elsewhere.      *)
LEMMA LeaveStep ==
  ASSUME SInv, NEW q \in Query, NEW c \in Client, Leave(q, c)
  PROVE  SInv'
<1>1. IInv'
  BY StutterStep DEF Leave, SInv
<1>2. pc[q] = "idle" /\ UNCHANGED pc
  <2>1. CASE Limiter!Stop(q, c)
    BY <2>1 DEF Leave, Limiter!Stop, SInv, HandlerNeedsSlot, vars
  <2>2. CASE Limiter!Depart(q, c)
    BY <2>2 DEF Leave, Limiter!Depart, SInv, HandlerNeedsSlot, CountedOnce, vars
  <2> QED BY <2>1, <2>2 DEF Leave
<1>3. CASE Limiter!Stop(q, c)
  <2>1. CountedOnce'
    BY <1>3 DEF Limiter!Stop, SInv, CountedOnce
  <2>2. WithinLimit'
    <3>1. /\ IsFiniteSet(running[c] \ {q})
          /\ Cardinality(running[c] \ {q}) <= MaxRunning
      <4>1. IsFiniteSet(running[c]) /\ Cardinality(running[c]) <= MaxRunning
        BY DEF SInv, WithinLimit
      <4>2. /\ IsFiniteSet(running[c] \ {q})
            /\ Cardinality(running[c] \ {q}) <= Cardinality(running[c])
        BY <4>1, FS_Subset, running[c] \ {q} \in SUBSET running[c]
      <4> QED BY <4>1, <4>2, FS_CardinalityType, ServiceAssumption
    <3>2. \A d \in Client : running'[d] = IF d = c THEN running[c] \ {q}
                                          ELSE running[d]
      BY <1>3 DEF Limiter!Stop, SInv, CountedOnce
    <3> QED BY <3>1, <3>2 DEF SInv, WithinLimit
  <2>3. HandlerNeedsSlot'
    BY <1>2, <1>3 DEF Limiter!Stop, SInv, CountedOnce, HandlerNeedsSlot
  <2> QED BY <1>1, <2>1, <2>2, <2>3 DEF SInv
<1>4. CASE Limiter!Depart(q, c)
  <2>1. CountedOnce'
    BY <1>4 DEF Limiter!Depart, Limiter!Reply, SInv, CountedOnce
  <2>2. WithinLimit'
    BY <1>4 DEF Limiter!Depart, SInv, WithinLimit
  <2>3. HandlerNeedsSlot'
    BY <1>2, <1>4 DEF Limiter!Depart, SInv, CountedOnce, HandlerNeedsSlot
  <2> QED BY <1>1, <2>1, <2>2, <2>3 DEF SInv
<1> QED BY <1>3, <1>4 DEF Leave

(* No step of a call begins outside a handler, and its deadline needs one. *)
LEMMA ServeStep ==
  ASSUME SInv, NEW q \in Query, Serve(q)
  PROVE  SInv'
<1>1. IInv'
  BY QueryStep DEF Serve, SInv
<1>2. CountedOnce' /\ WithinLimit'
  BY DEF Serve, limiterVars, SInv, CountedOnce, WithinLimit
<1>3. \A p \in Query : pc'[p] # "idle" => pc[p] # "idle"
  <2> USE DEF SInv, IInv, TypeOK, PC
  <2>1. CASE \E k \in Kind : Call(q, k)
    BY <2>1 DEF Call, Goto
  <2>2. CASE Deadline(q) \/ SubDeadline(q)
    BY <2>2 DEF Deadline, SubDeadline
  <2>3. CASE Progress(q) \/ Complete(q)
    BY <2>3 DEF Progress, Connect, ConnectFails, Prepare, Prepared, NoHandle,
                Watch, StartWatchdog, FirstStep, Complete, Stop, Close,
                Return, ReturnWhen, Goto
  <2>4. CASE Watchdog(q) \/ WatchdogStops(q) \/ DriverInterrupt(q)
    BY <2>4 DEF Watchdog, WatchdogWakes, Interrupt, Tick, WatchdogStops,
                DriverInterrupt
  <2> QED BY <2>1, <2>2, <2>3, <2>4 DEF Serve, Step
<1>4. HandlerNeedsSlot'
  BY <1>3 DEF Serve, limiterVars, SInv, HandlerNeedsSlot
<1> QED BY <1>1, <1>2, <1>4 DEF SInv

LEMMA ServiceInductive == ServiceSpec => []SInv
<1>1. ASSUME SInv, ServiceNext
      PROVE  SInv'
  <2>1. PICK q \in Query :
          \/ \E c \in Client :
               Arrive(q, c) \/ Start(q, c) \/ Answer(q, c) \/ Leave(q, c)
          \/ Serve(q)
    BY <1>1 DEF ServiceNext
  <2> QED BY <1>1, <2>1, ArriveStep, StartStep, AnswerStep, LeaveStep, ServeStep
<1>2. SInv /\ UNCHANGED serviceVars => SInv'
  <2>1. SInv /\ UNCHANGED serviceVars => IInv'
    BY StutterStep DEF SInv, serviceVars
  <2> QED BY <2>1 DEF serviceVars, limiterVars, vars, SInv, CountedOnce,
                      WithinLimit, HandlerNeedsSlot
<1>3. SInv /\ [ServiceNext]_serviceVars => SInv'
  BY <1>1, <1>2
<1> QED BY ServiceInitInvariant, <1>3, PTL DEF ServiceSpec

(* A client holds no more connections than it runs handlers.               *)
LEMMA FewConnections ==
  ASSUME SInv, NEW c \in Client
  PROVE  IsFiniteSet(Connections(c)) /\ Cardinality(Connections(c)) <= MaxRunning
<1> DEFINE T == {conn[q] : q \in running[c]}
           f == [q \in running[c] |-> conn[q]]
<1>1. IsFiniteSet(running[c]) /\ Cardinality(running[c]) <= MaxRunning
  BY DEF SInv, WithinLimit
<1>2. f \in Surjection(running[c], T)
  BY DEF Surjection
<1>3. IsFiniteSet(T) /\ Cardinality(T) <= Cardinality(running[c])
  BY <1>1, <1>2, FS_Surjection
<1>4. Connections(c) \in SUBSET T
  BY DEF Connections
<1>5. IsFiniteSet(Connections(c)) /\ Cardinality(Connections(c)) <= Cardinality(T)
  BY <1>3, <1>4, FS_Subset
<1> QED
  BY <1>1, <1>3, <1>5, FS_CardinalityType, ServiceAssumption

-----------------------------------------------------------------------------
(* Theorems on the service                                                 *)

(* Between limitClientQueries and the two ways to a connection of the      *)
(* query pool, RunQuery and the PrepareContext of a validation: one is     *)
(* held, and a watchdog runs, only for a request that owns a slot of its   *)
(* client and is not answered yet.                                         *)
THEOREM ConnectionsHaveSlots == ServiceSpec => []ConnectionNeedsSlot
<1>1. SInv => ConnectionNeedsSlot
  <2> SUFFICES ASSUME SInv, NEW q \in Query,
                      conn[q] # None \/ watchdog[q] # "off"
               PROVE  pc[q] # "idle"
    BY DEF SInv, HandlerNeedsSlot, ConnectionNeedsSlot
  <2>1. CASE conn[q] # None
    BY <2>1 DEF SInv, IInv, TypeOK, HeldOnce, Holding, Watched
  <2>2. CASE watchdog[q] # "off"
    BY <2>2 DEF SInv, IInv, WatchdogOfCall, Watched
  <2> QED BY <2>1, <2>2
<1> QED BY <1>1, ServiceInductive, PTL

(* What maxClientQueries is for, and when it does it: in a pool with more  *)
(* connections than one client may run queries, no client holds them all.  *)
THEOREM ConnectionLeft ==
  ASSUME Cardinality(Conn) > MaxRunning
  PROVE  ServiceSpec => []OneClientLeavesAConnection
<1>1. SInv => OneClientLeavesAConnection
  <2> SUFFICES ASSUME SInv, NEW c \in Client, Connections(c) = Conn
               PROVE  FALSE
    BY DEF OneClientLeavesAConnection
  <2>1. IsFiniteSet(Conn) /\ Cardinality(Conn) <= MaxRunning
    BY FewConnections
  <2> QED BY <2>1, FS_CardinalityType, ServiceAssumption
<1> QED BY <1>1, ServiceInductive, PTL

-----------------------------------------------------------------------------
(* Remainders and the integers of Go                                       *)

LEMMA Multiples ==
  ASSUME NEW k \in Int, NEW m \in Nat \ {0}
  PROVE  /\ k * m \in Int
         /\ k >= 1 => k * m >= m
         /\ k <= -1 => k * m <= -m
OBVIOUS

LEMMA Division ==
  ASSUME NEW a \in Int, NEW m \in Nat \ {0}
  PROVE  /\ a % m \in 0..m-1 /\ a \div m \in Int
         /\ a = (a \div m) * m + (a % m)
OBVIOUS

LEMMA RemainderUnique ==
  ASSUME NEW m \in Nat \ {0}, NEW q \in Int, NEW r \in 0..m-1,
         NEW p \in Int, NEW s \in 0..m-1, q * m + r = p * m + s
  PROVE  r = s /\ q = p
<1>1. (q - p) * m = s - r
  OBVIOUS
<1>2. /\ q - p >= 1 => (q - p) * m >= m
      /\ q - p <= -1 => (q - p) * m <= -m
  BY Multiples
<1> QED
  BY <1>1, <1>2

LEMMA RemainderIs ==
  ASSUME NEW m \in Nat \ {0}, NEW q \in Int, NEW r \in 0..m-1, NEW a \in Int,
         a = q * m + r
  PROVE  a % m = r /\ a \div m = q
BY Division, RemainderUnique

LEMMA SmallRemainder ==
  ASSUME NEW m \in Nat \ {0}, NEW a \in 0..m-1 PROVE a % m = a
<1>1. a = 0 * m + a
  OBVIOUS
<1> QED
  BY <1>1, RemainderIs

Multiple(c, m) == \E k \in Int : c = k * m

LEMMA SameRemainder ==
  ASSUME NEW m \in Nat \ {0}, NEW a \in Int, NEW b \in Int, NEW c \in Int,
         Multiple(c, m), b = a + c
  PROVE  b % m = a % m
<1> PICK k \in Int : c = k * m
  BY DEF Multiple
<1>1. PICK q \in Int, p \in Int : q = a \div m /\ p = b \div m
  BY Division
<1>2. PICK r \in 0..m-1, s \in 0..m-1 : r = a % m /\ s = b % m
  BY Division
<1>3. a = q * m + r /\ b = p * m + s
  BY <1>1, <1>2, Division
<1>4. PICK u \in Int : u = q + k
  OBVIOUS
<1>5. u * m = q * m + k * m
  BY <1>4
<1>6. u * m + r = p * m + s
  BY <1>3, <1>5
<1> QED
  BY <1>2, <1>6, RemainderUnique

(* x takes the remainder r of b to a, or from a, and y takes b.            *)
Reduced(m, a, b, x, y) ==
  \E r \in 0..m-1 : /\ r = b % m
                    /\ \/ x = a + r /\ y = a + b
                       \/ x = a - r /\ y = a - b

LEMMA RemainderOfSum ==
  ASSUME NEW m \in Nat \ {0}, NEW a \in Int, NEW b \in Int,
         NEW x \in Int, NEW y \in Int, Reduced(m, a, b, x, y)
  PROVE  x % m = y % m
<1>0. PICK r \in 0..m-1 :
        r = b % m /\ ((x = a + r /\ y = a + b) \/ (x = a - r /\ y = a - b))
  BY DEF Reduced
<1>1. PICK d \in Int : d = b \div m
  BY Division
<1>2. b = d * m + r
  BY <1>0, <1>1, Division
<1>3. PICK c \in Int, e \in Int : c = d * m /\ e = -(d * m)
  OBVIOUS
<1>4. Multiple(c, m) /\ Multiple(e, m)
  <2>1. -d \in Int /\ e = (-d) * m
    BY <1>3
  <2> QED
    BY <2>1, <1>3 DEF Multiple
<1>5. y = x + c \/ y = x + e
  BY <1>0, <1>2, <1>3
<1>6. y = x + c => y % m = x % m
  BY <1>4, SameRemainder
<1>7. y = x + e => y % m = x % m
  BY <1>4, SameRemainder
<1> QED
  BY <1>5, <1>6, <1>7

(* An operation of int64 is exact where its result is an int64.            *)
LEMMA WrapFacts ==
  ASSUME NEW n \in Int
  PROVE  /\ IsInt64(Wrap(n))
         /\ IsInt64(n) => Wrap(n) = n
         /\ n \in MaxInt + 1 .. 2 * MaxInt + 1 => Wrap(n) = n - 2 * (MaxInt + 1)
<1> DEFINE W == 2 * (MaxInt + 1)
<1>1. MaxInt \in Nat /\ W \in Nat \ {0} /\ MinInt = -MaxInt - 1
  BY LimitsAssumption DEF MinInt
<1>2. (n - MinInt) % W \in 0..W-1
  BY <1>1, Division
<1>3. ASSUME n - MinInt \in 0..W-1 PROVE (n - MinInt) % W = n - MinInt
  BY <1>1, <1>3, RemainderIs, n - MinInt = 0 * W + (n - MinInt)
<1>4. ASSUME n - MinInt - W \in 0..W-1
      PROVE  (n - MinInt) % W = n - MinInt - W
  BY <1>1, <1>4, RemainderIs, n - MinInt = 1 * W + (n - MinInt - W)
<1> HIDE DEF W
<1>5. Wrap(n) = ((n - MinInt) % W) + MinInt
  BY DEF Wrap, W
<1>6. W = 2 * (MaxInt + 1)
  BY DEF W
<1> QED
  BY <1>1, <1>2, <1>3, <1>4, <1>5, <1>6 DEF IsInt64

LEMMA TwoNumbers ==
  ASSUME NEW a \in Int, NEW b \in Int
  PROVE  /\ Max({a, b}) = IF a >= b THEN a ELSE b
         /\ Min({a, b}) = IF a <= b THEN a ELSE b
BY DEF Max, Min

(* The elements that kqlArrayRotate and kqlArrayShift work on.             *)
LEMMA Elements ==
  ASSUME NEW S, NEW e \in Seq(S), Len(e) <= maxReplacementParts, NEW n
  PROVE  /\ Is("arr", Arr(e)) /\ Arr(e)[2] = e /\ Is("num", Num(n))
         /\ Num(n)[2] = n /\ Len(e) \in Nat /\ Len(e) <= MaxInt
         /\ ~(Len(e) > maxReplacementParts) /\ DOMAIN e = 1..Len(e)
BY LimitsAssumption DEF Is, Arr, Num

-----------------------------------------------------------------------------
(* Rotating                                                                *)

LEMMA Rotated ==
  ASSUME NEW S, NEW e \in Seq(S), Len(e) <= maxReplacementParts, Len(e) > 0,
         NEW n \in Int, NEW right \in BOOLEAN
  PROVE  kqlArrayRotate(Arr(e), Num(n), right) =
           Arr([i \in 1..Len(e) |->
                  e[((IF right THEN i - 1 - n ELSE i - 1 + n) % Len(e)) + 1]])
<1> DEFINE first == IF right /\ n % Len(e) # 0 THEN Len(e) - (n % Len(e))
                    ELSE n % Len(e)
           Place(i) == IF right THEN i - 1 - n ELSE i - 1 + n
<1>1. kqlArrayRotate(Arr(e), Num(n), right) =
        Arr([i \in 1..Len(e) |-> e[((i - 1 + first) % Len(e)) + 1]])
  <2>1. Is("arr", Arr(e)) /\ Arr(e)[2] = e /\ Is("num", Num(n)) /\ Num(n)[2] = n
        /\ ~(Len(e) > maxReplacementParts)
    BY Elements
  <2>2. Len(e) # 0
    OBVIOUS
  <2> QED
    BY <2>1, <2>2 DEF kqlArrayRotate, OfArray
<1>2. PICK size \in Nat \ {0} : size = Len(e)
  OBVIOUS
<1>3. PICK offset \in 0..size-1 : offset = n % size
  BY <1>2, Division
<1>4. ASSUME NEW i \in 1..size
      PROVE  (i - 1 + first) % size = Place(i) % size
  <2>1. PICK j \in Int : j = i - 1
    OBVIOUS
  <2>2. (j + offset) % size = (j + n) % size
        /\ (j - offset) % size = (j - n) % size
    <3>1. PICK u \in Int, v \in Int, x \in Int, y \in Int :
            u = j + offset /\ v = j + n /\ x = j - offset /\ y = j - n
      OBVIOUS
    <3>2. Reduced(size, j, n, u, v) /\ Reduced(size, j, n, x, y)
      BY <1>3, <3>1 DEF Reduced
    <3>3. u % size = v % size /\ x % size = y % size
      BY <3>2, RemainderOfSum
    <3> QED
      BY <3>1, <3>3
  <2>3. (j + (size - offset)) % size = (j - offset) % size
    <3>1. PICK a \in Int, b \in Int :
            a = j - offset /\ b = j + (size - offset)
      OBVIOUS
    <3>2. b = a + size
      BY <3>1
    <3>3. b % size = a % size
      <4>1. size = 1 * size
        OBVIOUS
      <4>2. Multiple(size, size)
        BY <4>1 DEF Multiple
      <4>3. PICK m \in Nat \ {0}, c \in Int : m = size /\ c = size
        OBVIOUS
      <4>4. b = a + c /\ Multiple(c, m)
        BY <3>2, <4>2, <4>3
      <4>5. b % m = a % m
        BY <4>4, SameRemainder
      <4> QED
        BY <4>3, <4>5
    <3> QED
      BY <3>1, <3>3
  <2>4. CASE ~right
    BY <1>2, <1>3, <2>1, <2>2, <2>4
  <2>5. CASE right /\ offset # 0
    BY <1>2, <1>3, <2>1, <2>2, <2>3, <2>5
  <2>6. CASE right /\ offset = 0
    <3>1. j + offset = j - offset
      BY <2>6
    <3> QED
      BY <1>2, <1>3, <2>1, <2>2, <2>6, <3>1
  <2> QED
    BY <2>4, <2>5, <2>6
<1> HIDE DEF first
<1>5. [i \in 1..size |-> e[((i - 1 + first) % size) + 1]] =
        [i \in 1..size |-> e[(Place(i) % size) + 1]]
  BY <1>4
<1> QED
  BY <1>1, <1>2, <1>5

(* array_rotate_left and array_rotate_right undo each other and move every *)
(* element by the count, at every count of an int64: reducing it first is  *)
(* enough for the one that cannot be negated.                              *)
THEOREM RotationExact ==
  ASSUME NEW S, NEW e \in Seq(S), Len(e) <= maxReplacementParts,
         NEW n \in Int
  PROVE  RotateLaw(Arr(e), n)
<1>1. Arr(e)[2] = e /\ DOMAIN e = 1..Len(e) /\ Len(e) \in Nat
  BY Elements
<1>2. CASE Len(e) = 0
  <2>1. \A right : kqlArrayRotate(Arr(e), Num(n), right) = Arr(e)
    <3>1. Is("arr", Arr(e)) /\ Arr(e)[2] = e /\ Is("num", Num(n))
          /\ ~(Len(e) > maxReplacementParts)
      BY Elements
    <3> QED
      BY <1>2, <3>1 DEF kqlArrayRotate, OfArray
  <2> QED
    <3>1. ~(Len(e) > 0)
      BY <1>1, <1>2
    <3> QED
      BY <1>1, <2>1, <3>1, Zenon DEF RotateLaw
<1>3. CASE Len(e) > 0
  <2> DEFINE size == Len(e)
             left == [i \in 1..size |-> e[((i - 1 + n) % size) + 1]]
             right == [i \in 1..size |-> e[((i - 1 - n) % size) + 1]]
  <2>1. kqlArrayRotate(Arr(e), Num(n), FALSE) = Arr(left)
        /\ kqlArrayRotate(Arr(e), Num(n), TRUE) = Arr(right)
    BY <1>3, Rotated
  <2>2. size \in Nat \ {0}
    BY <1>3
  <2>3. left \in Seq(S) /\ Len(left) = size
    <3>1. \A i \in 1..size : ((i - 1 + n) % size) + 1 \in 1..size
      <4> SUFFICES ASSUME NEW i \in 1..size
                   PROVE  ((i - 1 + n) % size) + 1 \in 1..size
        OBVIOUS
      <4>1. i - 1 + n \in Int
        BY <2>2
      <4>2. (i - 1 + n) % size \in 0..size-1
        BY <2>2, <4>1, Division
      <4> QED
        BY <2>2, <4>2
    <3>2. left \in [1..size -> S]
      BY <3>1
    <3> HIDE DEF left
    <3> QED
      BY <3>2, <2>2
  <2>4. kqlArrayRotate(Arr(left), Num(n), TRUE) =
          Arr([i \in 1..size |-> left[((i - 1 - n) % size) + 1]])
    <3>1. PICK l \in Seq(S) : l = left
      BY <2>3
    <3>2. Len(l) = Len(e)
      BY <2>3, <3>1
    <3>3. kqlArrayRotate(Arr(l), Num(n), TRUE) =
            Arr([i \in 1..Len(l) |-> l[((i - 1 - n) % Len(l)) + 1]])
      BY <1>3, <3>2, Rotated
    <3> HIDE DEF left
    <3> QED
      BY <3>1, <3>2, <3>3
  <2>5. ASSUME NEW i \in 1..size
        PROVE  left[((i - 1 - n) % size) + 1] = e[i]
    <3>0. PICK m \in Nat \ {0} : m = size
      BY <2>2
    <3>1. PICK j \in 0..m-1 : j = i - 1
      BY <3>0
    <3>2. PICK d \in Int : d = j - n
      OBVIOUS
    <3>3. PICK r \in 0..m-1 : r = d % m
      BY Division
    <3>4. r + 1 \in 1..m /\ (r + 1) - 1 + n = n + r
      OBVIOUS
    <3>5. left[r + 1] = e[((n + r) % m) + 1]
      BY <3>0, <3>4
    <3>6. PICK x \in Int : x = n + r
      OBVIOUS
    <3>7. x % m = j % m
      <4>1. Reduced(m, n, d, x, j)
        BY <3>3, <3>2, <3>6 DEF Reduced
      <4>2. j \in Int
        OBVIOUS
      <4> QED
        BY <4>1, <4>2, RemainderOfSum
    <3>8. j % m = j
      BY SmallRemainder
    <3> HIDE DEF left
    <3>9. left[r + 1] = e[j + 1] /\ j + 1 = i
      BY <3>1, <3>5, <3>6, <3>7, <3>8
    <3> HIDE DEF left
    <3> QED
      BY <3>0, <3>1, <3>2, <3>3, <3>9
  <2>6. [i \in 1..size |-> left[((i - 1 - n) % size) + 1]] = e
    <3>1. e = [i \in 1..size |-> e[i]]
      BY <1>1
    <3> HIDE DEF left
    <3> QED
      BY <3>1, <2>5
  <2> QED
    BY <1>1, <2>1, <2>4, <2>6 DEF RotateLaw
<1> QED
  BY <1>1, <1>2, <1>3
-----------------------------------------------------------------------------
(* Bins                                                                    *)

(* The start of the bin of x, without a limit on integers.                 *)
BinStart(x, step, fixed) == x - ((x - fixed) % step)

LEMMA BinOf ==
  ASSUME NEW x \in Int, NEW step \in Nat \ {0}, NEW fixed \in Int
  PROVE  /\ BinStart(x, step, fixed) \in Int
         /\ x - BinStart(x, step, fixed) \in 0..step - 1
         /\ (BinStart(x, step, fixed) - fixed) % step = 0
         /\ kqlBinAt(Num(x), Num(step), Num(fixed)) =
              IntOrNULL(BinStart(x, step, fixed))
<1>1. PICK d \in Int : d = x - fixed
  OBVIOUS
<1>2. PICK r \in 0..step-1, q \in Int : r = d % step /\ q = d \div step
  BY Division
<1>3. d = q * step + r
  BY <1>2, Division
<1>4. PICK b \in Int, c \in Int : b = x - r /\ c = b - fixed
  OBVIOUS
<1>5. b = BinStart(x, step, fixed) /\ b = fixed + q * step
  <2>1. b = x - (d % step)
    BY <1>2, <1>4
  <2>2. b = BinStart(x, step, fixed)
    BY <1>1, <2>1 DEF BinStart
  <2> QED
    BY <1>1, <1>3, <1>4, <2>2
<1>6. c % step = 0
  <2>1. c = q * step + 0 /\ 0 \in 0..step-1
    BY <1>4, <1>5
  <2> QED
    BY <2>1, RemainderIs
<1>7. kqlBinAt(Num(x), Num(step), Num(fixed)) = IntOrNULL(b)
  <2>1. kqlBinAt(Num(x), Num(step), Num(fixed)) =
          IntOrNULL(fixed + ((x - fixed) \div step) * step)
    BY DEF kqlBinAt, Is, Num
  <2>2. (x - fixed) \div step = q
    BY <1>1, <1>2
  <2> QED
    BY <1>5, <2>1, <2>2
<1> QED
  BY <1>4, <1>5, <1>6, <1>7

(* bin() subtracts a remainder and bin_at() multiplies a quotient; at 0 the *)
(* two agree on every int64, also where the start of the bin is no int64    *)
(* and both are NULL; otherwise the bin holds its value and lies a multiple *)
(* of its size from where the bins start.                                   *)
THEOREM BinsExact ==
  ASSUME NEW x \in Int, IsInt64(x), NEW step \in Int, IsInt64(step),
         NEW fixed \in Int
  PROVE  BinLaw(x, step, fixed)
<1>1. CASE step <= 0
  <2>1. /\ kqlBinAt(Num(x), Num(step), Num(fixed)) = NULL
        /\ kqlBinAt(Num(x), Num(step), Num(0)) = NULL
        /\ kqlBin(Num(x), Num(step)) = NULL
    BY <1>1 DEF kqlBinAt, kqlBin, Is, Num
  <2> QED
    BY <1>1, <2>1, Zenon DEF BinLaw
<1>2. CASE step > 0
  <2>1. step \in Nat \ {0} /\ step <= MaxInt /\ MaxInt \in Nat
        /\ x \in MinInt..MaxInt /\ MinInt = -MaxInt - 1
    BY <1>2, LimitsAssumption DEF IsInt64, MinInt
  <2>2. PICK b \in Int : b = BinStart(x, step, fixed)
    BY <2>1, BinOf
  <2>3. PICK z \in Int : z = BinStart(x, step, 0)
    BY <2>1, BinOf
  <2>4. /\ x - b \in 0..step-1 /\ (b - fixed) % step = 0
        /\ kqlBinAt(Num(x), Num(step), Num(fixed)) = IntOrNULL(b)
    BY <2>1, <2>2, BinOf
  <2>5. /\ x - z \in 0..step-1
        /\ kqlBinAt(Num(x), Num(step), Num(0)) = IntOrNULL(z)
    BY <2>1, <2>3, BinOf
  <2>6. kqlBin(Num(x), Num(step)) = IntOrNULL(z)
    <3>1. PICK r \in 0..step-1 : r = x % step
      BY <2>1, Division
    <3>2. z = x - r
      BY <2>3, <3>1 DEF BinStart
    <3>3. kqlBin(Num(x), Num(step)) =
            IF x < Wrap(MinInt + r) THEN NULL ELSE Num(Wrap(x - r))
      BY <1>2, <3>1 DEF kqlBin, Is, Num
    <3>4. PICK low \in Int : low = MinInt + r
      BY <2>1
    <3>5. IsInt64(low) /\ Wrap(low) = low
      BY <2>1, <3>4, WrapFacts DEF IsInt64
    <3>6. IsInt64(z) => Wrap(z) = z
      BY WrapFacts
    <3>7. x < low <=> ~IsInt64(z)
      BY <2>1, <3>2, <3>4 DEF IsInt64
    <3> QED
      BY <3>2, <3>3, <3>4, <3>5, <3>6, <3>7 DEF IntOrNULL
  <2>7. (IntOrNULL(b) = NULL) = (b < MinInt)
    <3>1. IsInt64(b) <=> ~(b < MinInt)
      BY <2>1, <2>4 DEF IsInt64
    <3>2. Num(b) # NULL
      BY DEF Num, NULL
    <3> QED
      BY <3>1, <3>2 DEF IntOrNULL
  <2>8. IntOrNULL(b) # NULL => IntOrNULL(b)[2] = b
    BY DEF IntOrNULL, Num
  <2>9. x - ((x - fixed) % step) = b
    BY <2>2 DEF BinStart
  <2> QED
    <3> SUFFICES /\ (IntOrNULL(b) = NULL) = (step <= 0 \/ b < MinInt)
                 /\ IntOrNULL(b) # NULL =>
                      /\ x - IntOrNULL(b)[2] \in 0..step - 1
                      /\ (IntOrNULL(b)[2] - fixed) % step = 0
      BY <2>4, <2>5, <2>6, <2>9, Zenon DEF BinLaw
    <3> QED
      BY <1>2, <2>1, <2>4, <2>7, <2>8
<1> QED
  BY <1>1, <1>2

-----------------------------------------------------------------------------
(* Shifting                                                                *)

(* Element i comes from the place that the count c, in range, names.        *)
Lands(i, c, n, right, size) ==
  LET count == IF right THEN Wrap(-c) ELSE c
      to == IF right THEN i - n ELSE i + n
  IN  /\ Wrap(i + count) \in 1..size <=> to \in 1..size
      /\ to \in 1..size => Wrap(i + count) = to

LEMMA Clamped ==
  ASSUME NEW size \in 1..MaxInt, NEW n \in Int, IsInt64(n),
         NEW right \in BOOLEAN, NEW i \in 1..size,
         NEW c \in Int, c = Max({-size, Min({size, n})})
  PROVE  Lands(i, c, n, right, size)
<1>0. MaxInt \in Nat /\ MinInt = -MaxInt - 1 /\ n \in MinInt..MaxInt
      /\ size \in Int /\ i \in Int
  BY LimitsAssumption DEF MinInt, IsInt64
<1>1. c = IF n > size THEN size ELSE IF n < -size THEN -size ELSE n
  <2>1. PICK low \in Int : low = -size
    BY <1>0
  <2>2. Min({size, n}) = IF size <= n THEN size ELSE n
    BY <1>0, TwoNumbers
  <2>3. PICK k \in Int : k = Min({size, n})
    BY <1>0, <2>2
  <2>4. c = IF low >= k THEN low ELSE k
    BY <2>1, <2>3, TwoNumbers
  <2> QED
    BY <1>0, <2>1, <2>2, <2>3, <2>4
<1>2. PICK count \in Int : count = IF right THEN -c ELSE c
  OBVIOUS
<1>3. (IF right THEN Wrap(-c) ELSE c) = count
  <2>1. PICK d \in Int : d = -c
    OBVIOUS
  <2>2. IsInt64(d)
    BY <1>0, <1>1, <2>1 DEF IsInt64
  <2>3. Wrap(d) = d
    BY <2>2, WrapFacts
  <2> QED
    BY <1>2, <2>1, <2>3
<1>4. PICK to \in Int : to = IF right THEN i - n ELSE i + n
  <2>1. i - n \in Int /\ i + n \in Int
    BY <1>0
  <2> QED
    BY <2>1
<1>5. PICK j \in Int : j = i + count
  BY <1>0
<1>6. j \in -MaxInt .. 2 * MaxInt /\ (j \in 1..size <=> to \in 1..size)
      /\ (to \in 1..size => j = to)
  BY <1>0, <1>1, <1>2, <1>4, <1>5
<1>7. j <= MaxInt => Wrap(j) = j
  BY <1>0, <1>6, WrapFacts DEF IsInt64
<1>8. j > MaxInt => Wrap(j) = j - 2 * (MaxInt + 1)
  <2>1. j > MaxInt => j \in MaxInt + 1 .. 2 * MaxInt + 1
    BY <1>0, <1>6
  <2> QED
    BY <2>1, WrapFacts
<1>9. /\ Wrap(j) \in 1..size <=> to \in 1..size
      /\ to \in 1..size => Wrap(j) = to
  BY <1>0, <1>6, <1>7, <1>8
<1> QED
  BY <1>3, <1>4, <1>5, <1>9 DEF Lands

ShiftedTo(e, n, padding, paddingKind, right) ==
  Arr([i \in 1..Len(e) |->
         LET to == IF right THEN i - n ELSE i + n
         IN  IF to \in 1..Len(e) THEN e[to]
             ELSE packJSONValue(padding, paddingKind)])

LEMMA ShiftedBy ==
  ASSUME NEW S, NEW e \in Seq(S), Len(e) <= maxReplacementParts,
         NEW n \in Int, IsInt64(n), NEW padding, NEW paddingKind,
         paddingKind # "__array_default", NEW right \in BOOLEAN
  PROVE  kqlArrayShift(Arr(e), Num(n), padding, paddingKind, right) =
           ShiftedTo(e, n, padding, paddingKind, right)
<1> DEFINE size == Len(e)
           clamped == Max({-size, Min({size, n})})
           count == IF right THEN Wrap(-clamped) ELSE clamped
           fill == packJSONValue(padding, paddingKind)
           At(i) == IF i \in 1..size THEN e[i] ELSE fill
           to(i) == IF right THEN i - n ELSE i + n
<1>1. /\ Is("arr", Arr(e)) /\ Arr(e)[2] = e /\ Is("num", Num(n))
      /\ Num(n)[2] = n /\ ~(Len(e) > maxReplacementParts)
      /\ size \in Nat /\ size \in Int /\ size <= MaxInt /\ DOMAIN e = 1..size
  BY Elements
<1>2. CASE size = 0
  <2>1. kqlArrayShift(Arr(e), Num(n), padding, paddingKind, right) = Arr(e)
    BY <1>1, <1>2 DEF kqlArrayShift, OfArray
  <2>2. e = [i \in 1..size |-> IF to(i) \in 1..size THEN e[to(i)] ELSE fill]
    <3>1. \A i \in 1..size : FALSE
      BY <1>2
    <3>2. e = [i \in 1..size |-> e[i]]
      BY <1>1
    <3> QED
      BY <3>1, <3>2
  <2> QED
    BY <2>1, <2>2 DEF ShiftedTo
<1>3. CASE size # 0
  <2>1. kqlArrayShift(Arr(e), Num(n), padding, paddingKind, right) =
          Arr([i \in 1..size |-> At(Wrap(i + count))])
    BY <1>1, <1>3 DEF kqlArrayShift, OfArray
  <2>2. ASSUME NEW i \in 1..size
        PROVE  At(Wrap(i + count)) =
                 IF to(i) \in 1..size THEN e[to(i)] ELSE fill
    <3>1. size \in 1..MaxInt
      BY <1>1, <1>3, LimitsAssumption
    <3>2. PICK c \in Int : c = clamped
      <4>1. PICK low \in Int : low = -size
        BY <1>1
      <4>2. PICK k \in Int : k = Min({size, n})
        <5>1. Min({size, n}) \in Int
          BY <1>1, TwoNumbers
        <5> QED
          BY <5>1
      <4>3. Max({low, k}) \in Int
        BY TwoNumbers
      <4> QED
        BY <4>1, <4>2, <4>3
    <3>3. /\ Wrap(i + count) \in 1..size <=> to(i) \in 1..size
          /\ to(i) \in 1..size => Wrap(i + count) = to(i)
      <4>1. PICK l \in 1..MaxInt : l = size
        BY <3>1
      <4>2. i \in 1..l /\ c = Max({-l, Min({l, n})})
        BY <3>2, <4>1
      <4>3. Lands(i, c, n, right, l)
        BY <4>2, Clamped
      <4> QED
        BY <3>2, <4>1, <4>3 DEF Lands
    <3> HIDE DEF count, to, fill, size
    <3> QED
      BY <3>3
  <2>3. [i \in 1..size |-> At(Wrap(i + count))] =
          [i \in 1..size |-> IF to(i) \in 1..size THEN e[to(i)] ELSE fill]
    <3> HIDE DEF count, to, fill, size, At
    <3> QED
      BY <2>2
  <2> QED
    BY <2>1, <2>3 DEF ShiftedTo
<1> QED
  BY <1>2, <1>3

(* array_shift_left and array_shift_right move every element by the count   *)
(* and pad what has none, at every count of an int64: clamping the count to *)
(* the length first is enough, and what an index wraps around to is outside *)
(* the array.                                                               *)
THEOREM ShiftExact ==
  ASSUME NEW S, NEW e \in Seq(S), Len(e) <= maxReplacementParts,
         NEW n \in Int, IsInt64(n), NEW padding, NEW paddingKind,
         paddingKind # "__array_default"
  PROVE  ShiftLaw(Arr(e), n, padding, paddingKind)
<1>1. Arr(e)[2] = e /\ DOMAIN e = 1..Len(e)
  BY Elements
<1> DEFINE fill == packJSONValue(padding, paddingKind)
<1>2. kqlArrayShift(Arr(e), Num(n), padding, paddingKind, FALSE) =
        Arr([i \in 1..Len(e) |->
               IF i + n \in 1..Len(e) THEN e[i + n] ELSE fill])
  <2>1. kqlArrayShift(Arr(e), Num(n), padding, paddingKind, FALSE) =
          ShiftedTo(e, n, padding, paddingKind, FALSE)
    BY ShiftedBy
  <2> QED
    BY <2>1 DEF ShiftedTo
<1>3. kqlArrayShift(Arr(e), Num(n), padding, paddingKind, TRUE) =
        Arr([i \in 1..Len(e) |->
               IF i - n \in 1..Len(e) THEN e[i - n] ELSE fill])
  <2>1. kqlArrayShift(Arr(e), Num(n), padding, paddingKind, TRUE) =
          ShiftedTo(e, n, padding, paddingKind, TRUE)
    BY ShiftedBy
  <2> QED
    BY <2>1 DEF ShiftedTo
<1> QED
  BY <1>1, <1>2, <1>3 DEF ShiftLaw

-----------------------------------------------------------------------------
(* Slicing                                                                 *)

LEMMA SliceOf ==
  ASSUME NEW S, NEW e \in Seq(S), Len(e) <= maxReplacementParts,
         NEW n \in Int, IsInt64(n), NEW m \in Int, IsInt64(m),
         NEW a \in Int, a = (IF n < 0 THEN n + Len(e) ELSE n),
         NEW b \in Int, b = (IF m < 0 THEN m + Len(e) ELSE m)
  PROVE  kqlArraySlice(Arr(e), Num(n), Num(m)) =
           Arr(SubSeq(e, (IF 0 >= a THEN 0 ELSE a) + 1,
                         (IF b <= Len(e) - 1 THEN b ELSE Len(e) - 1) + 1))
<1>1. /\ Is("arr", Arr(e)) /\ Arr(e)[2] = e /\ ~(Len(e) > maxReplacementParts)
      /\ Is("num", Num(n)) /\ Num(n)[2] = n /\ Is("num", Num(m))
      /\ Num(m)[2] = m /\ Len(e) \in Nat /\ Len(e) <= MaxInt
  BY Elements
<1>2. MaxInt \in Nat /\ MinInt = -MaxInt - 1
  BY LimitsAssumption DEF MinInt
<1>3. (IF n < 0 THEN Wrap(n + Len(e)) ELSE n) = a
  <2>1. IsInt64(a) => Wrap(a) = a
    BY WrapFacts
  <2>2. n < 0 => IsInt64(a)
    BY <1>1, <1>2 DEF IsInt64
  <2> QED
    BY <2>1, <2>2
<1>4. (IF m < 0 THEN Wrap(m + Len(e)) ELSE m) = b
  <2>1. IsInt64(b) => Wrap(b) = b
    BY WrapFacts
  <2>2. m < 0 => IsInt64(b)
    BY <1>1, <1>2 DEF IsInt64
  <2> QED
    BY <2>1, <2>2
<1>5. kqlArraySlice(Arr(e), Num(n), Num(m)) =
        Arr(SubSeq(e, Max({0, a}) + 1, Min({b, Len(e) - 1}) + 1))
  BY <1>1, <1>3, <1>4 DEF kqlArraySlice, OfArray
<1>6. Max({0, a}) = (IF 0 >= a THEN 0 ELSE a)
  BY TwoNumbers
<1>7. Min({b, Len(e) - 1}) = (IF b <= Len(e) - 1 THEN b ELSE Len(e) - 1)
  <2>1. PICK k \in Int : k = Len(e) - 1
    BY <1>1
  <2> QED
    BY <2>1, TwoNumbers
<1> QED
  BY <1>5, <1>6, <1>7

(* array_slice keeps the elements from one place to the other, counted from *)
(* either end, in their order, whatever two int64 values say.               *)
THEOREM SliceExact ==
  ASSUME NEW S, NEW e \in Seq(S), Len(e) <= maxReplacementParts,
         NEW n \in Int, IsInt64(n), NEW m \in Int, IsInt64(m)
  PROVE  SliceLaw(Arr(e), n, m)
<1>b. Arr(e)[2] = e
  BY Elements
<1>c. DOMAIN e = 1..Len(e)
  OBVIOUS
<1>0. Len(e) \in Nat
  OBVIOUS
<1>1. PICK a \in Int, b \in Int : /\ a = (IF n < 0 THEN n + Len(e) ELSE n)
                                 /\ b = (IF m < 0 THEN m + Len(e) ELSE m)
  BY <1>0
<1>2. PICK p \in Int, q \in Int :
        /\ p = (IF 0 >= a THEN 0 ELSE a)
        /\ q = (IF b <= Len(e) - 1 THEN b ELSE Len(e) - 1)
  <2>1. PICK l \in Int : l = Len(e) - 1
    BY <1>0
  <2>2. PICK p \in Int : p = (IF 0 >= a THEN 0 ELSE a)
    OBVIOUS
  <2>3. PICK q \in Int : q = (IF b <= l THEN b ELSE l)
    OBVIOUS
  <2> QED
    BY <2>1, <2>2, <2>3
<1>3. PICK s \in Int, t \in Int : s = p + 1 /\ t = q + 1
  OBVIOUS
<1>a. s >= 1 /\ t <= Len(e) /\ (a <= p) /\ (p >= 0) /\ (p = 0 \/ p = a)
      /\ q <= b /\ q <= Len(e) - 1 /\ (q = b \/ q = Len(e) - 1)
  BY <1>0, <1>2, <1>3
<1> DEFINE kept == {i \in DOMAIN e : i - 1 \in a..b}
           slice == SubSeq(e, s, t)
<1>4. kqlArraySlice(Arr(e), Num(n), Num(m))[2] = slice
  <2>1. kqlArraySlice(Arr(e), Num(n), Num(m)) = Arr(slice)
    <3>1. kqlArraySlice(Arr(e), Num(n), Num(m)) = Arr(SubSeq(e, p + 1, q + 1))
      BY <1>1, <1>2, SliceOf
    <3> QED
      BY <1>3, <3>1
  <2> HIDE DEF slice
  <2> QED
    BY <2>1 DEF Arr
<1>5. kept = s..t
  <2>1. PICK l \in Nat : l = Len(e)
    BY <1>0
  <2>2. ASSUME NEW i \in Int
        PROVE  i \in 1..l /\ i - 1 \in a..b <=> i \in s..t
    BY <1>3, <1>a, <2>1
  <2>3. kept = {i \in 1..l : i - 1 \in a..b}
    BY <1>c, <2>1
  <2>4. 1..l \subseteq Int /\ s..t \subseteq Int
    OBVIOUS
  <2> HIDE DEF kept
  <2> QED
    BY <2>2, <2>3, <2>4
<1>6. /\ Len(slice) = IF s <= t THEN t - s + 1 ELSE 0
      /\ \A i \in 1 .. t - s + 1 : slice[i] = e[s + i - 1]
  <2>1. \A i \in s..t : e[i] \in S
    BY <1>0, <1>a
  <2> QED
    BY <2>1, SubSeqProperties
<1>7. Len(slice) = Cardinality(kept)
  <2>1. Cardinality(s..t) = IF s > t THEN 0 ELSE t - s + 1
    BY FS_Interval
  <2> HIDE DEF slice, kept
  <2> QED
    BY <1>5, <1>6, <2>1
<1>8. ASSUME NEW i \in kept
      PROVE  slice[Cardinality({j \in kept : j <= i})] = e[i]
  <2>1. i \in s..t
    BY <1>5
  <2>2. {j \in kept : j <= i} = s..i
    BY <1>5, <2>1
  <2>3. Cardinality(s..i) = i - s + 1
    BY <2>1, FS_Interval
  <2>4. PICK k \in Int : k = i - s + 1
    BY <2>1
  <2>5. k \in 1 .. t - s + 1 /\ s + k - 1 = i
    BY <2>1, <2>4
  <2> HIDE DEF slice, kept
  <2>6. slice[k] = e[i]
    BY <1>6, <2>5
  <2> QED
    BY <2>2, <2>3, <2>4, <2>6
<1>9. {i \in DOMAIN e : i - 1 \in (IF n < 0 THEN n + Len(e) ELSE n)
                                  ..(IF m < 0 THEN m + Len(e) ELSE m)} = kept
  BY <1>1
<1> HIDE DEF slice, kept
<1> QED
  BY <1>b, <1>4, <1>7, <1>8, <1>9 DEF SliceLaw

-----------------------------------------------------------------------------
(* Sketches of distinct values                                             *)

(* The register of a hash, and the place of the first bit set behind it as *)
(* addRegister computes it.                                                *)
Place(p, x) == x \div 2 ^ (HashBits - p) + 1

Rank(p, x) ==
  LET rest == (x * 2 ^ p) % 2 ^ HashBits
      guard == 2 ^ (p - 1)
      guarded == IF (rest \div guard) % 2 = 1 THEN rest ELSE rest + guard
  IN  LeadingZeros(guarded) + 1

(* The sketch of a set of hashes, however they were added.                 *)
RanksAt(p, T, i) == {Rank(p, x) : x \in {y \in T : Place(p, y) = i}}

RegistersOf(p, T) == [i \in 1..2 ^ p |-> Max({0} \cup RanksAt(p, T, i))]

SketchOf(p, T) ==
  IF Cardinality(T) > maxHLLSparseHashes
  THEN [p |-> p, sparse |-> {}, registers |-> RegistersOf(p, T)]
  ELSE [p |-> p, sparse |-> T, registers |-> <<>>]

LEMMA LeastNatural ==
  ASSUME NEW S, S \subseteq Nat, S # {}
  PROVE  \E k \in S : \A j \in S : k <= j
<1>1. PICK k \in S : \A j \in S : ~(<<j, k>> \in OpToRel(<, Nat))
  BY NatLessThanWellFounded, WFMin
<1>2. \A j \in S : ~(j < k)
  BY <1>1 DEF OpToRel
<1> QED BY <1>2

LEMMA GreatestNatural ==
  ASSUME NEW n \in Nat, NEW S, S \subseteq 0..n, S # {}
  PROVE  Max(S) \in S /\ \A j \in S : Max(S) >= j
<1> DEFINE D == {d \in 0..n : n - d \in S}
<1>1. PICK d \in D : \A e \in D : d <= e
  <2>1. PICK k \in S : TRUE
    OBVIOUS
  <2>2. n - k \in D
    BY <2>1
  <2>3. D \subseteq Nat
    BY DEF D
  <2>4. D # {}
    BY <2>2
  <2> HIDE DEF D
  <2> QED
    BY <2>3, <2>4, LeastNatural
<1>2. n - d \in S /\ \A j \in S : n - d >= j
  <2>1. \A j \in S : n - j \in D
    OBVIOUS
  <2> QED
    BY <1>1, <2>1
<1>3. \E k \in S : \A j \in S : k >= j
  BY <1>2
<1> QED
  BY <1>3 DEF Max

LEMMA MaxIs ==
  ASSUME NEW S, S \subseteq Nat, NEW k \in S, \A j \in S : k >= j
  PROVE  Max(S) = k
<1>1. Max(S) \in S /\ \A j \in S : Max(S) >= j
  <2>1. \E m \in S : \A j \in S : m >= j
    OBVIOUS
  <2> QED
    BY <2>1 DEF Max
<1>2. PICK m \in Nat : m = Max(S)
  BY <1>1
<1>3. k \in Nat /\ m >= k /\ k >= m
  BY <1>1, <1>2
<1> QED
  BY <1>2, <1>3

LEMMA RankBounded ==
  ASSUME NEW p, NEW x
  PROVE  Rank(p, x) \in 0..HashBits + 1
<1>1. ASSUME NEW n PROVE LeadingZeros(n) \in 0..HashBits
  <2> DEFINE Z == {HashBits} \cup
                    {k \in 0..HashBits - 1 : n >= 2 ^ (HashBits - 1 - k)}
  <2>1. Z \subseteq 0..HashBits /\ HashBits \in Z
    BY SketchAssumption
  <2> HIDE DEF Z
  <2>2. \E k \in Z : \A j \in Z : k <= j
    <3>1. Z \subseteq Nat /\ Z # {}
      BY <2>1, SketchAssumption
    <3> QED
      BY <3>1, LeastNatural
  <2>3. Min(Z) \in Z
    BY <2>2 DEF Min
  <2>4. LeadingZeros(n) = Min(Z)
    BY DEF LeadingZeros, Z
  <2> QED
    BY <2>1, <2>3, <2>4
<1> QED
  BY <1>1, SketchAssumption DEF Rank

LEMMA RanksBounded ==
  ASSUME NEW p, NEW T, NEW i
  PROVE  {0} \cup RanksAt(p, T, i) \subseteq 0..HashBits + 1
BY RankBounded, SketchAssumption DEF RanksAt

(* The greatest of two sets of ranks.                                      *)
LEMMA MaxOfUnion ==
  ASSUME NEW A, NEW B, NEW n \in Nat, A \subseteq 0..n, B \subseteq 0..n,
         A # {}, B # {}
  PROVE  Max(A \cup B) = Max({Max(A), Max(B)})
<1>1. Max(A) \in A /\ \A j \in A : Max(A) >= j
  BY GreatestNatural
<1>2. Max(B) \in B /\ \A j \in B : Max(B) >= j
  BY GreatestNatural
<1>0. \A j \in A \cup B : j \in Nat
  OBVIOUS
<1>3. PICK a \in Nat, b \in Nat : a = Max(A) /\ b = Max(B)
  <2>1. Max(A) \in Nat /\ Max(B) \in Nat
    BY <1>0, <1>1, <1>2
  <2> QED
    BY <2>1
<1>6. A \cup B \subseteq Nat
  BY <1>0
<1>4. CASE a >= b
  <2>1. a \in A \cup B /\ \A j \in A \cup B : a >= j
    BY <1>0, <1>1, <1>2, <1>3, <1>4
  <2>2. Max(A \cup B) = a
    BY <1>6, <2>1, MaxIs
  <2> QED
    BY <1>3, <1>4, <2>2, TwoNumbers
<1>5. CASE ~(a >= b)
  <2>1. b \in A \cup B /\ \A j \in A \cup B : b >= j
    BY <1>0, <1>1, <1>2, <1>3, <1>5
  <2>2. Max(A \cup B) = b
    BY <1>6, <2>1, MaxIs
  <2> QED
    BY <1>3, <1>5, <2>2, TwoNumbers
<1> QED
  BY <1>4, <1>5

LEMMA RegistersMeet ==
  ASSUME NEW p, NEW S, NEW T, NEW i \in 1..2 ^ p
  PROVE  RegistersOf(p, S \cup T)[i] =
           Max({RegistersOf(p, S)[i], RegistersOf(p, T)[i]})
<1> DEFINE A == {0} \cup RanksAt(p, S, i)
           B == {0} \cup RanksAt(p, T, i)
<1>1. PICK n \in Nat : A \subseteq 0..n /\ B \subseteq 0..n
  BY RanksBounded, SketchAssumption, HashBits + 1 \in Nat
<1>2. {0} \cup RanksAt(p, S \cup T, i) = A \cup B
  BY DEF RanksAt
<1>3. Max(A \cup B) = Max({Max(A), Max(B)})
  <2>1. A # {} /\ B # {}
    OBVIOUS
  <2> HIDE DEF A, B
  <2> QED
    BY <1>1, <2>1, MaxOfUnion
<1> QED
  BY <1>2, <1>3 DEF RegistersOf

LEMMA AddRegister ==
  ASSUME NEW p, NEW T, NEW x
  PROVE  addRegister(RegistersOf(p, T), p, x) = RegistersOf(p, T \cup {x})
<1> DEFINE R == RegistersOf(p, T)
           I == Place(p, x)
<1>1. addRegister(R, p, x) = [R EXCEPT ![I] = Max({@, Rank(p, x)})]
  BY DEF addRegister, Place, Rank
<1>2. ASSUME NEW i \in 1..2 ^ p
      PROVE  [R EXCEPT ![I] = Max({@, Rank(p, x)})][i] =
               RegistersOf(p, T \cup {x})[i]
  <2>1. CASE i # I
    <3>1. RanksAt(p, T \cup {x}, i) = RanksAt(p, T, i)
      BY <2>1 DEF RanksAt
    <3> QED
      BY <2>1, <3>1 DEF RegistersOf
  <2>2. CASE i = I
    <3> DEFINE A == {0} \cup RanksAt(p, T, i)
    <3>1. {0} \cup RanksAt(p, T \cup {x}, i) = A \cup {Rank(p, x)}
      BY <2>2 DEF RanksAt
    <3>2. A \subseteq 0..HashBits + 1 /\ {Rank(p, x)} \subseteq 0..HashBits + 1
      BY RanksBounded, RankBounded
    <3>3. Max(A \cup {Rank(p, x)}) = Max({Max(A), Max({Rank(p, x)})})
      BY <3>2, MaxOfUnion, SketchAssumption
    <3>4. Max({Rank(p, x)}) = Rank(p, x)
      BY <3>2, MaxIs
    <3>5. R[i] = Max(A) /\ RegistersOf(p, T \cup {x})[i] = Max(A \cup {Rank(p, x)})
      BY <3>1 DEF RegistersOf
    <3>6. [R EXCEPT ![I] = Max({@, Rank(p, x)})][i] = Max({R[i], Rank(p, x)})
      BY <2>2 DEF RegistersOf
    <3> QED
      BY <3>3, <3>4, <3>5, <3>6
  <2> QED
    BY <2>1, <2>2
<1> QED
  BY <1>1, <1>2 DEF RegistersOf

(* Two functions that are equal on a set if they are on it without one of  *)
(* its elements, which a fold takes first, are equal.                      *)
LEMMA OneFold ==
  ASSUME NEW S, IsFiniteSet(S), NEW g, NEW h, g[{}] = h[{}],
         \A s \in SUBSET S : s # {} =>
           \E x \in s : g[s \ {x}] = h[s \ {x}] => g[s] = h[s]
  PROVE  g[S] = h[S]
<1> DEFINE Wrong == {s \in SUBSET S : g[s] # h[s]}
           Sizes == {Cardinality(s) : s \in Wrong}
<1> SUFFICES ASSUME g[S] # h[S] PROVE FALSE
  OBVIOUS
<1>1. \A s \in SUBSET S : IsFiniteSet(s) /\ Cardinality(s) \in Nat
  BY FS_Subset, FS_CardinalityType
<1>2. Sizes \subseteq Nat /\ Sizes # {}
  BY <1>1
<1>3. PICK s \in Wrong : \A t \in Wrong : Cardinality(s) <= Cardinality(t)
  <2>1. PICK n \in Sizes : \A m \in Sizes : n <= m
    BY <1>2, LeastNatural
  <2>2. PICK s \in Wrong : n = Cardinality(s)
    BY <2>1
  <2>3. \A t \in Wrong : Cardinality(t) \in Sizes
    OBVIOUS
  <2> QED
    BY <2>1, <2>2, <2>3
<1>4. PICK x \in s : g[s \ {x}] = h[s \ {x}] => g[s] = h[s]
  BY <1>3
<1>5. s \ {x} \in Wrong
  BY <1>3, <1>4
<1>6. Cardinality(s \ {x}) = Cardinality(s) - 1
  BY <1>1, <1>4, FS_RemoveElement
<1> QED
  BY <1>1, <1>3, <1>5, <1>6

(* The fold of densify: its rounds have one solution, that of the sets.    *)
LEMMA Densified ==
  ASSUME NEW p, NEW T, IsFiniteSet(T)
  PROVE  FoldSet(LAMBDA x, r : addRegister(r, p, x), [i \in 1..2 ^ p |-> 0], T)
           = RegistersOf(p, T)
<1> DEFINE zero == [i \in 1..2 ^ p |-> 0]
           pick(s) == CHOOSE x \in s : TRUE
           Round(f) == [s \in SUBSET T |->
                         IF s = {} THEN zero
                         ELSE addRegister(f[s \ {pick(s)}], p, pick(s))]
           fold == CHOOSE f : f = Round(f)
           regs == [s \in SUBSET T |-> RegistersOf(p, s)]
<1>1. RegistersOf(p, {}) = zero
  <2>1. \A i : {0} \cup RanksAt(p, {}, i) = {0}
    BY DEF RanksAt
  <2>2. Max({0}) = 0
    BY MaxIs
  <2> QED
    BY <2>1, <2>2 DEF RegistersOf
<1>2. \A s \in SUBSET T : s # {} => pick(s) \in s
  OBVIOUS
<1>3. regs = Round(regs)
  <2>1. ASSUME NEW s \in SUBSET T, s # {}
        PROVE  regs[s] = addRegister(regs[s \ {pick(s)}], p, pick(s))
    <3>1. (s \ {pick(s)}) \cup {pick(s)} = s /\ s \ {pick(s)} \in SUBSET T
      BY <2>1, <1>2
    <3> HIDE DEF pick
    <3>2. regs[s \ {pick(s)}] = RegistersOf(p, s \ {pick(s)})
      BY <3>1
    <3> QED
      BY <3>1, <3>2, AddRegister
  <2>2. regs[{}] = zero
    BY <1>1
  <2> HIDE DEF pick, zero
  <2> QED
    BY <2>1, <2>2
<1>4. fold = Round(fold)
  BY <1>3
<1>5. fold[T] = regs[T]
  <2>1. fold[{}] = regs[{}]
    BY <1>1, <1>4
  <2>2. ASSUME NEW s \in SUBSET T, s # {},
               fold[s \ {pick(s)}] = regs[s \ {pick(s)}]
        PROVE  fold[s] = regs[s]
    <3> HIDE DEF pick, zero, fold, regs
    <3> QED
      BY <1>3, <1>4, <2>2
  <2> HIDE DEF zero, Round, fold, regs, pick
  <2>3. ASSUME NEW s \in SUBSET T, s # {}
        PROVE  \E x \in s : fold[s \ {x}] = regs[s \ {x}] => fold[s] = regs[s]
    BY <1>2, <2>2, <2>3
  <2> QED
    BY <2>1, <2>3, OneFold
<1>6. FoldSet(LAMBDA x, r : addRegister(r, p, x), zero, T) = fold[T]
  BY DEF FoldSet, MapThenFoldSet
<1> QED
  BY <1>5, <1>6

LEMMA SizeGrows ==
  ASSUME NEW T, IsFiniteSet(T), NEW S \in SUBSET T,
         Cardinality(S) > maxHLLSparseHashes
  PROVE  Cardinality(T) > maxHLLSparseHashes
BY FS_Subset, FS_CardinalityType, SketchAssumption

LEMMA DensifyIs ==
  ASSUME NEW p, NEW T, IsFiniteSet(T), NEW h,
         h = [p |-> p, sparse |-> T, registers |-> <<>>]
  PROVE  densify(h) =
           [p |-> p, sparse |-> {}, registers |-> RegistersOf(p, T)]
<1>1. h.p = p /\ h.sparse = T
  OBVIOUS
<1>2. densify(h) =
        [h EXCEPT !.sparse = {}, !.registers = RegistersOf(p, T)]
  BY <1>1, Densified DEF densify
<1> QED
  BY <1>2

LEMMA SparseAdded ==
  ASSUME NEW p, NEW T, NEW x, NEW h,
         h = [p |-> p, sparse |-> T, registers |-> <<>>]
  PROVE  [h EXCEPT !.sparse = @ \cup {x}] =
           [p |-> p, sparse |-> T \cup {x}, registers |-> <<>>]
<1>1. PICK U : U = T \cup {x}
  OBVIOUS
<1>2. h.sparse \cup {x} = U
  BY <1>1
<1>3. [h EXCEPT !.sparse = U] = [p |-> p, sparse |-> U, registers |-> <<>>]
  OBVIOUS
<1> QED
  BY <1>1, <1>2, <1>3

LEMMA AddHash ==
  ASSUME NEW p, 2 ^ p \in Nat \ {0}, NEW T, IsFiniteSet(T), NEW x
  PROVE  addHash(SketchOf(p, T), x) = SketchOf(p, T \cup {x})
<1> DEFINE h == SketchOf(p, T)
           large == Cardinality(T) > maxHLLSparseHashes
<1>0. RegistersOf(p, T) # <<>>
  <2>1. 1 \in DOMAIN RegistersOf(p, T)
    BY DEF RegistersOf
  <2> QED
    BY <2>1
<1>1. CASE large
  <2>1. h = [p |-> p, sparse |-> {}, registers |-> RegistersOf(p, T)]
    BY <1>1 DEF SketchOf
  <2>2. h.registers # <<>> /\ h.registers = RegistersOf(p, T) /\ h.p = p
    BY <2>1, <1>0
  <2>3. addHash(h, x) =
          [h EXCEPT !.registers = RegistersOf(p, T \cup {x})]
    BY <2>2, AddRegister DEF addHash
  <2>4. Cardinality(T \cup {x}) > maxHLLSparseHashes
    BY <1>1, SizeGrows, FS_AddElement
  <2>5. SketchOf(p, T \cup {x}) =
         [p |-> p, sparse |-> {}, registers |-> RegistersOf(p, T \cup {x})]
    BY <2>4 DEF SketchOf
  <2> QED
    BY <2>1, <2>3, <2>5
<1>2. CASE ~large
  <2> DEFINE added == [p |-> p, sparse |-> T \cup {x}, registers |-> <<>>]
  <2>1. h = [p |-> p, sparse |-> T, registers |-> <<>>]
    BY <1>2 DEF SketchOf
  <2>2. h.registers = <<>>
    BY <2>1
  <2>5. [h EXCEPT !.sparse = @ \cup {x}] = added
    <3> HIDE DEF h
    <3> QED
      BY <2>1, SparseAdded
  <2>3. addHash(h, x) = IF Cardinality(T \cup {x}) > maxHLLSparseHashes
                        THEN densify(added) ELSE added
    <3> DEFINE a == [h EXCEPT !.sparse = @ \cup {x}]
    <3>1. addHash(h, x) = IF Cardinality(a.sparse) > maxHLLSparseHashes
                          THEN densify(a) ELSE a
      <4> HIDE DEF h, added
      <4> QED
        BY <2>2 DEF addHash
    <3>2. a = added /\ a.sparse = T \cup {x}
      BY <2>5
    <3> HIDE DEF a, added
    <3> QED
      BY <3>1, <3>2
  <2>4. densify(added) = [p |-> p, sparse |-> {},
                          registers |-> RegistersOf(p, T \cup {x})]
    BY FS_AddElement, DensifyIs
  <2> QED
    BY <2>3, <2>4 DEF SketchOf
<1> QED
  BY <1>1, <1>2

(* A fold of addHash over a set.                                           *)
LEMMA HashesAdded ==
  ASSUME NEW p, 2 ^ p \in Nat \ {0}, NEW S, IsFiniteSet(S),
         NEW T, IsFiniteSet(T)
  PROVE  FoldSet(LAMBDA x, t : addHash(t, x), SketchOf(p, S), T)
           = SketchOf(p, S \cup T)
<1> DEFINE start == SketchOf(p, S)
           pick(s) == CHOOSE x \in s : TRUE
           Round(f) == [s \in SUBSET T |->
                         IF s = {} THEN start
                         ELSE addHash(f[s \ {pick(s)}], pick(s))]
           fold == CHOOSE f : f = Round(f)
           sketch == [s \in SUBSET T |-> SketchOf(p, S \cup s)]
<1>2. \A s \in SUBSET T : s # {} => pick(s) \in s
  OBVIOUS
<1>3. sketch = Round(sketch)
  <2>1. ASSUME NEW s \in SUBSET T, s # {}
        PROVE  sketch[s] = addHash(sketch[s \ {pick(s)}], pick(s))
    <3> DEFINE r == S \cup (s \ {pick(s)})
    <3>1. /\ r \cup {pick(s)} = S \cup s
          /\ s \ {pick(s)} \in SUBSET T
      BY <2>1, <1>2
    <3>2. IsFiniteSet(r)
      BY <3>1, FS_Subset, FS_Union
    <3> HIDE DEF pick
    <3>3. sketch[s \ {pick(s)}] = SketchOf(p, r)
      BY <3>1
    <3> HIDE DEF r
    <3> QED
      BY <3>1, <3>2, <3>3, AddHash
  <2>2. sketch[{}] = start
    <3>1. S \cup {} = S
      OBVIOUS
    <3> QED
      BY <3>1
  <2> HIDE DEF pick, start
  <2> QED
    BY <2>1, <2>2
<1>4. fold = Round(fold)
  BY <1>3
<1>5. fold[T] = sketch[T]
  <2>1. fold[{}] = sketch[{}]
    <3>1. sketch[{}] = start
      <4>1. S \cup {} = S
        OBVIOUS
      <4> QED
        BY <4>1
    <3>2. fold[{}] = start
      BY <1>4
    <3> QED
      BY <3>1, <3>2
  <2>2. ASSUME NEW s \in SUBSET T, s # {},
               fold[s \ {pick(s)}] = sketch[s \ {pick(s)}]
        PROVE  fold[s] = sketch[s]
    <3> HIDE DEF pick, start, fold, sketch
    <3> QED
      BY <1>3, <1>4, <2>2
  <2>3. \A s \in SUBSET T : s # {} =>
          \E x \in s : fold[s \ {x}] = sketch[s \ {x}] => fold[s] = sketch[s]
    <3> HIDE DEF fold, sketch, pick
    <3> QED
      BY <1>2, <2>2
  <2> HIDE DEF fold, sketch
  <2> QED
    BY <2>1, <2>3, OneFold
<1>6. FoldSet(LAMBDA x, t : addHash(t, x), start, T) = fold[T]
  BY DEF FoldSet, MapThenFoldSet
<1> QED
  BY <1>5, <1>6

(* A sketch of rows is that of the set of their hashes.                    *)
LEMMA SketchOfRows ==
  ASSUME NEW p, 2 ^ p \in Nat \ {0}, NEW H, NEW rows \in Seq(H)
  PROVE  HLLOf(rows, p) = SketchOf(p, ToSet(rows))
<1> DEFINE T == DOMAIN rows
           Of(s) == {rows[i] : i \in s}
           start == newHLL(p)
           Round(f) == [s \in SUBSET T |->
                         IF s = {} THEN start
                         ELSE addHash(f[s \ {Max(s)}], rows[Max(s)])]
           fold == CHOOSE f : f = Round(f)
           sketch == [s \in SUBSET T |-> SketchOf(p, Of(s))]
<1>1. T = 1..Len(rows) /\ Len(rows) \in Nat
  OBVIOUS
<1>2. ASSUME NEW s \in SUBSET T
      PROVE  IsFiniteSet(s) /\ IsFiniteSet(Of(s)) /\ (s # {} => Max(s) \in s)
  <2>1. PICK n \in Nat : T = 1..n
    BY <1>1
  <2>2. IsFiniteSet(s)
    <3>1. s \in SUBSET (1..n)
      BY <2>1
    <3>2. IsFiniteSet(1..n)
      BY FS_Interval
    <3> QED
      BY <3>1, <3>2, FS_Subset
  <2>3. IsFiniteSet(Of(s))
    <3> DEFINE g == [i \in s |-> rows[i]]
    <3>1. g \in Surjection(s, Of(s))
      BY DEF Surjection
    <3> QED
      BY <2>2, <3>1, FS_Surjection
  <2>4. s # {} => Max(s) \in s
    <3>1. s \subseteq 0..n
      BY <2>1
    <3> QED
      BY <3>1, GreatestNatural
  <2> QED
    BY <2>2, <2>3, <2>4
<1>7. SketchOf(p, {}) = start
  BY FS_EmptySet, SketchAssumption DEF SketchOf, newHLL
<1>8. sketch[{}] = start
  <2>1. Of({}) = {}
    OBVIOUS
  <2> QED
    BY <1>7, <2>1
<1>3. sketch = Round(sketch)
  <2>1. ASSUME NEW s \in SUBSET T, s # {}
        PROVE  sketch[s] = addHash(sketch[s \ {Max(s)}], rows[Max(s)])
    <3>0. PICK m \in s : m = Max(s)
      BY <1>2, <2>1
    <3>1. /\ Of(s \ {m}) \cup {rows[m]} = Of(s)
          /\ s \ {m} \in SUBSET T
      OBVIOUS
    <3>2. IsFiniteSet(Of(s \ {m}))
      BY <3>1, <1>2
    <3>3. sketch[s \ {m}] = SketchOf(p, Of(s \ {m}))
      BY <3>1
    <3>4. addHash(SketchOf(p, Of(s \ {m})), rows[m]) = SketchOf(p, Of(s))
      <4>1. PICK U, V : U = Of(s \ {m}) /\ V = Of(s)
        OBVIOUS
      <4>2. U \cup {rows[m]} = V /\ IsFiniteSet(U)
        BY <3>1, <3>2, <4>1
      <4>3. addHash(SketchOf(p, U), rows[m]) = SketchOf(p, V)
        BY <4>2, AddHash
      <4> QED
        BY <4>1, <4>3
    <3>5. sketch[s] = SketchOf(p, Of(s))
      OBVIOUS
    <3> HIDE DEF sketch, Of, T
    <3> QED
      BY <3>0, <3>3, <3>4, <3>5
  <2> HIDE DEF sketch, start
  <2>2. sketch \in [SUBSET T -> {SketchOf(p, Of(s)) : s \in SUBSET T}]
    BY DEF sketch
  <2> HIDE DEF T
  <2> QED
    BY <2>1, <2>2, <1>8
<1>4. fold = Round(fold)
  BY <1>3
<1>5. fold[T] = sketch[T]
  <2>1. fold[{}] = sketch[{}]
    <3>1. fold[{}] = start
      BY <1>4
    <3> QED
      BY <1>8, <3>1
  <2>2. ASSUME NEW s \in SUBSET T, s # {},
               fold[s \ {Max(s)}] = sketch[s \ {Max(s)}]
        PROVE  fold[s] = sketch[s]
    <3> HIDE DEF start, fold, sketch, T
    <3> QED
      BY <1>3, <1>4, <2>2
  <2>3. \A s \in SUBSET T : s # {} =>
          \E x \in s : fold[s \ {x}] = sketch[s \ {x}] => fold[s] = sketch[s]
    <3> HIDE DEF fold, sketch, T
    <3> QED
      BY <1>2, <2>2
  <2>4. IsFiniteSet(T)
    BY <1>2
  <2> HIDE DEF fold, sketch, T
  <2> QED
    BY <2>1, <2>3, <2>4, OneFold
<1>6. HLLOf(rows, p) = fold[T]
  BY DEF HLLOf, FoldLeft, MapThenFoldSet
<1>9. Of(T) = ToSet(rows)
  BY DEF ToSet
<1> QED
  BY <1>5, <1>6, <1>9

(* The registers of two sketches, the greater of each.                     *)
LEMMA RegistersMerged ==
  ASSUME NEW p, NEW S, NEW T
  PROVE  [i \in DOMAIN RegistersOf(p, S) |->
            Max({RegistersOf(p, S)[i], RegistersOf(p, T)[i]})]
           = RegistersOf(p, S \cup T)
<1>1. \A R : DOMAIN RegistersOf(p, R) = 1..2 ^ p
  BY DEF RegistersOf
<1>2. RegistersOf(p, S \cup T) =
        [i \in 1..2 ^ p |-> RegistersOf(p, S \cup T)[i]]
  BY DEF RegistersOf
<1>3. PICK D, A, B, C :
        D = 1..2 ^ p /\ A = RegistersOf(p, S) /\ B = RegistersOf(p, T)
        /\ C = RegistersOf(p, S \cup T)
  OBVIOUS
<1>4. \A i \in D : C[i] = Max({A[i], B[i]})
  BY <1>3, RegistersMeet
<1>5. DOMAIN A = D /\ C = [i \in D |-> C[i]]
  BY <1>1, <1>2, <1>3
<1>6. [i \in DOMAIN A |-> Max({A[i], B[i]})] = C
  BY <1>4, <1>5
<1> QED
  BY <1>3, <1>6

(* The merge of two sketches that have registers.                          *)
Raised(g, o) ==
  [g EXCEPT !.registers = [i \in DOMAIN @ |-> Max({@[i], o.registers[i]})]]

LEMMA RegistersReplaced ==
  ASSUME NEW p, NEW S, NEW T, NEW g, NEW o,
         g = [p |-> p, sparse |-> {}, registers |-> RegistersOf(p, S)],
         o.registers = RegistersOf(p, T)
  PROVE  Raised(g, o) =
           [p |-> p, sparse |-> {}, registers |-> RegistersOf(p, S \cup T)]
<1>1. PICK A, B, C : A = RegistersOf(p, S) /\ B = RegistersOf(p, T)
                     /\ C = RegistersOf(p, S \cup T)
  OBVIOUS
<1>2. g.registers = A /\ o.registers = B
  BY <1>1
<1>3. [i \in DOMAIN A |-> Max({A[i], B[i]})] = C
  BY <1>1, RegistersMerged
<1>4. [i \in DOMAIN g.registers |-> Max({g.registers[i], o.registers[i]})] = C
  BY <1>2, <1>3
<1>5. [g EXCEPT !.registers = C] =
        [p |-> p, sparse |-> {}, registers |-> C]
  OBVIOUS
<1>6. Raised(g, o) = [g EXCEPT !.registers = C]
  BY <1>4 DEF Raised
<1> QED
  BY <1>1, <1>5, <1>6

LEMMA SketchParts ==
  ASSUME NEW p, 2 ^ p \in Nat \ {0}, NEW T, IsFiniteSet(T)
  PROVE  /\ SketchOf(p, T).p = p
         /\ SketchOf(p, T).registers = <<>> <=>
              ~(Cardinality(T) > maxHLLSparseHashes)
         /\ Cardinality(T) > maxHLLSparseHashes =>
              SketchOf(p, T) = [p |-> p, sparse |-> {},
                                registers |-> RegistersOf(p, T)]
         /\ ~(Cardinality(T) > maxHLLSparseHashes) =>
              SketchOf(p, T) = [p |-> p, sparse |-> T, registers |-> <<>>]
<1>1. RegistersOf(p, T) # <<>>
  <2>1. 1 \in DOMAIN RegistersOf(p, T)
    BY DEF RegistersOf
  <2> QED
    BY <2>1
<1> QED
  BY <1>1 DEF SketchOf

(* The merge of the sketches of two sets.                                  *)
MergedOf(p, q, S, T) ==
  IF p # q /\ (\/ Cardinality(S) > maxHLLSparseHashes
               \/ Cardinality(T) > maxHLLSparseHashes)
  THEN Refused ELSE SketchOf(Min({p, q}), S \cup T)

LEMMA MergeOf ==
  ASSUME NEW p \in Nat, NEW q \in Nat,
         2 ^ p \in Nat \ {0}, 2 ^ q \in Nat \ {0},
         NEW S, IsFiniteSet(S), NEW T, IsFiniteSet(T)
  PROVE  HLLMerge(SketchOf(p, S), SketchOf(q, T)) = MergedOf(p, q, S, T)
<1> DEFINE h == SketchOf(p, S)
           other == SketchOf(q, T)
           m == Min({p, q})
           longS == Cardinality(S) > maxHLLSparseHashes
           longT == Cardinality(T) > maxHLLSparseHashes
           into == IF h.registers = <<>> THEN densify(h) ELSE h
<1>1. /\ h.p = p /\ other.p = q
      /\ h.registers = <<>> <=> ~longS
      /\ other.registers = <<>> <=> ~longT
  BY SketchParts
<1>2. m \in {p, q} /\ (p = q => m = p) /\ 2 ^ m \in Nat \ {0}
  <2>1. m = p \/ m = q
    BY TwoNumbers
  <2> HIDE DEF m
  <2> QED
    BY <2>1
<1>3. HLLMerge(h, other) =
        IF q # p /\ (longS \/ longT) THEN Refused
        ELSE IF ~longT
        THEN FoldSet(LAMBDA x, t : addHash(t, x), [h EXCEPT !.p = m],
                     other.sparse)
        ELSE Raised(into, other)
  <2> HIDE DEF h, other, longS, longT
  <2> QED
    BY <1>1 DEF HLLMerge, Raised
<1>4. CASE p # q /\ (longS \/ longT)
  BY <1>3, <1>4 DEF MergedOf
<1>5. CASE ~(p # q /\ (longS \/ longT)) /\ ~longT
  <2>1. [h EXCEPT !.p = m] = SketchOf(m, S)
    <3>1. CASE longS
      <4>1. m = p
        BY <1>2, <1>5, <3>1
      <4>2. h = [p |-> p, sparse |-> {}, registers |-> RegistersOf(p, S)]
        BY <3>1, SketchParts
      <4>3. \A g : g = [p |-> p, sparse |-> {}, registers |-> RegistersOf(p, S)]
                   => [g EXCEPT !.p = p] = g
        OBVIOUS
      <4> HIDE DEF h
      <4>4. [h EXCEPT !.p = p] = h
        BY <4>2, <4>3
      <4> QED
        BY <4>1, <4>4 DEF h
    <3>2. CASE ~longS
      <4>1. h = [p |-> p, sparse |-> S, registers |-> <<>>]
        BY <3>2, SketchParts
      <4>2. SketchOf(m, S) = [p |-> m, sparse |-> S, registers |-> <<>>]
        BY <3>2, <1>2, SketchParts
      <4>3. \A g : g = [p |-> p, sparse |-> S, registers |-> <<>>] =>
              [g EXCEPT !.p = m] = [p |-> m, sparse |-> S, registers |-> <<>>]
        <5> HIDE DEF m
        <5> QED
          OBVIOUS
      <4> HIDE DEF h, m
      <4> QED
        BY <4>1, <4>2, <4>3
    <3> QED
      BY <3>1, <3>2
  <2>2. other.sparse = T
    <3>1. other = [p |-> q, sparse |-> T, registers |-> <<>>]
      BY <1>5, SketchParts
    <3> HIDE DEF other
    <3> QED
      BY <3>1
  <2>3. HLLMerge(h, other) =
          FoldSet(LAMBDA x, t : addHash(t, x), SketchOf(m, S), T)
    BY <1>3, <1>5, <2>1, <2>2
  <2>4. FoldSet(LAMBDA x, t : addHash(t, x), SketchOf(m, S), T) =
          SketchOf(m, S \cup T)
    <3> HIDE DEF m
    <3> QED
      BY <1>2, HashesAdded
  <2> QED
    BY <1>5, <2>3, <2>4 DEF MergedOf
<1>6. CASE ~(p # q /\ (longS \/ longT)) /\ longT
  <2>1. p = q /\ m = p
    BY <1>2, <1>6
  <2>2. into = [p |-> p, sparse |-> {}, registers |-> RegistersOf(p, S)]
    <3>1. CASE longS
      BY <3>1, <1>1, SketchParts
    <3>2. CASE ~longS
      <4>1. h = [p |-> p, sparse |-> S, registers |-> <<>>]
        BY <3>2, SketchParts
      <4>2. densify(h) =
              [p |-> p, sparse |-> {}, registers |-> RegistersOf(p, S)]
        <5> HIDE DEF h
        <5> QED
          BY <4>1, DensifyIs
      <4> QED
        BY <4>2, <3>2, <1>1
    <3> QED
      BY <3>1, <3>2
  <2>3. other.registers = RegistersOf(p, T)
    <3>1. other = [p |-> q, sparse |-> {}, registers |-> RegistersOf(q, T)]
      BY <1>6, SketchParts
    <3> HIDE DEF other
    <3> QED
      BY <3>1, <2>1
  <2>4. Raised(into, other) =
          [p |-> p, sparse |-> {}, registers |-> RegistersOf(p, S \cup T)]
    <3> HIDE DEF into, other
    <3> QED
      BY <2>2, <2>3, RegistersReplaced
  <2>5. Cardinality(S \cup T) > maxHLLSparseHashes /\ IsFiniteSet(S \cup T)
    BY <1>6, FS_Union, SizeGrows
  <2>6. SketchOf(p, S \cup T) =
          [p |-> p, sparse |-> {}, registers |-> RegistersOf(p, S \cup T)]
    BY <2>5, SketchParts
  <2>7. HLLMerge(h, other) = Raised(into, other)
    <3> HIDE DEF h, other, into, longS, longT, m
    <3> QED
      BY <1>3, <1>6
  <2>8. HLLMerge(h, other) = SketchOf(p, S \cup T)
    BY <2>4, <2>6, <2>7
  <2>9. SketchOf(p, S \cup T) = SketchOf(m, S \cup T)
    BY <2>1
  <2>10. ~(p # q /\ (longS \/ longT))
    BY <1>6
  <2> QED
    BY <2>8, <2>9, <2>10 DEF MergedOf
<1> QED
  BY <1>4, <1>5, <1>6

-----------------------------------------------------------------------------
(* What a register holds                                                   *)

(* The provers know of powers only what is said here, and to be used, of a *)
(* function P.                                                             *)
PowersOfTwo ==
  2 ^ 0 = 1 /\ \A n \in Nat : 2 ^ n \in Nat /\ 2 ^ (n + 1) = 2 * 2 ^ n

Doubles(P) ==
  P[0] = 1 /\ \A n \in Nat : P[n] \in Nat /\ P[n + 1] = 2 * P[n]

LEMMA PowerSum ==
  ASSUME NEW P, Doubles(P), NEW a \in Nat, NEW b \in Nat
  PROVE  P[a + b] = P[a] * P[b]
<1> DEFINE Wrong == {k \in Nat : P[a + k] # P[a] * P[k]}
<1> SUFFICES ASSUME Wrong # {} PROVE FALSE
  OBVIOUS
<1>1. PICK k \in Wrong : \A j \in Wrong : k <= j
  <2>1. Wrong \subseteq Nat
    OBVIOUS
  <2> HIDE DEF Wrong
  <2> QED
    BY <2>1, LeastNatural
<1>2. k # 0
  <2>1. P[a] \in Nat /\ P[0] = 1 /\ a + 0 = a
    BY DEF Doubles
  <2> QED
    BY <1>1, <2>1
<1>3. PICK j \in Nat : k = j + 1
  BY <1>1, <1>2, k - 1 \in Nat
<1>4. P[a + j] = P[a] * P[j]
  BY <1>1, <1>3
<1>5. P[a + k] = 2 * P[a + j] /\ P[k] = 2 * P[j]
  <2>1. a + j \in Nat /\ a + k = (a + j) + 1
    BY <1>3
  <2> QED
    BY <1>3, <2>1 DEF Doubles
<1>6. PICK u \in Nat, v \in Nat : u = P[a] /\ v = P[j]
  BY DEF Doubles
<1>7. 2 * (u * v) = u * (2 * v)
  OBVIOUS
<1> QED
  BY <1>1, <1>4, <1>5, <1>6, <1>7

LEMMA PowerPositive ==
  ASSUME NEW P, Doubles(P), NEW a \in Nat
  PROVE  P[a] \in Nat \ {0}
<1> DEFINE Wrong == {k \in Nat : P[k] = 0}
<1> SUFFICES ASSUME Wrong # {} PROVE FALSE
  BY DEF Doubles
<1>1. PICK k \in Wrong : \A j \in Wrong : k <= j
  <2>1. Wrong \subseteq Nat
    OBVIOUS
  <2> HIDE DEF Wrong
  <2> QED
    BY <2>1, LeastNatural
<1>2. k # 0
  BY <1>1 DEF Doubles
<1>3. PICK j \in Nat : k = j + 1
  BY <1>1, <1>2, k - 1 \in Nat
<1>4. P[j] \in Nat /\ P[k] = 2 * P[j]
  BY <1>3 DEF Doubles
<1> QED
  BY <1>1, <1>3, <1>4

LEMMA PowerMonotone ==
  ASSUME NEW P, Doubles(P), NEW a \in Nat, NEW b \in Nat, a <= b
  PROVE  P[a] <= P[b]
<1>1. PICK c \in Nat : b = a + c
  BY b - a \in Nat
<1>2. P[b] = P[a] * P[c]
  BY <1>1, PowerSum
<1>3. PICK u \in Nat \ {0}, v \in Nat \ {0} : u = P[a] /\ v = P[c]
  BY PowerPositive
<1>4. v * u >= u
  BY Multiples
<1>5. u * v = v * u
  OBVIOUS
<1> QED
  BY <1>2, <1>3, <1>4, <1>5

(* Whether bit k of the n lowest ones is set, counted from the highest.    *)
Bit(P, n, x, k) == (x \div P[n - k]) % 2 = 1

LEMMA OddOrEven ==
  ASSUME NEW a \in Int, NEW b \in Int
  PROVE  (a = 2 * b => a % 2 = 0) /\ (a = 2 * b + 1 => a % 2 = 1)
OBVIOUS

(* The bits of a number below a power of two are those of its remainder.   *)
LEMMA BitOfRemainder ==
  ASSUME NEW P, Doubles(P), NEW n \in Nat, NEW x \in Nat, NEW k \in 1..n
  PROVE  /\ x % P[n] < P[n - k] => ~Bit(P, n, x, k)
         /\ x % P[n] >= P[n - k] /\ x % P[n] < P[n - k + 1] => Bit(P, n, x, k)
<1>1. PICK m \in Nat \ {0}, d \in Nat \ {0}, e \in Nat \ {0}, c \in Nat \ {0} :
        m = P[n] /\ d = P[n - k] /\ e = P[k - 1] /\ c = P[k]
  <2>1. n - k \in Nat /\ k - 1 \in Nat /\ k \in Nat
    OBVIOUS
  <2> QED
    BY <2>1, PowerPositive
<1>2. c = 2 * e
  <2>1. k - 1 \in Nat /\ (k - 1) + 1 = k
    OBVIOUS
  <2> QED
    BY <1>1, <2>1 DEF Doubles
<1>3. m = c * d
  <2>1. n - k \in Nat /\ k + (n - k) = n
    OBVIOUS
  <2> QED
    BY <1>1, <2>1, PowerSum
<1>4. P[n - k + 1] = 2 * d
  <2>1. n - k \in Nat
    OBVIOUS
  <2> QED
    BY <1>1, <2>1 DEF Doubles
<1>5. PICK q \in Int, y \in 0..m-1 : q = x \div m /\ y = x % m /\ x = q * m + y
  <2>1. x \in Int
    OBVIOUS
  <2> QED
    BY <2>1, Division
<1>6. PICK f \in Int : f = q * e
  OBVIOUS
<1>7. q * m = (2 * f) * d
  <2>1. q * m = q * ((2 * e) * d)
    BY <1>2, <1>3
  <2>2. q * ((2 * e) * d) = (2 * (q * e)) * d
    OBVIOUS
  <2> QED
    BY <2>1, <2>2, <1>6
<1>8. ASSUME y < d PROVE x \div d = 2 * f
  <2>1. x = (2 * f) * d + y /\ y \in 0..d-1 /\ 2 * f \in Int
    BY <1>5, <1>7, <1>8
  <2> QED
    BY <2>1, RemainderIs
<1>9. ASSUME y >= d, y < 2 * d PROVE x \div d = 2 * f + 1
  <2>1. PICK g \in Int : g = 2 * f + 1
    OBVIOUS
  <2>2. g * d = (2 * f) * d + d
    BY <2>1
  <2>3. x = g * d + (y - d) /\ y - d \in 0..d-1
    BY <1>5, <1>7, <1>9, <2>2
  <2> QED
    BY <2>1, <2>3, RemainderIs
<1>10. y < d => ~Bit(P, n, x, k)
  BY <1>1, <1>8, OddOrEven DEF Bit
<1>11. y >= d /\ y < 2 * d => Bit(P, n, x, k)
  BY <1>1, <1>9, OddOrEven DEF Bit
<1> QED
  BY <1>1, <1>4, <1>5, <1>10, <1>11

(* The first bit set, or the one after the last.                           *)
FirstBitSet(P, n, x) == Min({n + 1} \cup {k \in 1..n : Bit(P, n, x, k)})

LEMMA MinIs ==
  ASSUME NEW S, S \subseteq Int, NEW k \in S, \A j \in S : k <= j
  PROVE  Min(S) = k
<1>1. Min(S) \in S /\ \A j \in S : Min(S) <= j
  <2>1. \E m \in S : \A j \in S : m <= j
    OBVIOUS
  <2> QED
    BY <2>1 DEF Min
<1>2. PICK m \in Int : m = Min(S)
  BY <1>1
<1>3. k \in Int /\ m <= k /\ k <= m
  BY <1>1, <1>2
<1> QED
  BY <1>2, <1>3

(* It is the first place whose power the remainder reaches.                *)
LEMMA FirstBitReached ==
  ASSUME NEW P, Doubles(P), NEW n \in Nat, NEW x \in Nat
  PROVE  /\ FirstBitSet(P, n, x) \in 1..n+1
         /\ \A k \in 1..n : x % P[n] >= P[n - k] <=> FirstBitSet(P, n, x) <= k
<1> DEFINE Reached == {k \in 1..n : x % P[n] >= P[n - k]}
           Bits == {k \in 1..n : Bit(P, n, x, k)}
<1>0. PICK y \in Nat : y = x % P[n] /\ y < P[n]
  <2>1. PICK m \in Nat \ {0} : m = P[n]
    BY PowerPositive
  <2>2. x \in Int
    OBVIOUS
  <2>3. x % m \in 0..m-1
    BY <2>2, Division
  <2> QED
    BY <2>1, <2>3
<1>1. Bits \subseteq Reached
  <2> SUFFICES ASSUME NEW k \in 1..n, Bit(P, n, x, k) PROVE k \in Reached
    OBVIOUS
  <2>1. n - k \in Nat
    OBVIOUS
  <2>2. P[n - k] \in Nat
    BY <2>1, PowerPositive
  <2>3. ~(x % P[n] < P[n - k])
    BY BitOfRemainder
  <2> QED
    BY <1>0, <2>2, <2>3
<1>2. CASE Reached = {}
  <2>1. Bits = {}
    BY <1>1, <1>2
  <2>2. FirstBitSet(P, n, x) = n + 1
    <3>1. {n + 1} \cup Bits = {n + 1}
      BY <2>1
    <3>2. Min({n + 1}) = n + 1
      BY MinIs
    <3> QED
      BY <3>1, <3>2 DEF FirstBitSet
  <2> QED
    BY <1>2, <2>2
<1>3. CASE Reached # {}
  <2>1. PICK t \in Reached : \A j \in Reached : t <= j
    <3>1. Reached \subseteq Nat
      OBVIOUS
    <3> HIDE DEF Reached
    <3> QED
      BY <1>3, <3>1, LeastNatural
  <2>2. t \in 1..n /\ y >= P[n - t]
    BY <2>1, <1>0
  <2>3. y < P[n - t + 1]
    <3>1. CASE t = 1
      <4>1. n - t + 1 = n
        BY <3>1, <2>2
      <4> QED
        BY <4>1, <1>0
    <3>2. CASE t # 1
      <4>1. PICK j \in 1..n : j = t - 1 /\ n - t + 1 = n - j
        BY <3>2, <2>2
      <4>2. j \notin Reached
        BY <2>1, <2>2, <4>1
      <4>3. P[n - j] \in Nat
        BY PowerPositive, n - j \in Nat
      <4> QED
        BY <4>1, <4>2, <4>3, <1>0
    <3> QED
      BY <3>1, <3>2
  <2>4. t \in Bits
    BY <2>2, <2>3, <1>0, BitOfRemainder
  <2>5. FirstBitSet(P, n, x) = t
    <3>1. \A j \in {n + 1} \cup Bits : t <= j /\ j \in Int
      BY <1>1, <2>1, <2>2
    <3>2. {n + 1} \cup Bits \subseteq Int /\ t \in {n + 1} \cup Bits
      BY <2>4
    <3> HIDE DEF Bits
    <3>3. Min({n + 1} \cup Bits) = t
      BY <3>1, <3>2, MinIs
    <3> QED
      BY <3>3 DEF FirstBitSet, Bits
  <2>6. ASSUME NEW k \in 1..n PROVE x % P[n] >= P[n - k] <=> t <= k
    <3>1. ASSUME t <= k PROVE y >= P[n - k]
      <4>1. n - k \in Nat /\ n - t \in Nat /\ n - k <= n - t
        BY <3>1, <2>2
      <4>2. P[n - k] <= P[n - t]
        BY <4>1, PowerMonotone
      <4>3. P[n - k] \in Nat /\ P[n - t] \in Nat
        BY <4>1, PowerPositive
      <4> QED
        BY <4>2, <4>3, <2>2
    <3>2. ASSUME x % P[n] >= P[n - k] PROVE t <= k
      BY <2>1, <3>2
    <3> QED
      BY <3>1, <3>2, <1>0
  <2> QED
    BY <2>2, <2>5, <2>6
<1> QED
  BY <1>2, <1>3

LEMMA RestOfHash ==
  ASSUME NEW P, Doubles(P), NEW p \in 1..HashBits, NEW x \in Nat
  PROVE  LET rest == (x * P[p]) % P[HashBits]
         IN  /\ rest = (x % P[HashBits - p]) * P[p]
             /\ (rest \div P[p - 1]) % 2 = 0
<1> DEFINE n == HashBits - p
<1>0. HashBits \in Nat /\ n \in Nat /\ p \in Nat /\ p - 1 \in Nat
      /\ n + p = HashBits /\ (p - 1) + 1 = p
  BY SketchAssumption
<1>1. PICK m \in Nat \ {0}, c \in Nat \ {0}, w \in Nat \ {0}, g \in Nat \ {0} :
        m = P[n] /\ c = P[p] /\ w = P[HashBits] /\ g = P[p - 1]
  BY <1>0, PowerPositive
<1>2. w = m * c
  BY <1>0, <1>1, PowerSum
<1>3. c = 2 * g
  BY <1>0, <1>1 DEF Doubles
<1>4. PICK q \in Int, y \in 0..m-1 : y = x % m /\ x = q * m + y
  <2>1. x \in Int
    OBVIOUS
  <2> QED
    BY <2>1, Division
<1>5. PICK z \in Int : z = y * c
  OBVIOUS
<1>6. z \in 0..w-1
  <2>1. PICK d \in Nat : d = m - y /\ d >= 1
    OBVIOUS
  <2>2. d * c >= c
    BY <2>1, Multiples
  <2>3. d * c = m * c - y * c
    BY <2>1
  <2>4. y * c >= 0
    <3>1. CASE y = 0
      BY <3>1
    <3>2. CASE y >= 1
      BY <3>2, Multiples
    <3> QED
      BY <3>1, <3>2
  <2> QED
    BY <2>2, <2>3, <2>4, <1>2, <1>5
<1>7. x * c = q * w + z
  <2>1. x * c = (q * m + y) * c
    BY <1>4
  <2>2. (q * m + y) * c = q * (m * c) + y * c
    OBVIOUS
  <2> QED
    BY <2>1, <2>2, <1>2, <1>5
<1>8. (x * c) % w = z
  BY <1>6, <1>7, RemainderIs
<1>9. z \div g = 2 * y
  <2>1. PICK u \in Int : u = 2 * y
    OBVIOUS
  <2>2. z = u * g + 0
    BY <2>1, <1>3, <1>5
  <2>3. 0 \in 0..g-1
    OBVIOUS
  <2> QED
    BY <2>1, <2>2, <2>3, RemainderIs
<1>10. (z \div g) % 2 = 0
  BY <1>9, OddOrEven
<1> QED
  BY <1>1, <1>4, <1>5, <1>8, <1>10

LEMMA GuardedReaches ==
  ASSUME NEW P, Doubles(P), NEW p \in 1..HashBits, NEW y \in Nat
  PROVE  LET n == HashBits - p
             guarded == y * P[p] + P[p - 1]
         IN  /\ guarded \in Nat
             /\ \A k \in 1..n :
                  guarded >= P[HashBits - k] <=> y >= P[n - k]
             /\ guarded >= P[HashBits - (n + 1)]
<1> DEFINE n == HashBits - p
<1>0. HashBits \in Nat /\ n \in Nat /\ p \in Nat /\ p - 1 \in Nat
      /\ n + p = HashBits /\ (p - 1) + 1 = p
      /\ HashBits - (n + 1) = p - 1
  BY SketchAssumption
<1>1. PICK c \in Nat \ {0}, g \in Nat \ {0} : c = P[p] /\ g = P[p - 1]
  BY <1>0, PowerPositive
<1>2. c = 2 * g
  BY <1>0, <1>1 DEF Doubles
<1>3. PICK z \in Nat : z = y * c
  OBVIOUS
<1>4. ASSUME NEW k \in 1..n
      PROVE  z + g >= P[HashBits - k] <=> y >= P[n - k]
  <2>1. n - k \in Nat /\ (n - k) + p = HashBits - k
    BY <1>0
  <2>2. PICK d \in Nat \ {0} : d = P[n - k]
    BY <2>1, PowerPositive
  <2>3. P[HashBits - k] = d * c
    BY <1>0, <1>1, <2>1, <2>2, PowerSum
  <2>4. ASSUME y >= d PROVE z >= d * c
    <3>1. PICK e \in Nat : e = y - d
      BY <2>4
    <3>2. e * c = y * c - d * c
      BY <3>1
    <3>3. e * c >= 0
      OBVIOUS
    <3> QED
      BY <3>2, <3>3, <1>3
  <2>5. ASSUME y < d PROVE z + c <= d * c
    <3>1. PICK e \in Nat : e = d - y /\ e >= 1
      BY <2>5
    <3>2. e * c = d * c - y * c
      BY <3>1
    <3>3. e * c >= c
      BY <3>1, Multiples
    <3> QED
      BY <3>2, <3>3, <1>3
  <2>6. PICK r \in Nat : r = d * c
    OBVIOUS
  <2> QED
    BY <2>2, <2>3, <2>4, <2>5, <2>6, <1>2
<1>5. z + g \in Nat /\ z + g >= g
  OBVIOUS
<1> QED
  BY <1>0, <1>1, <1>3, <1>4, <1>5

(* A register holds the place of the first bit set after the place of the  *)
(* register in the hash: the guard bit ends the run of zeros.              *)
LEMMA RankIs ==
  ASSUME PowersOfTwo, NEW p \in 1..HashBits, NEW x \in Nat
  PROVE  Rank(p, x) = FirstBitSet([i \in Nat |-> 2 ^ i], HashBits - p, x)
<1> DEFINE n == HashBits - p
<1>1. PICK P : P = [i \in Nat |-> 2 ^ i]
  OBVIOUS
<1>2. Doubles(P) /\ \A i \in Nat : P[i] = 2 ^ i
  <2>1. \A i \in Nat : P[i] = 2 ^ i
    BY <1>1
  <2>2. \A i \in Nat : i + 1 \in Nat
    OBVIOUS
  <2>3. \A i \in Nat : P[i] \in Nat /\ P[i + 1] = 2 * P[i]
    BY <2>1, <2>2 DEF PowersOfTwo
  <2> QED
    BY <2>1, <2>3 DEF Doubles, PowersOfTwo
<1>0. HashBits \in Nat /\ n \in Nat /\ p \in Nat /\ p - 1 \in Nat
      /\ n + 1 <= HashBits
  BY SketchAssumption
<1>3. PICK y \in Nat : y = x % P[n]
  <2>1. PICK m \in Nat \ {0} : m = P[n]
    BY <1>0, <1>2, PowerPositive
  <2>2. x \in Int
    OBVIOUS
  <2>3. x % m \in 0..m-1
    BY <2>2, Division
  <2> QED
    BY <2>1, <2>3
<1>4. PICK w \in Nat : w = y * P[p] + P[p - 1]
  BY <1>2, GuardedReaches
<1>5. Rank(p, x) = LeadingZeros(w) + 1
  <2>1. /\ 2 ^ p = P[p] /\ 2 ^ HashBits = P[HashBits]
        /\ 2 ^ (p - 1) = P[p - 1]
    BY <1>0, <1>2
  <2>2. PICK rest : rest = (x * P[p]) % P[HashBits]
    OBVIOUS
  <2>3. rest = y * P[p] /\ (rest \div P[p - 1]) % 2 = 0
    BY <1>2, <1>3, <2>2, RestOfHash
  <2>4. ~((rest \div P[p - 1]) % 2 = 1)
    BY <2>3
  <2>5. Rank(p, x) = LeadingZeros(rest + P[p - 1]) + 1
    BY <2>1, <2>2, <2>4 DEF Rank
  <2> QED
    BY <2>3, <2>5, <1>4
<1> DEFINE F == FirstBitSet(P, n, x)
           Z == {HashBits} \cup
                  {k \in 0..HashBits - 1 : w >= 2 ^ (HashBits - 1 - k)}
<1>6. /\ F \in 1..n+1
      /\ \A k \in 1..n : y >= P[n - k] <=> F <= k
  BY <1>0, <1>2, <1>3, FirstBitReached
<1>7. /\ \A k \in 1..n : w >= P[HashBits - k] <=> y >= P[n - k]
      /\ w >= P[HashBits - (n + 1)]
  BY <1>2, <1>4, GuardedReaches
<1>8. \A k \in 1..n+1 : w >= P[HashBits - k] <=> F <= k
  BY <1>0, <1>6, <1>7
<1>9. ASSUME NEW k \in 0..HashBits - 1
      PROVE  2 ^ (HashBits - 1 - k) = P[HashBits - (k + 1)]
  <2>1. HashBits - 1 - k \in Nat /\ HashBits - 1 - k = HashBits - (k + 1)
    BY <1>0
  <2> QED
    BY <2>1, <1>2
<1> HIDE DEF F
<1>10. PICK f \in 0..n : f = F - 1
  BY <1>0, <1>6
<1>11. f \in Z
  <2>1. f \in 0..HashBits - 1 /\ f + 1 = F /\ F \in 1..n+1
    BY <1>0, <1>6, <1>10
  <2>2. w >= P[HashBits - (f + 1)]
    BY <2>1, <1>6, <1>8
  <2> QED
    BY <2>1, <2>2, <1>9
<1>12. \A k \in Z : f <= k
  <2>1. ASSUME NEW k \in 0..HashBits - 1, w >= 2 ^ (HashBits - 1 - k)
        PROVE  f <= k
    <3>1. CASE k + 1 \in 1..n+1
      BY <2>1, <3>1, <1>6, <1>8, <1>9, <1>10
    <3>2. CASE k + 1 \notin 1..n+1
      BY <3>2, <1>0, <1>10
    <3> QED
      BY <3>1, <3>2
  <2>2. f <= HashBits
    BY <1>0, <1>10
  <2> QED
    BY <2>1, <2>2
<1>13. Z \subseteq Int
  BY <1>0
<1>14. LeadingZeros(w) = f
  <2>1. LeadingZeros(w) = Min(Z)
    BY DEF LeadingZeros
  <2> HIDE DEF Z
  <2> QED
    BY <2>1, <1>11, <1>12, <1>13, MinIs
<1>15. f + 1 = F
  BY <1>6, <1>10
<1> QED
  BY <1>1, <1>5, <1>14, <1>15 DEF F

LEMMA FiniteRows ==
  ASSUME NEW H, NEW rows \in Seq(H)
  PROVE  IsFiniteSet(ToSet(rows)) /\ ToSet(rows) \subseteq H
<1>1. PICK n \in Nat : DOMAIN rows = 1..n
  OBVIOUS
<1>2. IsFiniteSet(DOMAIN rows)
  BY <1>1, FS_Interval
<1>3. rows \in Surjection(DOMAIN rows, ToSet(rows))
  BY DEF Surjection, ToSet
<1>4. IsFiniteSet(ToSet(rows))
  BY <1>2, <1>3, FS_Surjection
<1> QED
  BY <1>4 DEF ToSet

LEMMA ReversedRows ==
  ASSUME NEW H, NEW a \in Seq(H), NEW b \in Seq(H)
  PROVE  /\ Reverse(b \o a) \in Seq(H)
         /\ ToSet(Reverse(b \o a)) = ToSet(a) \cup ToSet(b)
         /\ ToSet(a \o b) = ToSet(a) \cup ToSet(b)
<1>1. ASSUME NEW r \in Seq(H)
      PROVE  Reverse(r) \in Seq(H) /\ ToSet(Reverse(r)) = ToSet(r)
  <2>1. PICK n \in Nat : n = Len(r) /\ DOMAIN r = 1..n
    OBVIOUS
  <2>2. Reverse(r) = [i \in 1..n |-> r[(n - i) + 1]]
    BY <2>1 DEF Reverse
  <2>3. \A i \in 1..n : (n - i) + 1 \in 1..n /\ (n - ((n - i) + 1)) + 1 = i
    OBVIOUS
  <2>4. Reverse(r) \in Seq(H)
    BY <2>1, <2>2, <2>3
  <2>5. DOMAIN Reverse(r) = 1..n
        /\ \A i \in 1..n : Reverse(r)[i] = r[(n - i) + 1]
    BY <2>2
  <2>6. \A i \in 1..n : r[i] = Reverse(r)[(n - i) + 1]
    BY <2>3, <2>5
  <2>7. /\ ToSet(r) = {r[i] : i \in 1..n}
        /\ ToSet(Reverse(r)) = {Reverse(r)[i] : i \in 1..n}
    BY <2>1, <2>5 DEF ToSet
  <2>8. \A i \in 1..n : \E j \in 1..n : Reverse(r)[i] = r[j]
    BY <2>3, <2>5
  <2>9. \A i \in 1..n : \E j \in 1..n : r[i] = Reverse(r)[j]
    BY <2>3, <2>6
  <2>10. ToSet(Reverse(r)) = ToSet(r)
    BY <2>7, <2>8, <2>9
  <2> QED
    BY <2>4, <2>10
<1>2. ASSUME NEW c \in Seq(H), NEW d \in Seq(H)
      PROVE  c \o d \in Seq(H) /\ ToSet(c \o d) = ToSet(c) \cup ToSet(d)
  <2>1. PICK n \in Nat, m \in Nat : n = Len(c) /\ m = Len(d)
    OBVIOUS
  <2>2. DOMAIN c = 1..n /\ DOMAIN d = 1..m /\ DOMAIN (c \o d) = 1..n+m
    BY <2>1
  <2>3. /\ \A i \in 1..n : (c \o d)[i] = c[i]
        /\ \A i \in 1..m : (c \o d)[n + i] = d[i]
        /\ \A i \in 1..n+m : i \in 1..n \/ (i - n \in 1..m /\ i = n + (i - n))
    BY <2>1
  <2>4. /\ ToSet(c) = {c[i] : i \in 1..n} /\ ToSet(d) = {d[i] : i \in 1..m}
        /\ ToSet(c \o d) = {(c \o d)[i] : i \in 1..n+m}
    BY <2>2 DEF ToSet
  <2>5. \A i \in 1..n+m : (c \o d)[i] \in ToSet(c) \cup ToSet(d)
    <3> SUFFICES ASSUME NEW i \in 1..n+m
                 PROVE  (c \o d)[i] \in ToSet(c) \cup ToSet(d)
      OBVIOUS
    <3>1. CASE i \in 1..n
      BY <3>1, <2>3, <2>4
    <3>2. CASE i - n \in 1..m /\ i = n + (i - n)
      <4>1. PICK k \in 1..m : i = n + k
        BY <3>2
      <4> QED
        BY <4>1, <2>3, <2>4
    <3> QED
      BY <2>3, <3>1, <3>2
  <2>6. \A i \in 1..n : c[i] \in ToSet(c \o d)
    <3>1. \A i \in 1..n : i \in 1..n+m
      OBVIOUS
    <3> QED
      BY <3>1, <2>3, <2>4
  <2>7. \A i \in 1..m : d[i] \in ToSet(c \o d)
    <3>1. \A i \in 1..m : n + i \in 1..n+m
      OBVIOUS
    <3> QED
      BY <3>1, <2>3, <2>4
  <2>8. ToSet(c \o d) = ToSet(c) \cup ToSet(d)
    BY <2>4, <2>5, <2>6, <2>7
  <2> QED
    BY <2>8
<1>3. b \o a \in Seq(H) /\ ToSet(b \o a) = ToSet(a) \cup ToSet(b)
  BY <1>2
<1> QED
  BY <1>1, <1>2, <1>3

LEMMA PowersPositive ==
  ASSUME PowersOfTwo, NEW n \in Nat PROVE 2 ^ n \in Nat \ {0}
<1>1. PICK P : P = [i \in Nat |-> 2 ^ i]
  OBVIOUS
<1>2. \A i \in Nat : P[i] = 2 ^ i
  BY <1>1
<1>3. Doubles(P)
  <2>1. \A i \in Nat : i + 1 \in Nat
    OBVIOUS
  <2>2. \A i \in Nat : P[i] \in Nat /\ P[i + 1] = 2 * P[i]
    BY <1>2, <2>1 DEF PowersOfTwo
  <2> QED
    BY <1>2, <2>2 DEF Doubles, PowersOfTwo
<1> QED
  BY <1>2, <1>3, PowerPositive

(* hll and hll_merge: a sketch made in two parts is that of all rows, in   *)
(* any order and at the lower accuracy; its registers hold the places of   *)
(* the first bits set, whether they were filled one by one, by densify or  *)
(* by a merge; and two accuracies are refused once a part is not exact.    *)
THEOREM SketchesExact ==
  ASSUME PowersOfTwo, NEW p \in 1..HashBits, NEW q \in 1..HashBits,
         NEW first \in Seq(Nat), NEW second \in Seq(Nat)
  PROVE  HLLLaw(first, second, p, q)
<1> DEFINE S == ToSet(first)
           T == ToSet(second)
           m == Min({p, q})
           rows == Reverse(second \o first)
           merged == HLLMerge(HLLOf(first, p), HLLOf(second, q))
           whole == HLLOf(rows, m)
           Long(s) == Cardinality(ToSet(s)) > maxHLLSparseHashes
           refused == p # q /\ (Long(first) \/ Long(second))
           FirstBit(x, n) ==
             Min({HashBits - n + 1} \cup
              {k \in 1..HashBits - n : (x \div 2 ^ (HashBits - n - k)) % 2 = 1})
           Register(i, n) ==
             Max({0} \cup {FirstBit(x, n) : x \in
              {y \in ToSet(first \o second) : y \div 2 ^ (HashBits - n) = i}})
<1>0. p \in Nat /\ q \in Nat /\ m \in 1..HashBits /\ m \in Nat
  <2>1. p \in Int /\ q \in Int /\ p \in Nat /\ q \in Nat
    BY SketchAssumption
  <2>2. m = p \/ m = q
    BY <2>1, TwoNumbers
  <2> HIDE DEF m
  <2> QED
    BY <2>1, <2>2
<1>1. /\ 2 ^ p \in Nat \ {0} /\ 2 ^ q \in Nat \ {0}
      /\ 2 ^ m \in Nat \ {0}
  BY <1>0, PowersPositive
<1>2. /\ IsFiniteSet(S) /\ IsFiniteSet(T) /\ IsFiniteSet(S \cup T)
      /\ S \cup T \subseteq Nat
  BY FiniteRows, FS_Union
<1>3. /\ rows \in Seq(Nat) /\ ToSet(rows) = S \cup T
      /\ ToSet(first \o second) = S \cup T
  BY ReversedRows
<1>4. HLLOf(first, p) = SketchOf(p, S) /\ HLLOf(second, q) = SketchOf(q, T)
  BY <1>1, SketchOfRows
<1>5. whole = SketchOf(m, S \cup T)
  <2> HIDE DEF m, rows, S, T
  <2> QED
    BY <1>1, <1>3, SketchOfRows
<1>6. merged = IF refused THEN Refused ELSE SketchOf(m, S \cup T)
  <2>1. HLLMerge(SketchOf(p, S), SketchOf(q, T)) = MergedOf(p, q, S, T)
    <3>1. /\ p \in Nat /\ q \in Nat
          /\ 2 ^ p \in Nat \ {0} /\ 2 ^ q \in Nat \ {0}
          /\ IsFiniteSet(S) /\ IsFiniteSet(T)
      BY <1>0, <1>1, <1>2
    <3> HIDE DEF S, T
    <3> QED
      BY <3>1, MergeOf
  <2>2. merged = HLLMerge(SketchOf(p, S), SketchOf(q, T))
    BY <1>4
  <2> QED
    BY <2>1, <2>2 DEF MergedOf
<1>7. ASSUME ~refused
      PROVE  \A i \in DOMAIN merged.registers :
               merged.registers[i] = Register(i - 1, merged.p)
  <2>1. merged = SketchOf(m, S \cup T) /\ merged.p = m
    BY <1>1, <1>2, <1>6, <1>7, SketchParts
  <2>2. ASSUME NEW i \in 1..2 ^ m
        PROVE  RegistersOf(m, S \cup T)[i] = Register(i - 1, m)
    <3> DEFINE W == {y \in S \cup T : y \div 2 ^ (HashBits - m) = i - 1}
    <3>1. {y \in S \cup T : Place(m, y) = i} = W
      <4>1. ASSUME NEW y \in S \cup T
            PROVE  Place(m, y) = i <=> y \div 2 ^ (HashBits - m) = i - 1
        <5>1. y \in Int
          BY <1>2
        <5>2. HashBits - m \in Nat
          BY <1>0, SketchAssumption
        <5>3. PICK d \in Nat \ {0} : d = 2 ^ (HashBits - m)
          BY <5>2, PowersPositive
        <5>4. PICK e \in Int : e = y \div d
          BY <5>1, <5>3, Division
        <5>5. i \in Int
          BY <1>1
        <5>6. e + 1 = i <=> e = i - 1
          BY <5>5
        <5> QED
          BY <5>3, <5>4, <5>6 DEF Place
      <4> QED
        BY <4>1
    <3>2. ASSUME NEW x \in S \cup T PROVE Rank(m, x) = FirstBit(x, m)
      <4>1. PICK P : P = [j \in Nat |-> 2 ^ j]
        OBVIOUS
      <4>2. \A k \in 1..HashBits - m :
              P[HashBits - m - k] = 2 ^ (HashBits - m - k)
        <5>1. \A k \in 1..HashBits - m : HashBits - m - k \in Nat
          BY <1>0, SketchAssumption
        <5> QED
          BY <4>1, <5>1
      <4>3. {k \in 1..HashBits - m : Bit(P, HashBits - m, x, k)} =
              {k \in 1..HashBits - m : (x \div 2 ^ (HashBits - m - k)) % 2 = 1}
        BY <4>2 DEF Bit
      <4>4. FirstBitSet(P, HashBits - m, x) = FirstBit(x, m)
        BY <4>3 DEF FirstBitSet
      <4>5. x \in Nat
        BY <1>2
      <4>6. Rank(m, x) = FirstBitSet(P, HashBits - m, x)
        <5> HIDE DEF m
        <5> QED
          BY <1>0, <4>1, <4>5, RankIs
      <4> QED
        BY <4>4, <4>6
    <3>3. RanksAt(m, S \cup T, i) = {Rank(m, x) : x \in W}
      BY <3>1 DEF RanksAt
    <3>4. {Rank(m, x) : x \in W} = {FirstBit(x, m) : x \in W}
      <4>1. W \subseteq S \cup T
        OBVIOUS
      <4> HIDE DEF W, FirstBit
      <4> QED
        BY <3>2, <4>1
    <3>5. Register(i - 1, m) = Max({0} \cup {FirstBit(x, m) : x \in W})
      BY <1>3
    <3>6. RegistersOf(m, S \cup T)[i] = Max({0} \cup RanksAt(m, S \cup T, i))
      BY DEF RegistersOf
    <3> HIDE DEF Register, W, FirstBit
    <3> QED
      BY <3>3, <3>4, <3>5, <3>6
  <2>3. merged.registers \in {<<>>, RegistersOf(m, S \cup T)}
    <3>1. SketchOf(m, S \cup T).registers \in {<<>>, RegistersOf(m, S \cup T)}
      BY DEF SketchOf
    <3> HIDE DEF merged
    <3> QED
      BY <2>1, <3>1
  <2>4. DOMAIN RegistersOf(m, S \cup T) = 1..2 ^ m /\ DOMAIN <<>> = {}
    BY DEF RegistersOf
  <2> HIDE DEF merged, Register
  <2> QED
    BY <2>1, <2>2, <2>3, <2>4
<1>8. ASSUME ~refused, whole.registers = <<>> PROVE merged.sparse = S \cup T
  <2>1. merged = SketchOf(m, S \cup T) /\ whole = merged
    BY <1>5, <1>6, <1>8
  <2>2. ~(Cardinality(S \cup T) > maxHLLSparseHashes)
    BY <1>1, <1>2, <1>5, <1>8, SketchParts
  <2>3. SketchOf(m, S \cup T).sparse = S \cup T
    BY <2>2 DEF SketchOf
  <2> HIDE DEF merged
  <2> QED
    BY <2>1, <2>3
<1>9. ~refused => estimate(merged) = estimate(whole)
  BY <1>5, <1>6
<1>10. HLLLaw(first, second, p, q) =
         IF refused THEN merged = Refused
         ELSE /\ estimate(merged) = estimate(whole)
              /\ \A i \in DOMAIN merged.registers :
                   merged.registers[i] = Register(i - 1, merged.p)
              /\ whole.registers = <<>> => merged.sparse = S \cup T
  BY DEF HLLLaw
<1> HIDE DEF refused, merged, whole, Register, S, T
<1> QED
  BY <1>6, <1>7, <1>8, <1>9, <1>10

-----------------------------------------------------------------------------
(* The blocks of a range of addresses                                      *)

LEMMA PowersAdd ==
  ASSUME PowersOfTwo, NEW a \in Nat, NEW b \in Nat
  PROVE  2 ^ (a + b) = 2 ^ a * 2 ^ b
<1>1. PICK P : P = [i \in Nat |-> 2 ^ i]
  OBVIOUS
<1>2. \A i \in Nat : P[i] = 2 ^ i
  BY <1>1
<1>3. Doubles(P)
  <2>1. \A i \in Nat : i + 1 \in Nat
    OBVIOUS
  <2>2. \A i \in Nat : P[i] \in Nat /\ P[i + 1] = 2 * P[i]
    BY <1>2, <2>1 DEF PowersOfTwo
  <2> QED
    BY <1>2, <2>2 DEF Doubles, PowersOfTwo
<1>4. a + b \in Nat
  OBVIOUS
<1> QED
  BY <1>2, <1>3, <1>4, PowerSum

LEMMA PowersGrow ==
  ASSUME PowersOfTwo, NEW a \in Nat, NEW b \in Nat, a <= b
  PROVE  /\ 2 ^ a <= 2 ^ b
         /\ \E k \in Nat \ {0} : 2 ^ b = k * 2 ^ a
<1>1. PICK c \in Nat : b = a + c
  BY b - a \in Nat
<1>2. PICK u \in Nat \ {0}, k \in Nat \ {0} : u = 2 ^ a /\ k = 2 ^ c
  BY PowersPositive
<1>3. 2 ^ b = u * k
  BY <1>1, <1>2, PowersAdd
<1>4. k * u >= u
  BY Multiples
<1>5. u * k = k * u
  OBVIOUS
<1> QED
  BY <1>2, <1>3, <1>4, <1>5

LEMMA HostBitsRight ==
  ASSUME PowersOfTwo, NEW s \in Nat, NEW e \in Nat, s <= e
  PROVE  LET h == HostBits(s, e)
         IN  /\ h \in 0..V4Bits
             /\ s % 2 ^ h = 0
             /\ 2 ^ h <= e - s + 1
             /\ h + 1 \in 0..V4Bits /\ s % 2 ^ (h + 1) = 0 =>
                  ~(2 ^ (h + 1) <= e - s + 1)
<1> DEFINE A == {h \in 0..V4Bits : s % 2 ^ h = 0}
           F == {h \in 0..V4Bits : 2 ^ h <= e - s + 1}
<1>1. 0 \in A /\ 0 \in F
  <2>1. 2 ^ 0 = 1 /\ 0 \in 0..V4Bits
    BY AddressAssumption DEF PowersOfTwo
  <2>2. s % 1 = 0
    OBVIOUS
  <2> QED
    BY <2>1, <2>2
<1>2. A \subseteq 0..V4Bits /\ F \subseteq 0..V4Bits /\ V4Bits \in Nat
  BY AddressAssumption
<1> HIDE DEF A, F
<1>3. PICK a \in A : a = Max(A) /\ \A j \in A : a >= j
  BY <1>1, <1>2, GreatestNatural
<1>4. PICK f \in F : f = Max(F) /\ \A j \in F : f >= j
  BY <1>1, <1>2, GreatestNatural
<1>5. a \in 0..V4Bits /\ f \in 0..V4Bits
  BY <1>2, <1>3, <1>4
<1>6. PICK h \in 0..V4Bits : h = HostBits(s, e) /\ h = IF a <= f THEN a ELSE f
  <2>1. HostBits(s, e) = Min({a, f})
    BY <1>3, <1>4 DEF HostBits, A, F
  <2>2. Min({a, f}) = IF a <= f THEN a ELSE f
    BY <1>5, TwoNumbers
  <2> QED
    BY <1>5, <2>1, <2>2
<1>7. s % 2 ^ h = 0
  <2>1. h <= a
    BY <1>5, <1>6
  <2>2. PICK k \in Nat \ {0} : 2 ^ a = k * 2 ^ h
    BY <1>5, <2>1, PowersGrow
  <2>3. PICK u \in Nat \ {0}, w \in Nat \ {0} : u = 2 ^ h /\ w = 2 ^ a
    BY <1>5, PowersPositive
  <2>4. s % w = 0
    BY <1>3, <2>3 DEF A
  <2> s \in Int
    OBVIOUS
  <2>5. PICK q \in Int : s = q * w + 0
    BY <2>4, Division
  <2>6. PICK r \in Int : r = q * k
    OBVIOUS
  <2>7. s = r * u + 0
    <3>1. q * (k * u) = (q * k) * u
      OBVIOUS
    <3> QED
      BY <2>2, <2>3, <2>5, <2>6, <3>1
  <2>8. 0 \in 0..u-1
    OBVIOUS
  <2> QED
    BY <2>3, <2>7, <2>8, RemainderIs
<1>8. 2 ^ h <= e - s + 1
  <2>1. h <= f
    BY <1>5, <1>6
  <2>2. 2 ^ h <= 2 ^ f
    BY <1>5, <2>1, PowersGrow
  <2>3. 2 ^ f <= e - s + 1
    BY <1>4 DEF F
  <2>4. 2 ^ h \in Nat /\ 2 ^ f \in Nat
    BY <1>5, PowersPositive
  <2> QED
    BY <2>2, <2>3, <2>4
<1>9. ASSUME h + 1 \in 0..V4Bits, s % 2 ^ (h + 1) = 0,
             2 ^ (h + 1) <= e - s + 1
      PROVE  FALSE
  <2>1. h + 1 \in A /\ h + 1 \in F
    BY <1>9 DEF A, F
  <2>2. a >= h + 1 /\ f >= h + 1
    BY <1>3, <1>4, <2>1
  <2> QED
    BY <1>5, <1>6, <2>2
<1> QED
  BY <1>6, <1>7, <1>8, <1>9

(* The multiples of m that x and y lie above. *)
LEMMA SameMultiple ==
  ASSUME NEW m \in Nat \ {0}, NEW x \in Nat, NEW s \in Nat
  PROVE  /\ x \div m = s \div m <=> x - (x % m) = s - (s % m)
         /\ x - (x % m) \in Nat
         /\ (x - (x % m)) \div m = x \div m
         /\ (x - (x % m)) % m = 0
         /\ s % m = 0 => (x \div m = s \div m <=> x \in s..s + m - 1)
<1>1. PICK q \in Int, r \in 0..m-1 :
        q = x \div m /\ r = x % m /\ x = q * m + r
  <2>1. x \in Int
    OBVIOUS
  <2> QED
    BY <2>1, Division
<1>2. PICK p \in Int, t \in 0..m-1 :
        p = s \div m /\ t = s % m /\ s = p * m + t
  <2>1. s \in Int
    OBVIOUS
  <2> QED
    BY <2>1, Division
<1>3. q = p <=> q * m = p * m
  <2>1. q * m = p * m => q = p
    <3>1. 0 \in 0..m-1
      OBVIOUS
    <3>2. q * m + 0 = p * m + 0 => q = p
      BY <3>1, RemainderUnique
    <3> QED
      BY <3>2
  <2> QED
    BY <2>1
<1>4. q >= 0
  <2>1. q <= -1 => q * m <= -m
    BY Multiples
  <2> QED
    BY <1>1, <2>1
<1>5. PICK c \in Int, d \in Int : c = q * m /\ d = p * m
  OBVIOUS
<1>6. c >= 0
  <2>1. q >= 1 => q * m >= m
    BY Multiples
  <2>2. q = 0 => q * m = 0
    OBVIOUS
  <2> QED
    BY <1>4, <1>5, <2>1, <2>2
<1>7. x - r = c /\ s - t = d /\ c \in Nat
  BY <1>1, <1>2, <1>5, <1>6
<1>8. c \div m = q /\ c % m = 0
  <2>1. c = q * m + 0 /\ 0 \in 0..m-1
    BY <1>5
  <2> QED
    BY <2>1, RemainderIs
<1>9. ASSUME t = 0 PROVE q = p <=> x \in s..s + m - 1
  <2>1. q = p => x \in s..s + m - 1
    BY <1>1, <1>2, <1>5, <1>9
  <2>2. ASSUME x \in s..s + m - 1 PROVE q = p
    <3>1. x = p * m + (x - s) /\ x - s \in 0..m-1
      BY <1>2, <1>5, <1>9, <2>2
    <3> QED
      BY <1>1, <3>1, RemainderUnique
  <2> QED
    BY <2>1, <2>2
<1> QED
  BY <1>1, <1>2, <1>3, <1>5, <1>7, <1>8, <1>9

LEMMA BlockHosts ==
  ASSUME PowersOfTwo, NEW h \in 0..V4Bits, NEW s \in Nat,
         s % 2 ^ h = 0, s + 2 ^ h <= 2 ^ V4Bits
  PROVE  /\ Hosts(<<s, V4Bits - h>>, V4Bits) = s..s + 2 ^ h - 1
         /\ Masked(s, V4Bits - h, V4Bits) = s
<1>1. V4Bits - (V4Bits - h) = h /\ h \in Nat /\ V4Bits \in Nat
  BY AddressAssumption
<1>2. PICK m \in Nat \ {0}, w \in Nat \ {0} : m = 2 ^ h /\ w = 2 ^ V4Bits
  BY <1>1, PowersPositive
<1>3. Hosts(<<s, V4Bits - h>>, V4Bits) =
        {n \in 0..w - 1 : n \div m = s \div m}
  BY <1>1, <1>2 DEF Hosts
<1>4. \A n \in 0..w - 1 : n \div m = s \div m <=> n \in s..s + m - 1
  <2> SUFFICES ASSUME NEW n \in 0..w - 1
               PROVE  n \div m = s \div m <=> n \in s..s + m - 1
    OBVIOUS
  <2>1. n \in Nat /\ s % m = 0
    BY <1>2
  <2> QED
    BY <2>1, SameMultiple
<1>5. \A n \in s..s + m - 1 : n \in 0..w - 1
  BY <1>2
<1>6. {n \in 0..w - 1 : n \div m = s \div m} = s..s + m - 1
  BY <1>4, <1>5
<1>7. Masked(s, V4Bits - h, V4Bits) = s
  BY <1>1 DEF Masked
<1> QED
  BY <1>2, <1>3, <1>6, <1>7

LEMMA BlockSize ==
  ASSUME PowersOfTwo, NEW s \in Nat, NEW e \in Nat, s <= e
  PROVE  \E h \in 0..V4Bits, w \in Nat \ {0}, m \in Nat \ {0} :
           /\ h = HostBits(s, e) /\ w = 2 ^ h /\ m = 2 ^ (h + 1) /\ m = w + w
           /\ s % w = 0 /\ w <= e - s + 1
           /\ h # V4Bits /\ s % m = 0 => ~(m <= e - s + 1)
<1>1. PICK h : h = HostBits(s, e)
  OBVIOUS
<1>2. /\ h \in 0..V4Bits /\ s % 2 ^ h = 0 /\ 2 ^ h <= e - s + 1
      /\ h + 1 \in 0..V4Bits /\ s % 2 ^ (h + 1) = 0 =>
           ~(2 ^ (h + 1) <= e - s + 1)
  BY <1>1, HostBitsRight
<1>3. V4Bits \in Nat /\ h \in Nat
  BY <1>2, AddressAssumption
<1>4. PICK w \in Nat \ {0} : w = 2 ^ h
  BY <1>3, PowersPositive
<1>5. PICK m : m = 2 ^ (h + 1)
  OBVIOUS
<1>6. m = 2 * w
  BY <1>3, <1>4, <1>5 DEF PowersOfTwo
<1>7. m = w + w /\ m \in Nat \ {0}
  BY <1>6
<1>8. h # V4Bits => h + 1 \in 0..V4Bits
  BY <1>2, <1>3
<1>9. /\ s % w = 0 /\ w <= e - s + 1
      /\ h # V4Bits /\ s % m = 0 => ~(m <= e - s + 1)
  BY <1>2, <1>4, <1>5, <1>8
<1> QED
  BY <1>1, <1>2, <1>4, <1>5, <1>7, <1>9

LEMMA WholeMultiple ==
  ASSUME NEW m \in Nat \ {0}, NEW a \in Int, NEW q \in Int, a = q * m
  PROVE  a % m = 0
<1>1. a = q * m + 0 /\ 0 \in 0..m-1
  OBVIOUS
<1> QED
  BY <1>1, RemainderIs

LEMMA SecondHalf ==
  ASSUME NEW w \in Nat \ {0}, NEW m \in Nat \ {0}, m = w + w,
         NEW s \in Nat, s % w = 0, s % m # 0
  PROVE  s % m = w /\ (s + w) % m = 0
<1>1. PICK p \in Int, r \in 0..m-1 : r = s % m /\ s = p * m + r
  <2>1. s \in Int
    OBVIOUS
  <2>2. PICK p : p = s \div m
    OBVIOUS
  <2> QED
    BY <2>1, <2>2, Division
<1>2. PICK k \in Int : s = k * w + 0
  <2>1. s \in Int
    OBVIOUS
  <2>2. PICK k : k = s \div w
    OBVIOUS
  <2> QED
    BY <2>1, <2>2, Division
<1>3. PICK n \in Int, l \in Int : n = k - (p + p) /\ l = n - 2
  <2>1. k - (p + p) \in Int /\ k - (p + p) - 2 \in Int
    OBVIOUS
  <2> QED
    BY <2>1
<1>4. PICK z \in Int, y \in Int : z = n * w /\ y = l * w
  OBVIOUS
<1>5. z = r
  <2>0. s = p * m + r /\ s = k * w + 0
    BY <1>1, <1>2
  <2>1. PICK a \in Int, c \in Int : a = p * w /\ c = k * w
    OBVIOUS
  <2>2. p * m = a + a
    BY <2>1
  <2>3. n * w = c - (a + a)
    BY <1>3, <2>1
  <2> QED
    BY <1>4, <2>0, <2>1, <2>2, <2>3
<1>6. n <= -1 => z <= -w
  BY <1>4, Multiples
<1>7. l >= 0 => y >= 0
  <2>1. l >= 1 => y >= w
    BY <1>4, Multiples
  <2>2. l = 0 => y = 0
    BY <1>4
  <2> QED
    BY <2>1, <2>2
<1>8. y = z - m
  <2>1. l * w = n * w - 2 * w
    BY <1>3
  <2> QED
    BY <1>4, <2>1
<1>9. n = 0 => z = 0
  BY <1>4
<1>10. n = 1
  BY <1>1, <1>3, <1>5, <1>6, <1>7, <1>8, <1>9
<1>11. r = w
  BY <1>4, <1>5, <1>10
<1>12. s + w = (p + 1) * m + 0
  <2>1. (p + 1) * m = p * m + m
    OBVIOUS
  <2> QED
    BY <1>1, <1>11, <2>1
<1>13. p + 1 \in Int /\ 0 \in 0..m-1 /\ s + w \in Int
  OBVIOUS
<1>14. (s + w) % m = 0
  <2>1. PICK c \in Int, d \in Int : c = s + w /\ d = p + 1
    BY <1>13
  <2>2. c = d * m
    BY <1>12, <2>1
  <2>3. c % m = 0
    BY <2>2, WholeMultiple
  <2> QED
    BY <2>1, <2>3, Zenon
<1>15. s % m = r
  BY <1>1
<1>16. s % m = w
  BY <1>11, <1>15, Zenon
<1> QED
  BY <1>14, <1>16, Zenon

LEMMA TwiceFits ==
  ASSUME NEW w \in Nat, NEW m \in Nat, NEW s \in Nat, NEW e \in Nat,
         m = w + w, w <= e - (s + w) + 1
  PROVE  m <= e - s + 1
OBVIOUS

(* Two neighbours of one size are not the halves of a block: the first     *)
(* would have been that block.                                             *)
LEMMA NeighboursApart ==
  ASSUME PowersOfTwo, NEW s \in Nat, NEW e \in Nat,
         NEW h \in 0..V4Bits, h = HostBits(s, e),
         NEW w \in Nat \ {0}, w = 2 ^ h, s + w <= e, h # V4Bits,
         h = HostBits(s + w, e)
  PROVE  Masked(s, V4Bits - h - 1, V4Bits)
           # Masked(s + w, V4Bits - h - 1, V4Bits)
<1>1. PICK m \in Nat \ {0} :
        /\ m = 2 ^ (h + 1) /\ m = w + w /\ s % w = 0
        /\ s % m = 0 => ~(m <= e - s + 1)
  <2>1. s <= e
    OBVIOUS
  <2>2. PICK g \in 0..V4Bits, v \in Nat \ {0}, m \in Nat \ {0} :
          /\ g = HostBits(s, e) /\ v = 2 ^ g /\ m = 2 ^ (g + 1) /\ m = v + v
          /\ s % v = 0
          /\ g # V4Bits /\ s % m = 0 => ~(m <= e - s + 1)
    BY <2>1, BlockSize
  <2>3. g = h
    BY <2>2
  <2>4. v = w
    BY <2>2, <2>3
  <2> QED
    BY <2>2, <2>3, <2>4
<1>2. w <= e - (s + w) + 1
  <2>1. s + w \in Nat
    OBVIOUS
  <2>2. PICK g \in 0..V4Bits, v \in Nat \ {0}, n \in Nat \ {0} :
          /\ g = HostBits(s + w, e) /\ v = 2 ^ g /\ v <= e - (s + w) + 1
    BY <2>1, BlockSize
  <2>3. g = h
    BY <2>2
  <2>4. v = w
    BY <2>2, <2>3
  <2> QED
    BY <2>2, <2>4
<1>3. V4Bits - (V4Bits - h - 1) = h + 1
  BY AddressAssumption
<1>4. s % m # 0
  <2>1. m <= e - s + 1
    <3>1. m = w + w
      BY <1>1
    <3> QED
      BY <1>2, <3>1, TwiceFits
  <2> QED
    BY <1>1, <2>1
<1>5. s % m = w /\ (s + w) % m = 0
  BY <1>1, <1>4, SecondHalf
<1>6. Masked(s, V4Bits - h - 1, V4Bits) = s - w
  BY <1>1, <1>3, <1>5 DEF Masked
<1>7. Masked(s + w, V4Bits - h - 1, V4Bits) = s + w - 0
  BY <1>1, <1>3, <1>5 DEF Masked
<1> QED
  BY <1>6, <1>7

(* What the list of the blocks from s to e is.                             *)
ListsAll(L, s, e) ==
  \A x : (\E i \in DOMAIN L : x \in Hosts(L[i], V4Bits)) <=> x \in s..e

Apart(L) ==
  \A i, j \in DOMAIN L :
    i # j => Hosts(L[i], V4Bits) \cap Hosts(L[j], V4Bits) = {}

Aligned(b) == b[1] = Masked(b[1], b[2], V4Bits)

Halves(b, c) ==
  /\ b[2] = c[2]
  /\ Masked(b[1], b[2] - 1, V4Bits) = Masked(c[1], c[2] - 1, V4Bits)

Exact(L, s, e) ==
  /\ L \in Seq(Nat \X (0..V4Bits))
  /\ ListsAll(L, s, e)
  /\ Apart(L)
  /\ \A i \in DOMAIN L : Aligned(L[i])
  /\ \A i \in 1..Len(L) - 1 : ~Halves(L[i], L[i + 1])
  /\ IF s > e THEN L = <<>>
     ELSE L # <<>> /\ L[1] = <<s, V4Bits - HostBits(s, e)>>

LEMMA OneMoreBlock ==
  ASSUME PowersOfTwo, NEW s \in Nat, NEW e \in 0..2 ^ V4Bits - 1, s <= e,
         NEW L, Exact(L, s + 2 ^ HostBits(s, e), e)
  PROVE  Exact(<<<<s, V4Bits - HostBits(s, e)>>>> \o L, s, e)
<1>1. V4Bits \in Nat
  BY AddressAssumption
<1>2. PICK u \in Nat \ {0} : u = 2 ^ V4Bits
  BY <1>1, PowersPositive
<1>3. e \in Nat /\ e < u
  BY <1>2
<1>4. PICK h \in 0..V4Bits, w \in Nat \ {0} :
        /\ h = HostBits(s, e) /\ w = 2 ^ h /\ s % w = 0 /\ w <= e - s + 1
  BY <1>3, BlockSize
<1>5. h \in Nat /\ s + w \in Nat
  BY <1>1
<1>6. s + w <= u
  BY <1>3, <1>4
<1>7. PICK B : B = <<s, V4Bits - h>>
  OBVIOUS
<1>8. PICK K : K = <<B>> \o L
  OBVIOUS
<1>9. /\ L \in Seq(Nat \X (0..V4Bits)) /\ ListsAll(L, s + w, e) /\ Apart(L)
      /\ \A i \in DOMAIN L : Aligned(L[i])
      /\ \A i \in 1..Len(L) - 1 : ~Halves(L[i], L[i + 1])
      /\ IF s + w > e THEN L = <<>>
         ELSE L # <<>> /\ L[1] = <<s + w, V4Bits - HostBits(s + w, e)>>
  BY <1>4 DEF Exact
<1>10. /\ K \in Seq(Nat \X (0..V4Bits)) /\ Len(K) = Len(L) + 1
       /\ Len(L) \in Nat /\ DOMAIN L = 1..Len(L) /\ DOMAIN K = 1..Len(L) + 1
       /\ K[1] = B /\ \A i \in 1..Len(L) : K[i + 1] = L[i]
  <2>1. V4Bits - h \in 0..V4Bits
    BY <1>1
  <2>2. B \in Nat \X (0..V4Bits)
    BY <1>7, <2>1
  <2>3. PICK R : R = Nat \X (0..V4Bits)
    OBVIOUS
  <2>4. L \in Seq(R) /\ <<B>> \in Seq(R)
    BY <1>9, <2>2, <2>3
  <2>5. K \in Seq(R) /\ Len(K) = Len(L) + 1 /\ Len(L) \in Nat
    BY <1>8, <2>4
  <2>6. DOMAIN L = 1..Len(L) /\ DOMAIN K = 1..Len(L) + 1
    BY <2>4, <2>5
  <2>7. K[1] = B
    BY <1>8, <2>4
  <2>8. \A i \in 1..Len(L) : K[i + 1] = L[i]
    BY <1>8, <2>4
  <2> QED
    BY <2>3, <2>5, <2>6, <2>7, <2>8
<1>11. Hosts(B, V4Bits) = s..s + w - 1 /\ Aligned(B)
  <2>1. B[1] = s /\ B[2] = V4Bits - h
    BY <1>7
  <2> QED
    BY <1>2, <1>4, <1>6, <1>7, <2>1, BlockHosts DEF Aligned
<1>12. PICK H : H = [i \in 1..Len(L) + 1 |-> Hosts(K[i], V4Bits)]
  OBVIOUS
<1>13. /\ H[1] = s..s + w - 1
       /\ \A i \in 1..Len(L) : H[i + 1] = Hosts(L[i], V4Bits)
  BY <1>10, <1>11, <1>12
<1>14. \A x : (\E i \in 1..Len(L) : x \in H[i + 1]) <=> x \in s + w..e
  <2>1. \A x : (\E i \in 1..Len(L) : x \in Hosts(L[i], V4Bits))
                 <=> x \in s + w..e
    <3>1. ListsAll(L, s + w, e) /\ DOMAIN L = 1..Len(L)
      BY <1>9, <1>10
    <3> QED
      BY <3>1 DEF ListsAll
  <2>2. \A i \in 1..Len(L) : H[i + 1] = Hosts(L[i], V4Bits)
    BY <1>13
  <2>3. ASSUME NEW x
        PROVE  (\E i \in 1..Len(L) : x \in H[i + 1]) <=>
                 \E i \in 1..Len(L) : x \in Hosts(L[i], V4Bits)
    BY <2>2
  <2> QED
    BY <2>1, <2>3
<1>15. \A i \in 1..Len(L) + 1 : i = 1 \/ \E j \in 1..Len(L) : i = j + 1
  <2> SUFFICES ASSUME NEW i \in 1..Len(L) + 1, i # 1
               PROVE  \E j \in 1..Len(L) : i = j + 1
    OBVIOUS
  <2>1. PICK n \in Nat : n = Len(L)
    BY <1>10
  <2>2. i \in 1..n + 1
    BY <2>1
  <2>3. i - 1 \in 1..n /\ i = (i - 1) + 1
    BY <2>2
  <2> QED
    BY <2>1, <2>3
<1>16. ListsAll(K, s, e)
  <2> SUFFICES ASSUME NEW x
               PROVE  (\E i \in 1..Len(L) + 1 : x \in H[i]) <=> x \in s..e
    BY <1>10, <1>12 DEF ListsAll
  <2>1. x \in s..e <=> x \in s..s + w - 1 \/ x \in s + w..e
    BY <1>3, <1>4
  <2>2. 1 \in 1..Len(L) + 1 /\ \A i \in 1..Len(L) : i + 1 \in 1..Len(L) + 1
    BY <1>10
  <2>3. (\E i \in 1..Len(L) + 1 : x \in H[i]) <=>
          x \in H[1] \/ \E i \in 1..Len(L) : x \in H[i + 1]
    BY <1>15, <2>2
  <2> QED
    BY <1>13, <1>14, <2>1, <2>3
<1>17. Apart(K)
  <2>1. \A j \in 1..Len(L) : \A x \in H[j + 1] : x \in s + w..e
    BY <1>14
  <2>2. \A x : ~(x \in s..s + w - 1 /\ x \in s + w..e)
    BY <1>3, <1>4
  <2>3. \A j \in 1..Len(L) : H[1] \cap H[j + 1] = {}
    BY <1>13, <2>1, <2>2
  <2>4. \A i, j \in 1..Len(L) : i # j => H[i + 1] \cap H[j + 1] = {}
    <3>1. Apart(L) /\ DOMAIN L = 1..Len(L)
      BY <1>9, <1>10
    <3>2. \A i, j \in 1..Len(L) :
            i # j => Hosts(L[i], V4Bits) \cap Hosts(L[j], V4Bits) = {}
      BY <3>1 DEF Apart
    <3> QED
      BY <1>13, <3>2
  <2>5. \A i, j \in 1..Len(L) + 1 : i # j => H[i] \cap H[j] = {}
    BY <1>15, <2>3, <2>4
  <2> QED
    BY <1>10, <1>12, <2>5 DEF Apart
<1>18. \A i \in DOMAIN K : Aligned(K[i])
  <2>1. \A i \in 1..Len(L) : Aligned(L[i])
    BY <1>9, <1>10
  <2>2. \A i \in 1..Len(L) : Aligned(K[i + 1])
    BY <1>10, <2>1
  <2>3. Aligned(K[1]) /\ DOMAIN K = 1..Len(L) + 1
    BY <1>10, <1>11
  <2> QED
    BY <1>15, <2>2, <2>3
<1>19. \A i \in 1..Len(K) - 1 : ~Halves(K[i], K[i + 1])
  <2> SUFFICES ASSUME NEW i \in 1..Len(K) - 1
               PROVE  ~Halves(K[i], K[i + 1])
    OBVIOUS
  <2>1. i \in 1..Len(L)
    BY <1>10
  <2>2. CASE i = 1
    <3>1. L # <<>> /\ K[2] = L[1]
      BY <1>10, <2>1, <2>2
    <3>2. s + w <= e /\ L[1] = <<s + w, V4Bits - HostBits(s + w, e)>>
      <4>1. s + w <= e \/ s + w > e
        BY <1>3
      <4> QED
        BY <1>9, <3>1, <4>1
    <3>3. s + w \in Nat
      OBVIOUS
    <3>4. PICK g \in 0..V4Bits : g = HostBits(s + w, e)
      BY <1>3, <3>2, <3>3, HostBitsRight
    <3>5. ASSUME Halves(B, L[1]) PROVE FALSE
      <4>1. B[1] = s /\ B[2] = V4Bits - h
        BY <1>7
      <4>2. L[1][1] = s + w /\ L[1][2] = V4Bits - g
        BY <3>2, <3>4
      <4>3. g = h
        <5>1. V4Bits - h = V4Bits - g
          BY <3>5, <4>1, <4>2 DEF Halves
        <5> QED
          BY <1>1, <5>1
      <4>4. Masked(s, V4Bits - h - 1, V4Bits)
              = Masked(s + w, V4Bits - h - 1, V4Bits)
        BY <3>5, <4>1, <4>2, <4>3 DEF Halves
      <4>5. h = HostBits(s + w, e)
        BY <3>4, <4>3
      <4> QED
        <5>1. h # V4Bits
          BY <1>2, <1>3, <1>4, <3>2
        <5> QED
          BY <1>3, <1>4, <3>2, <4>4, <4>5, <5>1, NeighboursApart
    <3> QED
      BY <1>10, <2>2, <3>1, <3>5
  <2>3. CASE i # 1
    <3>0. i \in 1..Len(L) + 1
      BY <1>10, <2>1
    <3>1. PICK j \in 1..Len(L) : i = j + 1
      BY <1>15, <2>3, <3>0
    <3>2. j \in 1..Len(L) - 1
      BY <1>10, <2>1, <3>1
    <3>3. K[i] = L[j] /\ K[i + 1] = L[j + 1]
      BY <1>10, <2>1, <3>1
    <3> QED
      BY <1>9, <3>2, <3>3
  <2> QED
    BY <2>2, <2>3
<1>20. Exact(K, s, e)
  <2>1. K # <<>> /\ K[1] = <<s, V4Bits - HostBits(s, e)>> /\ ~(s > e)
    BY <1>3, <1>4, <1>7, <1>10
  <2> QED
    BY <1>10, <1>16, <1>17, <1>18, <1>19, <2>1 DEF Exact
<1> QED
  BY <1>4, <1>7, <1>8, <1>20

(* The recursion of Blocks: its function, and that there is one.           *)
Tiles(f, e) ==
  f = [s \in Nat |->
         IF s > e THEN <<>>
         ELSE <<<<s, V4Bits - HostBits(s, e)>>>> \o f[s + 2 ^ HostBits(s, e)]]

(* A function that is right from n on.                                     *)
TilesFrom(f, n, e) ==
  /\ DOMAIN f = Nat
  /\ \A s \in Nat : s >= n =>
       f[s] = IF s > e THEN <<>>
              ELSE <<<<s, V4Bits - HostBits(s, e)>>>>
                     \o f[s + 2 ^ HostBits(s, e)]

LEMMA TilesOneMore ==
  ASSUME PowersOfTwo, NEW e \in Nat, NEW n \in Nat, n <= e,
         NEW f, TilesFrom(f, n + 1, e)
  PROVE  \E g : TilesFrom(g, n, e)
<1>1. PICK t : t = <<<<n, V4Bits - HostBits(n, e)>>>>
                     \o f[n + 2 ^ HostBits(n, e)]
  OBVIOUS
<1>2. PICK g : g = [s \in Nat |-> IF s = n THEN t ELSE f[s]]
  OBVIOUS
<1>3. DOMAIN g = Nat /\ g[n] = t /\ \A s \in Nat : s # n => g[s] = f[s]
  BY <1>2
<1>4. ASSUME NEW s \in Nat, s >= n, s <= e
      PROVE  /\ s + 2 ^ HostBits(s, e) \in Nat
             /\ s + 2 ^ HostBits(s, e) # n
  <2>1. PICK h \in 0..V4Bits : h = HostBits(s, e)
    BY <1>4, HostBitsRight
  <2>2. h \in Nat
    BY AddressAssumption
  <2>3. PICK w \in Nat \ {0} : w = 2 ^ h
    BY <2>2, PowersPositive
  <2> QED
    BY <1>4, <2>1, <2>3
<1>5. ASSUME NEW s \in Nat, s >= n, s <= e
      PROVE  g[s + 2 ^ HostBits(s, e)] = f[s + 2 ^ HostBits(s, e)]
  BY <1>3, <1>4, <1>5
<1>6. TilesFrom(g, n, e)
  <2> SUFFICES ASSUME NEW s \in Nat, s >= n
               PROVE  g[s] = IF s > e THEN <<>>
                             ELSE <<<<s, V4Bits - HostBits(s, e)>>>>
                                    \o g[s + 2 ^ HostBits(s, e)]
    BY <1>3 DEF TilesFrom
  <2>1. CASE s = n
    <3>1. ~(s > e) /\ s <= e
      BY <2>1
    <3> QED
      BY <1>1, <1>3, <1>5, <2>1, <3>1
  <2>2. CASE s # n
    <3>1. s >= n + 1 /\ g[s] = f[s]
      BY <1>3, <2>2
    <3>2. CASE s > e
      BY <3>1, <3>2 DEF TilesFrom
    <3>3. CASE s <= e
      <4>1. ~(s > e)
        BY <3>3
      <4>2. f[s] = <<<<s, V4Bits - HostBits(s, e)>>>>
                     \o f[s + 2 ^ HostBits(s, e)]
        BY <3>1, <4>1 DEF TilesFrom
      <4> QED
        BY <1>5, <3>1, <3>3, <4>1, <4>2
    <3> QED
      BY <3>2, <3>3
  <2> QED
    BY <2>1, <2>2
<1> QED
  BY <1>6

LEMMA TilesExist ==
  ASSUME PowersOfTwo, NEW e \in Nat
  PROVE  \E f : Tiles(f, e)
<1> DEFINE A == {n \in 0..e + 1 : \E f : TilesFrom(f, n, e)}
<1>1. e + 1 \in A
  <2>1. TilesFrom([s \in Nat |-> <<>>], e + 1, e)
    <3>1. \A s \in Nat : s >= e + 1 => s > e
      OBVIOUS
    <3> QED
      BY <3>1 DEF TilesFrom
  <2> QED
    BY <2>1
<1>2. A \subseteq Nat
  OBVIOUS
<1>3. PICK n \in A : \A j \in A : n <= j
  <2> HIDE DEF A
  <2> QED
    BY <1>1, <1>2, LeastNatural
<1>4. n = 0
  <2> SUFFICES ASSUME n # 0 PROVE FALSE
    OBVIOUS
  <2>1. PICK m \in Nat : n = m + 1 /\ m <= e
    <3>1. n - 1 \in Nat /\ n = (n - 1) + 1 /\ n - 1 <= e
      OBVIOUS
    <3> QED
      BY <3>1
  <2>2. m \in A
    BY <2>1, TilesOneMore
  <2> HIDE DEF A
  <2> QED
    BY <1>3, <2>1, <2>2
<1>5. PICK f : TilesFrom(f, 0, e)
  BY <1>4
<1>6. PICK g : g = [s \in Nat |->
        IF s > e THEN <<>>
        ELSE <<<<s, V4Bits - HostBits(s, e)>>>> \o f[s + 2 ^ HostBits(s, e)]]
  OBVIOUS
<1>7. \A s \in Nat : ~(s > e) => s + 2 ^ HostBits(s, e) \in Nat
  <2> SUFFICES ASSUME NEW s \in Nat, s <= e
               PROVE  s + 2 ^ HostBits(s, e) \in Nat
    OBVIOUS
  <2>1. PICK h \in 0..V4Bits : h = HostBits(s, e)
    BY HostBitsRight
  <2>2. h \in Nat
    BY AddressAssumption
  <2>3. PICK w \in Nat \ {0} : w = 2 ^ h
    BY <2>2, PowersPositive
  <2> QED
    BY <2>1, <2>3
<1>8. \A s \in Nat : g[s] = f[s]
  <2>1. \A s \in Nat : s >= 0
    OBVIOUS
  <2> QED
    BY <1>5, <1>6, <2>1 DEF TilesFrom
<1>9. Tiles(g, e)
  BY <1>6, <1>7, <1>8 DEF Tiles
<1> QED
  BY <1>9

LEMMA TilesExact ==
  ASSUME PowersOfTwo, NEW e \in 0..2 ^ V4Bits - 1, NEW f, Tiles(f, e),
         NEW s \in Nat
  PROVE  Exact(f[s], s, e)
<1> DEFINE A == {n \in 0..e + 1 : \A k \in Nat : k >= n => Exact(f[k], k, e)}
<1>1. e \in Nat
  BY AddressAssumption, PowersPositive
<1>2. ASSUME NEW k \in Nat, k > e PROVE Exact(f[k], k, e)
  <2>1. f[k] = <<>>
    BY <1>2 DEF Tiles
  <2>2. ListsAll(<<>>, k, e)
    BY <1>1, <1>2 DEF ListsAll
  <2>3. PICK L : L = f[k]
    OBVIOUS
  <2>4. L = <<>> /\ L \in Seq(Nat \X (0..V4Bits)) /\ DOMAIN L = {} /\ Len(L) = 0
    BY <2>1, <2>3
  <2>5. Apart(L)
    BY <2>4 DEF Apart
  <2>6. Exact(L, k, e)
    BY <1>2, <2>2, <2>4, <2>5 DEF Exact
  <2> QED
    BY <2>3, <2>6
<1>3. e + 1 \in A
  <2>1. \A k \in Nat : k >= e + 1 => k > e
    BY <1>1
  <2> QED
    BY <1>1, <1>2, <2>1
<1>4. A \subseteq Nat
  OBVIOUS
<1>5. PICK n \in A : \A j \in A : n <= j
  <2> HIDE DEF A
  <2> QED
    BY <1>3, <1>4, LeastNatural
<1>6. n = 0
  <2> SUFFICES ASSUME n # 0 PROVE FALSE
    OBVIOUS
  <2>1. PICK m \in Nat : n = m + 1 /\ m <= e
    <3>1. n - 1 \in Nat /\ n = (n - 1) + 1 /\ n - 1 <= e
      BY <1>1
    <3> QED
      BY <3>1
  <2>2. Exact(f[m], m, e)
    <3>1. PICK h \in 0..V4Bits : h = HostBits(m, e)
      BY <1>1, <2>1, HostBitsRight
    <3>2. h \in Nat
      BY AddressAssumption
    <3>3. PICK w \in Nat \ {0} : w = 2 ^ h
      BY <3>2, PowersPositive
    <3>4. m + w \in Nat /\ m + w >= n /\ ~(m > e)
      BY <1>1, <2>1, <3>3
    <3>5. Exact(f[m + w], m + w, e)
      BY <3>4
    <3>6. f[m] = <<<<m, V4Bits - HostBits(m, e)>>>> \o f[m + 2 ^ HostBits(m, e)]
      BY <3>4 DEF Tiles
    <3> HIDE DEF A
    <3> QED
      BY <2>1, <3>1, <3>3, <3>5, <3>6, OneMoreBlock
  <2>3. \A k \in Nat : k >= m => k = m \/ k >= n
    BY <2>1
  <2>4. m \in A
    BY <1>1, <2>1, <2>2, <2>3
  <2> HIDE DEF A
  <2> QED
    BY <1>5, <2>1, <2>4
<1>7. s >= 0
  OBVIOUS
<1> QED
  BY <1>6, <1>7

(* What the parser of addresses gives: the bits of a version 4 address are *)
(* within its width, and a prefix is a number or missing.                  *)
Address ==
  {a \in [form : {"v4", "v6", "dotted", "none"}, bits : Nat,
          prefix : Nat \cup {NoPrefix}] :
     a.form = "v4" => a.bits < 2 ^ V4Bits}

(* ipv4_range_to_cidr_list: the blocks it lists are exactly the addresses  *)
(* of the range, none in two of them, each starts where a block of its     *)
(* size may, and no two neighbours could have been one.                    *)
THEOREM BlocksExact ==
  ASSUME PowersOfTwo, NEW a \in Address, NEW b \in Address
  PROVE  BlocksLaw(a, b)
<1> DEFINE list == kqlIPv4RangeToCIDRList(a, b)
<1>1. PICK s \in Nat, e \in Nat : s = a.bits /\ e = b.bits
  BY DEF Address
<1>2. parseIPv4Address(a, FALSE) =
        IF a.form # "v4" \/ a.prefix # NoPrefix THEN <<>> ELSE <<s>>
  BY <1>1 DEF parseIPv4Address
<1>3. parseIPv4Address(b, FALSE) =
        IF b.form # "v4" \/ b.prefix # NoPrefix THEN <<>> ELSE <<e>>
  BY <1>1 DEF parseIPv4Address
<1> DEFINE refused == \/ a.form # "v4" \/ a.prefix # NoPrefix
                      \/ b.form # "v4" \/ b.prefix # NoPrefix
                      \/ s > e
<1>4. CASE refused
  <2>1. list = NULL
    <3>1. CASE a.form # "v4" \/ a.prefix # NoPrefix
      BY <1>2, <3>1 DEF kqlIPv4RangeToCIDRList
    <3>2. CASE b.form # "v4" \/ b.prefix # NoPrefix
      BY <1>3, <3>2 DEF kqlIPv4RangeToCIDRList
    <3>3. CASE /\ ~(a.form # "v4" \/ a.prefix # NoPrefix)
               /\ ~(b.form # "v4" \/ b.prefix # NoPrefix)
               /\ s > e
      <4>1. /\ parseIPv4Address(a, FALSE) = <<s>>
            /\ parseIPv4Address(b, FALSE) = <<e>>
        BY <1>2, <1>3, <3>3
      <4>2. <<s>>[1] = s /\ <<e>>[1] = e
        OBVIOUS
      <4> QED
        BY <3>3, <4>1, <4>2 DEF kqlIPv4RangeToCIDRList
    <3> QED
      BY <1>4, <3>1, <3>2, <3>3
  <2> HIDE DEF list
  <2>2. \/ a.form # "v4" \/ b.form # "v4" \/ a.bits > b.bits
        \/ a.prefix # NoPrefix \/ b.prefix # NoPrefix
    BY <1>1, <1>4
  <2> QED
    BY <2>1, <2>2 DEF BlocksLaw, list
<1>5. CASE ~refused
  <2>1. a.form = "v4" /\ b.form = "v4" /\ ~(s > e) /\ s <= e
    BY <1>5
  <2>2. list = Arr(Blocks(s, e))
    <3>1. /\ parseIPv4Address(a, FALSE) = <<s>>
          /\ parseIPv4Address(b, FALSE) = <<e>>
      BY <1>2, <1>3, <1>5
    <3>2. /\ <<s>>[1] = s /\ <<e>>[1] = e
          /\ <<s>> # <<>> /\ <<e>> # <<>>
      OBVIOUS
    <3> QED
      BY <2>1, <3>1, <3>2 DEF kqlIPv4RangeToCIDRList
  <2>3. PICK f : f = CHOOSE g : Tiles(g, e)
    OBVIOUS
  <2>4. Tiles(f, e)
    BY <2>3, TilesExist
  <2>5. Blocks(s, e) = f[s]
    BY <2>3 DEF Blocks, Tiles
  <2>6. e \in 0..2 ^ V4Bits - 1
    <3>1. e < 2 ^ V4Bits
      BY <1>1, <2>1 DEF Address
    <3>2. 2 ^ V4Bits \in Nat
      BY AddressAssumption, PowersPositive
    <3> QED
      BY <3>1, <3>2
  <2>7. PICK L : L = f[s]
    OBVIOUS
  <2>8. Exact(L, s, e)
    BY <2>4, <2>6, <2>7, TilesExact
  <2>9. list = <<"arr", L>>
    BY <2>2, <2>5, <2>7 DEF Arr
  <2> HIDE DEF list
  <2>10. list # NULL /\ list[2] = L
    BY <2>9 DEF NULL
  <2>11. /\ L \in Seq(Nat \X (0..V4Bits)) /\ ListsAll(L, s, e) /\ Apart(L)
         /\ \A i \in DOMAIN L : Aligned(L[i])
         /\ \A i \in 1..Len(L) - 1 : ~Halves(L[i], L[i + 1])
    BY <2>8 DEF Exact
  <2>12. UNION {Hosts(L[i], V4Bits) : i \in DOMAIN L} = a.bits..b.bits
    <3>1. \A x : (\E i \in DOMAIN L : x \in Hosts(L[i], V4Bits))
                   <=> x \in s..e
      BY <2>11 DEF ListsAll
    <3> QED
      BY <1>1, <3>1
  <2>13. ASSUME NEW i \in DOMAIN L, NEW j \in DOMAIN L
         PROVE  /\ i # j => Hosts(L[i], V4Bits) \cap Hosts(L[j], V4Bits) = {}
                /\ L[i][1] = Masked(L[i][1], L[i][2], V4Bits)
                /\ j = i + 1 /\ L[i][2] = L[j][2] =>
                     Masked(L[i][1], L[i][2] - 1, V4Bits)
                       # Masked(L[j][1], L[j][2] - 1, V4Bits)
    <3>1. i # j => Hosts(L[i], V4Bits) \cap Hosts(L[j], V4Bits) = {}
      BY <2>11 DEF Apart
    <3>2. L[i][1] = Masked(L[i][1], L[i][2], V4Bits)
      BY <2>11 DEF Aligned
    <3>3. ASSUME j = i + 1, L[i][2] = L[j][2]
          PROVE  Masked(L[i][1], L[i][2] - 1, V4Bits)
                   # Masked(L[j][1], L[j][2] - 1, V4Bits)
      <4>1. i \in 1..Len(L) - 1
        <5>1. DOMAIN L = 1..Len(L) /\ Len(L) \in Nat
          BY <2>11
        <5> QED
          BY <3>3, <5>1
      <4>2. ~Halves(L[i], L[j])
        BY <2>11, <3>3, <4>1
      <4> QED
        BY <3>3, <4>2 DEF Halves
    <3> QED
      BY <3>1, <3>2, <3>3
  <2> QED
    BY <2>10, <2>12, <2>13 DEF BlocksLaw, list
<1> QED
  BY <1>4, <1>5

-----------------------------------------------------------------------------
(* The ranges of addresses                                                 *)

(* A quotient by a product, one factor after the other.                    *)
LEMMA TwoQuotients ==
  ASSUME NEW u \in Nat \ {0}, NEW k \in Nat \ {0}, NEW m \in Nat \ {0},
         m = k * u, NEW x \in Nat
  PROVE  x \div m = (x \div u) \div k
<1>1. PICK a \in Int, r \in 0..u-1 : a = x \div u /\ x = a * u + r
  <2>1. x \in Int
    OBVIOUS
  <2>2. PICK a, r : a = x \div u /\ r = x % u
    OBVIOUS
  <2> QED
    BY <2>1, <2>2, Division
<1>2. PICK c \in Int, d \in 0..k-1 : c = a \div k /\ a = c * k + d
  <2>1. PICK c, d : c = a \div k /\ d = a % k
    OBVIOUS
  <2> QED
    BY <2>1, Division
<1>3. PICK t \in Nat : t = d * u
  <2>1. d \in Nat
    OBVIOUS
  <2> QED
    BY <2>1
<1>4. t <= m - u
  <2>1. PICK l \in Nat : l = (k - 1) - d
    <3>1. (k - 1) - d \in Nat
      OBVIOUS
    <3> QED
      BY <3>1
  <2>2. PICK f \in Nat : f = l * u
    OBVIOUS
  <2>3. l * u = k * u - u - d * u
    BY <2>1
  <2> QED
    BY <1>3, <2>2, <2>3
<1>5. PICK s \in Int : s = t + r
  <2>1. t + r \in Int
    OBVIOUS
  <2> QED
    BY <2>1
<1>6. s \in 0..m-1
  BY <1>4, <1>5
<1>7. x = c * m + s
  <2>1. a * u = (c * k) * u + d * u
    BY <1>2
  <2>2. (c * k) * u = c * (k * u)
    OBVIOUS
  <2> QED
    BY <1>1, <1>3, <1>5, <2>1, <2>2
<1>8. x \div m = c
  <2>1. x \in Int
    OBVIOUS
  <2> QED
    BY <1>6, <1>7, <2>1, RemainderIs
<1> QED
  BY <1>1, <1>2, <1>8, Zenon

(* The bits left of a prefix, and the network they number.                 *)
Size(prefix, width) == 2 ^ (width - prefix)

Network(x, prefix, width) == x \div Size(prefix, width)

LEMMA SizeOf ==
  ASSUME PowersOfTwo, NEW width \in Nat, NEW p \in 0..width
  PROVE  Size(p, width) \in Nat \ {0}
<1>1. width - p \in Nat
  OBVIOUS
<1> QED
  BY <1>1, PowersPositive DEF Size

LEMMA MaskedIs ==
  ASSUME PowersOfTwo, NEW width \in Nat, NEW p \in 0..width, NEW x \in Nat,
         NEW y \in Nat
  PROVE  /\ Masked(x, p, width) \in Nat
         /\ Network(Masked(x, p, width), p, width) = Network(x, p, width)
         /\ Masked(x, p, width) = Masked(y, p, width) <=>
              Network(x, p, width) = Network(y, p, width)
         /\ Masked(x, width, width) = x
<1>1. PICK m \in Nat \ {0} : m = Size(p, width)
  BY SizeOf
<1>2. /\ Masked(x, p, width) = x - (x % m)
      /\ Masked(y, p, width) = y - (y % m)
      /\ \A z : Network(z, p, width) = z \div m
  BY <1>1 DEF Masked, Size, Network
<1>3. /\ x \div m = y \div m <=> x - (x % m) = y - (y % m)
      /\ x - (x % m) \in Nat /\ (x - (x % m)) \div m = x \div m
  BY SameMultiple
<1>4. Masked(x, width, width) = x
  <2>1. width - width = 0 /\ 2 ^ 0 = 1
    BY DEF PowersOfTwo
  <2>2. x % 1 = 0
    OBVIOUS
  <2> QED
    BY <2>1, <2>2 DEF Masked
<1> QED
  BY <1>2, <1>3, <1>4

(* Addresses that agree on a prefix agree on a shorter one.                *)
LEMMA ShorterPrefix ==
  ASSUME PowersOfTwo, NEW width \in Nat, NEW p \in 0..width, NEW q \in 0..p,
         NEW x \in Nat, NEW y \in Nat,
         Network(x, p, width) = Network(y, p, width)
  PROVE  Network(x, q, width) = Network(y, q, width)
<1>1. PICK i \in Nat, j \in Nat : i = width - p /\ j = width - q /\ i <= j
  <2>1. width - p \in Nat /\ width - q \in Nat /\ width - p <= width - q
    OBVIOUS
  <2> QED
    BY <2>1
<1>2. PICK u \in Nat \ {0} : u = 2 ^ i
  BY PowersPositive
<1>3. PICK m \in Nat \ {0} : m = 2 ^ j
  BY PowersPositive
<1>4. PICK k \in Nat \ {0} : m = k * u
  BY <1>1, <1>2, <1>3, PowersGrow
<1>5. x \div u = y \div u
  BY <1>1, <1>2 DEF Network, Size
<1>6. x \div m = (x \div u) \div k /\ y \div m = (y \div u) \div k
  BY <1>4, TwoQuotients
<1>7. x \div m = y \div m
  BY <1>5, <1>6, Zenon
<1> QED
  BY <1>1, <1>3, <1>7 DEF Network, Size

LEMMA MaskedTwice ==
  ASSUME PowersOfTwo, NEW width \in Nat, NEW p \in 0..width, NEW q \in 0..p,
         NEW x \in Nat
  PROVE  Masked(Masked(x, p, width), q, width) = Masked(x, q, width)
<1>1. q \in 0..width
  OBVIOUS
<1>2. PICK z \in Nat : z = Masked(x, p, width)
  BY MaskedIs
<1>3. Network(z, p, width) = Network(x, p, width)
  BY <1>2, MaskedIs
<1>4. Network(z, q, width) = Network(x, q, width)
  BY <1>3, ShorterPrefix
<1> QED
  BY <1>1, <1>2, <1>4, MaskedIs

(* Of the networks of two addresses, the smaller one lies in the other or  *)
(* they have no address in common.                                         *)
LEMMA NetworksMeet ==
  ASSUME PowersOfTwo, NEW width \in Nat, NEW p \in 0..width, NEW q \in 0..p,
         NEW x \in 0..2 ^ width - 1, NEW y \in 0..2 ^ width - 1
  PROVE  Hosts(<<x, p>>, width) \cap Hosts(<<y, q>>, width) # {} <=>
           Network(x, q, width) = Network(y, q, width)
<1>1. /\ Hosts(<<x, p>>, width) = {n \in 0..2 ^ width - 1 :
                         Network(n, p, width) = Network(x, p, width)}
      /\ Hosts(<<y, q>>, width) = {n \in 0..2 ^ width - 1 :
                         Network(n, q, width) = Network(y, q, width)}
  <2>1. /\ <<x, p>>[1] = x /\ <<x, p>>[2] = p
        /\ <<y, q>>[1] = y /\ <<y, q>>[2] = q
    OBVIOUS
  <2> QED
    BY <2>1 DEF Hosts, Network, Size
<1>2. PICK N : N = 0..2 ^ width - 1
  OBVIOUS
<1>3. x \in N /\ y \in N /\ N \subseteq Nat
  <2>1. 2 ^ width \in Nat
    BY PowersPositive
  <2> QED
    BY <1>2, <2>1
<1>4. \A n \in N : Network(n, p, width) = Network(x, p, width) =>
                     Network(n, q, width) = Network(x, q, width)
  BY <1>3, ShorterPrefix
<1>5. ASSUME NEW n \in N, Network(n, p, width) = Network(x, p, width),
             Network(n, q, width) = Network(y, q, width)
      PROVE  Network(x, q, width) = Network(y, q, width)
  BY <1>4, <1>5
<1> QED
  BY <1>1, <1>2, <1>3, <1>5

(* What the functions read of an address of version 4.                     *)
PrefixOf(a) == IF a.prefix = NoPrefix THEN V4Bits ELSE a.prefix

Readable(a) == a.form = "v4" /\ PrefixOf(a) <= V4Bits

LEMMA AddressParts ==
  ASSUME PowersOfTwo, NEW a \in Address
  PROVE  /\ a.bits \in Nat /\ PrefixOf(a) \in Nat
         /\ a.prefix = NoPrefix \/ a.prefix \in Nat
         /\ a.form = "v4" => a.bits \in 0..2 ^ V4Bits - 1
         /\ V4Bits \in Nat /\ V6Bits \in Nat /\ V4Bits < V6Bits
<1>1. /\ a.bits \in Nat /\ (a.prefix = NoPrefix \/ a.prefix \in Nat)
      /\ a.form = "v4" => a.bits < 2 ^ V4Bits
  BY DEF Address
<1>2. V4Bits \in Nat /\ V6Bits \in Nat /\ V4Bits < V6Bits
  BY AddressAssumption
<1>3. PrefixOf(a) \in Nat
  BY <1>1, <1>2 DEF PrefixOf
<1>4. PICK w \in Nat \ {0} : w = 2 ^ V4Bits
  BY <1>2, PowersPositive
<1>5. a.form = "v4" => a.bits \in 0..2 ^ V4Bits - 1
  BY <1>1, <1>4
<1> QED
  BY <1>1, <1>2, <1>3, <1>5

LEMMA RangeIs ==
  ASSUME PowersOfTwo, NEW a \in Address
  PROVE  IF Readable(a)
         THEN /\ parseIPv4Range(a)
                   = <<Masked(a.bits, PrefixOf(a), V4Bits), PrefixOf(a)>>
              /\ PrefixOf(a) \in 0..V4Bits
         ELSE parseIPv4Range(a) = <<>>
<1>1. parseIPv4Range(a) =
        IF a.form # "v4" \/ PrefixOf(a) > V4Bits THEN <<>>
        ELSE <<Masked(a.bits, PrefixOf(a), V4Bits), PrefixOf(a)>>
  BY DEF parseIPv4Range, PrefixOf
<1>2. PrefixOf(a) \in Nat /\ V4Bits \in Nat
  BY AddressParts
<1> QED
  BY <1>1, <1>2 DEF Readable

(* The bits that map an address into version 6 stand before its own.       *)
LEMMA MaskedMapped ==
  ASSUME PowersOfTwo, NEW x \in Nat, NEW p \in 0..V4Bits
  PROVE  Masked(x + MappedTail, p + V6Bits - V4Bits, V6Bits)
           = Masked(x, p, V4Bits) + MappedTail
<1>1. V4Bits \in Nat /\ V6Bits \in Nat /\ V4Bits - p \in Nat
  BY AddressAssumption
<1>2. V6Bits - (p + V6Bits - V4Bits) = V4Bits - p
  BY <1>1
<1>3. PICK m \in Nat \ {0}, w \in Nat \ {0} :
        m = 2 ^ (V4Bits - p) /\ w = 2 ^ V4Bits
  BY <1>1, PowersPositive
<1>4. PICK k \in Nat \ {0} : w = k * m
  <2>1. V4Bits - p <= V4Bits
    BY <1>1
  <2> QED
    BY <1>1, <1>3, <2>1, PowersGrow
<1>5. PICK y \in Nat : y = x + w
  OBVIOUS
<1>6. y % m = x % m
  <2>1. Multiple(w, m)
    BY <1>4 DEF Multiple
  <2>2. x \in Int /\ y \in Int /\ w \in Int
    OBVIOUS
  <2> QED
    BY <1>5, <2>1, <2>2, SameRemainder
<1>7. PICK r \in Nat : r = x % m
  OBVIOUS
<1>8. Masked(y, p + V6Bits - V4Bits, V6Bits) = y - r
  BY <1>2, <1>3, <1>6, <1>7 DEF Masked
<1>9. Masked(x, p, V4Bits) = x - r
  BY <1>3, <1>7 DEF Masked
<1>10. MappedTail = w
  BY <1>3 DEF MappedTail
<1> QED
  BY <1>5, <1>8, <1>9, <1>10

LEMMA MappedRange ==
  ASSUME PowersOfTwo, NEW a \in Address, a.form = "v4"
  PROVE  IF Readable(a)
         THEN ipv6Address(a) =
                <<Masked(a.bits, PrefixOf(a), V4Bits) + MappedTail,
                  PrefixOf(a) + V6Bits - V4Bits>>
         ELSE ipv6Address(a) = <<>>
<1>1. /\ a.bits \in Nat /\ PrefixOf(a) \in Nat
      /\ a.prefix = NoPrefix \/ a.prefix \in Nat
      /\ V4Bits \in Nat /\ V6Bits \in Nat
  BY AddressParts
<1>2. a.prefix > V4Bits <=> ~Readable(a)
  BY <1>1 DEF Readable, PrefixOf, NoPrefix
<1> DEFINE bits == a.bits + MappedTail
           prefix == PrefixOf(a) + V6Bits - V4Bits
<1>3. ipv6Address(a) = IF a.prefix > V4Bits THEN <<>>
                       ELSE <<Masked(bits, prefix, V6Bits), prefix>>
  <2>1. CASE a.prefix = NoPrefix
    <3>1. prefix = V6Bits
      BY <1>1, <2>1 DEF PrefixOf
    <3> HIDE DEF prefix, bits
    <3>2. bits = a.bits + MappedTail
      BY DEF bits
    <3> QED
      BY <2>1, <3>1, <3>2 DEF ipv6Address
  <2>2. CASE a.prefix # NoPrefix
    <3>1. prefix = a.prefix + V6Bits - V4Bits
      BY <2>2 DEF PrefixOf
    <3> HIDE DEF prefix, bits
    <3>2. bits = a.bits + MappedTail
      BY DEF bits
    <3> QED
      BY <2>2, <3>1, <3>2 DEF ipv6Address
  <2> QED
    BY <2>1, <2>2
<1>4. Readable(a) =>
        Masked(bits, prefix, V6Bits) =
          Masked(a.bits, PrefixOf(a), V4Bits) + MappedTail
  <2>1. Readable(a) => PrefixOf(a) \in 0..V4Bits
    BY <1>1 DEF Readable
  <2> QED
    BY <1>1, <2>1, MaskedMapped
<1> QED
  BY <1>2, <1>3, <1>4

(* Masks as they are for version 6.                                        *)
Wide(masks) == [i \in DOMAIN masks |-> masks[i] + V6Bits - V4Bits]

LEMMA NarrowedIs ==
  ASSUME NEW masks \in Seq(Int), ValidMasks(masks, V4Bits),
         NEW p \in 0..V4Bits
  PROVE  /\ Narrowed(p, masks) \in 0..p
         /\ Narrowed(p, masks) = Min({p} \cup ToSet(masks))
         /\ Narrowed(p + V6Bits - V4Bits, Wide(masks))
              = Narrowed(p, masks) + V6Bits - V4Bits
         /\ ValidMasks(Wide(masks), V6Bits)
<1>1. V4Bits \in Nat /\ V6Bits \in Nat /\ V4Bits < V6Bits
  BY AddressAssumption
<1>2. /\ Len(masks) \in Nat /\ Len(masks) <= 1
      /\ DOMAIN masks = 1..Len(masks)
      /\ \A i \in DOMAIN masks : masks[i] \in 0..V4Bits
  BY DEF ValidMasks
<1>3. PICK d \in Nat : d = V6Bits - V4Bits
  BY <1>1
<1>4. CASE Len(masks) = 0
  <2>1. masks = <<>>
    BY <1>4
  <2>2. Wide(masks) = <<>>
    BY <2>1 DEF Wide
  <2>3. {p} \cup ToSet(masks) = {p}
    BY <2>1 DEF ToSet
  <2>4. Min({p}) = p
    BY MinIs
  <2>5. Narrowed(p, masks) = p
    BY <2>1 DEF Narrowed
  <2>6. Narrowed(p + V6Bits - V4Bits, Wide(masks)) = p + V6Bits - V4Bits
    BY <2>2 DEF Narrowed
  <2>7. ValidMasks(Wide(masks), V6Bits)
    BY <2>2 DEF ValidMasks
  <2>8. p \in 0..p
    OBVIOUS
  <2> QED
    BY <2>3, <2>4, <2>5, <2>6, <2>7, <2>8
<1>5. CASE Len(masks) = 1
  <2>1. DOMAIN masks = {1} /\ masks # <<>>
    <3>1. 1..1 = {1} /\ Len(<<>>) = 0
      OBVIOUS
    <3>2. DOMAIN masks = 1..1
      BY <1>2, <1>5
    <3>3. masks # <<>>
      <4>1. masks = <<>> => Len(masks) = 0
        BY <3>1
      <4> QED
        BY <1>5, <4>1
    <3> QED
      BY <3>1, <3>2, <3>3
  <2>2. PICK q \in 0..V4Bits : q = masks[1]
    BY <1>2, <2>1
  <2>3. PICK W : W = Wide(masks)
    OBVIOUS
  <2>4. DOMAIN W = {1} /\ W[1] = q + V6Bits - V4Bits
    BY <2>1, <2>2, <2>3 DEF Wide
  <2>5. W = <<q + V6Bits - V4Bits>>
    <3>1. W = [i \in {1} |-> q + V6Bits - V4Bits]
      BY <2>1, <2>2, <2>3 DEF Wide
    <3>2. 1..1 = {1}
      OBVIOUS
    <3> QED
      BY <3>1, <3>2
  <2>6. Narrowed(p, masks) = IF p <= q THEN p ELSE q
    <3>1. p \in Int /\ q \in Int
      BY <1>1
    <3>2. Min({p, q}) = IF p <= q THEN p ELSE q
      BY <3>1, TwoNumbers
    <3> QED
      BY <2>1, <2>2, <3>2 DEF Narrowed
  <2>7. Narrowed(p + V6Bits - V4Bits, W) =
          Min({p + V6Bits - V4Bits, q + V6Bits - V4Bits})
    <3>1. W # <<>>
      BY <2>5
    <3> QED
      BY <2>4, <3>1 DEF Narrowed
  <2>8. PICK e \in Int, f \in Int :
          e = p + V6Bits - V4Bits /\ f = q + V6Bits - V4Bits
    BY <1>1
  <2>9. Min({e, f}) = IF e <= f THEN e ELSE f
    BY TwoNumbers
  <2>10. Narrowed(p + V6Bits - V4Bits, W) =
           Narrowed(p, masks) + V6Bits - V4Bits
    BY <1>1, <2>6, <2>7, <2>8, <2>9
  <2>11. ToSet(masks) = {q}
    BY <2>1, <2>2 DEF ToSet
  <2>12. {p} \cup ToSet(masks) = {p, q}
    BY <2>11
  <2>13. Narrowed(p, masks) = Min({p} \cup ToSet(masks))
    BY <2>1, <2>2, <2>12 DEF Narrowed
  <2>14. ValidMasks(W, V6Bits)
    <3>1. Len(W) = 1
      BY <2>5
    <3>2. q + V6Bits - V4Bits \in 0..V6Bits
      BY <1>1
    <3> QED
      BY <2>4, <3>1, <3>2 DEF ValidMasks
  <2> QED
    BY <2>3, <2>6, <2>10, <2>13, <2>14
<1> QED
  BY <1>2, <1>4, <1>5

Order(x, y) == Num(CASE x < y -> -1 [] x > y -> 1 [] x = y -> 0)

LEMMA OrderShifted ==
  ASSUME NEW x \in Nat, NEW y \in Nat, NEW t \in Nat
  PROVE  Order(x + t, y + t) = Order(x, y)
<1>1. PICK u \in Nat, v \in Nat : u = x + t /\ v = y + t
  OBVIOUS
<1>2. (u < v <=> x < y) /\ (u > v <=> x > y) /\ (u = v <=> x = y)
  BY <1>1
<1>3. CASE x < y
  BY <1>2, <1>3 DEF Order
<1>4. CASE x > y
  BY <1>2, <1>4 DEF Order
<1>5. CASE x = y
  BY <1>2, <1>5 DEF Order
<1>6. x < y \/ x > y \/ x = y
  OBVIOUS
<1> QED
  BY <1>3, <1>4, <1>5, <1>6

(* Two readable addresses are compared at one prefix, in either version.   *)
LEMMA ComparedIs ==
  ASSUME PowersOfTwo, NEW a \in Address, NEW b \in Address,
         Readable(a), Readable(b),
         NEW masks \in Seq(Int), ValidMasks(masks, V4Bits)
  PROVE  LET least == Min({PrefixOf(a), PrefixOf(b)})
             n == Narrowed(least, masks)
         IN  /\ least \in 0..V4Bits /\ n \in 0..least
             /\ least <= PrefixOf(a) /\ least <= PrefixOf(b)
             /\ kqlIPv4Compare(a, b, masks) =
                  Order(Masked(a.bits, n, V4Bits), Masked(b.bits, n, V4Bits))
             /\ kqlIPv6Compare(a, b, Wide(masks)) =
                  kqlIPv4Compare(a, b, masks)
<1>1. PICK p \in 0..V4Bits, q \in 0..V4Bits :
        p = PrefixOf(a) /\ q = PrefixOf(b)
  BY RangeIs
<1>2. PICK l \in 0..V4Bits :
        l = Min({p, q}) /\ l <= p /\ l <= q /\ (l = IF p <= q THEN p ELSE q)
  <2>1. V4Bits \in Nat
    BY AddressAssumption
  <2>2. p \in Int /\ q \in Int
    BY <2>1
  <2>3. Min({p, q}) = IF p <= q THEN p ELSE q
    BY <2>2, TwoNumbers
  <2>4. PICK l : l = IF p <= q THEN p ELSE q
    OBVIOUS
  <2>5. l \in 0..V4Bits /\ l <= p /\ l <= q
    BY <2>1, <2>4
  <2> QED
    BY <2>3, <2>4, <2>5
<1>3. PICK n \in 0..l : n = Narrowed(l, masks)
  BY <1>2, NarrowedIs
<1>4. V4Bits \in Nat /\ V6Bits \in Nat /\ V4Bits < V6Bits
  BY AddressAssumption
<1>5. n \in 0..V4Bits /\ n \in 0..p /\ n \in 0..q
  BY <1>2, <1>3, <1>4
<1>6. PICK x \in Nat, y \in Nat : x = a.bits /\ y = b.bits
  BY AddressParts
<1>7. PICK A \in Nat, B \in Nat :
        A = Masked(x, p, V4Bits) /\ B = Masked(y, q, V4Bits)
  BY <1>4, <1>6, MaskedIs
<1>8. PICK X \in Nat, Y \in Nat :
        /\ X = Masked(x, n, V4Bits) /\ Y = Masked(y, n, V4Bits)
        /\ X = Masked(A, n, V4Bits) /\ Y = Masked(B, n, V4Bits)
  <2>1. PICK X \in Nat, Y \in Nat :
          X = Masked(x, n, V4Bits) /\ Y = Masked(y, n, V4Bits)
    BY <1>4, <1>5, MaskedIs
  <2>2. Masked(Masked(x, p, V4Bits), n, V4Bits) = Masked(x, n, V4Bits)
    BY <1>4, <1>5, MaskedTwice
  <2>3. Masked(Masked(y, q, V4Bits), n, V4Bits) = Masked(y, n, V4Bits)
    BY <1>4, <1>5, MaskedTwice
  <2> QED
    BY <1>7, <2>1, <2>2, <2>3
<1>9. parseIPv4Range(a) = <<A, p>> /\ parseIPv4Range(b) = <<B, q>>
  BY <1>1, <1>6, <1>7, RangeIs
<1>10. kqlIPv4Compare(a, b, masks) = Order(X, Y)
  <2>1. PICK v, w : v = <<A, p>> /\ w = <<B, q>>
    OBVIOUS
  <2>2. /\ v[1] = A /\ v[2] = p /\ v # <<>>
        /\ w[1] = B /\ w[2] = q /\ w # <<>>
    BY <2>1
  <2>3. Narrowed(Min({v[2], w[2]}), masks) = n
    BY <1>2, <1>3, <2>2
  <2>4. Compared(v, w, masks, V4Bits) = Order(X, Y)
    BY <1>8, <2>2, <2>3 DEF Compared, Order
  <2> QED
    BY <1>9, <2>1, <2>4 DEF kqlIPv4Compare
<1>11. PICK t \in Nat \ {0} : t = MappedTail
  BY <1>4, PowersPositive DEF MappedTail
<1>12. PICK P \in Int, Q \in Int, L \in Int, N \in Int :
         /\ P = p + V6Bits - V4Bits /\ Q = q + V6Bits - V4Bits
         /\ L = l + V6Bits - V4Bits /\ N = n + V6Bits - V4Bits
  BY <1>4
<1>13. ipv6Address(a) = <<A + t, P>> /\ ipv6Address(b) = <<B + t, Q>>
  BY <1>1, <1>6, <1>7, <1>11, <1>12, MappedRange DEF Readable
<1>14. kqlIPv6Compare(a, b, Wide(masks)) = Order(X + t, Y + t)
  <2>1. PICK v, w : v = <<A + t, P>> /\ w = <<B + t, Q>>
    OBVIOUS
  <2>2. /\ v[1] = A + t /\ v[2] = P /\ v # <<>>
        /\ w[1] = B + t /\ w[2] = Q /\ w # <<>>
    BY <2>1
  <2>3. Min({P, Q}) = L
    <3>1. Min({P, Q}) = IF P <= Q THEN P ELSE Q
      BY TwoNumbers
    <3>2. l = IF p <= q THEN p ELSE q
      BY <1>2
    <3>3. P <= Q <=> p <= q
      BY <1>4, <1>12
    <3> QED
      BY <1>12, <3>1, <3>2, <3>3
  <2>4. Narrowed(L, Wide(masks)) = N /\ ValidMasks(Wide(masks), V6Bits)
    BY <1>2, <1>3, <1>12, NarrowedIs
  <2>5. Narrowed(Min({v[2], w[2]}), Wide(masks)) = N
    BY <2>2, <2>3, <2>4
  <2>6. Masked(A + t, N, V6Bits) = X + t /\ Masked(B + t, N, V6Bits) = Y + t
    <3>1. Masked(A + MappedTail, n + V6Bits - V4Bits, V6Bits)
            = Masked(A, n, V4Bits) + MappedTail
      BY <1>5, MaskedMapped
    <3>2. Masked(B + MappedTail, n + V6Bits - V4Bits, V6Bits)
            = Masked(B, n, V4Bits) + MappedTail
      BY <1>5, MaskedMapped
    <3> QED
      BY <1>8, <1>11, <1>12, <3>1, <3>2
  <2>7. Compared(v, w, Wide(masks), V6Bits) = Order(X + t, Y + t)
    BY <2>2, <2>4, <2>5, <2>6 DEF Compared, Order
  <2> QED
    BY <1>13, <2>1, <2>7 DEF kqlIPv6Compare
<1>15. Order(X + t, Y + t) = Order(X, Y)
  BY OrderShifted
<1> QED
  BY <1>1, <1>2, <1>3, <1>6, <1>8, <1>10, <1>14, <1>15

LEMMA OrderOf ==
  ASSUME NEW x \in Nat, NEW y \in Nat
  PROVE  /\ Order(x, y) # NULL
         /\ Order(x, y)[2] = -Order(y, x)[2]
         /\ Order(x, y) = Num(0) <=> x = y
<1>1. \A n \in Int : Num(n) # NULL /\ Num(n)[2] = n
  BY DEF Num, NULL
<1>2. CASE x < y
  <2>1. Order(x, y) = Num(-1) /\ Order(y, x) = Num(1)
    BY <1>2 DEF Order
  <2> QED
    BY <1>1, <1>2, <2>1
<1>3. CASE x > y
  <2>1. Order(x, y) = Num(1) /\ Order(y, x) = Num(-1)
    BY <1>3 DEF Order
  <2> QED
    BY <1>1, <1>3, <2>1
<1>4. CASE x = y
  <2>1. Order(x, y) = Num(0) /\ Order(y, x) = Num(0)
    BY <1>4 DEF Order
  <2> QED
    BY <1>1, <1>4, <2>1
<1> QED
  BY <1>2, <1>3, <1>4

(* When two addresses cannot be compared.                                  *)
LEMMA NotCompared ==
  ASSUME PowersOfTwo, NEW a \in Address, NEW b \in Address,
         NEW masks \in Seq(Int)
  PROVE  /\ kqlIPv4Compare(a, b, masks) = NULL <=>
              ~(Readable(a) /\ Readable(b) /\ ValidMasks(masks, V4Bits))
         /\ a.form = "v4" /\ b.form = "v4" /\ ~(Readable(a) /\ Readable(b)) =>
              kqlIPv6Compare(a, b, Wide(masks)) = NULL
<1>1. ~(Readable(a) /\ Readable(b) /\ ValidMasks(masks, V4Bits)) =>
         kqlIPv4Compare(a, b, masks) = NULL
  <2>1. \/ parseIPv4Range(a) = <<>> \/ parseIPv4Range(b) = <<>>
        \/ ValidMasks(masks, V4Bits)
        \/ ~ValidMasks(masks, V4Bits)
    OBVIOUS
  <2>2. ~Readable(a) => parseIPv4Range(a) = <<>>
    BY RangeIs
  <2>3. ~Readable(b) => parseIPv4Range(b) = <<>>
    BY RangeIs
  <2> QED
    BY <2>2, <2>3 DEF kqlIPv4Compare, Compared
<1>2. Readable(a) /\ Readable(b) /\ ValidMasks(masks, V4Bits) =>
         kqlIPv4Compare(a, b, masks) # NULL
  <2> SUFFICES ASSUME Readable(a), Readable(b), ValidMasks(masks, V4Bits)
               PROVE  kqlIPv4Compare(a, b, masks) # NULL
    OBVIOUS
  <2>1. PICK n \in 0..V4Bits :
          kqlIPv4Compare(a, b, masks) =
            Order(Masked(a.bits, n, V4Bits), Masked(b.bits, n, V4Bits))
    <3>1. V4Bits \in Nat
      BY AddressAssumption
    <3>2. PICK l, n : /\ l = Min({PrefixOf(a), PrefixOf(b)})
                      /\ n = Narrowed(l, masks)
      OBVIOUS
    <3>3. /\ l \in 0..V4Bits /\ n \in 0..l
          /\ kqlIPv4Compare(a, b, masks) =
               Order(Masked(a.bits, n, V4Bits), Masked(b.bits, n, V4Bits))
      BY <3>2, ComparedIs
    <3>4. n \in 0..V4Bits
      BY <3>1, <3>3
    <3> QED
      BY <3>3, <3>4
  <2>2. V4Bits \in Nat /\ a.bits \in Nat /\ b.bits \in Nat
    BY AddressParts
  <2>3. PICK x \in Nat, y \in Nat :
          x = Masked(a.bits, n, V4Bits) /\ y = Masked(b.bits, n, V4Bits)
    BY <2>2, MaskedIs
  <2> QED
    BY <2>1, <2>3, OrderOf
<1>3. ASSUME a.form = "v4", b.form = "v4", ~(Readable(a) /\ Readable(b))
      PROVE  kqlIPv6Compare(a, b, Wide(masks)) = NULL
  <2>1. ~Readable(a) => ipv6Address(a) = <<>>
    BY <1>3, MappedRange
  <2>2. ~Readable(b) => ipv6Address(b) = <<>>
    BY <1>3, MappedRange
  <2> QED
    BY <1>3, <2>1, <2>2 DEF kqlIPv6Compare, Compared
<1>4. kqlIPv4Compare(a, b, masks) = NULL <=>
         ~(Readable(a) /\ Readable(b) /\ ValidMasks(masks, V4Bits))
  BY <1>1, <1>2
<1> QED
  BY <1>3, <1>4

(* The prefix at which one address takes part.                             *)
PrefixUnder(a, masks) == Min({PrefixOf(a)} \cup ToSet(masks))

(* Equal networks are those that share an address.                         *)
LEMMA MatchIsMeeting ==
  ASSUME PowersOfTwo, NEW a \in Address, NEW b \in Address,
         Readable(a), Readable(b),
         NEW masks \in Seq(Int), ValidMasks(masks, V4Bits)
  PROVE  /\ PrefixUnder(a, masks) \in 0..V4Bits
         /\ kqlIPv4Compare(a, b, masks) = Num(0) <=>
              Hosts(<<a.bits, PrefixUnder(a, masks)>>, V4Bits)
                \cap Hosts(<<b.bits, PrefixUnder(b, masks)>>, V4Bits) # {}
<1>1. PICK p \in 0..V4Bits, q \in 0..V4Bits :
        p = PrefixOf(a) /\ q = PrefixOf(b)
  BY RangeIs
<1>2. V4Bits \in Nat
  BY AddressAssumption
<1>3. PICK l \in 0..V4Bits : l = Min({p, q}) /\ (l = IF p <= q THEN p ELSE q)
  <2>1. p \in Int /\ q \in Int
    BY <1>2
  <2>2. Min({p, q}) = IF p <= q THEN p ELSE q
    BY <2>1, TwoNumbers
  <2> QED
    BY <2>2
<1>4. PICK n \in 0..V4Bits : n = Narrowed(l, masks)
  <2>1. Narrowed(l, masks) \in 0..l
    BY NarrowedIs
  <2> QED
    BY <1>2, <2>1
<1>5. PICK i \in 0..p, j \in 0..q :
        /\ i = Narrowed(p, masks) /\ j = Narrowed(q, masks)
        /\ i = PrefixUnder(a, masks) /\ j = PrefixUnder(b, masks)
  BY <1>1, NarrowedIs DEF PrefixUnder
<1>6. i \in 0..V4Bits /\ j \in 0..V4Bits
  BY <1>2
<1>7. n \in {i, j} /\ n <= i /\ n <= j
  <2>1. CASE masks = <<>>
    <3>1. i = p /\ j = q /\ n = l
      BY <1>4, <1>5, <2>1 DEF Narrowed
    <3> QED
      BY <1>2, <1>3, <3>1
  <2>2. CASE masks # <<>>
    <3>1. PICK m \in 0..V4Bits : m = masks[1]
      <4>1. 1 \in DOMAIN masks
        BY <2>2
      <4> QED
        BY <4>1 DEF ValidMasks
    <3>2. i = Min({p, m}) /\ j = Min({q, m}) /\ n = Min({l, m})
      BY <1>4, <1>5, <2>2, <3>1 DEF Narrowed
    <3>3. p \in Int /\ q \in Int /\ l \in Int /\ m \in Int
      BY <1>2
    <3>4. /\ i = IF p <= m THEN p ELSE m
          /\ j = IF q <= m THEN q ELSE m
          /\ n = IF l <= m THEN l ELSE m
      BY <3>2, <3>3, TwoNumbers
    <3> QED
      BY <1>3, <3>3, <3>4
  <2> QED
    BY <2>1, <2>2
<1>8. PICK x \in 0..2 ^ V4Bits - 1, y \in 0..2 ^ V4Bits - 1 :
        x = a.bits /\ y = b.bits
  BY AddressParts DEF Readable
<1>9. x \in Nat /\ y \in Nat
  BY <1>8, AddressParts
<1>10. kqlIPv4Compare(a, b, masks) = Num(0) <=>
         Network(x, n, V4Bits) = Network(y, n, V4Bits)
  <2>1. kqlIPv4Compare(a, b, masks) =
          Order(Masked(x, n, V4Bits), Masked(y, n, V4Bits))
    BY <1>1, <1>3, <1>4, <1>8, ComparedIs
  <2>2. PICK X \in Nat, Y \in Nat :
          X = Masked(x, n, V4Bits) /\ Y = Masked(y, n, V4Bits)
    BY <1>2, <1>9, MaskedIs
  <2>3. X = Y <=> Network(x, n, V4Bits) = Network(y, n, V4Bits)
    <3>1. Masked(x, n, V4Bits) = Masked(y, n, V4Bits) <=>
            Network(x, n, V4Bits) = Network(y, n, V4Bits)
      BY <1>2, <1>9, MaskedIs
    <3> QED
      BY <2>2, <3>1
  <2> QED
    BY <2>1, <2>2, <2>3, OrderOf
<1>11. Network(x, n, V4Bits) = Network(y, n, V4Bits) <=>
         Hosts(<<x, i>>, V4Bits) \cap Hosts(<<y, j>>, V4Bits) # {}
  <2>1. CASE n = j
    <3>1. j \in 0..i
      BY <1>6, <1>7, <2>1
    <3>2. Hosts(<<x, i>>, V4Bits) \cap Hosts(<<y, j>>, V4Bits) # {} <=>
            Network(x, j, V4Bits) = Network(y, j, V4Bits)
      BY <1>2, <1>6, <3>1, NetworksMeet
    <3> QED
      BY <2>1, <3>2
  <2>2. CASE n = i
    <3>1. i \in 0..j
      BY <1>6, <1>7, <2>2
    <3>2. Hosts(<<y, j>>, V4Bits) \cap Hosts(<<x, i>>, V4Bits) # {} <=>
            Network(y, i, V4Bits) = Network(x, i, V4Bits)
      BY <1>2, <1>6, <3>1, NetworksMeet
    <3>3. Hosts(<<x, i>>, V4Bits) \cap Hosts(<<y, j>>, V4Bits)
            = Hosts(<<y, j>>, V4Bits) \cap Hosts(<<x, i>>, V4Bits)
      OBVIOUS
    <3> QED
      BY <2>2, <3>2, <3>3
  <2> QED
    BY <1>7, <2>1, <2>2
<1> QED
  BY <1>5, <1>6, <1>8, <1>10, <1>11

LEMMA InRangeIs ==
  ASSUME PowersOfTwo, NEW a \in Address, NEW b \in Address
  PROVE  LET in == kqlIPv4IsInRange(a, <<b>>)
             asked == a.form = "v4" /\ a.prefix = NoPrefix
         IN  /\ in = IF asked /\ Readable(b)
                     THEN Bool(Network(a.bits, PrefixOf(b), V4Bits)
                                 = Network(b.bits, PrefixOf(b), V4Bits))
                     ELSE NULL
             /\ asked /\ b.form = "v4" => in = kqlIPv6IsInRange(a, b)
<1>1. V4Bits \in Nat /\ a.bits \in Nat /\ b.bits \in Nat
  BY AddressParts
<1> DEFINE asked == a.form = "v4" /\ a.prefix = NoPrefix
           range == parseIPv4Range(b)
<1>2. parseIPv4Address(a, FALSE) = IF asked THEN <<a.bits>> ELSE <<>>
  BY DEF parseIPv4Address
<1>3. /\ Len(<<b>>) \in 1..maxIPv4Ranges
      /\ {parseIPv4Range(m) : m \in ToSet(<<b>>)} = {range}
  <2>1. Len(<<b>>) = 1 /\ 1 \in 1..maxIPv4Ranges
    BY AddressAssumption
  <2>2. ToSet(<<b>>) = {b}
    BY DEF ToSet
  <2> QED
    BY <2>1, <2>2
<1>4. kqlIPv4IsInRange(a, <<b>>) =
        IF ~asked \/ range = <<>> THEN NULL
        ELSE Bool(InPrefix(range, a.bits, V4Bits))
  <2>1. <<a.bits>> # <<>> /\ <<a.bits>>[1] = a.bits
    OBVIOUS
  <2> HIDE DEF range, asked
  <2>2. <<>> \in {range} <=> range = <<>>
    OBVIOUS
  <2>3. (\E r \in {range} : InPrefix(r, a.bits, V4Bits))
          = InPrefix(range, a.bits, V4Bits)
    BY DEF InPrefix
  <2> QED
    BY <1>2, <1>3, <2>1, <2>2, <2>3 DEF kqlIPv4IsInRange
<1>5. ASSUME Readable(b)
      PROVE  /\ range # <<>>
             /\ InPrefix(range, a.bits, V4Bits) =
                  (Network(a.bits, PrefixOf(b), V4Bits)
                     = Network(b.bits, PrefixOf(b), V4Bits))
  <2>1. PICK p \in 0..V4Bits :
          p = PrefixOf(b) /\ range = <<Masked(b.bits, p, V4Bits), p>>
    BY <1>5, RangeIs
  <2>2. Masked(a.bits, p, V4Bits) = Masked(b.bits, p, V4Bits) <=>
          Network(a.bits, p, V4Bits) = Network(b.bits, p, V4Bits)
    BY <1>1, MaskedIs
  <2> HIDE DEF range
  <2>3. range # <<>> /\ range[1] = Masked(b.bits, p, V4Bits) /\ range[2] = p
    BY <2>1
  <2> QED
    BY <2>1, <2>2, <2>3 DEF InPrefix
<1>6. ~Readable(b) => range = <<>>
  BY RangeIs
<1>7. ASSUME asked, b.form = "v4"
      PROVE  kqlIPv4IsInRange(a, <<b>>) = kqlIPv6IsInRange(a, b)
  <2>1. Readable(a) /\ PrefixOf(a) = V4Bits
    BY <1>1, <1>7 DEF Readable, PrefixOf
  <2>2. PICK t \in Nat : t = MappedTail
    <3>1. 2 ^ V4Bits \in Nat
      BY <1>1, PowersPositive
    <3> QED
      BY <3>1 DEF MappedTail
  <2>3. Masked(a.bits, V4Bits, V4Bits) = a.bits
    <3>1. V4Bits \in 0..V4Bits
      BY <1>1
    <3> QED
      BY <1>1, <3>1, MaskedIs
  <2>4. ipv6Address(a) = <<a.bits + t, V4Bits + V6Bits - V4Bits>>
    BY <1>7, <2>1, <2>2, <2>3, MappedRange
  <2>5. PICK v : v = ipv6Address(a) /\ v # <<>> /\ v[1] = a.bits + t
    BY <2>4
  <2>6. CASE ~Readable(b)
    <3>1. ipv6Address(b) = <<>>
      BY <1>7, <2>6, MappedRange
    <3>2. kqlIPv6IsInRange(a, b) = NULL
      BY <3>1 DEF kqlIPv6IsInRange
    <3> HIDE DEF range, asked
    <3> QED
      BY <1>4, <1>6, <2>6, <3>2
  <2>7. CASE Readable(b)
    <3>1. PICK p \in 0..V4Bits :
            /\ p = PrefixOf(b) /\ range = <<Masked(b.bits, p, V4Bits), p>>
            /\ ipv6Address(b) = <<Masked(b.bits, p, V4Bits) + MappedTail,
                                  p + V6Bits - V4Bits>>
      BY <1>7, <2>7, RangeIs, MappedRange
    <3>2. PICK X \in Nat, Y \in Nat :
            X = Masked(a.bits, p, V4Bits) /\ Y = Masked(b.bits, p, V4Bits)
      BY <1>1, MaskedIs
    <3>3. PICK w : /\ w = ipv6Address(b) /\ w # <<>> /\ w[1] = Y + t
                   /\ w[2] = p + V6Bits - V4Bits
      BY <2>2, <3>1, <3>2
    <3>4. Masked(a.bits + t, p + V6Bits - V4Bits, V6Bits) = X + t
      BY <1>1, <2>2, <3>2, MaskedMapped
    <3>5. InPrefix(w, v[1], V6Bits) = (X = Y)
      <4>1. X + t = Y + t <=> X = Y
        OBVIOUS
      <4> QED
        BY <2>5, <3>3, <3>4, <4>1 DEF InPrefix
    <3>6. kqlIPv6IsInRange(a, b) = Bool(X = Y)
      <4>1. a.prefix = NoPrefix /\ <<>> \notin {v, w}
        BY <1>7, <2>5, <3>3
      <4> QED
        BY <2>5, <3>3, <3>5, <4>1 DEF kqlIPv6IsInRange
    <3> HIDE DEF range
    <3>7. range # <<>> /\ InPrefix(range, a.bits, V4Bits) = (X = Y)
      <4>1. range # <<>> /\ range[1] = Y /\ range[2] = p
        BY <3>1, <3>2
      <4> QED
        BY <3>2, <4>1 DEF InPrefix
    <3> QED
      BY <1>4, <1>7, <3>6, <3>7
  <2> QED
    BY <2>6, <2>7
<1> HIDE DEF range
<1> QED
  BY <1>4, <1>5, <1>6, <1>7

(* Formatting and parsing.                                                 *)
LEMMA FormatIs ==
  ASSUME PowersOfTwo, NEW a \in Address, Readable(a),
         NEW masks \in Seq(Int), ValidMasks(masks, V4Bits), masks # <<>>
  PROVE  LET text == formatIPv4(parseIPv4Range(a), masks, TRUE)
             n == PrefixUnder(a, masks)
         IN  /\ kqlParseIPv4Mask(a, masks[1]) = kqlParseIPv4(text)
             /\ kqlIPv4NetmaskSuffix(text) = Num(n)
             /\ Hosts(parseIPv4Range(text), V4Bits)
                  = Hosts(<<a.bits, n>>, V4Bits)
<1>1. V4Bits \in Nat /\ a.bits \in Nat
  BY AddressParts
<1>2. PICK p \in 0..V4Bits :
        /\ p = PrefixOf(a)
        /\ parseIPv4Range(a) = <<Masked(a.bits, p, V4Bits), p>>
  BY RangeIs
<1>3. PICK n \in 0..p : n = Narrowed(p, masks) /\ n = PrefixUnder(a, masks)
  BY <1>2, NarrowedIs DEF PrefixUnder
<1>4. n \in 0..V4Bits /\ n = Min({p, masks[1]}) /\ masks[1] \in 0..V4Bits
  <2>1. 1 \in DOMAIN masks
    OBVIOUS
  <2> QED
    BY <1>1, <1>3, <2>1 DEF Narrowed, ValidMasks
<1>5. PICK X \in Nat, Y \in Nat :
        X = Masked(a.bits, p, V4Bits) /\ Y = Masked(a.bits, n, V4Bits)
  BY <1>1, <1>4, MaskedIs
<1>6. Masked(X, n, V4Bits) = Y
  BY <1>1, <1>5, MaskedTwice
<1>7. Masked(Y, n, V4Bits) = Y
  <2>1. n \in 0..n
    OBVIOUS
  <2> QED
    BY <1>1, <1>4, <1>5, <2>1, MaskedTwice
<1>8. PICK r : r = parseIPv4Range(a) /\ r # <<>> /\ r[1] = X /\ r[2] = p
  BY <1>2, <1>5
<1>9. PICK text : text = formatIPv4(r, masks, TRUE)
  OBVIOUS
<1>10. text = [form |-> "v4", bits |-> Y, prefix |-> n]
  BY <1>3, <1>6, <1>8, <1>9 DEF formatIPv4
<1>11. parseIPv4Range(text) = <<Y, n>>
  <2>1. text.form = "v4" /\ text.bits = Y /\ text.prefix = n
    BY <1>10
  <2>2. n # NoPrefix /\ ~(n > V4Bits)
    BY <1>1, <1>4 DEF NoPrefix
  <2> QED
    BY <1>7, <2>1, <2>2 DEF parseIPv4Range
<1>12. kqlParseIPv4(text) = Num(Y) /\ kqlIPv4NetmaskSuffix(text) = Num(n)
  <2>1. PICK s : s = <<Y, n>>
    OBVIOUS
  <2>2. s # <<>> /\ s[1] = Y /\ s[2] = n
    BY <2>1
  <2> QED
    BY <1>11, <2>1, <2>2 DEF kqlParseIPv4, kqlIPv4NetmaskSuffix
<1>13. kqlParseIPv4Mask(a, masks[1]) = Num(Y)
  BY <1>4, <1>6, <1>8 DEF kqlParseIPv4Mask
<1>14. Hosts(<<Y, n>>, V4Bits) = Hosts(<<a.bits, n>>, V4Bits)
  <2>1. Network(Y, n, V4Bits) = Network(a.bits, n, V4Bits)
    <3>1. Network(Masked(a.bits, n, V4Bits), n, V4Bits)
            = Network(a.bits, n, V4Bits)
      BY <1>1, <1>4, MaskedIs
    <3> QED
      BY <1>5, <3>1
  <2>2. /\ <<Y, n>>[1] = Y /\ <<Y, n>>[2] = n
        /\ <<a.bits, n>>[1] = a.bits /\ <<a.bits, n>>[2] = n
    OBVIOUS
  <2> QED
    BY <2>1, <2>2 DEF Hosts, Network, Size
<1> QED
  BY <1>3, <1>8, <1>9, <1>11, <1>12, <1>13, <1>14

LEMMA NumberFormatted ==
  ASSUME PowersOfTwo, NEW n \in 0..2 ^ V4Bits - 1
  PROVE  kqlParseIPv4(formatIPv4(NumberRange(n), <<>>, FALSE)) = Num(n)
<1>1. V4Bits \in Nat /\ n \in Nat
  BY AddressAssumption, PowersPositive
<1>2. Masked(n, V4Bits, V4Bits) = n
  <2>1. V4Bits \in 0..V4Bits
    BY <1>1
  <2> QED
    BY <1>1, <2>1, MaskedIs
<1>3. PICK r : r = NumberRange(n) /\ r = <<n, V4Bits>>
  BY DEF NumberRange
<1>4. r # <<>> /\ r[1] = n /\ r[2] = V4Bits
  BY <1>3
<1>5. Narrowed(V4Bits, <<>>) = V4Bits /\ ValidMasks(<<>>, V4Bits)
  BY DEF Narrowed, ValidMasks
<1>6. PICK text : text = formatIPv4(r, <<>>, FALSE)
  OBVIOUS
<1>7. text = [form |-> "v4", bits |-> n, prefix |-> NoPrefix]
  BY <1>2, <1>4, <1>5, <1>6 DEF formatIPv4
<1>8. parseIPv4Range(text) = <<n, V4Bits>>
  <2>1. text.form = "v4" /\ text.bits = n /\ text.prefix = NoPrefix
    BY <1>7
  <2>2. ~(V4Bits > V4Bits)
    BY <1>1
  <2> QED
    BY <1>2, <2>1, <2>2 DEF parseIPv4Range
<1> QED
  BY <1>3, <1>4, <1>6, <1>8 DEF kqlParseIPv4

LEMMA PrivateHosts ==
  ASSUME PowersOfTwo, NEW a \in Address, kqlIPv4IsPrivate(a) = Bool(TRUE)
  PROVE  \E r \in privateIPv4Prefixes : a.bits \in Hosts(r, V4Bits)
<1>1. a.form = "v4"
  <2>1. a.form # "v4" => kqlIPv4IsPrivate(a) = NULL
    BY DEF kqlIPv4IsPrivate, parseIPv4Address
  <2>2. NULL # Bool(TRUE)
    BY DEF NULL, Bool
  <2> QED
    BY <2>1, <2>2
<1>2. PICK r \in privateIPv4Prefixes : InPrefix(r, a.bits, V4Bits)
  <2>1. parseIPv4Address(a, TRUE) \in {<<>>, <<a.bits>>}
    BY DEF parseIPv4Address
  <2>2. parseIPv4Address(a, TRUE) # <<>>
    <3>1. NULL # Bool(TRUE)
      BY DEF NULL, Bool
    <3> QED
      BY <3>1 DEF kqlIPv4IsPrivate
  <2>3. kqlIPv4IsPrivate(a) =
          Bool(\E r \in privateIPv4Prefixes : InPrefix(r, a.bits, V4Bits))
    <3>1. <<a.bits>>[1] = a.bits
      OBVIOUS
    <3> QED
      BY <2>1, <2>2, <3>1 DEF kqlIPv4IsPrivate
  <2>4. \A c \in BOOLEAN : Bool(c) = Bool(TRUE) => c
    BY DEF Bool
  <2> QED
    BY <2>3, <2>4
<1>3. V4Bits \in Nat /\ a.bits \in 0..2 ^ V4Bits - 1 /\ a.bits \in Nat
  BY <1>1, AddressParts
<1>4. PICK p \in 0..V4Bits : p = r[2] /\ r[1] \in Nat
  BY AddressAssumption
<1>5. Masked(a.bits, p, V4Bits) = r[1]
  BY <1>2, <1>4 DEF InPrefix
<1>6. Network(a.bits, p, V4Bits) = Network(r[1], p, V4Bits)
  <2>1. Network(Masked(a.bits, p, V4Bits), p, V4Bits)
          = Network(a.bits, p, V4Bits)
    BY <1>3, MaskedIs
  <2> QED
    BY <1>5, <2>1
<1> QED
  BY <1>3, <1>4, <1>6 DEF Hosts, Network, Size

LEMMA MatchOf ==
  ASSUME NEW a, NEW b, NEW masks
  PROVE  /\ kqlIPv4IsMatch(a, b, masks) =
              IF kqlIPv4Compare(a, b, masks) = NULL THEN NULL
              ELSE Bool(kqlIPv4Compare(a, b, masks) = Num(0))
         /\ kqlIPv6IsMatch(a, b, Wide(masks)) =
              IF kqlIPv6Compare(a, b, Wide(masks)) = NULL THEN NULL
              ELSE Bool(kqlIPv6Compare(a, b, Wide(masks)) = Num(0))
BY DEF kqlIPv4IsMatch, kqlIPv6IsMatch

(* The functions on addresses of version 4: they compare and lie in ranges *)
(* as they do mapped into version 6; a comparison turns around with its    *)
(* arguments, cannot be made one way only, and finds two networks equal    *)
(* when they share an address; an address is in a range when it is one of  *)
(* its hosts; and what format_ipv4_mask writes is parsed to what it was    *)
(* made of, as is the text of every number.                                *)
THEOREM RangesExact ==
  ASSUME PowersOfTwo, NEW a \in Address, NEW b \in Address,
         NEW masks \in Seq(Int)
  PROVE  RangeLaw(a, b, masks)
<1> DEFINE order == kqlIPv4Compare(a, b, masks)
           in == kqlIPv4IsInRange(a, <<b>>)
           range == parseIPv4Range(b)
           text == formatIPv4(parseIPv4Range(a), masks, TRUE)
           compared == /\ Readable(a) /\ Readable(b)
                       /\ ValidMasks(masks, V4Bits)
           HostsOf(x) == Hosts(<<x.bits, PrefixUnder(x, masks)>>, V4Bits)
<1>1. order = NULL <=> ~compared
  BY NotCompared
<1>2. kqlIPv4Compare(b, a, masks) = NULL <=> ~compared
  BY NotCompared
<1>3. ASSUME a.form = "v4", b.form = "v4", ValidMasks(masks, V4Bits)
      PROVE  /\ order = kqlIPv6Compare(a, b, Wide(masks))
             /\ a.prefix = NoPrefix => in = kqlIPv6IsInRange(a, b)
             /\ kqlIPv4IsMatch(a, b, masks)
                  = kqlIPv6IsMatch(a, b, Wide(masks))
  <2>1. order = kqlIPv6Compare(a, b, Wide(masks))
    <3>1. CASE compared
      BY <3>1, ComparedIs
    <3>2. CASE ~compared
      BY <1>1, <1>3, <3>2, NotCompared
    <3> QED
      BY <3>1, <3>2
  <2>2. a.prefix = NoPrefix => in = kqlIPv6IsInRange(a, b)
    BY <1>3, InRangeIs
  <2> QED
    BY <2>1, <2>2, MatchOf
<1>4. ASSUME compared
      PROVE  /\ kqlIPv4IsMatch(a, b, masks) =
                  Bool(HostsOf(a) \cap HostsOf(b) # {})
             /\ order[2] = -kqlIPv4Compare(b, a, masks)[2]
             /\ kqlIPv4Compare(a, a, masks) = Num(0)
  <2>1. kqlIPv4IsMatch(a, b, masks) = Bool(HostsOf(a) \cap HostsOf(b) # {})
    <3>1. order = Num(0) <=> HostsOf(a) \cap HostsOf(b) # {}
      BY <1>4, MatchIsMeeting
    <3>2. kqlIPv4IsMatch(a, b, masks) = Bool(order = Num(0))
      BY <1>1, <1>4, MatchOf
    <3> HIDE DEF order, HostsOf
    <3>3. (order = Num(0)) = (HostsOf(a) \cap HostsOf(b) # {})
      BY <3>1
    <3> QED
      BY <3>2, <3>3
  <2>2. order[2] = -kqlIPv4Compare(b, a, masks)[2]
    <3>1. PICK l, n : /\ l = Min({PrefixOf(a), PrefixOf(b)})
                      /\ n = Narrowed(l, masks)
      OBVIOUS
    <3>2. {PrefixOf(b), PrefixOf(a)} = {PrefixOf(a), PrefixOf(b)}
      OBVIOUS
    <3>3. /\ l \in 0..V4Bits /\ n \in 0..l
          /\ order = Order(Masked(a.bits, n, V4Bits), Masked(b.bits, n, V4Bits))
      BY <1>4, <3>1, ComparedIs
    <3>4. kqlIPv4Compare(b, a, masks) =
            Order(Masked(b.bits, n, V4Bits), Masked(a.bits, n, V4Bits))
      BY <1>4, <3>1, <3>2, ComparedIs
    <3>5. V4Bits \in Nat /\ a.bits \in Nat /\ b.bits \in Nat
      BY AddressParts
    <3>6. n \in 0..V4Bits
      BY <3>3, <3>5
    <3>7. PICK x \in Nat, y \in Nat :
            x = Masked(a.bits, n, V4Bits) /\ y = Masked(b.bits, n, V4Bits)
      BY <3>5, <3>6, MaskedIs
    <3> HIDE DEF order
    <3> QED
      BY <3>3, <3>4, <3>7, OrderOf
  <2>3. kqlIPv4Compare(a, a, masks) = Num(0)
    <3>1. PICK l, n : /\ l = Min({PrefixOf(a), PrefixOf(a)})
                      /\ n = Narrowed(l, masks)
      OBVIOUS
    <3>2. /\ l \in 0..V4Bits /\ n \in 0..l
          /\ kqlIPv4Compare(a, a, masks) =
               Order(Masked(a.bits, n, V4Bits), Masked(a.bits, n, V4Bits))
      BY <1>4, <3>1, ComparedIs
    <3>3. V4Bits \in Nat /\ a.bits \in Nat
      BY AddressParts
    <3>4. n \in 0..V4Bits
      BY <3>2, <3>3
    <3>5. PICK x \in Nat : x = Masked(a.bits, n, V4Bits)
      BY <3>3, <3>4, MaskedIs
    <3> QED
      BY <3>2, <3>5, OrderOf
  <2> QED
    BY <2>1, <2>2, <2>3
<1>5. ASSUME in # NULL
      PROVE  in = Bool(a.bits \in Hosts(range, V4Bits))
  <2>1. /\ Readable(b) /\ a.form = "v4"
        /\ in = Bool(Network(a.bits, PrefixOf(b), V4Bits)
                       = Network(b.bits, PrefixOf(b), V4Bits))
    BY <1>5, InRangeIs
  <2>2. PICK p \in 0..V4Bits :
          p = PrefixOf(b) /\ range = <<Masked(b.bits, p, V4Bits), p>>
    BY <2>1, RangeIs
  <2>3. /\ V4Bits \in Nat /\ b.bits \in Nat
        /\ a.bits \in 0..2 ^ V4Bits - 1
    BY <2>1, AddressParts
  <2>4. PICK Y : Y = Masked(b.bits, p, V4Bits)
    OBVIOUS
  <2>5. Network(Y, p, V4Bits) = Network(b.bits, p, V4Bits)
    BY <2>3, <2>4, MaskedIs
  <2>6. <<Y, p>>[1] = Y /\ <<Y, p>>[2] = p
    OBVIOUS
  <2>7. a.bits \in Hosts(<<Y, p>>, V4Bits) <=>
          Network(a.bits, p, V4Bits) = Network(Y, p, V4Bits)
    BY <2>3, <2>6 DEF Hosts, Network, Size
  <2>8. (a.bits \in Hosts(<<Y, p>>, V4Bits)) =
          (Network(a.bits, p, V4Bits) = Network(b.bits, p, V4Bits))
    BY <2>5, <2>7
  <2> HIDE DEF in, range
  <2> QED
    BY <2>1, <2>2, <2>4, <2>8
<1>6. ASSUME a.form = "v4", masks # <<>>, compared
      PROVE  /\ kqlParseIPv4Mask(a, masks[1]) = kqlParseIPv4(text)
             /\ kqlIPv4NetmaskSuffix(text) = Num(PrefixUnder(a, masks))
             /\ Hosts(parseIPv4Range(text), V4Bits) = HostsOf(a)
  BY <1>6, FormatIs
<1>7. \A n \in 0..2 ^ V4Bits - 1 :
        kqlParseIPv4(formatIPv4(NumberRange(n), <<>>, FALSE)) = Num(n)
  BY NumberFormatted
<1>8. kqlIPv4IsPrivate(a) = Bool(TRUE) =>
        \E p \in privateIPv4Prefixes : a.bits \in Hosts(p, V4Bits)
  BY PrivateHosts
(* The law says the same of the lengths parsed.                            *)
<1>9. \A x \in {a, b} : Readable(x) =>
        Min({parseIPv4Range(x)[2]} \cup ToSet(masks)) = PrefixUnder(x, masks)
  <2> SUFFICES ASSUME NEW x \in {a, b}, Readable(x)
               PROVE  parseIPv4Range(x)[2] = PrefixOf(x)
    BY DEF PrefixUnder
  <2>1. x \in Address
    OBVIOUS
  <2> QED
    BY <2>1, RangeIs
<1> DEFINE LengthOf(x) == Min({parseIPv4Range(x)[2]} \cup ToSet(masks))
           NetworkOf(x) == Hosts(<<x.bits, LengthOf(x)>>, V4Bits)
<1>10. compared => /\ LengthOf(a) = PrefixUnder(a, masks)
                   /\ NetworkOf(a) = HostsOf(a) /\ NetworkOf(b) = HostsOf(b)
  BY <1>9
<1>11. RangeLaw(a, b, masks) =
         /\ a.form = "v4" /\ b.form = "v4" /\ ValidMasks(masks, V4Bits) =>
              /\ order = kqlIPv6Compare(a, b, Wide(masks))
              /\ a.prefix = NoPrefix => in = kqlIPv6IsInRange(a, b)
              /\ kqlIPv4IsMatch(a, b, masks)
                   = kqlIPv6IsMatch(a, b, Wide(masks))
         /\ order # NULL => kqlIPv4IsMatch(a, b, masks) =
              Bool(NetworkOf(a) \cap NetworkOf(b) # {})
         /\ order = NULL <=> kqlIPv4Compare(b, a, masks) = NULL
         /\ order # NULL => /\ order[2] = -kqlIPv4Compare(b, a, masks)[2]
                            /\ kqlIPv4Compare(a, a, masks) = Num(0)
         /\ in # NULL => in = Bool(a.bits \in Hosts(range, V4Bits))
         /\ a.form = "v4" /\ masks # <<>> /\ order # NULL =>
              /\ kqlParseIPv4Mask(a, masks[1]) = kqlParseIPv4(text)
              /\ kqlIPv4NetmaskSuffix(text) = Num(LengthOf(a))
              /\ Hosts(parseIPv4Range(text), V4Bits) = NetworkOf(a)
         /\ \A n \in 0..2 ^ V4Bits - 1 :
              kqlParseIPv4(formatIPv4(NumberRange(n), <<>>, FALSE)) = Num(n)
         /\ kqlIPv4IsPrivate(a) = Bool(TRUE) =>
              \E p \in privateIPv4Prefixes : a.bits \in Hosts(p, V4Bits)
  BY DEF RangeLaw, Wide
<1> HIDE DEF order, in, range, text, compared, HostsOf, LengthOf, NetworkOf
<1> QED
  BY <1>1, <1>2, <1>3, <1>4, <1>5, <1>6, <1>7, <1>8, <1>10, <1>11
=============================================================================

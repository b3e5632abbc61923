--------------------------- MODULE QueryExecution ---------------------------
(***************************************************************************)
(* How a query handler of internal/api/server.go runs its SQL: discovery   *)
(* queries while the KQL is compiled, then the query itself, all through   *)
(* Store.RunQuery of internal/database/interrupt.go on the connections of  *)
(* the query pool. A validation only prepares its SQL, on a connection of  *)
(* the same pool but without RunQuery.                                     *)
(*                                                                         *)
(* Three actors touch a connection: the handler, the watchdog goroutine of *)
(* RunQuery and go-sqlite3, which interrupts a query once when its context *)
(* ends. SQLite keeps the interrupt in a flag of the connection, which the *)
(* first step of a statement clears and later steps check. The timers are  *)
(* abstracted: a context may end at any moment, a tick may come at any     *)
(* moment.                                                                 *)
(***************************************************************************)
EXTENDS Integers

CONSTANTS
  Query,          (* the handlers that may run at the same time             *)
  Conn,           (* the connections of the query pool                      *)
  None,           (* no connection                                          *)
  MaxDiscoveries  (* bound: discovery queries the compiler runs per query   *)

ASSUME ExecutionAssumption == None \notin Conn /\ MaxDiscoveries \in Nat

VARIABLES
  pc,           (* where each handler is                                    *)
  ctx,          (* the context of its current call, see Context             *)
  kind,         (* what its current call runs                               *)
  discoveries,  (* how many discovery queries it ran                        *)
  conn,         (* the pooled connection it holds                           *)
  result,       (* how its current call ended                               *)
  watchdog,     (* where the watchdog goroutine of its call is              *)
  handle,       (* the sqlite3* its watchdog interrupts                     *)
  done,         (* the channel done of its call is closed                   *)
  driver,       (* go-sqlite3 may still interrupt its call                  *)
  interrupted   (* isInterrupted of each connection                         *)

callVars == <<ctx, kind, discoveries>>
watchVars == <<watchdog, handle, done>>
vars == <<pc, callVars, conn, result, watchVars, driver, interrupted>>

PC == {"idle", "compiling", "connecting", "connected", "preparing",
       "prepared", "stepping", "closing", "joining", "answering"}

Kind == {"discovery", "execution", "validation"}

(* A discovery query has a deadline of its own inside that of the handler. *)
Context == {"live", "subdeadline", "deadline"}

Init ==
  /\ pc = [q \in Query |-> "idle"]
  /\ ctx = [q \in Query |-> "live"]
  /\ kind = [q \in Query |-> "discovery"]
  /\ discoveries = [q \in Query |-> 0]
  /\ conn = [q \in Query |-> None]
  /\ result = [q \in Query |-> "none"]
  /\ watchdog = [q \in Query |-> "off"]
  /\ handle = [q \in Query |-> None]
  /\ done = [q \in Query |-> FALSE]
  /\ driver = [q \in Query |-> FALSE]
  /\ interrupted = [c \in Conn |-> FALSE]

Ended(q) == ctx[q] # "live"

(* No handler holds c. The pool is the query pool of a database file: one  *)
(* in memory, or with a "?" in its path, is read through the only pool.    *)
Free(c) == \A q \in Query : conn[q] # c

Goto(q, label) == pc' = [pc EXCEPT ![q] = label]

-----------------------------------------------------------------------------
(* The handler: query and validateQuery                                    *)

Handle(q) ==
  /\ pc[q] = "idle"
  /\ Goto(q, "compiling")
  /\ UNCHANGED <<callVars, conn, result, watchVars, driver, interrupted>>

(* RunQuery is called, by a discovery callback of the compiler or with the *)
(* compiled query; or prepareQuery is called to validate it. The deadline  *)
(* that a discovery has of its own goes with its call.                     *)
Call(q, k) ==
  /\ pc[q] = "compiling"
  /\ k = "discovery" => discoveries[q] < MaxDiscoveries
  /\ Goto(q, "connecting")
  /\ kind' = [kind EXCEPT ![q] = k]
  /\ discoveries' = [discoveries EXCEPT
                       ![q] = IF k = "discovery" THEN @ + 1 ELSE @]
  /\ ctx' = [ctx EXCEPT ![q] = IF @ = "deadline" THEN @ ELSE "live"]
  /\ result' = [result EXCEPT ![q] = "none"]
  /\ UNCHANGED <<conn, watchVars, driver, interrupted>>

(* The handler writes its response: after the query or the validation,     *)
(* after a call failed, or out of compilation (it refuses the request, or  *)
(* the query does not compile).                                            *)
(* It returns, and its context and its local variables are gone.           *)
Respond(q) ==
  /\ pc[q] \in {"compiling", "answering"}
  /\ Goto(q, "idle")
  /\ ctx' = [ctx EXCEPT ![q] = "live"]
  /\ kind' = [kind EXCEPT ![q] = "discovery"]
  /\ discoveries' = [discoveries EXCEPT ![q] = 0]
  /\ result' = [result EXCEPT ![q] = "none"]
  /\ UNCHANGED <<conn, watchVars, driver, interrupted>>

(* The 5-second deadline of the handler passes, or its client goes away.   *)
Deadline(q) ==
  /\ pc[q] # "idle"
  /\ ctx[q] # "deadline"
  /\ ctx' = [ctx EXCEPT ![q] = "deadline"]
  /\ UNCHANGED <<pc, kind, discoveries, conn, result, watchVars, driver,
                 interrupted>>

(* The 2-second deadline of a discovery query passes.                      *)
SubDeadline(q) ==
  /\ pc[q] \notin {"idle", "compiling", "answering"}
  /\ kind[q] = "discovery"
  /\ ctx[q] = "live"
  /\ ctx' = [ctx EXCEPT ![q] = "subdeadline"]
  /\ UNCHANGED <<pc, kind, discoveries, conn, result, watchVars, driver,
                 interrupted>>

-----------------------------------------------------------------------------
(* The connection of a call                                                *)

(* What follows a call: a failed one ends the handler's work, so does the  *)
(* query itself or its validation, and a discovery goes back to the        *)
(* compiler.                                                               *)
AfterCall(q, res) ==
  IF res = "ok" /\ kind[q] = "discovery" THEN "compiling" ELSE "answering"

(* The pool hands out an idle connection, perhaps just as ctx ends: to     *)
(* queryDB.Conn or queryDB.PrepareContext.                                 *)
Connect(q, c) ==
  /\ pc[q] = "connecting"
  /\ Free(c)
  /\ conn' = [conn EXCEPT ![q] = c]
  /\ Goto(q, "connected")
  /\ UNCHANGED <<callVars, result, watchVars, driver, interrupted>>

(* Either returns ctx.Err(): no connection became idle in time.            *)
ConnectFails(q) ==
  /\ pc[q] = "connecting"
  /\ Ended(q)
  /\ result' = [result EXCEPT ![q] = "error"]
  /\ Goto(q, AfterCall(q, "error"))
  /\ UNCHANGED <<callVars, conn, watchVars, driver, interrupted>>

-----------------------------------------------------------------------------
(* PrepareContext: a validation, which has no watchdog                     *)

(* SQLite's parser begins, and forgets an earlier interrupt.               *)
Prepare(q) ==
  /\ pc[q] = "connected"
  /\ kind[q] = "validation"
  /\ Goto(q, "preparing")
  /\ interrupted' = [interrupted EXCEPT ![conn[q]] = FALSE]
  /\ UNCHANGED <<callVars, conn, result, watchVars, driver>>

Parsed(q) == IF interrupted[conn[q]] THEN {"interrupted"} ELSE {"ok", "error"}

(* Mutant: a connection of its own, closed only where the SQL is right.    *)
PreparedLeaking(q) ==
  /\ pc[q] = "preparing"
  /\ \E res \in Parsed(q) :
       /\ result' = [result EXCEPT ![q] = res]
       /\ conn' = [conn EXCEPT ![q] = IF res = "ok" THEN None ELSE @]
  /\ Goto(q, "answering")
  /\ UNCHANGED <<callVars, watchVars, driver, interrupted>>

(* The statement is prepared, or the SQL refused, or the parser found the  *)
(* flag; database/sql takes the connection back and the statement is       *)
(* closed.                                                                 *)
Prepared(q) ==
  /\ pc[q] = "preparing"
  /\ \E res \in Parsed(q) : result' = [result EXCEPT ![q] = res]
  /\ conn' = [conn EXCEPT ![q] = None]
  /\ Goto(q, "answering")
  /\ UNCHANGED <<callVars, watchVars, driver, interrupted>>

-----------------------------------------------------------------------------
(* RunQuery                                                                *)

(* conn.Raw fails or the driver does not show its handle: RunQuery returns *)
(* before there is a watchdog, and conn.Close gives the connection back.   *)
NoHandle(q) ==
  /\ pc[q] = "connected"
  /\ kind[q] # "validation"
  /\ result' = [result EXCEPT ![q] = "error"]
  /\ conn' = [conn EXCEPT ![q] = None]
  /\ Goto(q, AfterCall(q, "error"))
  /\ UNCHANGED <<callVars, watchVars, driver, interrupted>>

StartWatchdog(q, h) ==
  /\ pc[q] = "connected"
  /\ kind[q] # "validation"
  /\ Goto(q, "prepared")
  /\ handle' = [handle EXCEPT ![q] = h]
  /\ watchdog' = [watchdog EXCEPT ![q] = "armed"]
  /\ driver' = [driver EXCEPT ![q] = TRUE]
  /\ UNCHANGED <<callVars, conn, result, done, interrupted>>

(* Mutant: the handle is not compared with nil.                            *)
WatchUnchecked(q) == \E h \in {conn[q], None} : StartWatchdog(q, h)

(* The handle is read and the watchdog goroutine started.                  *)
Watch(q) == StartWatchdog(q, conn[q])

(* The first step of the statement: SQLite forgets an earlier interrupt.   *)
FirstStep(q) ==
  /\ pc[q] = "prepared"
  /\ Goto(q, "stepping")
  /\ interrupted' = [interrupted EXCEPT ![conn[q]] = FALSE]
  /\ UNCHANGED <<callVars, conn, result, watchVars, driver>>

(* The statement runs to its end, or fails, or its rows are refused        *)
(* because there are too many.                                             *)
Complete(q) ==
  /\ pc[q] = "stepping"
  /\ \E res \in {"ok", "error"} : result' = [result EXCEPT ![q] = res]
  /\ Goto(q, "closing")
  /\ UNCHANGED <<callVars, conn, watchVars, driver, interrupted>>

(* A later step of the statement finds the flag: SQLITE_INTERRUPT.         *)
Stop(q) ==
  /\ pc[q] = "stepping"
  /\ interrupted[conn[q]]
  /\ result' = [result EXCEPT ![q] = "interrupted"]
  /\ Goto(q, "closing")
  /\ UNCHANGED <<callVars, conn, watchVars, driver, interrupted>>

(* rows.Close, then close(done) of the deferred function.                  *)
Close(q) ==
  /\ pc[q] = "closing"
  /\ Goto(q, "joining")
  /\ done' = [done EXCEPT ![q] = TRUE]
  /\ driver' = [driver EXCEPT ![q] = FALSE]
  /\ UNCHANGED <<callVars, conn, result, watchdog, handle, interrupted>>

ReturnWhen(joined, q) ==
  /\ pc[q] = "joining"
  /\ joined
  /\ conn' = [conn EXCEPT ![q] = None]
  /\ Goto(q, AfterCall(q, result[q]))
  /\ UNCHANGED <<callVars, result, watchVars, driver, interrupted>>

(* Mutant: the watchdog is told to stop but not waited for.                *)
ReturnWithoutWait(q) == ReturnWhen(TRUE, q)

(* watchdog.Wait(), then conn.Close() gives the connection back.           *)
Return(q) == ReturnWhen(watchdog[q] = "off", q)

-----------------------------------------------------------------------------
(* Those who interrupt                                                     *)

WatchdogGoto(q, label) == watchdog' = [watchdog EXCEPT ![q] = label]

(* select: ctx.Done(), the loop begins.                                    *)
WatchdogWakes(q) ==
  /\ watchdog[q] = "armed"
  /\ Ended(q)
  /\ WatchdogGoto(q, "interrupting")
  /\ UNCHANGED <<pc, callVars, conn, result, handle, done, driver, interrupted>>

(* C.striem_interrupt(handle)                                              *)
Interrupt(q) ==
  /\ watchdog[q] = "interrupting"
  /\ interrupted' = [interrupted EXCEPT ![handle[q]] = TRUE]
  /\ WatchdogGoto(q, "sleeping")
  /\ UNCHANGED <<pc, callVars, conn, result, handle, done, driver>>

(* Mutant: a single interrupt, like the driver's.                          *)
NeverTicks(q) == FALSE /\ UNCHANGED vars

(* select: <-ticker.C, once more.                                          *)
Tick(q) ==
  /\ watchdog[q] = "sleeping"
  /\ WatchdogGoto(q, "interrupting")
  /\ UNCHANGED <<pc, callVars, conn, result, handle, done, driver, interrupted>>

(* select: <-done, in either select. The goroutine ends, its variables go. *)
WatchdogStops(q) ==
  /\ watchdog[q] \in {"armed", "sleeping"}
  /\ done[q]
  /\ WatchdogGoto(q, "off")
  /\ handle' = [handle EXCEPT ![q] = None]
  /\ done' = [done EXCEPT ![q] = FALSE]
  /\ UNCHANGED <<pc, callVars, conn, result, driver, interrupted>>

(* go-sqlite3's own interrupt when the context of a running query ends. It *)
(* may land before the first step, and it is the only one.                 *)
DriverInterrupt(q) ==
  /\ pc[q] \in {"prepared", "stepping"}
  /\ Ended(q)
  /\ driver[q]
  /\ interrupted' = [interrupted EXCEPT ![conn[q]] = TRUE]
  /\ driver' = [driver EXCEPT ![q] = FALSE]
  /\ UNCHANGED <<pc, callVars, conn, result, watchVars>>

-----------------------------------------------------------------------------

(* The handler's own steps once it has a call to make. That a statement    *)
(* ends by itself is not one of them: it may run for ever.                 *)
Progress(q) ==
  \/ \E c \in Conn : Connect(q, c)
  \/ ConnectFails(q)
  \/ Prepare(q)
  \/ Prepared(q)
  \/ NoHandle(q)
  \/ Watch(q)
  \/ FirstStep(q)
  \/ Stop(q)
  \/ Close(q)
  \/ Return(q)

Watchdog(q) == WatchdogWakes(q) \/ Interrupt(q) \/ Tick(q)

(* Everything a handler's call does and everything that happens to it.     *)
Step(q) ==
  \/ \E k \in Kind : Call(q, k)
  \/ Deadline(q)
  \/ SubDeadline(q)
  \/ Progress(q)
  \/ Complete(q)
  \/ Watchdog(q)
  \/ WatchdogStops(q)
  \/ DriverInterrupt(q)

Next == \E q \in Query : Handle(q) \/ Respond(q) \/ Step(q)

Spec == Init /\ [][Next]_vars

(* Deadlines pass, goroutines run, the compiler and SQLite's parser end.   *)
(* The ticker keeps ticking, and a select that is offered done again and   *)
(* again with another case takes it some time, hence the strong fairness.  *)
(* Nothing is assumed of statements (Complete) nor of the driver.          *)
FairQuery(q) ==
  /\ WF_vars(Deadline(q))
  /\ WF_vars(Respond(q))
  /\ WF_vars(Progress(q))
  /\ WF_vars(Watchdog(q))
  /\ SF_vars(WatchdogStops(q))

-----------------------------------------------------------------------------
(* Properties                                                              *)

(* The types, and that a watchdog always has a connection to interrupt:    *)
(* striem_interrupt is never called with nil.                              *)
TypeOK ==
  /\ pc \in [Query -> PC]
  /\ ctx \in [Query -> Context]
  /\ kind \in [Query -> Kind]
  /\ discoveries \in [Query -> 0..MaxDiscoveries]
  /\ conn \in [Query -> Conn \cup {None}]
  /\ result \in [Query -> {"none", "ok", "error", "interrupted"}]
  /\ watchdog \in [Query -> {"off", "armed", "interrupting", "sleeping"}]
  /\ handle \in [Query -> Conn \cup {None}]
  /\ done \in [Query -> BOOLEAN]
  /\ driver \in [Query -> BOOLEAN]
  /\ interrupted \in [Conn -> BOOLEAN]
  /\ \A q \in Query : watchdog[q] # "off" => handle[q] # None

(* A query is only ever interrupted because its own deadline passed, and a *)
(* validation, which nobody interrupts, never: no interrupt aimed at an    *)
(* earlier user of the connection reaches the next.                        *)
OnlyOwnDeadline ==
  \A q \in Query :
    result[q] = "interrupted" => Ended(q) /\ kind[q] # "validation"

(* The watchdog stops before the connection returns to the pool: whoever   *)
(* may still interrupt a connection is the query that holds it.            *)
WatchdogOwnsConnection ==
  \A q \in Query : watchdog[q] # "off" => conn[q] = handle[q]

(* A handler returns although its statement never ends by itself, and      *)
(* although an interrupt that lands before the first step is lost: no      *)
(* query outlives its deadline and keeps its connection.                   *)
HandlerReturns == \A q \in Query : pc[q] # "idle" ~> pc[q] = "idle"

=============================================================================

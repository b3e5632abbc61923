----------------------------- MODULE QueryPanel -----------------------------
(***************************************************************************)
(* The query editor and its results in the browser: runQuery,              *)
(* scheduleQueryValidation and onDocumentChange of web/src/app.ts. One     *)
(* thread runs them; what interleaves are the user, the timer of the       *)
(* validation and the answers of the server, which come late, out of       *)
(* order, or after the request was aborted.                                *)
(*                                                                         *)
(* A query that is edited and edited back is the same text again, so that  *)
(* comparing texts does not tell a late answer from a timely one.          *)
(***************************************************************************)
CONSTANTS
  Query,    (* the texts of the editor                                      *)
  Blank,    (* the one with nothing in it                                   *)
  Null      (* no query, no request, no message                             *)

(* A request carries the text as it was, and may be aborted. A validation  *)
(* is outdated when validationGeneration is not what it was when it was    *)
(* scheduled.                                                              *)
Run == [query : Query, aborted : BOOLEAN]
Validation == [query : Query, aborted : BOOLEAN, outdated : BOOLEAN]

ASSUME QueryPanelAssumption ==
  /\ Blank \in Query
  /\ Null \notin Query /\ Null \notin Run

VARIABLES
  doc,          (* the text in the editor                                   *)
  run,          (* the request of runQuery, Null unless queryRunning        *)
  timer,        (* validationTimer: the query whose validation is due       *)
  validations,  (* the requests of validations                              *)
  outcome,      (* queryOutcome                                             *)
  lastResult,   (* the query whose result is displayed                      *)
  resultQuery,  (* lastResultQuery                                          *)
  notice,       (* what #results-notice says                                *)
  failure,      (* the query whose error #query-error displays              *)
  diagnostic    (* the query whose error the editor underlines              *)

messages == <<notice, failure, diagnostic>>
results == <<outcome, lastResult, resultQuery>>
vars == <<doc, run, timer, validations, results, messages>>

(* What a request ends with: its answer, an error with or without a        *)
(* position in the text, no usable answer, or an AbortError. An answer     *)
(* that was there when the request was aborted may still be delivered.     *)
Answers(request) == {"ok", "position", "error"} \cup
                    IF request.aborted THEN {"abort"} ELSE {}

(* Mutant: a blank text is validated too.                                  *)
ScheduledAlways(text) == text

(* scheduleQueryValidation.                                                *)
Scheduled(text) == IF text = Blank THEN Null ELSE text

Init ==
  /\ doc \in Query
  /\ run = Null
  /\ timer = Scheduled(doc)
  /\ validations = {}
  /\ outcome = "idle"
  /\ lastResult = Null /\ resultQuery = Null
  /\ notice = "none" /\ failure = Null /\ diagnostic = Null

(* updateResultNotice, of the variables as they are when it is called.     *)
Notice(text, running, is, shown, shownQuery) ==
  CASE shown = Null -> "none"
    [] shown # Null /\ running -> "running"
    [] shown # Null /\ ~running /\ is = "failed" -> "failed"
    [] shown # Null /\ ~running /\ is = "canceled" -> "canceled"
    [] OTHER -> IF text # shownQuery THEN "changed" ELSE "none"

(* cancelQueryValidation: there is a new generation, and the request of    *)
(* validationController is aborted, like those before it were.             *)
CancelValidation ==
  validations' = {[v EXCEPT !.aborted = TRUE, !.outdated = TRUE] :
                    v \in validations}

Abort(request) ==
  IF request = Null THEN Null ELSE [request EXCEPT !.aborted = TRUE]

-----------------------------------------------------------------------------
(* The user                                                                *)

ChangeDocument(text, note) ==
  /\ doc' = text
  /\ run' = Abort(run)
  /\ outcome' = "idle"
  /\ notice' = note
  /\ failure' = Null
  /\ CancelValidation
  /\ timer' = Scheduled(text)
  /\ diagnostic' = Null
  /\ UNCHANGED <<lastResult, resultQuery>>

(* Mutant: an edit leaves the notice as it is.                             *)
EditUnnoticed(text) == ChangeDocument(text, notice)

(* onDocumentChange, after an edit of any kind: typing, a pivot, a saved   *)
(* query that replaces the text even by the same one.                      *)
Edit(text) ==
  ChangeDocument(text, Notice(text, run # Null, "idle", lastResult, resultQuery))

(* runQuery while no query runs.                                           *)
StartQuery ==
  /\ run = Null
  /\ CancelValidation
  /\ timer' = Null
  /\ run' = [query |-> doc, aborted |-> FALSE]
  /\ failure' = Null
  /\ diagnostic' = Null
  /\ notice' = Notice(doc, TRUE, outcome, lastResult, resultQuery)
  /\ UNCHANGED <<doc, results>>

(* runQuery while one does.                                                *)
CancelQuery ==
  /\ run # Null
  /\ run' = Abort(run)
  /\ UNCHANGED <<doc, timer, validations, results, messages>>

-----------------------------------------------------------------------------
(* The timer and the answers                                               *)

(* The timer of scheduleQueryValidation fires.                             *)
Validate ==
  /\ timer # Null
  /\ timer' = Null
  /\ validations' = validations \cup
                      {[query |-> timer, aborted |-> FALSE, outdated |-> FALSE]}
  /\ UNCHANGED <<doc, run, results, messages>>

Stale(v) == v.aborted \/ v.outdated

(* A validation ends. Only an error at a position is displayed.            *)
ValidatedUnless(v, dropped) ==
  \E answer \in Answers(v) :
    /\ validations' = validations \ {v}
    /\ diagnostic' = IF answer = "position" /\ ~dropped
                       THEN v.query ELSE diagnostic
    /\ UNCHANGED <<doc, run, timer, results, notice, failure>>

(* Mutant: the error of a validation is displayed whenever it comes.       *)
ValidatedAnyTime(v) == ValidatedUnless(v, FALSE)

Validated(v) == ValidatedUnless(v, Stale(v))

(* The end of runQuery, with its finally block.                            *)
Finish(is, shown, shownQuery) ==
  /\ outcome' = is
  /\ lastResult' = shown
  /\ resultQuery' = shownQuery
  /\ run' = Null
  /\ notice' = Notice(doc, FALSE, is, shown, shownQuery)
  /\ UNCHANGED <<doc, timer, validations>>

Canceled == run.aborted \/ doc # run.query

SucceedUnless(canceled) ==
  /\ run # Null /\ ~canceled
  /\ Finish("success", run.query, run.query)
  /\ UNCHANGED <<failure, diagnostic>>

(* Mutant: the result is for the text in the editor, so it is displayed.   *)
SucceedIfUnchanged == SucceedUnless(doc # run.query)

(* A result has come.                                                      *)
Succeed == SucceedUnless(Canceled)

(* An AbortError, a result that is not wanted any more, or any other error *)
(* of a request that was aborted.                                          *)
Cancel ==
  /\ run # Null /\ Canceled
  /\ Finish("canceled", lastResult, resultQuery)
  /\ UNCHANGED <<failure, diagnostic>>

(* An error of the server, or no usable answer.                            *)
Fail ==
  /\ run # Null /\ ~run.aborted
  /\ Finish("failed", lastResult, resultQuery)
  /\ failure' = run.query
  /\ diagnostic' \in {diagnostic, run.query}

-----------------------------------------------------------------------------

Settle == Succeed \/ Cancel \/ Fail

Next ==
  \/ \E text \in Query : Edit(text)
  \/ StartQuery
  \/ CancelQuery
  \/ Validate
  \/ \E v \in validations : Validated(v)
  \/ Settle

Spec == Init /\ [][Next]_vars

-----------------------------------------------------------------------------
(* Properties                                                              *)

TypeOK ==
  /\ doc \in Query
  /\ run \in Run \cup {Null}
  /\ timer \in (Query \ {Blank}) \cup {Null}
  /\ validations \subseteq Validation
  /\ outcome \in {"idle", "success", "failed", "canceled"}
  /\ lastResult \in Query \cup {Null}
  /\ resultQuery \in Query \cup {Null}
  /\ notice \in {"none", "running", "failed", "canceled", "changed"}
  /\ failure \in Query \cup {Null}
  /\ diagnostic \in Query \cup {Null}

(* Results without a notice are those of the text in the editor, and       *)
(* nothing runs; and the notice says when something does. It is only       *)
(* computed now and then, in the middle of handlers.                       *)
NoticeTruthful ==
  lastResult # Null =>
    /\ notice = "none" => lastResult = doc /\ run = Null
    /\ notice = "running" <=> run # Null

(* An error that is displayed is about the text in the editor, whichever   *)
(* of its two ways it came and however late; while a query runs that       *)
(* nobody canceled there is none.                                          *)
ErrorsCurrent ==
  /\ failure # Null => failure = doc /\ run = Null
  /\ diagnostic # Null => diagnostic = doc
  /\ run # Null /\ ~run.aborted => diagnostic = Null

(* A query that was canceled, by the button or by an edit, displays        *)
(* nothing any more, not even when it was edited back before it ended.     *)
CanceledStaysCanceled ==
  [][run # Null /\ run.aborted =>
       /\ lastResult' = lastResult
       /\ run' = Null => outcome' = "canceled" /\ failure' = failure]_vars

=============================================================================

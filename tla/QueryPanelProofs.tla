-------------------------- MODULE QueryPanelProofs --------------------------
(***************************************************************************)
(* For any number of texts, and in whatever order edits, timers and        *)
(* answers come: notices, errors and results belong to the text in the     *)
(* editor, and a canceled query displays nothing.                          *)
(***************************************************************************)
EXTENDS QueryPanel, TLAPS

(* What is on its way and still wanted is about the text in the editor;    *)
(* and a query that runs has canceled every validation.                    *)
WantedCurrent ==
  /\ run # Null /\ ~run.aborted =>
       run.query = doc /\ timer = Null /\ \A v \in validations : Stale(v)
  /\ timer # Null => timer = doc
  /\ \A v \in validations : ~Stale(v) => v.query = doc

IInv ==
  /\ TypeOK
  /\ resultQuery = lastResult
  /\ WantedCurrent
  /\ NoticeTruthful
  /\ ErrorsCurrent

-----------------------------------------------------------------------------
(* Lemmas                                                                  *)

(* A request that is aborted is still a request.                           *)
LEMMA AbortedRun ==
  ASSUME run \in Run \cup {Null}
  PROVE  /\ Abort(run) \in Run \cup {Null}
         /\ Abort(run) = Null <=> run = Null
         /\ run # Null => Abort(run).aborted
BY QueryPanelAssumption DEF Abort, Run

(* Once canceled, a validation is stale.                                   *)
LEMMA CanceledValidations ==
  ASSUME CancelValidation, validations \subseteq Validation
  PROVE  /\ validations' \subseteq Validation
         /\ \A v \in validations' : Stale(v)
BY DEF CancelValidation, Validation, Stale

(* The notice that updateResultNotice computes is one of the five, is      *)
(* about a query that runs if and only if there is one, and is missing     *)
(* only over results of the text.                                          *)
LEMMA NoticeIs ==
  ASSUME NEW text, NEW running \in BOOLEAN,
         NEW is \in {"idle", "success", "failed", "canceled"},
         NEW shown, NEW shownQuery
  PROVE  LET note == Notice(text, running, is, shown, shownQuery) IN
         /\ note \in {"none", "running", "failed", "canceled", "changed"}
         /\ shown # Null =>
              /\ note = "running" <=> running
              /\ note = "none" => text = shownQuery /\ ~running
<1>1. CASE shown = Null
  BY <1>1 DEF Notice
<1>2. CASE shown # Null /\ running
  BY <1>2 DEF Notice
<1>3. CASE shown # Null /\ ~running /\ is = "failed"
  BY <1>3 DEF Notice
<1>4. CASE shown # Null /\ ~running /\ is = "canceled"
  BY <1>4 DEF Notice
<1>5. CASE shown # Null /\ ~running /\ is \notin {"failed", "canceled"}
  BY <1>5 DEF Notice
<1>6. QED
  BY <1>1, <1>2, <1>3, <1>4, <1>5

-----------------------------------------------------------------------------
(* The steps                                                               *)

LEMMA InitIInv == Init => IInv
BY QueryPanelAssumption DEF Init, Scheduled, IInv, TypeOK, WantedCurrent,
   NoticeTruthful, ErrorsCurrent

LEMMA EditStep ==
  ASSUME IInv, NEW text \in Query, Edit(text)
  PROVE  IInv'
<1>1. run' \in Run \cup {Null} /\ (run' = Null <=> run = Null)
      /\ (run' # Null => run'.aborted)
  BY AbortedRun DEF IInv, TypeOK, Edit, ChangeDocument
<1>2. validations' \subseteq Validation /\ \A v \in validations' : Stale(v)
  BY CanceledValidations DEF IInv, TypeOK, Edit, ChangeDocument
<1>3. TypeOK'
  BY <1>1, <1>2, NoticeIs, QueryPanelAssumption
  DEF IInv, TypeOK, Edit, ChangeDocument, Scheduled
<1>4. WantedCurrent'
  BY <1>1, <1>2 DEF WantedCurrent, Edit, ChangeDocument, Scheduled, Stale
<1>5. NoticeTruthful'
  BY <1>1 DEF IInv, NoticeTruthful, Edit, ChangeDocument, Notice
<1>6. ErrorsCurrent'
  BY DEF ErrorsCurrent, Edit, ChangeDocument
<1>7. QED
  BY <1>3, <1>4, <1>5, <1>6 DEF IInv, Edit, ChangeDocument

LEMMA StartQueryStep ==
  ASSUME IInv, StartQuery
  PROVE  IInv'
<1>1. validations' \subseteq Validation /\ \A v \in validations' : Stale(v)
  BY CanceledValidations DEF IInv, TypeOK, StartQuery
<1>2. run' \in Run /\ run' # Null /\ run'.query = doc
  <2>1. [query |-> doc, aborted |-> FALSE] \in Run
    BY DEF IInv, TypeOK, Run
  <2>2. QED
    BY <2>1, QueryPanelAssumption DEF StartQuery
<1>3. TypeOK'
  BY <1>1, <1>2, NoticeIs DEF IInv, TypeOK, StartQuery, results
<1>4. WantedCurrent'
  BY <1>1, <1>2 DEF WantedCurrent, StartQuery, Stale
<1>5. NoticeTruthful'
  BY <1>2 DEF NoticeTruthful, StartQuery, results, Notice
<1>6. ErrorsCurrent'
  BY DEF ErrorsCurrent, StartQuery
<1>7. QED
  BY <1>3, <1>4, <1>5, <1>6 DEF IInv, StartQuery, results

LEMMA CancelQueryStep ==
  ASSUME IInv, CancelQuery
  PROVE  IInv'
<1>1. run' \in Run /\ run' # Null /\ run'.aborted
  BY AbortedRun DEF IInv, TypeOK, CancelQuery
<1>2. TypeOK' /\ resultQuery' = lastResult'
  BY <1>1 DEF IInv, TypeOK, CancelQuery, results, messages
<1>3. WantedCurrent'
  BY <1>1 DEF IInv, WantedCurrent, CancelQuery, Stale
<1>4. NoticeTruthful' /\ ErrorsCurrent'
  BY <1>1 DEF IInv, NoticeTruthful, ErrorsCurrent, CancelQuery, results, messages
<1>5. QED
  BY <1>2, <1>3, <1>4 DEF IInv

LEMMA ValidateStep ==
  ASSUME IInv, Validate
  PROVE  IInv'
<1>1. TypeOK' /\ resultQuery' = lastResult'
  <2>1. validations' \subseteq Validation
    <3>1. timer \in Query
      BY DEF IInv, TypeOK, Validate
    <3>2. [query |-> timer, aborted |-> FALSE, outdated |-> FALSE] \in Validation
      BY <3>1 DEF Validation
    <3>3. QED
      BY <3>2 DEF IInv, TypeOK, Validate
  <2>2. QED
    BY <2>1 DEF IInv, TypeOK, Validate, results, messages
<1>2. WantedCurrent'
  BY DEF IInv, WantedCurrent, Validate, Stale
<1>3. NoticeTruthful' /\ ErrorsCurrent'
  BY DEF IInv, NoticeTruthful, ErrorsCurrent, Validate, results, messages
<1>4. QED
  BY <1>1, <1>2, <1>3 DEF IInv

LEMMA ValidatedStep ==
  ASSUME IInv, NEW v \in validations, Validated(v)
  PROVE  IInv'
<1>1. TypeOK' /\ resultQuery' = lastResult'
  BY DEF IInv, TypeOK, Validated, ValidatedUnless, Validation, results
<1>2. WantedCurrent'
  BY DEF IInv, WantedCurrent, Validated, ValidatedUnless, Stale
<1>3. NoticeTruthful'
  BY DEF IInv, NoticeTruthful, Validated, ValidatedUnless, results
<1>4. ErrorsCurrent'
  BY DEF IInv, WantedCurrent, ErrorsCurrent, Validated, ValidatedUnless
<1>5. QED
  BY <1>1, <1>2, <1>3, <1>4 DEF IInv

(* However a query ends.                                                   *)
LEMMA FinishStep ==
  ASSUME IInv, run # Null,
         NEW is \in {"success", "failed", "canceled"},
         NEW shown \in Query \cup {Null},
         Finish(is, shown, shown),
         shown = lastResult \/ shown = doc,
         failure' \in {failure, doc}, diagnostic' \in {diagnostic, doc}
  PROVE  IInv'
<1>1. TypeOK' /\ resultQuery' = lastResult'
  <2>1. notice' \in {"none", "running", "failed", "canceled", "changed"}
    BY NoticeIs DEF Finish
  <2>2. QED
    BY <2>1 DEF IInv, TypeOK, Finish
<1>2. WantedCurrent'
  BY DEF IInv, WantedCurrent, Finish, Stale
<1>3. NoticeTruthful'
  <2>1. /\ notice' = Notice(doc, FALSE, is, shown, shown)
        /\ doc' = doc /\ lastResult' = shown /\ run' = Null
    BY DEF Finish
  <2>2. shown # Null =>
          /\ notice' # "running"
          /\ notice' = "none" => doc = shown
    BY <2>1 DEF Notice
  <2>3. QED
    BY <2>1, <2>2 DEF NoticeTruthful
<1>4. ErrorsCurrent'
  BY DEF IInv, ErrorsCurrent, Finish
<1>5. QED
  BY <1>1, <1>2, <1>3, <1>4 DEF IInv

LEMMA SettleStep ==
  ASSUME IInv, Settle
  PROVE  IInv'
<1>1. CASE Succeed
  BY <1>1, FinishStep DEF IInv, TypeOK, Succeed, SucceedUnless, Canceled
<1>2. CASE Cancel
  BY <1>2, FinishStep DEF IInv, TypeOK, Cancel
<1>3. CASE Fail
  BY <1>3, FinishStep DEF IInv, TypeOK, WantedCurrent, Fail
<1>4. QED
  BY <1>1, <1>2, <1>3 DEF Settle

LEMMA NextIInv == IInv /\ [Next]_vars => IInv'
<1> SUFFICES ASSUME IInv, [Next]_vars PROVE IInv'
  OBVIOUS
<1>1. ASSUME NEW text \in Query, Edit(text) PROVE IInv'
  BY <1>1, EditStep
<1>2. ASSUME NEW v \in validations, Validated(v) PROVE IInv'
  BY <1>2, ValidatedStep
<1>3. CASE UNCHANGED vars
  BY <1>3 DEF vars, results, messages, IInv, TypeOK, WantedCurrent,
     NoticeTruthful, ErrorsCurrent, Stale
<1>4. QED
  BY <1>1, <1>2, <1>3, StartQueryStep, CancelQueryStep, ValidateStep, SettleStep
  DEF Next

-----------------------------------------------------------------------------
(* The theorems                                                            *)

(* The variables of the panel keep their types.                            *)
THEOREM TypeCorrect == Spec => []TypeOK
<1>1. IInv => TypeOK
  BY DEF IInv
<1>2. QED
  BY <1>1, InitIInv, NextIInv, PTL DEF Spec

(* Results that are not those of the text in the editor carry a notice.    *)
THEOREM ResultsLabelled == Spec => []NoticeTruthful
<1>1. IInv => NoticeTruthful
  BY DEF IInv
<1>2. QED
  BY <1>1, InitIInv, NextIInv, PTL DEF Spec

(* No error of another text is displayed.                                  *)
THEOREM NoStaleError == Spec => []ErrorsCurrent
<1>1. IInv => ErrorsCurrent
  BY DEF IInv
<1>2. QED
  BY <1>1, InitIInv, NextIInv, PTL DEF Spec

(* Nothing comes of a query that was canceled.                             *)
THEOREM CanceledForGood == Spec => CanceledStaysCanceled
<1> DEFINE A == run # Null /\ run.aborted =>
                  /\ lastResult' = lastResult
                  /\ run' = Null => outcome' = "canceled" /\ failure' = failure
<1>1. TypeOK /\ [Next]_vars => [A]_vars
  <2> SUFFICES ASSUME TypeOK, Next, run # Null, run.aborted
               PROVE  A
    OBVIOUS
  <2>1. ASSUME NEW text \in Query, Edit(text) PROVE A
    BY <2>1, AbortedRun DEF TypeOK, Edit, ChangeDocument
  <2>2. CASE StartQuery
    BY <2>2 DEF StartQuery
  <2>3. CASE CancelQuery
    BY <2>3, AbortedRun DEF TypeOK, CancelQuery, results
  <2>4. CASE Validate
    BY <2>4 DEF Validate, results
  <2>5. ASSUME NEW v \in validations, Validated(v) PROVE A
    BY <2>5 DEF Validated, ValidatedUnless, results
  <2>6. CASE Settle
    BY <2>6 DEF Settle, Succeed, SucceedUnless, Canceled, Cancel, Fail, Finish
  <2>7. QED
    BY <2>1, <2>2, <2>3, <2>4, <2>5, <2>6 DEF Next
<1>2. QED
  BY <1>1, TypeCorrect, PTL DEF Spec, CanceledStaysCanceled

=============================================================================

--------------------------- MODULE QuestionPanel ---------------------------
(***************************************************************************)
(* The tasks of the investigation in the browser: loadQuestions,           *)
(* submitActiveQuestion and the active task of web/src/app.ts, against a   *)
(* server on which others solve tasks too. Both requests are given up      *)
(* after ten seconds. The server may have processed an answer by then, or  *)
(* do so later, which is then as if somebody else had given it.            *)
(*                                                                         *)
(* The deployment does not change while the page is open. Every solved     *)
(* task comes with its answer, so that its form is hidden. The feedback    *)
(* below the form is left out.                                             *)
(***************************************************************************)
EXTENDS Integers, FiniteSets

CONSTANTS
  Questions, (* the number of questions, which are known by their position  *)
  Text,      (* what can be typed                                           *)
  Correct,   (* the texts the server accepts                                *)
  Empty,     (* nothing typed                                               *)
  Null,      (* no question, no submission                                  *)
  MaxLoads   (* bound: the loads in flight, aborted ones included           *)

Question == 1..Questions

(* A request: what it asks, whether the server has answered, the questions *)
(* that are solved, when it is sent and then as it is answered, and        *)
(* whether it was aborted. A load is outdated when                         *)
(* questionRequestGeneration is not what it was.                           *)
Load == [background : BOOLEAN, answered : BOOLEAN, solved : SUBSET Question,
         aborted : BOOLEAN, outdated : BOOLEAN]

Verdict == {"none", "correct", "wrong", "alreadySolved", "retry"}

Submission == [question : Question, text : Text, verdict : Verdict,
               answered : BOOLEAN, solved : SUBSET Question,
               aborted : BOOLEAN]

ASSUME QuestionPanelAssumption ==
  /\ Questions \in Nat \ {0}
  /\ Correct \subseteq Text
  /\ Empty \notin Text
  /\ Null \notin Int /\ Null \notin Submission
  /\ MaxLoads \in Nat \ {0}

VARIABLES
  solved,     (* the server: the solved questions                           *)
  loads,      (* the requests of loadQuestions                              *)
  submission, (* the request of submitActiveQuestion, Null unless           *)
              (* questionSubmitting                                         *)
  loaded,     (* questionsLoaded                                            *)
  view,       (* challengeState: the questions it says are solved           *)
  active,     (* activeQuestionId                                           *)
  drafts,     (* questionDrafts                                             *)
  cooling,    (* questionCooldowns: the questions whose deadline is ahead   *)
  bar,        (* what #active-task-bar displays                             *)
  list        (* what #question-list displays                               *)

tasks == <<drafts, cooling>>
screen == <<bar, list>>
vars == <<solved, loads, submission, loaded, view, active, tasks, screen>>

NewLoad(background) ==
  [background |-> background, answered |-> FALSE, solved |-> solved,
   aborted |-> FALSE, outdated |-> FALSE]

(* The page has just been opened, at any stage of the challenge, with the  *)
(* drafts of an earlier visit.                                             *)
Init ==
  /\ solved \in SUBSET Question
  /\ loads = {NewLoad(FALSE)}
  /\ submission = Null
  /\ loaded = FALSE
  /\ view = {}
  /\ active = Null
  /\ drafts \in [Question -> Text \cup {Empty}]
  /\ cooling = {}
  /\ bar = "loading" /\ list = "empty"

(* The question a load makes active if none is.                            *)
FirstUnsolved(done) ==
  IF done = Question THEN {1}
  ELSE {q \in Question \ done : \A r \in Question \ done : q <= r}

(* Mutant: the next question is the one behind q.                          *)
NextInList(done, q) == IF done = Question THEN {} ELSE {q + 1}

(* nextUnsolvedQuestionId: the first behind q, then from the front.        *)
NextUnsolved(done, q) ==
  LET open == Question \ (done \cup {q})
  IN  {r \in open : \A s \in open :
                       (r - q) % Questions <= (s - q) % Questions}

-----------------------------------------------------------------------------
(* The server                                                              *)

(* Somebody else solves a question.                                        *)
Teammate(q) ==
  /\ solved' = solved \cup {q}
  /\ UNCHANGED <<loads, submission, loaded, view, active, tasks, screen>>

(* SubmitAnswer, up to the end of its transaction.                         *)
Conclude(verdict, done) ==
  /\ solved' = solved \cup done
  /\ submission' = [submission EXCEPT !.verdict = verdict,
                                      !.solved = @ \cup done]

ServeSubmission ==
  LET q == submission.question IN
  /\ submission # Null
  /\ submission.verdict = "none"
  /\ \/ submission.text \in Correct /\ Conclude("correct", {q})
     \/ submission.text \notin Correct /\ q \in solved
        /\ Conclude("alreadySolved", {q})
     \/ submission.text \notin Correct /\ q \notin solved
        /\ Conclude("wrong", {})
     \/ q \notin solved /\ Conclude("retry", {})
  /\ UNCHANGED <<loads, loaded, view, active, tasks, screen>>

(* ChallengeState reads the questions one at a time: the answer has those  *)
(* that were solved when the request came, and any that are solved since.  *)
Answered(request) ==
  {[request EXCEPT !.answered = TRUE, !.solved = read] :
     read \in {S \in SUBSET solved : request.solved \subseteq S}}

AnswerSubmission ==
  /\ submission # Null /\ ~submission.answered
  /\ submission.verdict \in {"correct", "wrong", "alreadySolved"}
  /\ submission' \in Answered(submission)
  /\ UNCHANGED <<solved, loads, loaded, view, active, tasks, screen>>

ServeLoad(l) ==
  /\ ~l.answered
  /\ \E answer \in Answered(l) : loads' = (loads \ {l}) \cup {answer}
  /\ UNCHANGED <<solved, submission, loaded, view, active, tasks, screen>>

-----------------------------------------------------------------------------
(* Loading                                                                 *)

(* questionRequestGeneration changes and questionController is aborted.    *)
Outdate(S) == {[l EXCEPT !.aborted = TRUE, !.outdated = TRUE] : l \in S}

StartLoad(background) ==
  /\ Cardinality(loads) < MaxLoads
  /\ loads' = Outdate(loads) \cup {NewLoad(background)}
  /\ bar' = IF background THEN bar ELSE "loading"
  /\ UNCHANGED <<solved, submission, loaded, view, active, tasks, list>>

(* The button of either failure message.                                   *)
Retry ==
  /\ submission = Null
  /\ "failure" \in {bar, list}
  /\ StartLoad(FALSE)

(* Every fifteen seconds, unless the answer has the focus.                 *)
Refresh ==
  /\ submission = Null
  /\ loaded
  /\ StartLoad(TRUE)

TimeOutLoad(l) ==
  /\ ~l.aborted
  /\ loads' = (loads \ {l}) \cup {[l EXCEPT !.aborted = TRUE]}
  /\ UNCHANGED <<solved, submission, loaded, view, active, tasks, screen>>

(* The load ends and another took its place.                               *)
DropLoad(l) ==
  /\ l.outdated
  /\ loads' = loads \ {l}
  /\ UNCHANGED <<solved, submission, loaded, view, active, tasks, screen>>

ShowLoadIf(l, wanted) ==
  /\ wanted
  /\ l.answered
  /\ loads' = loads \ {l}
  /\ \/ /\ l.background /\ l.solved = view
        /\ UNCHANGED <<loaded, view, active, screen>>
     \/ /\ ~(l.background /\ l.solved = view)
        /\ view' = l.solved
        /\ loaded' = TRUE
        /\ active' \in IF active = Null THEN FirstUnsolved(view') ELSE {active}
        /\ bar' = "tasks" /\ list' = "tasks"
  /\ UNCHANGED <<solved, submission, tasks>>

(* Mutant: nothing is compared with questionRequestGeneration, and nothing *)
(* aborted.                                                                *)
ShowAnyLoad(l) == ShowLoadIf(l, TRUE)

ShowLoad(l) == ShowLoadIf(l, ~l.outdated /\ ~l.aborted)

(* No answer, no usable one, or one that comes after the timeout.          *)
FailLoadQuietly(l, quiet) ==
  /\ ~l.outdated
  /\ loads' = loads \ {l}
  /\ IF quiet THEN UNCHANGED screen ELSE bar' = "failure" /\ list' = "failure"
  /\ UNCHANGED <<solved, submission, loaded, view, active, tasks>>

(* Mutant: a failure is only reported as long as nothing is displayed.     *)
FailLoadOnce(l) == FailLoadQuietly(l, list # "empty")

FailLoad(l) == FailLoadQuietly(l, l.background /\ loaded)

-----------------------------------------------------------------------------
(* The active task                                                         *)

Select(q) ==
  /\ list = "tasks"
  /\ active' = q
  /\ UNCHANGED <<solved, loads, submission, loaded, view, tasks, screen>>

(* renderActiveTask displays the form, which it disables during a          *)
(* submission.                                                             *)
FormEnabled ==
  bar = "tasks" /\ active # Null /\ active \notin view /\ submission = Null

Type(text) ==
  /\ FormEnabled
  /\ drafts' = [drafts EXCEPT ![active] = text]
  /\ UNCHANGED <<solved, loads, submission, loaded, view, active, cooling,
                 screen>>

CooldownEnds(q) ==
  /\ cooling' = cooling \ {q}
  /\ UNCHANGED <<solved, loads, submission, loaded, view, active, drafts,
                 screen>>

(* submitActiveQuestion up to its request.                                 *)
Submit ==
  /\ FormEnabled
  /\ active \notin cooling
  /\ drafts[active] # Empty
  /\ submission' = [question |-> active, text |-> drafts[active],
                    verdict |-> "none", answered |-> FALSE,
                    solved |-> solved, aborted |-> FALSE]
  /\ loads' = Outdate(loads)
  /\ UNCHANGED <<solved, loaded, view, active, tasks, screen>>

TimeOutSubmission ==
  /\ submission # Null /\ ~submission.aborted
  /\ submission' = [submission EXCEPT !.aborted = TRUE]
  /\ UNCHANGED <<solved, loads, loaded, view, active, tasks, screen>>

(* What both ends of submitActiveQuestion do.                              *)
EndSubmission ==
  /\ submission' = Null
  /\ loads' = {[l EXCEPT !.outdated = TRUE] : l \in loads}
  /\ bar' = "tasks" /\ list' = "tasks"
  /\ UNCHANGED <<solved, loaded>>

(* The answer was right, or the question is solved all the same.           *)
AcceptDroppingDraft(q) ==
  /\ submission # Null /\ submission.answered /\ ~submission.aborted
  /\ submission.verdict \in {"correct", "alreadySolved"}
  /\ view' = submission.solved
  /\ drafts' = [drafts EXCEPT ![q] = Empty]
  /\ \/ /\ submission.verdict = "correct"
        /\ cooling' = cooling \ {submission.question}
        /\ active' \in IF /\ active = submission.question
                          /\ NextUnsolved(view', active) # {}
                         THEN NextUnsolved(view', active) ELSE {active}
     \/ /\ submission.verdict = "alreadySolved"
        /\ UNCHANGED <<cooling, active>>
  /\ EndSubmission

(* Mutant: the draft of the active question is dropped.                    *)
AcceptDroppingActive == AcceptDroppingDraft(active)

Accept == AcceptDroppingDraft(submission.question)

Reject ==
  /\ submission # Null /\ submission.answered /\ ~submission.aborted
  /\ submission.verdict = "wrong"
  /\ view' = submission.solved
  /\ EndSubmission
  /\ UNCHANGED <<active, drafts, cooling>>

(* An error. One that names a cooldown sets it, even after the timeout.    *)
SubmissionFails ==
  /\ submission # Null
  /\ cooling' \in IF submission.verdict = "retry"
                     THEN {cooling, cooling \cup {submission.question}}
                     ELSE {cooling}
  /\ EndSubmission
  /\ UNCHANGED <<view, active, drafts>>

-----------------------------------------------------------------------------

Server ==
  \/ \E q \in Question : Teammate(q)
  \/ ServeSubmission
  \/ AnswerSubmission
  \/ \E l \in loads : ServeLoad(l)

Page ==
  \/ Retry
  \/ Refresh
  \/ \E l \in loads :
       TimeOutLoad(l) \/ DropLoad(l) \/ ShowLoad(l) \/ FailLoad(l)
  \/ \E q \in Question : Select(q) \/ CooldownEnds(q)
  \/ \E text \in Text \cup {Empty} : Type(text)
  \/ Submit
  \/ TimeOutSubmission
  \/ Accept
  \/ Reject
  \/ SubmissionFails

Next == Server \/ Page

Spec == Init /\ [][Next]_vars

-----------------------------------------------------------------------------
(* Properties                                                              *)

TypeOK ==
  /\ solved \subseteq Question
  /\ loads \subseteq Load
  /\ submission \in Submission \cup {Null}
  /\ loaded \in BOOLEAN
  /\ view \subseteq Question
  /\ active \in Question \cup {Null}
  /\ drafts \in [Question -> Text \cup {Empty}]
  /\ cooling \subseteq Question
  /\ bar \in {"loading", "tasks", "failure"}
  /\ list \in {"empty", "tasks", "failure"}

(* A question that was displayed as solved stays so: no answer that was    *)
(* read earlier is displayed after one that was read later.                *)
ViewNeverGoesBack == [][view \subseteq view']_vars

(* What was typed is only dropped for a question that is displayed as      *)
(* solved then, or by typing, whatever question is active when an answer   *)
(* comes and whether or not it comes.                                      *)
DraftsSafe ==
  [][\A q \in Question :
       drafts'[q] # drafts[q] =>
         q \in view' \/ (active = q /\ submission = Null)]_vars

(* The tasks never keep loading without a load that will end it.           *)
LoadingEnds ==
  bar = "loading" => \E l \in loads : ~l.outdated /\ ~l.background

=============================================================================

------------------------- MODULE QuestionPanelProofs -------------------------
(***************************************************************************)
(* For any number of questions, texts and loads in flight: what is         *)
(* displayed never goes back, drafts are safe, and loading ends.           *)
(***************************************************************************)
EXTENDS QuestionPanel, TLAPS

(* One load at most is wanted, none during a submission, and what it       *)
(* brings lies between what is displayed and what the server holds. Once   *)
(* the tasks are displayed only background loads follow.                   *)
LoadsSound ==
  /\ view \subseteq solved
  /\ \A l \in loads :
       /\ l.solved \subseteq solved
       /\ ~l.outdated =>
            /\ view \subseteq l.solved
            /\ submission = Null
            /\ loaded => l.background
  /\ \A k, l \in loads : ~k.outdated /\ ~l.outdated => k = l

(* Likewise for the submission.                                            *)
SubmissionSound ==
  submission # Null =>
    /\ bar = "tasks"
    /\ view \subseteq submission.solved
    /\ submission.solved \subseteq solved
    /\ submission.verdict \in {"correct", "alreadySolved"} =>
         submission.question \in submission.solved

ScreenSound ==
  /\ loaded <=> bar = "tasks"
  /\ loaded => list = "tasks"

IInv ==
  /\ TypeOK
  /\ LoadsSound
  /\ SubmissionSound
  /\ ScreenSound
  /\ LoadingEnds

-----------------------------------------------------------------------------
(* Lemmas                                                                  *)

(* The questions that become active are questions.                         *)
LEMMA UnsolvedTypes ==
  ASSUME NEW done, NEW q
  PROVE  /\ FirstUnsolved(done) \subseteq Question
         /\ NextUnsolved(done, q) \subseteq Question
BY QuestionPanelAssumption DEF FirstUnsolved, NextUnsolved, Question

(* No load is wanted any more after Outdate.                               *)
LEMMA OutdateIs ==
  ASSUME loads \subseteq Load
  PROVE  /\ Outdate(loads) \subseteq Load
         /\ \A l \in Outdate(loads) : l.outdated
         /\ \A l \in Outdate(loads) : \E k \in loads : l.solved = k.solved
BY DEF Outdate, Load

(* Nor is one after the end of a submission.                               *)
LEMMA EndIs ==
  ASSUME EndSubmission, loads \subseteq Load
  PROVE  /\ loads' \subseteq Load
         /\ \A l \in loads' : l.outdated
         /\ \A l \in loads' : \E k \in loads : l.solved = k.solved
BY DEF EndSubmission, Load

(* What the state that is read has in it.                                  *)
LEMMA LoadAnswered ==
  ASSUME NEW l \in Load, NEW answer \in Answered(l), solved \subseteq Question
  PROVE  /\ answer \in Load
         /\ answer.outdated = l.outdated /\ answer.background = l.background
         /\ l.solved \subseteq answer.solved /\ answer.solved \subseteq solved
BY DEF Answered, Load

LEMMA SubmissionAnswered ==
  ASSUME NEW s \in Submission, NEW answer \in Answered(s),
         solved \subseteq Question
  PROVE  /\ answer \in Submission
         /\ answer.question = s.question /\ answer.verdict = s.verdict
         /\ s.solved \subseteq answer.solved /\ answer.solved \subseteq solved
BY DEF Answered, Submission

-----------------------------------------------------------------------------
(* The steps                                                               *)

LEMMA InitIInv == Init => IInv
<1> SUFFICES ASSUME Init PROVE IInv
  OBVIOUS
<1>1. NewLoad(FALSE) \in Load
  BY DEF Init, NewLoad, Load
<1>2. TypeOK
  BY <1>1 DEF Init, TypeOK
<1>3. LoadsSound /\ SubmissionSound /\ ScreenSound /\ LoadingEnds
  BY DEF Init, LoadsSound, SubmissionSound, ScreenSound, LoadingEnds, NewLoad
<1>4. QED
  BY <1>2, <1>3 DEF IInv

LEMMA TeammateStep ==
  ASSUME IInv, NEW q \in Question, Teammate(q)
  PROVE  IInv'
<1>1. TypeOK'
  BY DEF IInv, TypeOK, Load, Submission, Verdict, Teammate, tasks, screen
<1>2. LoadsSound'
  BY DEF IInv, TypeOK, LoadsSound, Load, Teammate, tasks, screen
<1>3. SubmissionSound'
  BY DEF IInv, TypeOK, SubmissionSound, Submission, Verdict, Teammate, tasks,
     screen
<1>4. ScreenSound'
  BY DEF IInv, TypeOK, ScreenSound, Teammate, tasks, screen
<1>5. LoadingEnds'
  BY DEF IInv, TypeOK, LoadingEnds, Load, LoadsSound, SubmissionSound,
     ScreenSound, Teammate, tasks, screen
<1>6. QED
  BY <1>1, <1>2, <1>3, <1>4, <1>5 DEF IInv

LEMMA ServeSubmissionStep ==
  ASSUME IInv, ServeSubmission
  PROVE  IInv'
<1>1. submission # Null /\ submission \in Submission
  BY DEF IInv, TypeOK, ServeSubmission
<1>2. PICK v \in Verdict, done \in SUBSET {submission.question} :
        /\ Conclude(v, done)
        /\ v \in {"correct", "alreadySolved"} => submission.question \in done
  BY DEF ServeSubmission, Verdict
<1>3. /\ submission' \in Submission
      /\ submission'.question = submission.question
      /\ submission'.verdict = v
      /\ submission'.solved = submission.solved \cup done
      /\ solved' = solved \cup done
  BY <1>1, <1>2 DEF Conclude, Submission
<1>4. /\ loads' = loads /\ loaded' = loaded /\ view' = view /\ active' = active
      /\ drafts' = drafts /\ cooling' = cooling /\ bar' = bar /\ list' = list
  BY DEF ServeSubmission, tasks, screen
<1>5. done \subseteq Question
  BY <1>1 DEF Submission
<1>6. TypeOK'
  BY <1>3, <1>4, <1>5 DEF IInv, TypeOK
<1>7. LoadsSound'
  BY <1>1, <1>3, <1>4 DEF IInv, LoadsSound
<1>8. SubmissionSound'
  BY <1>1, <1>2, <1>3, <1>4 DEF IInv, SubmissionSound
<1>9. ScreenSound' /\ LoadingEnds'
  BY <1>4 DEF IInv, ScreenSound, LoadingEnds
<1>10. QED
  BY <1>6, <1>7, <1>8, <1>9 DEF IInv

LEMMA AnswerSubmissionStep ==
  ASSUME IInv, AnswerSubmission
  PROVE  IInv'
<1>1. /\ submission # Null /\ submission \in Submission
      /\ submission' \in Answered(submission)
      /\ solved \subseteq Question
  BY DEF IInv, TypeOK, AnswerSubmission
<1>2. /\ submission' \in Submission
      /\ submission'.question = submission.question
      /\ submission'.verdict = submission.verdict
      /\ submission.solved \subseteq submission'.solved
      /\ submission'.solved \subseteq solved
  BY <1>1, SubmissionAnswered
<1>3. /\ solved' = solved /\ loads' = loads /\ loaded' = loaded /\ view' = view
      /\ active' = active /\ drafts' = drafts /\ cooling' = cooling
      /\ bar' = bar /\ list' = list
  BY DEF AnswerSubmission, tasks, screen
<1>4. TypeOK'
  BY <1>2, <1>3 DEF IInv, TypeOK
<1>5. LoadsSound'
  BY <1>1, <1>3 DEF IInv, LoadsSound
<1>6. SubmissionSound'
  BY <1>1, <1>2, <1>3 DEF IInv, SubmissionSound
<1>7. ScreenSound' /\ LoadingEnds'
  BY <1>3 DEF IInv, ScreenSound, LoadingEnds
<1>8. QED
  BY <1>4, <1>5, <1>6, <1>7 DEF IInv

LEMMA ServeLoadStep ==
  ASSUME IInv, NEW l \in loads, ServeLoad(l)
  PROVE  IInv'
<1>1. PICK answer \in Answered(l) : loads' = (loads \ {l}) \cup {answer}
  BY DEF ServeLoad
<1>2. /\ answer \in Load
      /\ answer.outdated = l.outdated /\ answer.background = l.background
      /\ l.solved \subseteq answer.solved /\ answer.solved \subseteq solved
  BY <1>1, LoadAnswered DEF IInv, TypeOK
<1>3. /\ solved' = solved /\ submission' = submission /\ loaded' = loaded
      /\ view' = view /\ active' = active /\ drafts' = drafts
      /\ cooling' = cooling /\ bar' = bar /\ list' = list
  BY DEF ServeLoad, tasks, screen
<1>4. TypeOK'
  BY <1>1, <1>2, <1>3 DEF IInv, TypeOK
<1>5. LoadsSound'
  BY <1>1, <1>2, <1>3 DEF IInv, LoadsSound
<1>6. SubmissionSound' /\ ScreenSound'
  BY <1>3 DEF IInv, SubmissionSound, ScreenSound
<1>7. LoadingEnds'
  BY <1>1, <1>2, <1>3 DEF IInv, LoadingEnds
<1>8. QED
  BY <1>4, <1>5, <1>6, <1>7 DEF IInv

LEMMA RetryStep ==
  ASSUME IInv, Retry
  PROVE  IInv'
<1>1. Outdate(loads) \subseteq Load /\ NewLoad(FALSE) \in Load
  BY OutdateIs DEF IInv, TypeOK, NewLoad, Load
<1>2. \A l \in Outdate(loads) : l.outdated /\ l.solved \subseteq solved
  BY OutdateIs DEF IInv, TypeOK, LoadsSound
<1>3. TypeOK'
  BY <1>1 DEF IInv, TypeOK, Retry, StartLoad, tasks
<1>4. LoadsSound'
  <2>1. /\ submission' = Null /\ view' = view /\ solved' = solved
        /\ loaded' = loaded /\ loads' = Outdate(loads) \cup {NewLoad(FALSE)}
    BY DEF Retry, StartLoad
  <2>2. loaded => NewLoad(FALSE).background
    BY DEF IInv, ScreenSound, Retry, NewLoad
  <2>3. NewLoad(FALSE).solved = solved
    BY DEF NewLoad
  <2>4. QED
    BY <1>2, <2>1, <2>2, <2>3 DEF IInv, LoadsSound
<1>5. SubmissionSound'
  BY DEF SubmissionSound, Retry, StartLoad
<1>6. ScreenSound'
  BY DEF IInv, ScreenSound, Retry, StartLoad
<1>7. LoadingEnds'
  <2>1. NewLoad(FALSE) \in loads'
    BY DEF Retry, StartLoad
  <2>2. ~NewLoad(FALSE).outdated /\ ~NewLoad(FALSE).background
    BY DEF NewLoad
  <2>3. QED
    BY <2>1, <2>2 DEF LoadingEnds
<1>8. QED
  BY <1>3, <1>4, <1>5, <1>6, <1>7 DEF IInv

LEMMA RefreshStep ==
  ASSUME IInv, Refresh
  PROVE  IInv'
<1>1. Outdate(loads) \subseteq Load /\ NewLoad(TRUE) \in Load
  BY OutdateIs DEF IInv, TypeOK, NewLoad, Load
<1>2. \A l \in Outdate(loads) : l.outdated /\ l.solved \subseteq solved
  BY OutdateIs DEF IInv, TypeOK, LoadsSound
<1>3. TypeOK'
  BY <1>1 DEF IInv, TypeOK, Refresh, StartLoad, tasks
<1>4. LoadsSound'
  <2>1. /\ submission' = Null /\ view' = view /\ solved' = solved
        /\ loaded' = loaded /\ loads' = Outdate(loads) \cup {NewLoad(TRUE)}
    BY DEF Refresh, StartLoad
  <2>2. loaded => NewLoad(TRUE).background
    BY DEF IInv, ScreenSound, Refresh, NewLoad
  <2>3. NewLoad(TRUE).solved = solved
    BY DEF NewLoad
  <2>4. QED
    BY <1>2, <2>1, <2>2, <2>3 DEF IInv, LoadsSound
<1>5. SubmissionSound'
  BY DEF SubmissionSound, Refresh, StartLoad
<1>6. ScreenSound'
  BY DEF IInv, ScreenSound, Refresh, StartLoad
<1>7. LoadingEnds'
  BY DEF IInv, LoadingEnds, ScreenSound, Refresh, StartLoad, NewLoad
<1>8. QED
  BY <1>3, <1>4, <1>5, <1>6, <1>7 DEF IInv

LEMMA TimeOutLoadStep ==
  ASSUME IInv, NEW l \in loads, TimeOutLoad(l)
  PROVE  IInv'
<1>1. TypeOK'
  BY DEF IInv, TypeOK, Load, Submission, Verdict, TimeOutLoad, tasks, screen
<1>2. LoadsSound'
  BY DEF IInv, TypeOK, LoadsSound, Load, TimeOutLoad, tasks, screen
<1>3. SubmissionSound'
  BY DEF IInv, TypeOK, SubmissionSound, Submission, Verdict, TimeOutLoad,
     tasks, screen
<1>4. ScreenSound'
  BY DEF IInv, TypeOK, ScreenSound, TimeOutLoad, tasks, screen
<1>5. LoadingEnds'
  <2>1. SUFFICES ASSUME bar = "loading"
                 PROVE  \E k \in loads' : ~k.outdated /\ ~k.background
    BY DEF LoadingEnds, TimeOutLoad, screen
  <2>2. PICK k \in loads : ~k.outdated /\ ~k.background
    BY <2>1 DEF IInv, LoadingEnds
  <2>3. CASE k = l
    <3> DEFINE new == [l EXCEPT !.aborted = TRUE]
    <3>1. new \in loads' /\ ~new.outdated /\ ~new.background
      BY <2>2, <2>3 DEF IInv, TypeOK, Load, TimeOutLoad
    <3>2. QED
      BY <3>1
  <2>4. CASE k # l
    BY <2>2, <2>4 DEF TimeOutLoad
  <2>5. QED
    BY <2>3, <2>4
<1>6. QED
  BY <1>1, <1>2, <1>3, <1>4, <1>5 DEF IInv

LEMMA DropLoadStep ==
  ASSUME IInv, NEW l \in loads, DropLoad(l)
  PROVE  IInv'
<1>1. TypeOK'
  BY DEF IInv, TypeOK, Load, Submission, Verdict, DropLoad, tasks, screen
<1>2. LoadsSound'
  BY DEF IInv, TypeOK, LoadsSound, Load, DropLoad, tasks, screen
<1>3. SubmissionSound'
  BY DEF IInv, TypeOK, SubmissionSound, Submission, Verdict, DropLoad, tasks,
     screen
<1>4. ScreenSound'
  BY DEF IInv, TypeOK, ScreenSound, DropLoad, tasks, screen
<1>5. LoadingEnds'
  BY DEF IInv, TypeOK, LoadingEnds, Load, LoadsSound, SubmissionSound,
     ScreenSound, DropLoad, tasks, screen
<1>6. QED
  BY <1>1, <1>2, <1>3, <1>4, <1>5 DEF IInv

LEMMA ShowLoadStep ==
  ASSUME IInv, NEW l \in loads, ShowLoad(l)
  PROVE  IInv'
<1>1. TypeOK'
  BY UnsolvedTypes DEF IInv, TypeOK, Load, ShowLoad, ShowLoadIf, tasks, screen
<1>2. LoadsSound'
  BY DEF IInv, TypeOK, LoadsSound, Load, ShowLoad, ShowLoadIf, tasks, screen
<1>3. SubmissionSound'
  BY DEF IInv, LoadsSound, SubmissionSound, ShowLoad, ShowLoadIf
<1>4. ScreenSound'
  BY DEF IInv, TypeOK, ScreenSound, ShowLoad, ShowLoadIf, tasks, screen
<1>5. LoadingEnds'
  BY DEF IInv, TypeOK, LoadingEnds, Load, LoadsSound, SubmissionSound,
     ScreenSound, ShowLoad, ShowLoadIf, tasks, screen
<1>6. QED
  BY <1>1, <1>2, <1>3, <1>4, <1>5 DEF IInv

LEMMA FailLoadStep ==
  ASSUME IInv, NEW l \in loads, FailLoad(l)
  PROVE  IInv'
<1>1. TypeOK'
  BY DEF IInv, TypeOK, Load, Submission, Verdict, FailLoad, FailLoadQuietly,
     tasks, screen
<1>2. LoadsSound'
  BY DEF IInv, TypeOK, LoadsSound, Load, FailLoad, FailLoadQuietly, tasks,
     screen
<1>3. SubmissionSound'
  BY DEF IInv, LoadsSound, SubmissionSound, FailLoad, FailLoadQuietly
<1>4. ScreenSound'
  BY DEF IInv, LoadsSound, ScreenSound, FailLoad, FailLoadQuietly, screen
<1>5. LoadingEnds'
  BY DEF IInv, TypeOK, LoadingEnds, Load, LoadsSound, SubmissionSound,
     ScreenSound, FailLoad, FailLoadQuietly, tasks, screen
<1>6. QED
  BY <1>1, <1>2, <1>3, <1>4, <1>5 DEF IInv

LEMMA SelectStep ==
  ASSUME IInv, NEW q \in Question, Select(q)
  PROVE  IInv'
<1>1. TypeOK'
  BY DEF IInv, TypeOK, Load, Submission, Verdict, Select, tasks, screen
<1>2. LoadsSound'
  BY DEF IInv, TypeOK, LoadsSound, Load, Select, tasks, screen
<1>3. SubmissionSound'
  BY DEF IInv, TypeOK, SubmissionSound, Submission, Verdict, Select, tasks,
     screen
<1>4. ScreenSound'
  BY DEF IInv, TypeOK, ScreenSound, Select, tasks, screen
<1>5. LoadingEnds'
  BY DEF IInv, TypeOK, LoadingEnds, Load, LoadsSound, SubmissionSound,
     ScreenSound, Select, tasks, screen
<1>6. QED
  BY <1>1, <1>2, <1>3, <1>4, <1>5 DEF IInv

LEMMA CooldownEndsStep ==
  ASSUME IInv, NEW q \in Question, CooldownEnds(q)
  PROVE  IInv'
<1>1. TypeOK'
  BY DEF IInv, TypeOK, Load, Submission, Verdict, CooldownEnds, tasks, screen
<1>2. LoadsSound'
  BY DEF IInv, TypeOK, LoadsSound, Load, CooldownEnds, tasks, screen
<1>3. SubmissionSound'
  BY DEF IInv, TypeOK, SubmissionSound, Submission, Verdict, CooldownEnds,
     tasks, screen
<1>4. ScreenSound'
  BY DEF IInv, TypeOK, ScreenSound, CooldownEnds, tasks, screen
<1>5. LoadingEnds'
  BY DEF IInv, TypeOK, LoadingEnds, Load, LoadsSound, SubmissionSound,
     ScreenSound, CooldownEnds, tasks, screen
<1>6. QED
  BY <1>1, <1>2, <1>3, <1>4, <1>5 DEF IInv

LEMMA TypeStep ==
  ASSUME IInv, NEW text \in Text \cup {Empty}, Type(text)
  PROVE  IInv'
<1>1. TypeOK'
  BY DEF IInv, TypeOK, Load, Submission, Verdict, Type, FormEnabled, tasks,
     screen
<1>2. LoadsSound'
  BY DEF IInv, TypeOK, LoadsSound, Load, Type, FormEnabled, tasks, screen
<1>3. SubmissionSound'
  BY DEF IInv, TypeOK, SubmissionSound, Submission, Verdict, Type, FormEnabled,
     tasks, screen
<1>4. ScreenSound'
  BY DEF IInv, TypeOK, ScreenSound, Type, FormEnabled, tasks, screen
<1>5. LoadingEnds'
  BY DEF IInv, TypeOK, LoadingEnds, Load, LoadsSound, SubmissionSound,
     ScreenSound, Type, FormEnabled, tasks, screen
<1>6. QED
  BY <1>1, <1>2, <1>3, <1>4, <1>5 DEF IInv

LEMMA SubmitStep ==
  ASSUME IInv, Submit
  PROVE  IInv'
<1>1. Outdate(loads) \subseteq Load
  BY OutdateIs DEF IInv, TypeOK
<1>2. \A l \in Outdate(loads) : l.outdated /\ l.solved \subseteq solved
  BY OutdateIs DEF IInv, TypeOK, LoadsSound
<1>3. TypeOK'
  BY <1>1, <1>2 DEF IInv, TypeOK, Load, Submission, Verdict, Submit,
     FormEnabled, tasks, screen
<1>4. LoadsSound'
  BY <1>1, <1>2 DEF IInv, TypeOK, LoadsSound, Load, Submit, FormEnabled, tasks,
     screen
<1>5. SubmissionSound'
  <2>1. /\ bar' = "tasks" /\ view' = view /\ solved' = solved
        /\ view \subseteq solved
    BY DEF IInv, LoadsSound, Submit, FormEnabled, screen
  <2>2. submission'.solved = solved /\ submission'.verdict = "none"
    BY DEF Submit
  <2>3. QED
    BY <2>1, <2>2 DEF SubmissionSound
<1>6. ScreenSound'
  BY <1>1, <1>2 DEF IInv, TypeOK, ScreenSound, Submit, FormEnabled, tasks,
     screen
<1>7. LoadingEnds'
  BY <1>1, <1>2 DEF IInv, TypeOK, LoadingEnds, Load, LoadsSound,
     SubmissionSound, ScreenSound, Submit, FormEnabled, tasks, screen
<1>8. QED
  BY <1>3, <1>4, <1>5, <1>6, <1>7 DEF IInv

LEMMA TimeOutSubmissionStep ==
  ASSUME IInv, TimeOutSubmission
  PROVE  IInv'
<1>1. TypeOK'
  BY DEF IInv, TypeOK, Load, Submission, Verdict, TimeOutSubmission, tasks,
     screen
<1>2. LoadsSound'
  BY DEF IInv, TypeOK, LoadsSound, Load, TimeOutSubmission, tasks, screen
<1>3. SubmissionSound'
  BY DEF IInv, TypeOK, SubmissionSound, Submission, Verdict, TimeOutSubmission,
     tasks, screen
<1>4. ScreenSound'
  BY DEF IInv, TypeOK, ScreenSound, TimeOutSubmission, tasks, screen
<1>5. LoadingEnds'
  BY DEF IInv, TypeOK, LoadingEnds, Load, LoadsSound, SubmissionSound,
     ScreenSound, TimeOutSubmission, tasks, screen
<1>6. QED
  BY <1>1, <1>2, <1>3, <1>4, <1>5 DEF IInv

LEMMA AcceptStep ==
  ASSUME IInv, Accept
  PROVE  IInv'
<1>1. loads' \subseteq Load /\ \A l \in loads' : l.outdated
  BY EndIs DEF IInv, TypeOK, Accept, AcceptDroppingDraft
<1>2. \A l \in loads' : l.solved \subseteq solved
  BY EndIs DEF IInv, TypeOK, LoadsSound, Accept, AcceptDroppingDraft
<1>3. TypeOK'
  BY <1>1, UnsolvedTypes DEF IInv, TypeOK, Submission, Accept,
     AcceptDroppingDraft, EndSubmission
<1>4. LoadsSound'
  BY <1>1, <1>2 DEF IInv, LoadsSound, SubmissionSound, Accept,
     AcceptDroppingDraft, EndSubmission
<1>5. SubmissionSound'
  BY DEF SubmissionSound, Accept, AcceptDroppingDraft, EndSubmission
<1>6. ScreenSound'
  BY DEF IInv, ScreenSound, SubmissionSound, Accept, AcceptDroppingDraft,
     EndSubmission
<1>7. LoadingEnds'
  BY DEF LoadingEnds, Accept, AcceptDroppingDraft, EndSubmission
<1>8. QED
  BY <1>3, <1>4, <1>5, <1>6, <1>7 DEF IInv

LEMMA RejectStep ==
  ASSUME IInv, Reject
  PROVE  IInv'
<1>1. loads' \subseteq Load /\ \A l \in loads' : l.outdated
  BY EndIs DEF IInv, TypeOK, Reject
<1>2. \A l \in loads' : l.solved \subseteq solved
  BY EndIs DEF IInv, TypeOK, LoadsSound, Reject
<1>3. TypeOK'
  BY <1>1 DEF IInv, TypeOK, Submission, Reject, EndSubmission
<1>4. LoadsSound'
  BY <1>1, <1>2 DEF IInv, LoadsSound, SubmissionSound, Reject, EndSubmission
<1>5. SubmissionSound'
  BY DEF SubmissionSound, Reject, EndSubmission
<1>6. ScreenSound'
  BY DEF IInv, ScreenSound, SubmissionSound, Reject, EndSubmission
<1>7. LoadingEnds'
  BY DEF LoadingEnds, Reject, EndSubmission
<1>8. QED
  BY <1>3, <1>4, <1>5, <1>6, <1>7 DEF IInv

LEMMA SubmissionFailsStep ==
  ASSUME IInv, SubmissionFails
  PROVE  IInv'
<1>1. loads' \subseteq Load /\ \A l \in loads' : l.outdated
  BY EndIs DEF IInv, TypeOK, SubmissionFails
<1>2. \A l \in loads' : l.solved \subseteq solved
  BY EndIs DEF IInv, TypeOK, LoadsSound, SubmissionFails
<1>3. TypeOK'
  BY <1>1 DEF IInv, TypeOK, Submission, SubmissionFails, EndSubmission
<1>4. LoadsSound'
  BY <1>1, <1>2 DEF IInv, LoadsSound, SubmissionSound, SubmissionFails,
     EndSubmission
<1>5. SubmissionSound'
  BY DEF SubmissionSound, SubmissionFails, EndSubmission
<1>6. ScreenSound'
  BY DEF IInv, ScreenSound, SubmissionSound, SubmissionFails, EndSubmission
<1>7. LoadingEnds'
  BY DEF LoadingEnds, SubmissionFails, EndSubmission
<1>8. QED
  BY <1>3, <1>4, <1>5, <1>6, <1>7 DEF IInv

LEMMA NextIInv == IInv /\ [Next]_vars => IInv'
<1> SUFFICES ASSUME IInv, [Next]_vars PROVE IInv'
  OBVIOUS
<1>1. ASSUME NEW q \in Question, Teammate(q) PROVE IInv'
  BY <1>1, TeammateStep
<1>2. ASSUME NEW l \in loads, ServeLoad(l) PROVE IInv'
  BY <1>2, ServeLoadStep
<1>3. ASSUME NEW l \in loads, TimeOutLoad(l) PROVE IInv'
  BY <1>3, TimeOutLoadStep
<1>4. ASSUME NEW l \in loads, DropLoad(l) PROVE IInv'
  BY <1>4, DropLoadStep
<1>5. ASSUME NEW l \in loads, ShowLoad(l) PROVE IInv'
  BY <1>5, ShowLoadStep
<1>6. ASSUME NEW l \in loads, FailLoad(l) PROVE IInv'
  BY <1>6, FailLoadStep
<1>7. ASSUME NEW q \in Question, Select(q) PROVE IInv'
  BY <1>7, SelectStep
<1>8. ASSUME NEW q \in Question, CooldownEnds(q) PROVE IInv'
  BY <1>8, CooldownEndsStep
<1>9. ASSUME NEW text \in Text \cup {Empty}, Type(text) PROVE IInv'
  BY <1>9, TypeStep
<1>10. CASE UNCHANGED vars
  BY <1>10 DEF vars, tasks, screen, IInv, TypeOK, LoadsSound, SubmissionSound,
     ScreenSound, LoadingEnds
<1>11. QED
  BY <1>1, ServeSubmissionStep, <1>2, RetryStep, RefreshStep, <1>3, <1>4, <1>5,
     <1>6, <1>7, <1>8, <1>9, AnswerSubmissionStep, SubmitStep,
     TimeOutSubmissionStep, AcceptStep,
     RejectStep, SubmissionFailsStep, <1>10 DEF Next, Server, Page

-----------------------------------------------------------------------------
(* The theorems                                                            *)

THEOREM PanelInductive == Spec => []IInv
BY InitIInv, NextIInv, PTL DEF Spec

(* The variables of the panel keep their types.                            *)
THEOREM TypeCorrect == Spec => []TypeOK
<1>1. IInv => TypeOK
  BY DEF IInv
<1>2. QED
  BY <1>1, PanelInductive, PTL

(* As long as tasks are loading, a load is on its way that ends this.      *)
THEOREM NeverStuckLoading == Spec => []LoadingEnds
<1>1. IInv => LoadingEnds
  BY DEF IInv
<1>2. QED
  BY <1>1, PanelInductive, PTL

(* What was displayed as solved stays so.                                  *)
THEOREM NothingUnsolved == Spec => ViewNeverGoesBack
<1> DEFINE A == view \subseteq view'
<1>1. IInv /\ [Next]_vars => [A]_vars
  <2> SUFFICES ASSUME IInv, Next PROVE A
    OBVIOUS
  <2>1. ASSUME NEW q \in Question, Teammate(q) PROVE A
    BY <2>1 DEF Teammate, tasks, screen
  <2>2. CASE ServeSubmission
    BY <2>2 DEF ServeSubmission, tasks, screen
  <2>3. ASSUME NEW l \in loads, ServeLoad(l) PROVE A
    BY <2>3 DEF ServeLoad, tasks, screen
  <2>4. CASE Retry
    BY <2>4 DEF Retry, StartLoad, tasks, screen
  <2>5. CASE Refresh
    BY <2>5 DEF Refresh, StartLoad, tasks, screen
  <2>6. ASSUME NEW l \in loads, TimeOutLoad(l) PROVE A
    BY <2>6 DEF TimeOutLoad, tasks, screen
  <2>7. ASSUME NEW l \in loads, DropLoad(l) PROVE A
    BY <2>7 DEF DropLoad, tasks, screen
  <2>8. ASSUME NEW l \in loads, ShowLoad(l) PROVE A
    BY <2>8 DEF IInv, LoadsSound, ShowLoad, ShowLoadIf
  <2>9. ASSUME NEW l \in loads, FailLoad(l) PROVE A
    BY <2>9 DEF FailLoad, FailLoadQuietly, tasks, screen
  <2>10. ASSUME NEW q \in Question, Select(q) PROVE A
    BY <2>10 DEF Select, tasks, screen
  <2>11. ASSUME NEW q \in Question, CooldownEnds(q) PROVE A
    BY <2>11 DEF CooldownEnds, tasks, screen
  <2>12. ASSUME NEW text \in Text \cup {Empty}, Type(text) PROVE A
    BY <2>12 DEF Type, FormEnabled, tasks, screen
  <2>13. CASE Submit
    BY <2>13 DEF Submit, FormEnabled, tasks, screen
  <2>14. CASE TimeOutSubmission
    BY <2>14 DEF TimeOutSubmission, tasks, screen
  <2>15. CASE Accept
    BY <2>15 DEF IInv, SubmissionSound, Accept, AcceptDroppingDraft,
       EndSubmission
  <2>16. CASE Reject
    BY <2>16 DEF IInv, SubmissionSound, Reject, EndSubmission
  <2>17. CASE SubmissionFails
    BY <2>17 DEF SubmissionFails, EndSubmission, tasks, screen
  <2>18. CASE AnswerSubmission
    BY <2>18 DEF AnswerSubmission, tasks, screen
  <2>19. QED
    BY <2>1, <2>2, <2>3, <2>4, <2>5, <2>6, <2>7, <2>8, <2>9, <2>10, <2>11,
       <2>12, <2>13, <2>14, <2>15, <2>16, <2>17, <2>18 DEF Next, Server, Page
<1>2. QED
  BY <1>1, PanelInductive, PTL DEF Spec, ViewNeverGoesBack

(* No answer, late or wrong, costs what was typed.                         *)
THEOREM DraftsKept == Spec => DraftsSafe
<1> DEFINE A == \A q \in Question :
                  drafts'[q] # drafts[q] =>
                    q \in view' \/ (active = q /\ submission = Null)
<1>1. IInv /\ [Next]_vars => [A]_vars
  <2> SUFFICES ASSUME IInv, Next PROVE A
    OBVIOUS
  <2>1. ASSUME NEW q \in Question, Teammate(q) PROVE A
    BY <2>1 DEF Teammate, tasks, screen
  <2>2. CASE ServeSubmission
    BY <2>2 DEF ServeSubmission, tasks, screen
  <2>3. ASSUME NEW l \in loads, ServeLoad(l) PROVE A
    BY <2>3 DEF ServeLoad, tasks, screen
  <2>4. CASE Retry
    BY <2>4 DEF Retry, StartLoad, tasks, screen
  <2>5. CASE Refresh
    BY <2>5 DEF Refresh, StartLoad, tasks, screen
  <2>6. ASSUME NEW l \in loads, TimeOutLoad(l) PROVE A
    BY <2>6 DEF TimeOutLoad, tasks, screen
  <2>7. ASSUME NEW l \in loads, DropLoad(l) PROVE A
    BY <2>7 DEF DropLoad, tasks, screen
  <2>8. ASSUME NEW l \in loads, ShowLoad(l) PROVE A
    BY <2>8 DEF ShowLoad, ShowLoadIf, tasks, screen
  <2>9. ASSUME NEW l \in loads, FailLoad(l) PROVE A
    BY <2>9 DEF FailLoad, FailLoadQuietly, tasks, screen
  <2>10. ASSUME NEW q \in Question, Select(q) PROVE A
    BY <2>10 DEF Select, tasks, screen
  <2>11. ASSUME NEW q \in Question, CooldownEnds(q) PROVE A
    BY <2>11 DEF CooldownEnds, tasks, screen
  <2>12. ASSUME NEW text \in Text \cup {Empty}, Type(text) PROVE A
    BY <2>12 DEF IInv, TypeOK, Type, FormEnabled
  <2>13. CASE Submit
    BY <2>13 DEF Submit, FormEnabled, tasks, screen
  <2>14. CASE TimeOutSubmission
    BY <2>14 DEF TimeOutSubmission, tasks, screen
  <2>15. CASE Accept
    BY <2>15 DEF IInv, TypeOK, SubmissionSound, Accept, AcceptDroppingDraft,
       EndSubmission
  <2>16. CASE Reject
    BY <2>16 DEF Reject, EndSubmission, tasks, screen
  <2>17. CASE SubmissionFails
    BY <2>17 DEF SubmissionFails, EndSubmission, tasks, screen
  <2>18. CASE AnswerSubmission
    BY <2>18 DEF AnswerSubmission, tasks, screen
  <2>19. QED
    BY <2>1, <2>2, <2>3, <2>4, <2>5, <2>6, <2>7, <2>8, <2>9, <2>10, <2>11,
       <2>12, <2>13, <2>14, <2>15, <2>16, <2>17, <2>18 DEF Next, Server, Page
<1>2. QED
  BY <1>1, PanelInductive, PTL DEF Spec, DraftsSafe

=============================================================================

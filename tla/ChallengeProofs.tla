--------------------------- MODULE ChallengeProofs ---------------------------
(***************************************************************************)
(* For every set of questions, manifests, requests and cooldowns: the      *)
(* cooldown holds against concurrent guesses, what is solved stays solved, *)
(* and the flag is disclosed only to who earned it.                        *)
(***************************************************************************)
EXTENDS Challenge, WellFoundedInduction, TLAPS

Submitting == {"submitted", "counting", "counted", "storing", "stored"}

(* Requests are only in flight while the process serves, and the handlers  *)
(* of SubmitAnswer work on a question of the definition.                   *)
HandlersServe ==
  \A r \in Request :
    /\ stage[r] # "idle" => phase = "ready"
    /\ stage[r] # "reporting" => pending[r] = {} /\ found[r] = {}
    /\ pending[r] \subseteq Listed(challenge)
    /\ stage[r] \in Submitting =>
         /\ guess[r] \in Guess
         /\ guess[r].question \in Listed(challenge)

(* From the commit of ConfigureChallenge on, the rows are those of the     *)
(* manifest, and from Publish on so is the definition in memory.           *)
RowsConfigured ==
  /\ phase # "loading" =>
       \A q \in Question :
         IF manifest[q] > 0
           THEN progress[q] \in Row /\ progress[q].revision = manifest[q]
           ELSE progress[q] = Null
  /\ phase \in {"published", "ready"} => challenge = manifest

OneWriter ==
  \A r, x \in Request : stage[r] \in Writing /\ stage[x] \in Writing => r = x

(* The row a transaction has read and not been overtaken on, or has        *)
(* updated, is the row in the database.                                    *)
Current(r) ==
  LET row == progress[guess[r].question] IN
  /\ stage[r] = "counted" \/ (stage[r] = "counting" /\ r \notin stale)
       => row.solved = Null /\ ~Cooling(row, guess[r].at)
  /\ stage[r] = "stored" \/ (stage[r] = "storing" /\ r \notin stale)
       => row.solved # Null /\ row.answer = Null
  /\ stage[r] \in {"storing", "stored"} => guess[r].answer \in Accepted

SnapshotsCurrent == \A r \in Request : Current(r)

(* A row is solved by a correct answer at its revision, and what           *)
(* ChallengeState found solved still is.                                   *)
SolvedEarned ==
  /\ \A q \in Question :
       progress[q] # Null /\ progress[q].solved # Null
         => <<q, progress[q].revision>> \in earned
  /\ \A r \in Request : \A q \in found[r] :
       progress[q] # Null /\ progress[q].solved # Null

IInv == /\ TypeOK
        /\ HandlersServe
        /\ RowsConfigured
        /\ OneWriter
        /\ SnapshotsCurrent
        /\ SolvedEarned

-----------------------------------------------------------------------------
(* Rows                                                                    *)

(* The rows ConfigureChallenge writes and finds.                           *)
LEMMA EmptyRow ==
  ASSUME NEW v \in Nat
  PROVE  /\ Empty(v) \in Row /\ Empty(v) # Null
         /\ Empty(v).revision = v /\ Empty(v).solved = Null
BY NullAssumption DEF Empty, Row

LEMMA LegacyRow ==
  ASSUME NEW v \in Nat
  PROVE  Legacy(v) \in Row /\ Legacy(v) # Null /\ Legacy(v).revision = v
BY NullAssumption DEF Legacy, Row

(* Counting an attempt on an open row leaves a row of the same revision.   *)
LEMMA CountedRow ==
  ASSUME NEW row \in Row, NEW g \in Guess
  PROVE  /\ Counted(row, g) \in Row
         /\ Counted(row, g).revision = row.revision
         /\ Counted(row, g).attempts = row.attempts + 1
         /\ Counted(row, g).last = g.at
         /\ Counted(row, g).solved = IF g.answer \in Accepted THEN g.at
                                                              ELSE row.solved
         /\ Counted(row, g).answer = IF g.answer \in Accepted THEN g.answer
                                                              ELSE row.answer
BY DEF Row, Guess, Counted

LEMMA AnsweredRow ==
  ASSUME NEW row \in Row, NEW g \in Guess, g.answer \in Accepted
  PROVE  /\ Answered(row, g) \in Row
         /\ Answered(row, g).revision = row.revision
         /\ Answered(row, g).attempts = row.attempts
         /\ Answered(row, g).last = row.last
         /\ Answered(row, g).solved = row.solved
         /\ Answered(row, g).answer = g.answer
BY DEF Row, Guess, Answered

-----------------------------------------------------------------------------
(* The steps                                                               *)

LEMMA InitIInv == Init => IInv
<1> SUFFICES ASSUME Init PROVE IInv
  OBVIOUS
<1>1. progress \in [Question -> Row \cup {Null}]
  BY LegacyRow, ManifestsAssumption DEF Init
<1>2. TypeOK
  BY <1>1, ManifestsAssumption DEF Init, TypeOK, Stage, Nothing
<1>3. SolvedEarned
  <2>1. ASSUME NEW q \in Question, progress[q] # Null
        PROVE  /\ progress[q].revision = manifest[q]
               /\ <<q, manifest[q]>> \in earned
    BY <2>1, LegacyRow, ManifestsAssumption DEF Init
  <2> QED
    BY <2>1 DEF Init, SolvedEarned
<1>4. HandlersServe /\ RowsConfigured /\ OneWriter /\ SnapshotsCurrent
  BY DEF Init, HandlersServe, RowsConfigured, OneWriter, SnapshotsCurrent,
         Current, Submitting, Writing
<1> QED
  BY <1>2, <1>3, <1>4 DEF IInv

LEMMA ConfigureIInv ==
  ASSUME IInv, ConfigureChallenge
  PROVE  IInv'
<1>1. ASSUME NEW q \in Question
      PROVE  IF manifest[q] > 0
               THEN /\ ConfiguredRow(q) \in Row
                    /\ ConfiguredRow(q).revision = manifest[q]
                    /\ ConfiguredRow(q).solved # Null =>
                         ConfiguredRow(q) = progress[q] /\ progress[q] # Null
               ELSE ConfiguredRow(q) = Null
  BY EmptyRow, ManifestsAssumption DEF IInv, TypeOK, ConfiguredRow
<1>2. \A q \in Question : progress'[q] = ConfiguredRow(q)
  BY DEF ConfigureChallenge
<1>3. \A r \in Request :
        stage'[r] = "idle" /\ pending'[r] = {} /\ found'[r] = {}
  BY DEF IInv, TypeOK, Stage, HandlersServe, ConfigureChallenge, report
<1>4. TypeOK'
  BY <1>1, ManifestsAssumption
  DEF IInv, TypeOK, Stage, Nothing, ConfigureChallenge, store, boot, report
<1>5. HandlersServe'
  BY <1>3 DEF HandlersServe, Submitting
<1>6. RowsConfigured'
  BY <1>1, <1>2 DEF RowsConfigured, ConfigureChallenge
<1>7. OneWriter' /\ SnapshotsCurrent'
  BY <1>3 DEF OneWriter, Writing, SnapshotsCurrent, Current
<1>8. SolvedEarned'
  <2>1. ASSUME NEW q \in Question,
               progress'[q] # Null, progress'[q].solved # Null
        PROVE  <<q, progress'[q].revision>> \in earned'
    BY <1>1, <1>2, <2>1, ManifestsAssumption
    DEF IInv, TypeOK, SolvedEarned, ConfigureChallenge, store
  <2> QED
    BY <1>3, <2>1 DEF SolvedEarned
<1> QED
  BY <1>4, <1>5, <1>6, <1>7, <1>8 DEF IInv

LEMMA PublishIInv ==
  ASSUME IInv, Publish
  PROVE  IInv'
<1>1. TypeOK'
  BY DEF IInv, TypeOK, Stage, Publish, store, boot, report
<1>2. HandlersServe'
  BY DEF IInv, TypeOK, HandlersServe, Submitting, Publish, store, boot, report
<1>3. RowsConfigured'
  BY DEF IInv, TypeOK, RowsConfigured, Publish, store, boot, report
<1>4. OneWriter'
  BY DEF IInv, TypeOK, OneWriter, Writing, Publish, store, boot, report
<1>5. SnapshotsCurrent'
  BY DEF IInv, TypeOK, SnapshotsCurrent, Current, Cooling, Limited, Remaining,
         Publish, store, boot, report
<1>6. SolvedEarned'
  BY DEF IInv, TypeOK, SolvedEarned, Publish, store, boot, report
<1> QED
  BY <1>1, <1>2, <1>3, <1>4, <1>5, <1>6 DEF IInv

LEMMA RefreshIInv ==
  ASSUME IInv, RefreshCatalog
  PROVE  IInv'
<1>1. TypeOK'
  BY DEF IInv, TypeOK, Stage, RefreshCatalog, store, boot, report
<1>2. HandlersServe'
  BY DEF IInv, TypeOK, HandlersServe, Submitting, RefreshCatalog, store, boot,
         report
<1>3. RowsConfigured'
  BY DEF IInv, TypeOK, RowsConfigured, RefreshCatalog, store, boot, report
<1>4. OneWriter'
  BY DEF IInv, TypeOK, OneWriter, Writing, RefreshCatalog, store, boot, report
<1>5. SnapshotsCurrent'
  BY DEF IInv, TypeOK, SnapshotsCurrent, Current, Cooling, Limited, Remaining,
         RefreshCatalog, store, boot, report
<1>6. SolvedEarned'
  BY DEF IInv, TypeOK, SolvedEarned, RefreshCatalog, store, boot, report
<1> QED
  BY <1>1, <1>2, <1>3, <1>4, <1>5, <1>6 DEF IInv

LEMMA RestartIInv ==
  ASSUME IInv, NEW m \in Manifests, Restart(m)
  PROVE  IInv'
<1>1. TypeOK'
  BY DEF IInv, TypeOK, Stage, Restart, store, boot, report
<1>2. HandlersServe'
  BY DEF IInv, TypeOK, HandlersServe, Submitting, Restart, store, boot, report
<1>3. RowsConfigured'
  BY DEF IInv, TypeOK, RowsConfigured, Restart, store, boot, report
<1>4. OneWriter'
  BY DEF IInv, TypeOK, OneWriter, Writing, Restart, store, boot, report
<1>5. SnapshotsCurrent'
  BY DEF IInv, TypeOK, SnapshotsCurrent, Current, Cooling, Limited, Remaining,
         Restart, store, boot, report
<1>6. SolvedEarned'
  BY DEF IInv, TypeOK, SolvedEarned, Restart, store, boot, report
<1> QED
  BY <1>1, <1>2, <1>3, <1>4, <1>5, <1>6 DEF IInv

LEMMA TickIInv ==
  ASSUME IInv, Tick
  PROVE  IInv'
<1>1. TypeOK'
  BY DEF IInv, TypeOK, Stage, Tick, store, boot, report
<1>2. HandlersServe'
  BY DEF IInv, TypeOK, HandlersServe, Submitting, Tick, store, boot, report
<1>3. RowsConfigured'
  BY DEF IInv, TypeOK, RowsConfigured, Tick, store, boot, report
<1>4. OneWriter'
  BY DEF IInv, TypeOK, OneWriter, Writing, Tick, store, boot, report
<1>5. SnapshotsCurrent'
  BY DEF IInv, TypeOK, SnapshotsCurrent, Current, Cooling, Limited, Remaining,
         Tick, store, boot, report
<1>6. SolvedEarned'
  BY DEF IInv, TypeOK, SolvedEarned, Tick, store, boot, report
<1> QED
  BY <1>1, <1>2, <1>3, <1>4, <1>5, <1>6 DEF IInv

LEMMA SubmitIInv ==
  ASSUME IInv, NEW r \in Request, NEW q \in Question, NEW a \in Answer,
         Submit(r, q, a)
  PROVE  IInv'
<1>1. TypeOK'
  BY DEF IInv, TypeOK, Stage, Submit, store, boot, report, Guess
<1>2. HandlersServe'
  BY DEF IInv, TypeOK, HandlersServe, Submitting, Submit, store, boot, report,
         Guess
<1>3. RowsConfigured'
  BY DEF IInv, TypeOK, RowsConfigured, Submit, store, boot, report
<1>4. OneWriter'
  BY DEF IInv, TypeOK, OneWriter, Writing, Submit, store, boot, report
<1>5. SnapshotsCurrent'
  BY DEF IInv, TypeOK, SnapshotsCurrent, Current, Cooling, Limited, Remaining,
         Submit, store, boot, report
<1>6. SolvedEarned'
  BY DEF IInv, TypeOK, SolvedEarned, Submit, store, boot, report
<1> QED
  BY <1>1, <1>2, <1>3, <1>4, <1>5, <1>6 DEF IInv

LEMMA QuestionsIInv ==
  ASSUME IInv, NEW r \in Request, Questions(r)
  PROVE  IInv'
<1>1. TypeOK'
  BY DEF IInv, TypeOK, Stage, Questions, Report, Listed, store, boot, report
<1>2. HandlersServe'
  BY DEF IInv, TypeOK, HandlersServe, Submitting, Questions, Report, Listed,
         store, boot, report
<1>3. RowsConfigured'
  BY DEF IInv, TypeOK, RowsConfigured, Questions, Report, Listed, store, boot,
         report
<1>4. OneWriter'
  BY DEF IInv, TypeOK, OneWriter, Writing, Questions, Report, Listed, store,
         boot, report
<1>5. SnapshotsCurrent'
  BY DEF IInv, TypeOK, SnapshotsCurrent, Current, Cooling, Limited, Remaining,
         Questions, Report, Listed, store, boot, report
<1>6. SolvedEarned'
  BY DEF IInv, TypeOK, SolvedEarned, Questions, Report, Listed, store, boot,
         report
<1> QED
  BY <1>1, <1>2, <1>3, <1>4, <1>5, <1>6 DEF IInv

LEMMA ReadSolvedIInv ==
  ASSUME IInv, NEW r \in Request, ReadSolved(r)
  PROVE  IInv'
<1>1. TypeOK'
  BY DEF IInv, TypeOK, Stage, ReadSolved, ReadSolvedAccepting, Report, Listed,
         store, boot, report
<1>2. HandlersServe'
  BY DEF IInv, TypeOK, HandlersServe, Submitting, ReadSolved,
         ReadSolvedAccepting, Report, Listed, store, boot, report
<1>3. RowsConfigured'
  BY DEF IInv, TypeOK, RowsConfigured, ReadSolved, ReadSolvedAccepting, Report,
         Listed, store, boot, report
<1>4. OneWriter'
  BY DEF IInv, TypeOK, OneWriter, Writing, ReadSolved, ReadSolvedAccepting,
         Report, Listed, store, boot, report
<1>5. SnapshotsCurrent'
  BY DEF IInv, TypeOK, SnapshotsCurrent, Current, Cooling, Limited, Remaining,
         ReadSolved, ReadSolvedAccepting, Report, Listed, store, boot, report
<1>6. SolvedEarned'
  BY DEF IInv, TypeOK, SolvedEarned, ReadSolved, ReadSolvedAccepting, Report,
         Listed, store, boot, report
<1> QED
  BY <1>1, <1>2, <1>3, <1>4, <1>5, <1>6 DEF IInv

LEMMA ReadOpenIInv ==
  ASSUME IInv, NEW r \in Request, ReadOpen(r)
  PROVE  IInv'
<1>1. TypeOK'
  BY DEF IInv, TypeOK, Stage, ReadOpen, End, store, boot, report
<1>2. HandlersServe'
  BY DEF IInv, TypeOK, HandlersServe, Submitting, ReadOpen, End, store, boot,
         report
<1>3. RowsConfigured'
  BY DEF IInv, TypeOK, RowsConfigured, ReadOpen, End, store, boot, report
<1>4. OneWriter'
  BY DEF IInv, TypeOK, OneWriter, Writing, ReadOpen, End, store, boot, report
<1>5. SnapshotsCurrent'
  BY DEF IInv, TypeOK, SnapshotsCurrent, Current, Cooling, Limited, Remaining,
         ReadOpen, End, store, boot, report
<1>6. SolvedEarned'
  BY DEF IInv, TypeOK, SolvedEarned, ReadOpen, End, store, boot, report
<1> QED
  BY <1>1, <1>2, <1>3, <1>4, <1>5, <1>6 DEF IInv

LEMMA WriteIInv ==
  ASSUME IInv, NEW r \in Request, Write(r)
  PROVE  IInv'
<1>1. TypeOK'
  BY DEF IInv, TypeOK, Stage, Write, WriteIf, Locked, Writing, End, store,
         boot, report
<1>2. HandlersServe'
  BY DEF IInv, TypeOK, HandlersServe, Submitting, Write, WriteIf, Locked,
         Writing, End, store, boot, report
<1>3. RowsConfigured'
  BY DEF IInv, TypeOK, RowsConfigured, Write, WriteIf, Locked, Writing, End,
         store, boot, report
<1>4. OneWriter'
  BY DEF IInv, TypeOK, OneWriter, Writing, Write, WriteIf, Locked, End, store,
         boot, report
<1>5. SnapshotsCurrent'
  BY DEF IInv, TypeOK, SnapshotsCurrent, Current, Cooling, Limited, Remaining,
         Write, WriteIf, Locked, Writing, End, store, boot, report
<1>6. SolvedEarned'
  BY DEF IInv, TypeOK, SolvedEarned, Write, WriteIf, Locked, Writing, End,
         store, boot, report
<1> QED
  BY <1>1, <1>2, <1>3, <1>4, <1>5, <1>6 DEF IInv

(* What Commit does to the row of the question: it is still a row of the   *)
(* same revision, solved if it was or if the answer is right.              *)
LEMMA CommitRow ==
  ASSUME IInv, NEW r \in Request, Commit(r)
  PROVE  LET g   == guess[r]
             q   == g.question
             row == progress[q]
         IN /\ g \in Guess /\ q \in Listed(challenge)
            /\ row \in Row /\ row # Null
            /\ row.revision = challenge[q]
            /\ progress' = [progress EXCEPT ![q] = progress'[q]]
            /\ progress'[q] = IF stage[r] = "counted" THEN Counted(row, g)
                                                      ELSE Answered(row, g)
            /\ stage[r] = "stored" => g.answer \in Accepted
            /\ progress'[q] \in Row /\ progress'[q] # Null
            /\ progress'[q].revision = row.revision
            /\ progress'[q].solved # Null <=>
                 row.solved # Null \/ g.answer \in Accepted
<1> DEFINE g   == guess[r]
           q   == g.question
           row == progress[q]
<1>1. stage[r] \in Writing /\ phase = "ready"
  BY DEF Commit, IInv, HandlersServe, Writing
<1>2. g \in Guess /\ q \in Listed(challenge) /\ q \in Question /\ g.at # Null
  BY <1>1, NullAssumption DEF IInv, HandlersServe, Submitting, Writing, Guess
<1>3. row \in Row /\ row # Null /\ row.revision = challenge[q]
  BY <1>1, <1>2, NullAssumption DEF IInv, RowsConfigured, Listed
<1>4. /\ progress' = [progress EXCEPT ![q] = progress'[q]]
      /\ progress'[q] = IF stage[r] = "counted" THEN Counted(row, g)
                                                ELSE Answered(row, g)
  BY <1>2 DEF Commit, IInv, TypeOK
<1>5. stage[r] = "stored" => g.answer \in Accepted /\ row.solved # Null
  BY DEF IInv, SnapshotsCurrent, Current
<1>6. /\ progress'[q] \in Row
      /\ progress'[q].revision = row.revision
      /\ progress'[q].solved # Null <=>
           row.solved # Null \/ g.answer \in Accepted
  <2>1. CASE stage[r] = "counted"
    BY <1>2, <1>3, <1>4, <2>1, CountedRow
  <2>2. CASE stage[r] = "stored"
    BY <1>2, <1>3, <1>4, <1>5, <2>2, AnsweredRow
  <2> QED
    BY <1>1, <2>1, <2>2 DEF Writing
<1> QED
  BY <1>2, <1>3, <1>4, <1>5, <1>6, NullAssumption

LEMMA CommitIInv ==
  ASSUME IInv, NEW r \in Request, Commit(r)
  PROVE  IInv'
<1> DEFINE g   == guess[r]
           q   == g.question
           row == progress[q]
<1>1. /\ g \in Guess /\ q \in Listed(challenge) /\ q \in Question
      /\ row # Null
      /\ row.revision = challenge[q]
      /\ progress' = [progress EXCEPT ![q] = progress'[q]]
      /\ progress'[q] \in Row /\ progress'[q] # Null
      /\ progress'[q].revision = row.revision
      /\ progress'[q].solved # Null <=>
           row.solved # Null \/ g.answer \in Accepted
  BY CommitRow DEF Listed
<1>2. \A p \in Question \ {q} : progress'[p] = progress[p]
  BY <1>1 DEF IInv, TypeOK
<1>3. earned' = IF g.answer \in Accepted THEN earned \cup {<<q, challenge[q]>>}
                                         ELSE earned
  BY DEF Commit
<1>4. TypeOK'
  <2>1. progress' \in [Question -> Row \cup {Null}]
    BY <1>1 DEF IInv, TypeOK
  <2>2. challenge[q] \in Nat
    BY <1>1, ManifestsAssumption DEF IInv, TypeOK, Nothing
  <2>3. earned' \subseteq (Question \X Nat)
    BY <1>1, <1>3, <2>2 DEF IInv, TypeOK
  <2> QED
    BY <2>1, <2>3
    DEF IInv, TypeOK, Stage, Commit, Report, Listed, boot, report
<1>5. HandlersServe'
  BY DEF IInv, TypeOK, HandlersServe, Submitting, Commit, Report, Listed,
         Writing, boot
<1>6. RowsConfigured'
  BY <1>1, <1>2 DEF IInv, TypeOK, RowsConfigured, Commit, Listed, boot
<1>7. OneWriter'
  BY DEF IInv, TypeOK, OneWriter, Commit, Report, Writing
<1>8. SnapshotsCurrent'
  <2>1. ASSUME NEW x \in Request, x # r
        PROVE  /\ stage'[x] = stage[x] /\ guess'[x] = guess[x]
               /\ stage[x] \notin Writing
               /\ stage[x] \in {"counting", "storing"} => x \in stale'
    BY <2>1 DEF IInv, TypeOK, OneWriter, Commit, Report
  <2>2. stage'[r] = "reporting"
    BY DEF IInv, TypeOK, Commit, Report
  <2> QED
    BY <2>1, <2>2 DEF IInv, SnapshotsCurrent, Current, Writing
<1>9. SolvedEarned'
  <2>1. ASSUME NEW p \in Question,
               progress'[p] # Null, progress'[p].solved # Null
        PROVE  <<p, progress'[p].revision>> \in earned'
    BY <1>1, <1>2, <1>3, <2>1 DEF IInv, SolvedEarned
  <2>2. ASSUME NEW x \in Request, NEW p \in found'[x]
        PROVE  progress'[p] # Null /\ progress'[p].solved # Null
    <3>1. p \in found[x] /\ p \in Question
      BY <2>2 DEF IInv, TypeOK, Commit, Report
    <3> QED
      BY <1>1, <1>2, <3>1 DEF IInv, SolvedEarned
  <2> QED
    BY <2>1, <2>2 DEF SolvedEarned
<1> QED
  BY <1>4, <1>5, <1>6, <1>7, <1>8, <1>9 DEF IInv

LEMMA ReadQuestionIInv ==
  ASSUME IInv, NEW r \in Request, NEW q \in Question,
         ReadQuestion(r, q)
  PROVE  IInv'
<1>1. TypeOK'
  BY DEF IInv, TypeOK, Stage, ReadQuestion, store, boot, report
<1>2. HandlersServe'
  BY DEF IInv, TypeOK, HandlersServe, Submitting, ReadQuestion, store, boot,
         report
<1>3. RowsConfigured'
  BY DEF IInv, TypeOK, RowsConfigured, ReadQuestion, store, boot, report
<1>4. OneWriter'
  BY DEF IInv, TypeOK, OneWriter, Writing, ReadQuestion, store, boot, report
<1>5. SnapshotsCurrent'
  BY DEF IInv, TypeOK, SnapshotsCurrent, Current, Cooling, Limited, Remaining,
         ReadQuestion, store, boot, report
<1>6. SolvedEarned'
  <2>1. progress[q] # Null
    BY NullAssumption
    DEF IInv, HandlersServe, RowsConfigured, ReadQuestion, Listed
  <2> QED
    BY <2>1 DEF IInv, TypeOK, SolvedEarned, ReadQuestion, store
<1> QED
  BY <1>1, <1>2, <1>3, <1>4, <1>5, <1>6 DEF IInv

LEMMA AnswerStateIInv ==
  ASSUME IInv, NEW r \in Request, AnswerState(r)
  PROVE  IInv'
<1>1. TypeOK'
  BY DEF IInv, TypeOK, Stage, AnswerState, End, store, boot, report
<1>2. HandlersServe'
  BY DEF IInv, TypeOK, HandlersServe, Submitting, AnswerState, End, store,
         boot, report
<1>3. RowsConfigured'
  BY DEF IInv, TypeOK, RowsConfigured, AnswerState, End, store, boot, report
<1>4. OneWriter'
  BY DEF IInv, TypeOK, OneWriter, Writing, AnswerState, End, store, boot,
         report
<1>5. SnapshotsCurrent'
  BY DEF IInv, TypeOK, SnapshotsCurrent, Current, Cooling, Limited, Remaining,
         AnswerState, End, store, boot, report
<1>6. SolvedEarned'
  BY DEF IInv, TypeOK, SolvedEarned, AnswerState, End, store, boot, report
<1> QED
  BY <1>1, <1>2, <1>3, <1>4, <1>5, <1>6 DEF IInv

LEMMA DisconnectIInv ==
  ASSUME IInv, NEW r \in Request, Disconnect(r)
  PROVE  IInv'
<1>1. TypeOK'
  BY DEF IInv, TypeOK, Stage, Disconnect, End, store, boot, report
<1>2. HandlersServe'
  BY DEF IInv, TypeOK, HandlersServe, Submitting, Disconnect, End, store, boot,
         report
<1>3. RowsConfigured'
  BY DEF IInv, TypeOK, RowsConfigured, Disconnect, End, store, boot, report
<1>4. OneWriter'
  BY DEF IInv, TypeOK, OneWriter, Writing, Disconnect, End, store, boot, report
<1>5. SnapshotsCurrent'
  BY DEF IInv, TypeOK, SnapshotsCurrent, Current, Cooling, Limited, Remaining,
         Disconnect, End, store, boot, report
<1>6. SolvedEarned'
  BY DEF IInv, TypeOK, SolvedEarned, Disconnect, End, store, boot, report
<1> QED
  BY <1>1, <1>2, <1>3, <1>4, <1>5, <1>6 DEF IInv

LEMMA StutterIInv ==
  ASSUME IInv, UNCHANGED vars
  PROVE  IInv'
<1>1. TypeOK'
  BY DEF IInv, TypeOK, Stage, vars, store, boot, report
<1>2. HandlersServe'
  BY DEF IInv, TypeOK, HandlersServe, Submitting, vars, store, boot, report
<1>3. RowsConfigured'
  BY DEF IInv, TypeOK, RowsConfigured, vars, store, boot, report
<1>4. OneWriter'
  BY DEF IInv, TypeOK, OneWriter, Writing, vars, store, boot, report
<1>5. SnapshotsCurrent'
  BY DEF IInv, TypeOK, SnapshotsCurrent, Current, Cooling, Limited, Remaining,
         vars, store, boot, report
<1>6. SolvedEarned'
  BY DEF IInv, TypeOK, SolvedEarned, vars, store, boot, report
<1> QED
  BY <1>1, <1>2, <1>3, <1>4, <1>5, <1>6 DEF IInv

LEMMA NextIInv == IInv /\ [Next]_vars => IInv'
<1> SUFFICES ASSUME IInv, [Next]_vars PROVE IInv'
  OBVIOUS
<1>1. CASE ConfigureChallenge
  BY <1>1, ConfigureIInv
<1>2. CASE Publish
  BY <1>2, PublishIInv
<1>3. CASE RefreshCatalog
  BY <1>3, RefreshIInv
<1>4. CASE \E m \in Manifests : Restart(m)
  BY <1>4, RestartIInv
<1>5. CASE Tick
  BY <1>5, TickIInv
<1>6. ASSUME NEW r \in Request, Handle(r)
      PROVE  IInv'
  BY <1>6, SubmitIInv, QuestionsIInv, ReadSolvedIInv, ReadOpenIInv, WriteIInv,
     CommitIInv, ReadQuestionIInv, AnswerStateIInv, DisconnectIInv DEF Handle
<1>7. CASE UNCHANGED vars
  BY <1>7, StutterIInv
<1> QED
  BY <1>1, <1>2, <1>3, <1>4, <1>5, <1>6, <1>7 DEF Next

(* The inductive invariant holds in every reachable state.                 *)
THEOREM ChallengeInductive == Spec => []IInv
BY InitIInv, NextIInv, PTL DEF Spec

-----------------------------------------------------------------------------
(* What follows from it                                                    *)

(* Every variable keeps its type; of the rows, that a stored answer is one *)
(* that the question accepts.                                              *)
THEOREM TypeCorrect == Spec => []TypeOK
<1>1. IInv => TypeOK
  BY DEF IInv
<1> QED
  BY <1>1, ChallengeInductive, PTL

(* The rows a handler needs are always there.                              *)
THEOREM RowsAvailable == Spec => []ProgressAvailable
<1>1. IInv => ProgressAvailable
  BY NullAssumption DEF IInv, RowsConfigured, ProgressAvailable, Listed
<1> QED
  BY <1>1, ChallengeInductive, PTL

(* Only Commit and ConfigureChallenge write rows.                          *)
LEMMA OnlyWriters ==
  ASSUME [Next]_vars, progress' # progress
  PROVE  ConfigureChallenge \/ \E r \in Request : Commit(r)
BY DEF vars, store, Next, Publish, RefreshCatalog, Restart, Tick, Handle,
       Submit, Questions, ReadSolved, ReadSolvedAccepting, ReadOpen, Write, WriteIf,
       ReadQuestion, AnswerState, Disconnect

(* ConfigureChallenge leaves a row that keeps its revision as it is.       *)
LEMMA ConfigureKeeps ==
  ASSUME IInv, ConfigureChallenge, NEW q \in Question,
         Same(progress[q], progress'[q])
  PROVE  progress'[q] = progress[q]
BY NullAssumption, ManifestsAssumption
DEF IInv, TypeOK, ConfigureChallenge, ConfiguredRow, Same, Empty

(* Progress is permanent while its revision lasts.                         *)
THEOREM SolvedPermanent == Spec => SolvedStays
<1> DEFINE Kept(q) ==
      LET row == progress[q]  next == progress'[q] IN
      Same(row, next) /\ row.solved # Null
        => /\ next.solved = row.solved
           /\ row.answer # Null => next.answer = row.answer
<1>1. ASSUME IInv, [Next]_vars, NEW q \in Question
      PROVE  Kept(q)
  <2>1. CASE progress' = progress
    BY <2>1
  <2>2. CASE ConfigureChallenge
    BY <1>1, <2>2, ConfigureKeeps
  <2>3. ASSUME NEW r \in Request, Commit(r)
        PROVE  Kept(q)
    <3> DEFINE g   == guess[r]
               row == progress[g.question]
    <3>1. /\ g \in Guess /\ row \in Row /\ g.question \in Question
          /\ progress' = [progress EXCEPT ![g.question] =
                            progress'[g.question]]
          /\ progress'[g.question] =
               IF stage[r] = "counted" THEN Counted(row, g) ELSE Answered(row, g)
          /\ stage[r] = "stored" => g.answer \in Accepted
      BY <1>1, <2>3, CommitRow DEF Listed
    <3>2. CASE q # g.question
      BY <1>1, <3>1, <3>2 DEF IInv, TypeOK
    <3>3. CASE q = g.question /\ stage[r] = "counted"
      BY <1>1, <3>3 DEF IInv, SnapshotsCurrent, Current
    <3>4. CASE q = g.question /\ stage[r] = "stored"
      <4>1. progress'[q].solved = row.solved
        BY <3>1, <3>4, AnsweredRow
      <4>2. row.answer = Null
        BY <1>1, <3>4 DEF IInv, SnapshotsCurrent, Current
      <4> QED
        BY <3>4, <4>1, <4>2
    <3> QED
      BY <2>3, <3>2, <3>3, <3>4 DEF Commit, Writing
  <2> QED
    BY <1>1, <2>1, <2>2, <2>3, OnlyWriters
<1>2. IInv /\ [Next]_vars => [\A q \in Question : Kept(q)]_vars
  BY <1>1
<1> QED
  BY <1>2, ChallengeInductive, PTL DEF Spec, SolvedStays

(* Whoever is shown the flag, every question of the challenge served has   *)
(* been answered correctly at its present revision.                        *)
THEOREM FlagOnlyEarned == Spec => FlagEarned
<1> DEFINE Earned ==
      disclosed' \ disclosed # {}
        => /\ Listed(challenge) # {}
           /\ \A q \in Listed(challenge) :
                /\ <<q, challenge[q]>> \in earned
                /\ progress[q].solved # Null
<1>1. ASSUME IInv, [Next]_vars
      PROVE  Earned
  <2>1. CASE disclosed' \subseteq disclosed
    BY <2>1
  <2>2. ASSUME NEW r \in Request, AnswerState(r), ~(disclosed' \subseteq disclosed)
        PROVE  Earned
    <3>1. found[r] = Listed(challenge) /\ found[r] # {}
      BY <2>2 DEF AnswerState
    <3>2. phase = "ready"
      BY <1>1, <2>2 DEF IInv, HandlersServe, AnswerState
    <3>3. ASSUME NEW q \in Listed(challenge)
          PROVE  /\ <<q, challenge[q]>> \in earned
                 /\ progress[q].solved # Null
      <4>1. progress[q] # Null /\ progress[q].solved # Null
        BY <1>1, <3>1 DEF IInv, SolvedEarned
      <4>2. progress[q].revision = challenge[q]
        BY <1>1, <3>2 DEF IInv, RowsConfigured, Listed
      <4> QED
        BY <1>1, <4>1, <4>2 DEF IInv, SolvedEarned, Listed
    <3> QED
      BY <3>1, <3>3
  <2>3. (\A r \in Request : ~AnswerState(r)) => disclosed' \subseteq disclosed
    BY <1>1
    DEF vars, Next, ConfigureChallenge, Publish, RefreshCatalog, Restart, Tick,
        Handle, Submit, Questions, ReadSolved, ReadSolvedAccepting, ReadOpen,
        Write, WriteIf, Commit, ReadQuestion, Disconnect
  <2> QED
    BY <2>1, <2>2, <2>3
<1>2. IInv /\ [Next]_vars => [Earned]_vars
  BY <1>1
<1> QED
  BY <1>2, ChallengeInductive, PTL DEF Spec, FlagEarned

-----------------------------------------------------------------------------
(* The cooldown                                                            *)

LEMMA LeastNatural ==
  ASSUME NEW S, S \subseteq Nat, S # {}
  PROVE  \E k \in S : \A j \in S : k <= j
<1>1. PICK k \in S : \A j \in S : ~(<<j, k>> \in OpToRel(<, Nat))
  BY NatLessThanWellFounded, WFMin
<1>2. \A j \in S : ~(j < k)
  BY <1>1 DEF OpToRel
<1> QED BY <1>2

(* One more round of the loop of cooldownAfter, and the rounds up to some. *)
Doubling(c) == IF c > 0 /\ c < MaxCooldown THEN 2 * c ELSE c

Rounds(f, k) ==
  /\ f[0] = Cooldown
  /\ \A n \in 0..k : n > 0 => f[n] = Doubling(f[n - 1])

LEMMA RoundsExist ==
  ASSUME NEW last \in Nat
  PROVE  \E f : Rounds(f, last)
<1> DEFINE Bad == {k \in Nat : ~\E f : Rounds(f, k)}
<1>1. SUFFICES ASSUME Bad # {} PROVE FALSE
  OBVIOUS
<1>2. PICK k \in Bad : \A j \in Bad : k <= j
  BY <1>1, LeastNatural
<1>3. CASE k = 0
  <2>1. Rounds([n \in 0..0 |-> Cooldown], 0)
    BY DEF Rounds
  <2> QED BY <1>2, <1>3, <2>1
<1>4. CASE k > 0
  <2>1. k - 1 \in Nat /\ k - 1 \notin Bad
    BY <1>2, <1>4
  <2>2. PICK f : Rounds(f, k - 1)
    BY <2>1
  <2> DEFINE g == [n \in 0..k |-> IF n < k THEN f[n] ELSE Doubling(f[k - 1])]
  <2>3. /\ g[0] = f[0] /\ g[k] = Doubling(g[k - 1])
        /\ \A n \in 0..k : 0 < n /\ n < k =>
             g[n] = f[n] /\ g[n - 1] = f[n - 1] /\ n \in 0..(k - 1)
    BY <1>2, <1>4
  <2> HIDE DEF g
  <2>4. \A n \in 0..k : n = k \/ n < k
    BY <1>2
  <2>5. Rounds(g, k)
    BY <2>2, <2>3, <2>4 DEF Rounds
  <2> QED BY <1>2, <2>5
<1> QED BY <1>2, <1>3, <1>4

LEMMA RoundsAgree ==
  ASSUME NEW f, NEW g, NEW k \in Nat, NEW m \in Nat, Rounds(f, k), Rounds(g, m),
         NEW n \in Nat, n <= k, n <= m
  PROVE  f[n] = g[n]
<1> DEFINE Bad == {i \in 0..n : f[i] # g[i]}
<1>1. SUFFICES ASSUME Bad # {} PROVE FALSE
  OBVIOUS
<1>2. PICK i \in Bad : \A j \in Bad : i <= j
  <2>1. Bad \subseteq Nat
    OBVIOUS
  <2> QED BY <1>1, <2>1, LeastNatural
<1>3. CASE i = 0
  BY <1>2, <1>3 DEF Rounds
<1>4. CASE i > 0
  <2>1. i \in 0..k /\ i \in 0..m /\ i - 1 \in 0..n /\ i - 1 \notin Bad
    BY <1>2, <1>4
  <2>2. f[i - 1] = g[i - 1]
    BY <2>1
  <2>3. f[i] = Doubling(f[i - 1]) /\ g[i] = Doubling(g[i - 1])
    BY <1>4, <2>1 DEF Rounds
  <2> QED BY <1>2, <2>2, <2>3
<1> QED BY <1>2, <1>3, <1>4

LEMMA DoubledStep ==
  /\ doubled[0] = Cooldown
  /\ \A n \in Nat : doubled[n + 1] = Doubling(doubled[n])
<1> DEFINE At(n) == (CHOOSE f : Rounds(f, n))[n]
           g == [n \in Nat |-> At(n)]
           Is(d) == d = [n \in Nat |->
             IF n = 0 THEN Cooldown
             ELSE LET cooldown == d[n - 1]
                  IN  IF cooldown > 0 /\ cooldown < MaxCooldown
                        THEN 2 * cooldown ELSE cooldown]
<1>1. \A n \in Nat : Rounds(CHOOSE f : Rounds(f, n), n)
  BY RoundsExist
<1>2. At(0) = Cooldown
  BY <1>1 DEF Rounds
<1>3. ASSUME NEW n \in Nat, n > 0
      PROVE  At(n) = Doubling(At(n - 1))
  <2>1. PICK f : f = CHOOSE h : Rounds(h, n)
    OBVIOUS
  <2>2. PICK e : e = CHOOSE h : Rounds(h, n - 1)
    OBVIOUS
  <2>3. Rounds(f, n) /\ Rounds(e, n - 1) /\ n - 1 \in Nat
    BY <1>1, <1>3, <2>1, <2>2
  <2>4. f[n - 1] = e[n - 1]
    BY <2>3, RoundsAgree
  <2>5. f[n] = Doubling(f[n - 1])
    BY <1>3, <2>3 DEF Rounds
  <2> QED BY <2>1, <2>2, <2>4, <2>5
<1> HIDE DEF At
<1>4. Is(g)
  BY <1>2, <1>3 DEF Doubling
<1>5. doubled = CHOOSE d : Is(d)
  BY DEF doubled
<1>6. Is(doubled)
  BY <1>4, <1>5
<1> HIDE DEF Is
<1>7. doubled[0] = Cooldown
  BY <1>6 DEF Is
<1>8. ASSUME NEW n \in Nat
      PROVE  doubled[n + 1] = Doubling(doubled[n])
  <2>1. n + 1 \in Nat /\ n + 1 # 0 /\ (n + 1) - 1 = n
    OBVIOUS
  <2> QED BY <1>6, <2>1 DEF Is, Doubling
<1> QED BY <1>7, <1>8

(* The cooldown never drops, and doubles only below the cap.               *)
LEMMA DoubledFacts ==
  ASSUME NEW n \in Nat
  PROVE  /\ doubled[n] \in Nat /\ doubled[n] >= Cooldown
         /\ MaxCooldown <= Cooldown => doubled[n] = Cooldown
<1> DEFINE Good(i) == /\ doubled[i] \in Nat /\ doubled[i] >= Cooldown
                      /\ MaxCooldown <= Cooldown => doubled[i] = Cooldown
           Bad == {i \in Nat : ~Good(i)}
<1>1. SUFFICES ASSUME Bad # {} PROVE FALSE
  OBVIOUS
<1>2. PICK i \in Bad : \A j \in Bad : i <= j
  <2>1. Bad \subseteq Nat
    OBVIOUS
  <2> QED BY <1>1, <2>1, LeastNatural
<1>3. CASE i = 0
  BY <1>2, <1>3, DoubledStep, CooldownAssumption
<1>4. CASE i > 0
  <2>1. PICK j \in Nat : i = j + 1
    <3>1. i - 1 \in Nat /\ i = (i - 1) + 1
      BY <1>2, <1>4
    <3> QED BY <3>1
  <2>2. Good(j)
    BY <1>2, <2>1
  <2>3. doubled[i] = Doubling(doubled[j])
    BY <2>1, DoubledStep
  <2>4. Good(i)
    BY <2>2, <2>3, CooldownAssumption DEF Doubling
  <2> QED BY <1>2, <2>4
<1> QED BY <1>2, <1>3, <1>4

LEMMA CooldownType ==
  ASSUME NEW n \in Nat
  PROVE  cooldownAfter(n) \in Nat
<1>1. (IF n > FreeAttempts THEN n - FreeAttempts ELSE 0) \in Nat
  BY CooldownAssumption
<1>2. doubled[IF n > FreeAttempts THEN n - FreeAttempts ELSE 0] \in Nat
  BY <1>1, DoubledFacts
<1> QED BY <1>2, CooldownAssumption DEF cooldownAfter

(* "MaxCooldown caps the escalating cooldown; at or below Cooldown, the    *)
(* cooldown never escalates", and "Each later one doubles the cooldown, up *)
(* to MaxCooldown" (ChallengeDefinition and escalationFreeAttempts): the   *)
(* loop of cooldownAfter leaves exactly this, for every cooldown, cap and  *)
(* number of attempts, although it stops at the first value beyond the cap.*)
THEOREM CooldownEscalates ==
  ASSUME NEW attempts \in Nat
  PROVE  /\ attempts <= FreeAttempts \/ MaxCooldown <= Cooldown
              => cooldownAfter(attempts) = Cooldown
         /\ attempts >= FreeAttempts /\ MaxCooldown > Cooldown
              => cooldownAfter(attempts + 1) =
                   IF 2 * cooldownAfter(attempts) < MaxCooldown
                     THEN 2 * cooldownAfter(attempts) ELSE MaxCooldown
<1> DEFINE n == IF attempts > FreeAttempts THEN attempts - FreeAttempts ELSE 0
<1>1. n \in Nat
  BY CooldownAssumption
<1>2. /\ doubled[n] \in Nat /\ doubled[n] >= Cooldown
      /\ MaxCooldown <= Cooldown => doubled[n] = Cooldown
      /\ doubled[0] = Cooldown
      /\ doubled[n + 1] = Doubling(doubled[n])
  BY <1>1, DoubledFacts, DoubledStep
<1>3. cooldownAfter(attempts) =
        IF MaxCooldown > Cooldown /\ doubled[n] > MaxCooldown THEN MaxCooldown
                                                              ELSE doubled[n]
  BY DEF cooldownAfter
<1>4. attempts <= FreeAttempts \/ MaxCooldown <= Cooldown
        => cooldownAfter(attempts) = Cooldown
  <2>1. attempts <= FreeAttempts => n = 0
    BY CooldownAssumption
  <2> HIDE DEF n
  <2> QED BY <1>2, <1>3, <2>1, CooldownAssumption
<1>5. ASSUME attempts >= FreeAttempts, MaxCooldown > Cooldown
      PROVE  cooldownAfter(attempts + 1) =
               IF 2 * cooldownAfter(attempts) < MaxCooldown
                 THEN 2 * cooldownAfter(attempts) ELSE MaxCooldown
  <2>1. (IF attempts + 1 > FreeAttempts THEN (attempts + 1) - FreeAttempts ELSE 0)
          = n + 1
    BY <1>5, CooldownAssumption
  <2>2. cooldownAfter(attempts + 1) =
          IF MaxCooldown > Cooldown /\ doubled[n + 1] > MaxCooldown
            THEN MaxCooldown ELSE doubled[n + 1]
    BY <2>1 DEF cooldownAfter
  <2> HIDE DEF n
  <2>3. PICK c \in Nat : c = doubled[n]
    BY <1>2
  <2>4. doubled[n + 1] = IF c > 0 /\ c < MaxCooldown THEN 2 * c ELSE c
    BY <1>2, <2>3 DEF Doubling
  <2> QED BY <1>2, <1>3, <1>5, <2>2, <2>3, <2>4, CooldownAssumption
<1> QED BY <1>4, <1>5

(* The provers know of powers only this.                                   *)
PowersOfTwo ==
  2 ^ 0 = 1 /\ \A n \in Nat : 2 ^ n \in Nat /\ 2 ^ (n + 1) = 2 * 2 ^ n

(* The loop leaves the power, unless that is beyond the cap.               *)
LEMMA DoubledIs ==
  ASSUME PowersOfTwo, MaxCooldown > Cooldown, NEW n \in Nat
  PROVE  IF Cooldown * 2 ^ n < MaxCooldown THEN doubled[n] = Cooldown * 2 ^ n
                                           ELSE doubled[n] >= MaxCooldown
<1> DEFINE Good(i) ==
             IF Cooldown * 2 ^ i < MaxCooldown
               THEN doubled[i] = Cooldown * 2 ^ i ELSE doubled[i] >= MaxCooldown
           Bad == {i \in Nat : ~Good(i)}
<1>1. SUFFICES ASSUME Bad # {} PROVE FALSE
  OBVIOUS
<1>2. PICK i \in Bad : \A j \in Bad : i <= j
  <2>1. Bad \subseteq Nat
    OBVIOUS
  <2> QED BY <1>1, <2>1, LeastNatural
<1>3. CASE i = 0
  <2>1. Cooldown * 2 ^ i = Cooldown /\ doubled[i] = Cooldown
    BY <1>3, DoubledStep, CooldownAssumption DEF PowersOfTwo
  <2> QED BY <1>2, <2>1
<1>4. CASE i > 0
  <2>1. PICK j \in Nat : i = j + 1
    <3>1. i - 1 \in Nat /\ i = (i - 1) + 1
      BY <1>2, <1>4
    <3> QED BY <3>1
  <2>2. Good(j)
    BY <1>2, <2>1
  <2>3. PICK p \in Nat, d \in Nat :
          /\ p = Cooldown * 2 ^ j /\ d = doubled[j]
          /\ Cooldown * 2 ^ i = 2 * p
    <3>1. PICK w \in Nat : w = 2 ^ j /\ 2 ^ i = 2 * w
      BY <2>1 DEF PowersOfTwo
    <3>2. Cooldown * w \in Nat /\ Cooldown * (2 * w) = 2 * (Cooldown * w)
      BY CooldownAssumption
    <3> QED BY <3>1, <3>2, DoubledFacts
  <2>4. doubled[i] = IF d > 0 /\ d < MaxCooldown THEN 2 * d ELSE d
    BY <2>1, <2>3, DoubledStep DEF Doubling
  <2>5. IF p < MaxCooldown THEN d = p ELSE d >= MaxCooldown
    BY <2>2, <2>3
  <2>6. IF 2 * p < MaxCooldown THEN doubled[i] = 2 * p
                               ELSE doubled[i] >= MaxCooldown
    BY <2>3, <2>4, <2>5, CooldownAssumption
  <2> QED BY <1>2, <2>3, <2>6
<1> QED BY <1>2, <1>3, <1>4

LEMMA CooldownIs ==
  ASSUME PowersOfTwo, NEW attempts \in Nat
  PROVE  cooldownAfter(attempts) = Escalated(attempts)
<1> DEFINE n == IF attempts > FreeAttempts THEN attempts - FreeAttempts ELSE 0
<1>1. n \in Nat /\ (attempts <= FreeAttempts => n = 0)
      /\ (~(attempts <= FreeAttempts) => n = attempts - FreeAttempts)
  BY CooldownAssumption
<1>2. cooldownAfter(attempts) =
        IF MaxCooldown > Cooldown /\ doubled[n] > MaxCooldown THEN MaxCooldown
                                                              ELSE doubled[n]
  BY DEF cooldownAfter
<1> HIDE DEF n
<1>3. /\ doubled[n] \in Nat /\ doubled[0] = Cooldown
      /\ MaxCooldown <= Cooldown => doubled[n] = Cooldown
  BY <1>1, DoubledFacts, DoubledStep
<1>4. CASE attempts <= FreeAttempts \/ MaxCooldown <= Cooldown
  BY <1>1, <1>2, <1>3, <1>4, CooldownAssumption DEF Escalated
<1>5. CASE ~(attempts <= FreeAttempts) /\ MaxCooldown > Cooldown
  <2>1. PICK p : p = Cooldown * 2 ^ n /\ p = Cooldown * 2 ^ (attempts - FreeAttempts)
    BY <1>1, <1>5
  <2>2. IF p < MaxCooldown THEN doubled[n] = p ELSE doubled[n] >= MaxCooldown
    BY <1>1, <1>5, <2>1, DoubledIs
  <2>3. Escalated(attempts) = IF p < MaxCooldown THEN p ELSE MaxCooldown
    BY <1>5, <2>1, CooldownAssumption DEF Escalated
  <2> QED BY <1>2, <1>3, <1>5, <2>2, <2>3, CooldownAssumption
<1> QED BY <1>4, <1>5, CooldownAssumption

(* The cooldown cannot be bypassed by guessing concurrently, however many  *)
(* requests, questions and manifests there are and whatever the cooldown.  *)
THEOREM NoBypass ==
  ASSUME PowersOfTwo
  PROVE  Spec => CooldownHolds
<1> DEFINE Held(q) ==
      LET row == progress[q]  next == progress'[q]
          wait == Escalated(row.attempts)
      IN  Same(row, next) /\ next.attempts # row.attempts
            => /\ next.attempts = row.attempts + 1
               /\ row.last # Null /\ wait > 0 => next.last - row.last >= wait
<1>1. ASSUME IInv, [Next]_vars, NEW q \in Question
      PROVE  Held(q)
  <2>1. CASE progress' = progress
    BY <2>1
  <2>2. CASE ConfigureChallenge
    BY <1>1, <2>2, ConfigureKeeps
  <2>3. ASSUME NEW r \in Request, Commit(r)
        PROVE  Held(q)
    <3> DEFINE g   == guess[r]
               row == progress[g.question]
    <3>1. /\ g \in Guess /\ row \in Row /\ g.question \in Question
          /\ progress' = [progress EXCEPT ![g.question] =
                            progress'[g.question]]
          /\ progress'[g.question] =
               IF stage[r] = "counted" THEN Counted(row, g) ELSE Answered(row, g)
          /\ stage[r] = "stored" => g.answer \in Accepted
      BY <1>1, <2>3, CommitRow DEF Listed
    <3>2. CASE q # g.question
      BY <1>1, <3>1, <3>2 DEF IInv, TypeOK
    <3>3. CASE q = g.question /\ stage[r] = "counted"
      <4>1. /\ progress'[q].attempts = row.attempts + 1
            /\ progress'[q].last = g.at
        BY <3>1, <3>3, CountedRow
      <4>2. ~Cooling(row, g.at)
        BY <1>1, <3>3 DEF IInv, SnapshotsCurrent, Current
      <4>3. PICK w \in Nat :
              w = Escalated(row.attempts) /\ w = cooldownAfter(row.attempts)
        BY <3>1, CooldownIs, CooldownType DEF Row
      <4>4. (row.last # Null => row.last \in Nat) /\ g.at \in Nat
        BY <3>1 DEF Row, Guess
      <4> QED
        BY <3>3, <4>1, <4>2, <4>3, <4>4 DEF Cooling, Limited, Remaining
    <3>4. CASE q = g.question /\ stage[r] = "stored"
      BY <3>1, <3>4, AnsweredRow
    <3> QED
      BY <2>3, <3>2, <3>3, <3>4 DEF Commit, Writing
  <2> QED
    BY <1>1, <2>1, <2>2, <2>3, OnlyWriters
<1>2. IInv /\ [Next]_vars => [\A q \in Question : Held(q)]_vars
  BY <1>1
<1> QED
  BY <1>2, ChallengeInductive, PTL DEF Spec, CooldownHolds

-----------------------------------------------------------------------------
(* The refinement of Investigation                                         *)

(* Nothing is served while the process starts, and a guess in flight was   *)
(* made before now.                                                        *)
NotServedYet == phase \in {"loading", "configured"} => challenge = Nothing

GuessedBefore ==
  \A r \in Request : stage[r] \in Submitting => guess[r].at <= now

RInv == IInv /\ NotServedYet /\ GuessedBefore

LEMMA NextRInv ==
  ASSUME RInv, [Next]_vars
  PROVE  RInv'
<1>1. IInv'
  BY NextIInv DEF RInv
<1>2. NotServedYet'
  BY DEF RInv, NotServedYet, vars, boot, Next, ConfigureChallenge, Publish,
         RefreshCatalog, Restart, Tick, Handle, Submit, Questions, ReadSolved,
         ReadSolvedAccepting, ReadOpen, Write, WriteIf, Commit, ReadQuestion,
         AnswerState, Disconnect, Nothing
<1>3. GuessedBefore'
  <2>1. /\ now \in Nat /\ guess \in [Request -> Guess \cup {Null}]
        /\ stage \in [Request -> Stage]
    BY DEF RInv, IInv, TypeOK
  <2>2. now' \in Nat /\ now <= now'
    BY <1>1, <2>1
    DEF IInv, TypeOK, vars, Next, ConfigureChallenge, Publish, RefreshCatalog,
        Restart, Tick, Handle, Submit, Questions, ReadSolved,
        ReadSolvedAccepting, ReadOpen, Write, WriteIf, Commit, ReadQuestion,
        AnswerState, Disconnect
  <2>3. ASSUME NEW r \in Request, stage'[r] \in Submitting
        PROVE  \/ stage[r] \in Submitting /\ guess'[r] = guess[r]
               \/ guess'[r].at = now
    BY <2>1, <2>3
    DEF vars, Next, ConfigureChallenge, Publish, RefreshCatalog, Restart, Tick,
        Handle, Submit, Questions, ReadSolved, ReadSolvedAccepting, ReadOpen,
        Write, WriteIf, Commit, ReadQuestion, AnswerState, Disconnect, Report,
        End, boot, report, Submitting, Writing, Stage
  <2>4. \A r \in Request : stage[r] \in Submitting => guess[r].at \in Nat
    BY DEF RInv, IInv, HandlersServe, Guess
  <2> QED
    BY <2>1, <2>2, <2>3, <2>4 DEF RInv, GuessedBefore
<1> QED
  BY <1>1, <1>2, <1>3 DEF RInv

LEMMA InitRefines == Init => Shared!Init
<1> SUFFICES ASSUME Init PROVE Shared!Init
  OBVIOUS
<1>1. progress \in [Question -> Row \cup {Null}]
  BY InitIInv DEF IInv, TypeOK
<1> QED
  BY <1>1 DEF Init, Shared!Init, Shared!Row, Row, Shared!Nothing, Nothing

LEMMA ConfigureRefines ==
  ASSUME RInv, ConfigureChallenge
  PROVE  Shared!Configure(manifest)
<1>1. challenge = Shared!Nothing
  BY DEF RInv, NotServedYet, ConfigureChallenge, Nothing, Shared!Nothing
<1>2. manifest \in [Question -> Nat]
  BY ManifestsAssumption DEF RInv, IInv, TypeOK
<1>3. ASSUME NEW q \in Question
      PROVE  ConfiguredRow(q) =
               IF Shared!Fits(progress[q], manifest[q]) THEN progress[q]
               ELSE IF manifest[q] = 0 THEN Null ELSE Shared!Fresh(manifest[q])
  BY DEF ConfiguredRow, Empty, Shared!Fits, Shared!Fresh
<1> QED
  BY <1>1, <1>3 DEF ConfigureChallenge, Shared!Configure

LEMMA PublishRefines ==
  ASSUME RInv, Publish
  PROVE  Shared!Serve(manifest)
<1>1. challenge = Shared!Nothing
  BY DEF RInv, NotServedYet, Publish, Nothing, Shared!Nothing
<1>2. ASSUME NEW q \in Question
      PROVE  Shared!Fits(progress[q], manifest[q])
  <2>1. manifest[q] \in Nat
    BY ManifestsAssumption DEF RInv, IInv, TypeOK
  <2> QED
    BY <2>1, NullAssumption
    DEF RInv, IInv, RowsConfigured, Publish, Shared!Fits
<1> QED
  BY <1>1, <1>2 DEF Publish, store, Shared!Serve

(* What is committed was decided on the row that it changes.               *)
LEMMA CommitRefines ==
  ASSUME RInv, NEW r \in Request, Commit(r)
  PROVE  \E q \in Question : Shared!Take(q) \/ Shared!Recall(q)
<1> DEFINE g   == guess[r]
           q   == g.question
           row == progress[q]
<1>1. /\ g \in Guess /\ q \in Listed(challenge) /\ q \in Question
      /\ row \in Row
      /\ progress' = [progress EXCEPT ![q] = progress'[q]]
      /\ progress'[q] = IF stage[r] = "counted" THEN Counted(row, g)
                                                ELSE Answered(row, g)
      /\ stage[r] = "stored" => g.answer \in Accepted
      /\ progress'[q] \in Row
  BY CommitRow DEF RInv, Listed
<1>2. q \in Shared!Listed
  BY <1>1 DEF Listed, Shared!Listed
<1>3. UNCHANGED <<now, challenge, disclosed>>
  BY DEF Commit, boot
<1>4. CASE stage[r] = "counted"
  <2>1. PICK a \in Row : a = row
    BY <1>1
  <2>2. PICK next \in Row : next = progress'[q]
    BY <1>1
  <2>3. /\ next.revision = a.revision
        /\ next.attempts = a.attempts + 1
        /\ next.last = g.at
        /\ next.solved = IF g.answer \in Accepted THEN g.at ELSE a.solved
        /\ next.answer = IF g.answer \in Accepted THEN g.answer ELSE a.answer
    BY <1>1, <1>4, <2>1, <2>2, CountedRow
  <2>4. a.solved = Null /\ ~Cooling(a, g.at)
    BY <1>4, <2>1 DEF RInv, IInv, SnapshotsCurrent, Current
  <2>5. g.at \in 0..now
    <3>1. g.at <= now
      BY <1>4 DEF RInv, GuessedBefore, Submitting
    <3>2. g.at \in Nat /\ now \in Nat
      BY <1>1 DEF Guess, RInv, IInv, TypeOK
    <3> QED
      BY <3>1, <3>2
  <2>6. Shared!Waited(a, g.at)
    <3>1. cooldownAfter(a.attempts) \in Nat
      BY CooldownType DEF Row
    <3>2. a.last \in Nat \cup {Null} /\ g.at \in Nat
      BY <1>1 DEF Row, Guess
    <3> QED
      BY <2>4, <3>1, <3>2 DEF Cooling, Limited, Remaining, Shared!Waited
  <2>7. Shared!Counts(a, next)
    BY <2>3, <2>4, <2>5, <2>6 DEF Shared!Counts, Shared!Row, Row
  <2> QED
    BY <1>1, <1>2, <1>3, <2>1, <2>2, <2>4, <2>7 DEF Shared!Take, Shared!Open
<1>5. CASE stage[r] = "stored"
  <2>1. PICK a \in Row : a = row
    BY <1>1
  <2>2. a.solved # Null /\ a.answer = Null
    BY <1>5, <2>1 DEF RInv, IInv, SnapshotsCurrent, Current
  <2>3. progress'[q] = [a EXCEPT !.answer = g.answer]
    BY <1>1, <1>5, <2>1 DEF Answered, Row
  <2>4. progress' = [progress EXCEPT ![q].answer = g.answer]
    BY <1>1, <2>1, <2>3
  <2> QED
    BY <1>1, <1>2, <1>3, <1>5, <2>1, <2>2, <2>4
    DEF Shared!Recall, Shared!Solved
<1> QED
  BY <1>4, <1>5 DEF Commit, Writing

(* A state whose questions were all found solved, one after another, is    *)
(* answered while they all are solved.                                     *)
LEMMA AnswerStateRefines ==
  ASSUME RInv, NEW r \in Request, AnswerState(r)
  PROVE  Shared!Tell(r) \/ UNCHANGED Shared!vars
<1>1. UNCHANGED <<now, progress, challenge>>
  BY DEF AnswerState, store, boot
<1>2. CASE found[r] = Listed(challenge) /\ found[r] # {}
  <2>1. found[r] = Shared!Listed
    BY <1>2 DEF Listed, Shared!Listed
  <2>2. \A q \in found[r] : Shared!Solved(q)
    BY DEF RInv, IInv, SolvedEarned, Shared!Solved
  <2> QED
    BY <1>1, <1>2, <2>1, <2>2 DEF AnswerState, Shared!Tell
<1>3. CASE ~(found[r] = Listed(challenge) /\ found[r] # {})
  BY <1>1, <1>3 DEF AnswerState, Shared!vars
<1> QED
  BY <1>2, <1>3

LEMMA HandleRefines ==
  ASSUME RInv, NEW r \in Request, Handle(r)
  PROVE  Shared!Next \/ UNCHANGED Shared!vars
<1>1. CASE \E q \in Question, a \in Answer : Submit(r, q, a)
  <2>1. Shared!AskAgain(r)
    BY <1>1 DEF Submit, store, boot, Shared!AskAgain
  <2> QED
    BY <2>1 DEF Shared!Next
<1>2. CASE Questions(r)
  <2>1. Shared!AskAgain(r)
    BY <1>2 DEF Questions, store, boot, Shared!AskAgain
  <2> QED
    BY <2>1 DEF Shared!Next
<1>3. CASE Commit(r)
  BY <1>3, CommitRefines DEF Shared!Next
<1>4. CASE AnswerState(r)
  BY <1>4, AnswerStateRefines DEF Shared!Next
<1>5. CASE \/ ReadSolved(r) \/ ReadOpen(r) \/ Write(r) \/ Disconnect(r)
           \/ \E q \in Question : ReadQuestion(r, q)
  BY <1>5 DEF ReadSolved, ReadSolvedAccepting, ReadOpen, Write, WriteIf,
              ReadQuestion, Disconnect, store, boot, Shared!vars
<1> QED
  BY <1>1, <1>2, <1>3, <1>4, <1>5 DEF Handle

LEMMA NextRefines == RInv /\ [Next]_vars => [Shared!Next]_(Shared!vars)
<1> SUFFICES ASSUME RInv, [Next]_vars
             PROVE  Shared!Next \/ UNCHANGED Shared!vars
  OBVIOUS
<1>1. manifest \in Manifests
  BY DEF RInv, IInv, TypeOK
<1>2. CASE ConfigureChallenge
  BY <1>1, <1>2, ConfigureRefines DEF Shared!Next
<1>3. CASE Publish
  BY <1>1, <1>3, PublishRefines DEF Shared!Next
<1>4. CASE RefreshCatalog
  BY <1>4 DEF RefreshCatalog, store, Shared!vars
<1>5. CASE \E m \in Manifests : Restart(m)
  <2>1. Shared!Stop
    BY <1>5 DEF Restart, store, Nothing, Shared!Stop, Shared!Nothing
  <2> QED
    BY <2>1 DEF Shared!Next
<1>6. CASE Tick
  <2>1. Shared!Tick
    BY <1>6 DEF Tick, store, boot, Shared!Tick
  <2> QED
    BY <2>1 DEF Shared!Next
<1>7. CASE \E r \in Request : Handle(r)
  BY <1>7, HandleRefines
<1>8. CASE UNCHANGED vars
  BY <1>8 DEF vars, store, boot, Shared!vars
<1> QED
  BY <1>2, <1>3, <1>4, <1>5, <1>6, <1>7, <1>8 DEF Next

(* The handlers behave as if each guess were checked and counted in one    *)
(* step, on the row as it then is, and each state read in one.             *)
THEOREM Refinement == Spec => OneAtATime
<1>1. Init => RInv
  BY InitIInv DEF Init, RInv, NotServedYet, GuessedBefore, Submitting
<1>2. RInv /\ [Next]_vars => RInv'
  BY NextRInv
<1> QED
  BY <1>1, <1>2, InitRefines, NextRefines, PTL
  DEF Spec, OneAtATime, Shared!Spec
=============================================================================

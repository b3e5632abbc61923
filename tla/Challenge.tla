----------------------------- MODULE Challenge ------------------------------
(***************************************************************************)
(* The shared investigation progress of internal/database/questions.go: a  *)
(* row per question in SQLite, the challenge definition in memory, and the *)
(* concurrent handlers that submit answers and report the state.           *)
(*                                                                         *)
(* SubmitAnswer reads a question's row and updates it in one deferred      *)
(* transaction of a WAL database: the read fixes a snapshot, and the first *)
(* write fails at once with SQLITE_BUSY when another connection holds the  *)
(* write lock or has committed since that snapshot (the busy handler is    *)
(* not called for a transaction that has already read). Time is the wall   *)
(* clock, which the model never sets back. Several processes in turn open  *)
(* the same database; each may be given another manifest.                  *)
(***************************************************************************)
EXTENDS Integers

CONSTANTS
  Question,
  Request,       (* HTTP requests that may be in flight at the same time    *)
  Answer,        (* submitted texts, normalised                             *)
  Accepted,      (* those a question accepts                                *)
  Manifests,     (* the revision of each question, 0 when it is not listed  *)
  Null,          (* SQL NULL, and the row of a question that has none       *)
  Cooldown,      (* submissionCooldown                                      *)
  MaxCooldown,   (* maxSubmissionCooldown                                   *)
  FreeAttempts,  (* escalationFreeAttempts                                  *)
  MaxTime        (* bound of the clock                                      *)

ASSUME ManifestsAssumption == Manifests \subseteq [Question -> Nat]

ASSUME AnswersAssumption == Accepted \subseteq Answer /\ Null \notin Answer

Row == [revision : Nat,
        attempts : Nat,
        last     : Nat \cup {Null},     (* last_attempt_at                   *)
        solved   : Nat \cup {Null},     (* solved_at                         *)
        answer   : Accepted \cup {Null}]

ASSUME NullAssumption == Null \notin Nat /\ Null \notin Row

ASSUME CooldownAssumption ==
  /\ Cooldown \in Nat
  /\ MaxCooldown \in Nat
  /\ FreeAttempts \in Nat

ASSUME TimeAssumption == MaxTime \in Nat

VARIABLES
  now,        (* the wall clock                                             *)
  progress,   (* investigation_progress: the row of each question           *)
  manifest,   (* the manifest this process was started with                 *)
  challenge,  (* s.challenge                                                *)
  phase,      (* how far the process has come with starting                 *)
  stage,      (* where each request is                                      *)
  guess,      (* SubmitAnswer: its question, answer and now                 *)
  stale,      (* open transactions another commit has overtaken             *)
  pending,    (* ChallengeState: the questions it has still to read         *)
  found,      (* ChallengeState: the questions it found solved              *)
  disclosed,  (* the requests whose answer carried the flag                 *)
  earned      (* history: the <<question, revision>> answered correctly     *)

store  == <<progress, earned>>
boot   == <<manifest, challenge, phase>>
report == <<pending, found>>
vars   == <<now, store, boot, stage, guess, stale, report, disclosed>>

Nothing == [q \in Question |-> 0]

Listed(m) == {q \in Question : m[q] > 0}

Empty(revision) == [revision |-> revision, attempts |-> 0, last |-> Null,
                    solved |-> Null, answer |-> Null]

(* A row of a version of the program that did not store the answer.        *)
Legacy(revision) == [revision |-> revision, attempts |-> 1, last |-> 0,
                     solved |-> 0, answer |-> Null]

Stage == {"idle",
          "submitted",  (* SubmitAnswer: before its SELECT                  *)
          "counting",   (* about to count the attempt                       *)
          "counted",    (* the UPDATE holds the write lock, before Commit   *)
          "storing",    (* about to store a legacy row's answer             *)
          "stored",     (* likewise                                         *)
          "reporting"}  (* ChallengeState                                   *)

Writing == {"counted", "stored"}

Guess == [question : Question, answer : Answer, at : Nat]

Init ==
  /\ now = 0
  /\ manifest \in Manifests
  /\ progress \in {[q \in Question |-> Null],
                   [q \in Question |-> IF manifest[q] > 0
                                        THEN Legacy(manifest[q])
                                        ELSE Null]}
  /\ earned = {<<q, manifest[q]>> : q \in {p \in Question : progress[p] # Null}}
  /\ challenge = Nothing
  /\ phase = "loading"
  /\ stage    = [r \in Request |-> "idle"]
  /\ guess    = [r \in Request |-> Null]
  /\ stale    = {}
  /\ pending  = [r \in Request |-> {}]
  /\ found    = [r \in Request |-> {}]
  /\ disclosed = {}

-----------------------------------------------------------------------------
(* Starting                                                                *)

(* Mutant: ON CONFLICT DO NOTHING.                                         *)
InsertedRow(q) ==
  IF manifest[q] = 0 THEN Null
  ELSE IF progress[q] = Null THEN Empty(manifest[q])
  ELSE progress[q]

(* Mutant: ON CONFLICT only takes over the revision.                       *)
RevisedRow(q) ==
  IF manifest[q] = 0 THEN Null
  ELSE IF progress[q] = Null THEN Empty(manifest[q])
  ELSE [progress[q] EXCEPT !.revision = manifest[q]]

(* The transaction of ConfigureChallenge: insert what is new, reset what   *)
(* carries another revision, delete what is not listed any more.           *)
ConfiguredRow(q) ==
  IF manifest[q] = 0 THEN Null
  ELSE IF progress[q] = Null THEN Empty(manifest[q])
  ELSE IF progress[q].revision # manifest[q] THEN Empty(manifest[q])
  ELSE progress[q]

ConfigureChallenge ==
  /\ phase = "loading"
  /\ progress' = [q \in Question |-> ConfiguredRow(q)]
  /\ phase' = "configured"
  /\ UNCHANGED <<now, manifest, challenge, stage, guess, stale, report, disclosed,
                 earned>>

(* The end of ConfigureChallenge: the definition replaces the one in       *)
(* memory. Then the deployment is loaded, and RefreshCatalog opens the     *)
(* routes that whenReady kept closed.                                      *)
Publish ==
  /\ phase = "configured"
  /\ challenge' = manifest
  /\ phase' = "published"
  /\ UNCHANGED <<now, store, manifest, stage, guess, stale, report, disclosed>>

RefreshCatalog ==
  /\ phase = "published"
  /\ phase' = "ready"
  /\ UNCHANGED <<now, store, manifest, challenge, stage, guess, stale, report,
                 disclosed>>

(* The process ends, at any point, and another opens the database. SQLite  *)
(* rolls back what was not committed; every request in flight is lost.     *)
Restart(m) ==
  /\ manifest' = m
  /\ challenge' = Nothing
  /\ phase' = "loading"
  /\ stage' = [r \in Request |-> "idle"]
  /\ stale' = {}
  /\ pending' = [r \in Request |-> {}]
  /\ found' = [r \in Request |-> {}]
  /\ guess' = [r \in Request |-> Null]
  /\ UNCHANGED <<now, store, disclosed>>

Tick ==
  /\ now < MaxTime
  /\ now' = now + 1
  /\ UNCHANGED <<store, boot, stage, guess, stale, report, disclosed>>

-----------------------------------------------------------------------------
(* Handlers                                                                *)

(* The request ends, answered or not: its transaction, if it is open, is   *)
(* rolled back.                                                            *)
End(r) ==
  /\ stage' = [stage EXCEPT ![r] = "idle"]
  /\ guess' = [guess EXCEPT ![r] = Null]
  /\ stale' = stale \ {r}
  /\ pending' = [pending EXCEPT ![r] = {}]
  /\ found' = [found EXCEPT ![r] = {}]

(* ChallengeState starts on its own copy of the definition.                *)
Report(r) ==
  /\ stage' = [stage EXCEPT ![r] = "reporting"]
  /\ guess' = [guess EXCEPT ![r] = Null]
  /\ pending' = [pending EXCEPT ![r] = Listed(challenge)]
  /\ found' = [found EXCEPT ![r] = {}]

(* POST /api/questions/{id}/answer, up to BeginTx. A question that is not  *)
(* listed is answered 404 and changes nothing.                             *)
Submit(r, q, a) ==
  /\ phase = "ready"
  /\ stage[r] = "idle"
  /\ q \in Listed(challenge)
  /\ stage' = [stage EXCEPT ![r] = "submitted"]
  /\ guess' = [guess EXCEPT ![r] = [question |-> q, answer |-> a, at |-> now]]
  /\ disclosed' = disclosed \ {r}
  /\ UNCHANGED <<now, store, boot, stale, report>>

(* GET /api/questions.                                                     *)
Questions(r) ==
  /\ phase = "ready"
  /\ stage[r] = "idle"
  /\ Report(r)
  /\ disclosed' = disclosed \ {r}
  /\ UNCHANGED <<now, store, boot, stale>>

(* The loop of cooldownAfter: the base cooldown, doubled while it is below *)
(* the cap.                                                                *)
doubled[n \in Nat] ==
  IF n = 0 THEN Cooldown
  ELSE LET cooldown == doubled[n - 1]
       IN  IF cooldown > 0 /\ cooldown < MaxCooldown THEN 2 * cooldown
                                                     ELSE cooldown

(* Mutant: the loop begins one attempt too late.                           *)
cooldownAfterLate(attempts) ==
  LET cooldown == doubled[IF attempts > FreeAttempts + 1
                            THEN attempts - FreeAttempts - 1 ELSE 0]
  IN  IF MaxCooldown > Cooldown /\ cooldown > MaxCooldown THEN MaxCooldown
                                                          ELSE cooldown

(* The wait after a question's attempts wrong answers.                     *)
cooldownAfter(attempts) ==
  LET cooldown == doubled[IF attempts > FreeAttempts
                            THEN attempts - FreeAttempts ELSE 0]
  IN  IF MaxCooldown > Cooldown /\ cooldown > MaxCooldown THEN MaxCooldown
                                                          ELSE cooldown

(* What remains of the cooldown of a question at a time.                   *)
Remaining(row, time) == cooldownAfter(row.attempts) - (time - row.last)

(* Set to zero, the cooldown is off, whatever order the handlers read the  *)
(* clock in.                                                               *)
Limited(row) == row.last # Null /\ cooldownAfter(row.attempts) > 0

Cooling(row, time) == Limited(row) /\ Remaining(row, time) > 0

ReadSolvedAccepting(answers, r) ==
  LET row == progress[guess[r].question] IN
  /\ stage[r] = "submitted"
  /\ row.solved # Null
  /\ IF row.answer = Null /\ guess[r].answer \in answers
       THEN /\ stage' = [stage EXCEPT ![r] = "storing"]
            /\ UNCHANGED <<guess, report>>
       ELSE Report(r)
  /\ UNCHANGED <<now, store, boot, stale, disclosed>>

(* Mutant: the missing answer of a solved question is stored unchecked.    *)
ReadSolvedUnchecked(r) == ReadSolvedAccepting(Answer, r)

(* The SELECT of SubmitAnswer on a question that is solved. A legacy row   *)
(* keeps its transaction open when the answer is right, to store it.       *)
ReadSolved(r) == ReadSolvedAccepting(Accepted, r)

(* The SELECT on an open question: 429 while it cools down, otherwise the  *)
(* transaction goes on to count the attempt.                               *)
ReadOpen(r) ==
  LET row == progress[guess[r].question] IN
  /\ stage[r] = "submitted"
  /\ row.solved = Null
  /\ IF Cooling(row, guess[r].at)
       THEN End(r)
       ELSE /\ stage' = [stage EXCEPT ![r] = "counting"]
            /\ UNCHANGED <<guess, stale, report>>
  /\ UNCHANGED <<now, store, boot, disclosed>>

Locked == \E r \in Request : stage[r] \in Writing

WriteIf(r, writable) ==
  /\ stage[r] \in {"counting", "storing"}
  /\ IF writable
       THEN /\ stage' = [stage EXCEPT ![r] = IF @ = "counting" THEN "counted"
                                                              ELSE "stored"]
            /\ UNCHANGED <<guess, stale, report>>
       ELSE End(r)
  /\ UNCHANGED <<now, store, boot, disclosed>>

(* Mutant: the SELECT is made outside the transaction.                     *)
WriteUnlessLocked(r) == WriteIf(r, ~Locked)

(* The UPDATE takes the write lock, or fails and the answer is a 500.      *)
Write(r) == WriteIf(r, ~Locked /\ r \notin stale)

(* The row after the UPDATE that counts an attempt. COALESCE keeps what a   *)
(* wrong answer does not set.                                              *)
Counted(row, g) ==
  [revision |-> row.revision,
   attempts |-> row.attempts + 1,
   last     |-> g.at,
   solved   |-> IF g.answer \in Accepted THEN g.at ELSE row.solved,
   answer   |-> IF g.answer \in Accepted THEN g.answer ELSE row.answer]

(* The row after the UPDATE that stores the answer of a solved question.   *)
Answered(row, g) ==
  [revision |-> row.revision, attempts |-> row.attempts, last |-> row.last,
   solved |-> row.solved, answer |-> g.answer]

(* Commit, after which every transaction that is still between its SELECT  *)
(* and its UPDATE reads an old snapshot.                                   *)
Commit(r) ==
  LET g == guess[r] IN
  /\ stage[r] \in Writing
  /\ progress' = [progress EXCEPT ![g.question] =
                    IF stage[r] = "counted" THEN Counted(@, g)
                                            ELSE Answered(@, g)]
  /\ earned' = IF g.answer \in Accepted
                 THEN earned \cup {<<g.question, challenge[g.question]>>}
                 ELSE earned
  /\ stale' = {x \in Request : stage[x] \in {"counting", "storing"}}
  /\ Report(r)
  /\ UNCHANGED <<now, boot, disclosed>>

(* ChallengeState: one SELECT per question, each on its own.               *)
ReadQuestion(r, q) ==
  /\ stage[r] = "reporting"
  /\ q \in pending[r]
  /\ pending' = [pending EXCEPT ![r] = @ \ {q}]
  /\ found' = [found EXCEPT ![r] = IF progress[q].solved # Null
                                     THEN @ \cup {q} ELSE @]
  /\ UNCHANGED <<now, store, boot, stage, guess, stale, disclosed>>

(* The state is complete; it carries the flag when every question of the   *)
(* definition was found solved, and there is one.                          *)
AnswerState(r) ==
  /\ stage[r] = "reporting"
  /\ pending[r] = {}
  /\ disclosed' = IF found[r] = Listed(challenge) /\ found[r] # {}
                    THEN disclosed \cup {r} ELSE disclosed
  /\ End(r)
  /\ UNCHANGED <<now, store, boot>>

(* The client goes away: r.Context() ends, and with it the transaction.    *)
Disconnect(r) ==
  /\ stage[r] # "idle"
  /\ End(r)
  /\ UNCHANGED <<now, store, boot, disclosed>>

-----------------------------------------------------------------------------

Handle(r) ==
  \/ \E q \in Question, a \in Answer : Submit(r, q, a)
  \/ Questions(r)
  \/ ReadSolved(r)
  \/ ReadOpen(r)
  \/ Write(r)
  \/ Commit(r)
  \/ \E q \in Question : ReadQuestion(r, q)
  \/ AnswerState(r)
  \/ Disconnect(r)

Next ==
  \/ ConfigureChallenge
  \/ Publish
  \/ RefreshCatalog
  \/ \E m \in Manifests : Restart(m)
  \/ Tick
  \/ \E r \in Request : Handle(r)

Spec == Init /\ [][Next]_vars

-----------------------------------------------------------------------------
(* Properties                                                              *)

TypeOK ==
  /\ now \in Nat
  /\ progress \in [Question -> Row \cup {Null}]
  /\ manifest \in Manifests
  /\ challenge \in Manifests \cup {Nothing}
  /\ phase \in {"loading", "configured", "published", "ready"}
  /\ stage \in [Request -> Stage]
  /\ guess \in [Request -> Guess \cup {Null}]
  /\ stale \subseteq Request
  /\ pending \in [Request -> SUBSET Question]
  /\ found \in [Request -> SUBSET Question]
  /\ disclosed \subseteq Request
  /\ earned \subseteq (Question \X Nat)

Same(row, next) == /\ row # Null
                   /\ next # Null
                   /\ next.revision = row.revision

(* What the comments of ChallengeDefinition and escalationFreeAttempts say *)
(* of the wait after a number of attempts: each beyond the free ones       *)
(* doubles it, up to a cap, which does nothing at or below the cooldown.   *)
Escalated(attempts) ==
  LET grown == Cooldown * 2 ^ (attempts - FreeAttempts)
  IN  IF attempts <= FreeAttempts \/ MaxCooldown <= Cooldown THEN Cooldown
      ELSE IF grown < MaxCooldown THEN grown ELSE MaxCooldown

(* "Concurrent guesses cannot bypass the submission cooldown": whichever   *)
(* handlers run at the same time and whatever they read before they wrote, *)
(* attempts on a question are counted one by one, each at least the whole  *)
(* cooldown that the attempts before it deserve after the last. Set to     *)
(* zero, there is none, whatever order the handlers read the clock in.     *)
CooldownHolds ==
  [][\A q \in Question :
       LET row == progress[q]  next == progress'[q]
           wait == Escalated(row.attempts)
       IN  Same(row, next) /\ next.attempts # row.attempts
             => /\ next.attempts = row.attempts + 1
                /\ row.last # Null /\ wait > 0 => next.last - row.last >= wait]_vars

(* Progress is not lost: a question stays solved, from the time it was     *)
(* solved and with the answer that solved it, across concurrent            *)
(* submissions and restarts, until its revision changes or it is removed.  *)
SolvedStays ==
  [][\A q \in Question :
       LET row == progress[q]  next == progress'[q] IN
       Same(row, next) /\ row.solved # Null
         => /\ next.solved = row.solved
            /\ row.answer # Null => next.answer = row.answer]_vars

(* The flag is disclosed only to a state in which every question of the    *)
(* challenge being served was answered correctly, at its present revision, *)
(* and still is solved, although its rows are read one at a time.          *)
FlagEarned ==
  [][disclosed' \ disclosed # {}
       => /\ Listed(challenge) # {}
          /\ \A q \in Listed(challenge) :
               /\ <<q, challenge[q]>> \in earned
               /\ progress[q].solved # Null]_vars

(* A handler always finds the rows of the definition it was given, at the  *)
(* revisions of it, however the process before it ended: neither of the    *)
(* "progress is unavailable" errors can be met.                            *)
ProgressAvailable ==
  phase = "ready" =>
    \A q \in Question :
      IF q \in Listed(challenge)
        THEN progress[q] # Null /\ progress[q].revision = challenge[q]
        ELSE progress[q] = Null

-----------------------------------------------------------------------------
(* The handlers implement an investigation without any: a guess is taken   *)
(* where its transaction commits, and the flag told where ChallengeState   *)
(* has read its last question.                                             *)
Shared == INSTANCE Investigation WITH
  rows <- progress, served <- challenge, told <- disclosed,
  Wait <- cooldownAfter

(* However submissions, reports, restarts and disconnects interleave, the  *)
(* rows, the definition and the flag behave as if every guess of           *)
(* SubmitAnswer were checked and counted in one step, and every state of   *)
(* ChallengeState read in one.                                             *)
OneAtATime == Shared!Spec

=============================================================================

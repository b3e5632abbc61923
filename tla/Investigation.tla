--------------------------- MODULE Investigation ----------------------------
(***************************************************************************)
(* What internal/database/questions.go promises of the investigation that  *)
(* all clients share, without its transactions, its handlers and the order *)
(* in which they read and write:                                           *)
(*                                                                         *)
(*   - guesses are taken one at a time: each is held against the row as it *)
(*     is when it counts, and is counted, in a single step;                *)
(*   - rows change by a guess, or with a new manifest while nothing is     *)
(*     served, and what is served has the rows it needs;                   *)
(*   - whoever is told the flag is told while every question is solved.    *)
(*                                                                         *)
(* Challenge is shown to implement this specification, and states what is  *)
(* assumed of the constants.                                               *)
(***************************************************************************)
EXTENDS Integers

CONSTANTS
  Question,
  Request,    (* those who ask                                             *)
  Accepted,
  Manifests,  (* the revision of each question, 0 when it is not listed    *)
  Null,
  Wait(_)     (* the cooldown after so many attempts                       *)

VARIABLES
  now,
  rows,    (* the row of each question, or Null                            *)
  served,  (* the manifest that is served                                  *)
  told     (* the requests whose answer carried the flag                   *)

vars == <<now, rows, served, told>>

Nothing == [q \in Question |-> 0]
Listed == {q \in Question : served[q] > 0}

Row == [revision : Nat, attempts : Nat, last : Nat \cup {Null},
        solved : Nat \cup {Null}, answer : Accepted \cup {Null}]

(* The database may be that of an earlier process.                         *)
Init ==
  /\ now = 0
  /\ rows \in [Question -> Row \cup {Null}]
  /\ served = Nothing
  /\ told = {}

-----------------------------------------------------------------------------

Fresh(revision) ==
  [revision |-> revision, attempts |-> 0, last |-> Null, solved |-> Null,
   answer |-> Null]

(* A manifest keeps the rows of its own revisions, and no other.           *)
Fits(row, revision) ==
  IF revision = 0 THEN row = Null ELSE row # Null /\ row.revision = revision

Configure(m) ==
  /\ served = Nothing
  /\ rows' = [q \in Question |->
                IF Fits(rows[q], m[q]) THEN rows[q]
                ELSE IF m[q] = 0 THEN Null ELSE Fresh(m[q])]
  /\ UNCHANGED <<now, served, told>>

Serve(m) ==
  /\ served = Nothing
  /\ \A q \in Question : Fits(rows[q], m[q])
  /\ served' = m
  /\ UNCHANGED <<now, rows, told>>

Stop ==
  /\ served' = Nothing
  /\ UNCHANGED <<now, rows, told>>

Tick ==
  /\ now' = now + 1
  /\ UNCHANGED <<rows, served, told>>

-----------------------------------------------------------------------------

Open(q) == q \in Listed /\ rows[q].solved = Null
Solved(q) == rows[q].solved # Null

Waited(row, at) ==
  \/ row.last = Null
  \/ Wait(row.attempts) = 0
  \/ at - row.last >= Wait(row.attempts)

(* What a guess makes of a row that does not cool down: it is counted at   *)
(* the time it was made, and a right one solves the question.              *)
Counts(row, next) ==
  /\ next \in Row
  /\ next.revision = row.revision
  /\ next.attempts = row.attempts + 1
  /\ next.last \in 0..now /\ Waited(row, next.last)
  /\ \/ next.solved = Null /\ next.answer = row.answer
     \/ next.solved = next.last /\ next.answer \in Accepted

Take(q) ==
  /\ Open(q)
  /\ Counts(rows[q], rows'[q])
  /\ rows' = [rows EXCEPT ![q] = rows'[q]]
  /\ UNCHANGED <<now, served, told>>

(* A question solved without its answer on record is given it.             *)
Recall(q) ==
  /\ q \in Listed /\ Solved(q) /\ rows[q].answer = Null
  /\ \E a \in Accepted : rows' = [rows EXCEPT ![q].answer = a]
  /\ UNCHANGED <<now, served, told>>

Tell(r) ==
  /\ Listed # {} /\ \A q \in Listed : Solved(q)
  /\ told' = told \cup {r}
  /\ UNCHANGED <<now, rows, served>>

AskAgain(r) ==
  /\ told' = told \ {r}
  /\ UNCHANGED <<now, rows, served>>

-----------------------------------------------------------------------------

Next ==
  \/ Tick \/ Stop
  \/ \E m \in Manifests : Configure(m) \/ Serve(m)
  \/ \E q \in Question : Take(q) \/ Recall(q)
  \/ \E r \in Request : Tell(r) \/ AskAgain(r)

Spec == Init /\ [][Next]_vars
=============================================================================

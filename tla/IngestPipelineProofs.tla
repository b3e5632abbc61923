------------------------ MODULE IngestPipelineProofs ------------------------
(***************************************************************************)
(* For any number of workers and any input: the parallel import of Import  *)
(* returns what importing one record after the other would, discovery runs *)
(* while no record is with a worker, and decoding stays within its window. *)
(* Its goroutines never all wait for each other, and the steps they take   *)
(* are bounded. Last, the columns that a table gives the fields of its     *)
(* records: none is given to two of them.                                  *)
(***************************************************************************)
EXTENDS IngestPipeline, FieldColumns, FiniteSetTheorems, SequenceTheorems,
        WellFoundedInduction, TLAPS

-----------------------------------------------------------------------------
(* The invariant                                                           *)

(* The decoding goroutine has the last record it decoded in hand.          *)
InHand == stage \in {"consuming", "collecting", "discovering", "submitting"}

Released == IF InHand THEN decoded - 1 ELSE decoded

(* A record that has been submitted and whose result was not received.     *)
InFlight(i) ==
  \/ \E n \in 1..Len(jobs) : jobs[n] = i
  \/ \E n \in 1..Len(results) : results[n] = i
  \/ \E w \in Worker : held[w] = i

Busy == {w \in Worker : held[w] # 0}

Load == Len(jobs) + Len(results) + Cardinality(Busy)

(* Every job in flight is counted; a worker that leaves with one makes the *)
(* count too large for good, so that nothing waits for it to become zero   *)
(* but the end of the context or an error.                                 *)
Counted ==
  /\ Load <= pendingJobs
  /\ pendingJobs <= Released
  /\ \A i \in 1..Last : InFlight(i) => i <= Released

(* What is written are the records below nextRecord, in order.             *)
InOrder ==
  /\ \A i \in 1..Last : i < nextRecord => input.fate[i] = "good"
  /\ nextRecord \notin buffered
  /\ stage # "returned" =>
       /\ Len(rows) + Len(batch) = nextRecord - 1
       /\ \A i \in 1..Len(rows) : rows[i] = i
       /\ \A i \in 1..Len(batch) : batch[i] = Len(rows) + i

(* Every record from the next one to n waits in buffered or is in flight.  *)
AccountedUpTo(n) ==
  \A i \in 1..Last : nextRecord <= i /\ i <= n => i \in buffered \/ InFlight(i)

(* The record that stopped the import: the next one to write, which fails. *)
Stuck ==
  nextRecord <= Last /\ input.fate[nextRecord] # "good"
    /\ decodeErr = Record(nextRecord)

(* No record is lost unless the import is bound to fail; where decoding    *)
(* stopped at a record that is not the next one, those before it are there.*)
Accounted ==
  \/ Load < pendingJobs
  \/ Stuck
  \/ decodeErr = Cancelled
  \/ /\ decodeErr = Stopped
     /\ \E j \in buffered : input.fate[j] # "good" /\ AccountedUpTo(j)
  \/ decodeErr \in {Nil, DecodeError} /\ AccountedUpTo(Released)

(* What the error of decoding means, and when there is none.               *)
ErrorMeaning ==
  /\ decodeErr \in {Nil, DecodeError, Cancelled, Stopped} \/ Stuck
  /\ InHand \/ stage = "decoding" => decodeErr = Nil
  /\ decodeErr = Cancelled => cancelled
  /\ decodeErr = DecodeError => ~input.decodes /\ decoded = Last
  /\ decodeErr = Nil /\ stage \in {"draining", "finishing"} =>
       input.decodes /\ decoded = Last
  /\ stage = "finishing" => pendingJobs = 0 \/ Stuck \/ decodeErr = Cancelled

(* Discovery begins with nothing in flight, and within the window.         *)
Paced ==
  /\ stage = "discovering" => pendingJobs = 0
  /\ stage \in {"decoding", "collecting", "submitting", "discovering"} =>
       decoded - nextRecord <= Window

IInv ==
  /\ TypeOK
  /\ Counted
  /\ InOrder
  /\ Accounted
  /\ ErrorMeaning
  /\ Paced
  /\ LikeSequential

-----------------------------------------------------------------------------
(* Lemmas on inputs and numbers                                            *)

LEMMA InputFacts ==
  ASSUME input \in Inputs
  PROVE  /\ input.fate \in Seq(Fate) /\ Last \in Nat
         /\ \A r \in 1..Last : input.fate[r] \in Fate
         /\ input.decodes \in BOOLEAN
BY IngestAssumption DEF IsInput, Last

LEMMA WholeBatches ==
  ASSUME NEW a \in Nat, NEW b \in Nat \ {0}
  PROVE  (a \div b) * b \in 0..a
OBVIOUS

LEMMA LeastNatural ==
  ASSUME NEW S, S \subseteq Nat, S # {}
  PROVE  \E k \in S : \A j \in S : k <= j
<1>1. PICK k \in S : \A j \in S : ~(<<j, k>> \in OpToRel(<, Nat))
  BY NatLessThanWellFounded, WFMin
<1>2. \A j \in S : ~(j < k)
  BY <1>1 DEF OpToRel
<1>3. \A j \in S : k <= j
  BY <1>2
<1> QED BY <1>3

LEMMA CapacityFacts ==
  workerCount \in Nat /\ workerCount > 0 /\ Capacity \in Nat /\ Window \in Nat
BY IngestAssumption, FS_CardinalityType, FS_EmptySet
   DEF workerCount, Capacity, Window

(* Where acceptResult stops.                                               *)
LEMMA StopFacts ==
  ASSUME TypeOK, NEW arrived \in SUBSET (1..Last)
  PROVE  /\ StopIndex(arrived) \in nextRecord..(Last + 1)
         /\ \/ StopIndex(arrived) \notin arrived
            \/ input.fate[StopIndex(arrived)] # "good"
         /\ \A i \in nextRecord..(StopIndex(arrived) - 1) :
              i \in arrived /\ input.fate[i] = "good"
<1> DEFINE S == {k \in nextRecord..(Last + 1) :
                   k \notin arrived \/ input.fate[k] # "good"}
<1>1. Last \in Nat /\ nextRecord \in 1..(Last + 1)
  BY InputFacts DEF TypeOK
<1>2. Last + 1 \in S /\ S \subseteq Nat
  BY <1>1
<1>3. PICK k \in S : \A j \in S : k <= j
  BY <1>2, LeastNatural
<1>4. /\ k \in nextRecord..(Last + 1)
      /\ k \notin arrived \/ input.fate[k] # "good"
      /\ \A i \in nextRecord..(k - 1) : i \in arrived /\ input.fate[i] = "good"
  BY <1>1, <1>3
<1> QED BY <1>4 DEF StopIndex

-----------------------------------------------------------------------------
(* Lemmas on what is in flight                                             *)

LEMMA LoadFacts ==
  ASSUME TypeOK
  PROVE  /\ IsFiniteSet(Busy) /\ Cardinality(Busy) \in Nat /\ Load \in Nat
         /\ Len(jobs) \in Nat /\ Len(results) \in Nat
<1>1. IsFiniteSet(Busy) /\ Cardinality(Busy) \in Nat
  BY IngestAssumption, FS_Subset, FS_CardinalityType DEF Busy
<1>2. Len(jobs) \in Nat /\ Len(results) \in Nat
  BY DEF TypeOK
<1> QED BY <1>1, <1>2 DEF Load

(* No load means that no record is in flight.                              *)
LEMMA NothingInFlight ==
  ASSUME TypeOK, Load = 0
  PROVE  /\ jobs = <<>> /\ results = <<>>
         /\ \A w \in Worker : held[w] = 0
         /\ \A i \in 1..Last : ~InFlight(i)
<1>1. Len(jobs) = 0 /\ Len(results) = 0 /\ Cardinality(Busy) = 0
  BY LoadFacts DEF Load
<1>2. Busy = {}
  BY <1>1, LoadFacts, FS_EmptySet
<1>3. jobs = <<>> /\ results = <<>>
  BY <1>1 DEF TypeOK
<1>4. \A w \in Worker : held[w] = 0
  BY <1>2 DEF Busy
<1> QED BY <1>1, <1>3, <1>4 DEF InFlight

-----------------------------------------------------------------------------
(* Lemmas on accepting a result                                            *)

(* The indexes from a on, b of them.                                       *)
LEMMA IndexesFrom ==
  ASSUME NEW m \in Nat, NEW a \in Nat \ {0}, NEW b \in Nat, a + b - 1 <= m
  PROVE  /\ [j \in 1..b |-> a + j - 1] \in Seq(1..m)
         /\ Len([j \in 1..b |-> a + j - 1]) = b
         /\ \A j \in 1..b : [i \in 1..b |-> a + i - 1][j] = a + j - 1
<1> DEFINE f == [j \in 1..b |-> a + j - 1]
<1>1. \A j \in 1..b : a + j - 1 \in 1..m
  OBVIOUS
<1>2. f \in [1..b -> 1..m]
  BY <1>1
<1>3. f \in Seq(1..m)
  BY <1>2, SeqDef, Zenon
<1>4. DOMAIN f = 1..b
  OBVIOUS
<1>5. Len(f) \in Nat /\ DOMAIN f = 1..Len(f)
  BY <1>3, LenProperties
<1>6. Len(f) = b
  BY <1>4, <1>5
<1> QED BY <1>3, <1>6

(* Numbers written in order stay so when all that fills batches moves over *)
LEMMA MovedInOrder ==
  ASSUME NEW m \in Nat, NEW r \in Seq(1..m), NEW e \in Seq(1..m),
         NEW full \in 0..Len(e),
         \A n \in 1..Len(r) : r[n] = n,
         \A n \in 1..Len(e) : e[n] = Len(r) + n
  PROVE  LET r2 == r \o SubSeq(e, 1, full)
             b2 == SubSeq(e, full + 1, Len(e)) IN
         /\ r2 \in Seq(1..m) /\ b2 \in Seq(1..m)
         /\ Len(r2) + Len(b2) = Len(r) + Len(e)
         /\ \A n \in 1..Len(r2) : r2[n] = n
         /\ \A n \in 1..Len(b2) : b2[n] = Len(r2) + n
<1> DEFINE p == SubSeq(e, 1, full)
           r2 == r \o SubSeq(e, 1, full)
           b2 == SubSeq(e, full + 1, Len(e))
<1>1. Len(r) \in Nat /\ Len(e) \in Nat /\ full \in Nat /\ full <= Len(e)
  BY LenProperties
<1>2. \A n \in 1..Len(e) : e[n] \in 1..m
  BY ElementOfSeq
<1>3. /\ p \in Seq(1..m) /\ Len(p) = full
      /\ \A n \in 1..full : p[n] = e[n]
  <2>1. \A n \in 1..full : e[n] \in 1..m
    BY <1>1, <1>2
  <2>2. /\ p \in Seq(1..m)
        /\ Len(p) = IF 1 <= full THEN full - 1 + 1 ELSE 0
        /\ \A n \in 1..(full - 1 + 1) : p[n] = e[1 + n - 1]
    BY <1>1, <2>1, SubSeqProperties
  <2> HIDE DEF p
  <2> QED BY <1>1, <2>2
<1>4. /\ b2 \in Seq(1..m) /\ Len(b2) = Len(e) - full
      /\ \A n \in 1..Len(b2) : b2[n] = e[full + n]
  <2>1. full + 1 \in Int /\ Len(e) \in Int
        /\ \A n \in (full + 1)..Len(e) : e[n] \in 1..m
    BY <1>1, <1>2
  <2>2. /\ b2 \in Seq(1..m)
        /\ Len(b2) = IF full + 1 <= Len(e) THEN Len(e) - (full + 1) + 1 ELSE 0
        /\ \A n \in 1..(Len(e) - (full + 1) + 1) : b2[n] = e[(full + 1) + n - 1]
    BY <2>1, SubSeqProperties
  <2> HIDE DEF b2
  <2> QED BY <1>1, <2>2
<1> HIDE DEF p
<1>5. /\ r2 \in Seq(1..m) /\ Len(r2) = Len(r) + full
      /\ \A n \in 1..(Len(r) + full) :
           r2[n] = IF n <= Len(r) THEN r[n] ELSE p[n - Len(r)]
  BY <1>3, ConcatProperties DEF p
<1> HIDE DEF r2, b2
<1>6. ASSUME NEW n \in 1..Len(r2)
      PROVE  r2[n] = n
  <2>1. CASE n <= Len(r)
    BY <1>1, <1>5, <2>1
  <2>2. CASE n > Len(r)
    <3>1. n \in Nat /\ n - Len(r) \in 1..full /\ n - Len(r) \in 1..Len(e)
      BY <1>1, <1>5, <2>2
    <3>2. r2[n] = e[n - Len(r)]
      BY <1>1, <1>3, <1>5, <2>2, <3>1
    <3>3. r2[n] = Len(r) + (n - Len(r))
      BY <3>1, <3>2
    <3> QED BY <1>1, <3>1, <3>3
  <2> QED BY <1>1, <1>5, <2>1, <2>2
<1>7. ASSUME NEW n \in 1..Len(b2)
      PROVE  b2[n] = Len(r2) + n
  <2>1. full + n \in 1..Len(e)
    BY <1>1, <1>4
  <2>2. b2[n] = Len(r) + (full + n)
    BY <1>4, <2>1
  <2> QED BY <1>1, <1>5, <2>1, <2>2
<1>8. Len(r2) + Len(b2) = Len(r) + Len(e)
  BY <1>1, <1>4, <1>5
<1>9. /\ r2 \in Seq(1..m) /\ b2 \in Seq(1..m)
      /\ Len(r2) + Len(b2) = Len(r) + Len(e)
      /\ \A n \in 1..Len(r2) : r2[n] = n
      /\ \A n \in 1..Len(b2) : b2[n] = Len(r2) + n
  BY <1>4, <1>5, <1>6, <1>7, <1>8
<1> QED BY <1>9 DEF r2, b2

(* What acceptResult writes continues what is written, in order.           *)
LEMMA WrittenInOrder ==
  ASSUME TypeOK, InOrder, stage # "returned",
         NEW k \in nextRecord..(Last + 1), NEW arrived, WriteUpTo(k, arrived)
  PROVE  /\ rows' \in Seq(1..Last) /\ batch' \in Seq(1..Last)
         /\ Len(rows') + Len(batch') = nextRecord' - 1
         /\ \A n \in 1..Len(rows') : rows'[n] = n
         /\ \A n \in 1..Len(batch') : batch'[n] = Len(rows') + n
<1> DEFINE more == [j \in 1..(k - nextRecord) |-> nextRecord + j - 1]
           events == batch \o more
           full == (Len(events) \div BatchSize) * BatchSize
<1>1. Last \in Nat /\ nextRecord \in 1..(Last + 1) /\ k \in nextRecord..(Last + 1)
  BY InputFacts DEF TypeOK
<1>2. /\ nextRecord' = k
      /\ rows' = rows \o SubSeq(events, 1, full)
      /\ batch' = SubSeq(events, full + 1, Len(events))
  BY DEF WriteUpTo, Written
<1>3. /\ rows \in Seq(1..Last) /\ batch \in Seq(1..Last)
      /\ Len(rows) + Len(batch) = nextRecord - 1
      /\ \A n \in 1..Len(rows) : rows[n] = n
      /\ \A n \in 1..Len(batch) : batch[n] = Len(rows) + n
  BY DEF TypeOK, InOrder
<1>4. Len(rows) \in Nat /\ Len(batch) \in Nat
  BY <1>3, LenProperties
<1>5. k - nextRecord \in Nat
      /\ nextRecord \in Nat \ {0} /\ nextRecord + (k - nextRecord) - 1 <= Last
  BY <1>1
<1>6. /\ more \in Seq(1..Last) /\ Len(more) = k - nextRecord
      /\ \A j \in 1..(k - nextRecord) : more[j] = nextRecord + j - 1
  BY <1>1, <1>5, IndexesFrom
<1> HIDE DEF more
<1>7. /\ events \in Seq(1..Last)
      /\ Len(events) = Len(batch) + Len(more)
      /\ \A n \in 1..(Len(batch) + Len(more)) :
           events[n] = IF n <= Len(batch) THEN batch[n] ELSE more[n - Len(batch)]
  BY <1>3, <1>6, ConcatProperties
<1> HIDE DEF events
<1>8. ASSUME NEW n \in 1..Len(events)
      PROVE  events[n] = Len(rows) + n
  <2>1. CASE n <= Len(batch)
    BY <1>3, <1>4, <1>6, <1>7, <1>1, <2>1
  <2>2. CASE n > Len(batch)
    <3>1. n - Len(batch) \in 1..(k - nextRecord)
      BY <1>1, <1>4, <1>6, <1>7, <2>2
    <3>2. events[n] = nextRecord + (n - Len(batch)) - 1
      BY <1>1, <1>4, <1>6, <1>7, <2>2, <3>1
    <3>3. Len(rows) + Len(batch) = nextRecord - 1
      BY <1>3
    <3> QED BY <1>1, <1>4, <3>1, <3>2, <3>3
  <2> QED BY <1>1, <1>4, <1>6, <1>7, <2>1, <2>2
<1>9. Len(events) \in Nat /\ full \in 0..Len(events)
  BY <1>7, LenProperties, WholeBatches, IngestAssumption
<1> HIDE DEF full
<1>10. /\ rows' \in Seq(1..Last) /\ batch' \in Seq(1..Last)
       /\ Len(rows') + Len(batch') = Len(rows) + Len(events)
       /\ \A n \in 1..Len(rows') : rows'[n] = n
       /\ \A n \in 1..Len(batch') : batch'[n] = Len(rows') + n
  <2>1. LET r2 == rows \o SubSeq(events, 1, full)
            b2 == SubSeq(events, full + 1, Len(events)) IN
        /\ r2 \in Seq(1..Last) /\ b2 \in Seq(1..Last)
        /\ Len(r2) + Len(b2) = Len(rows) + Len(events)
        /\ \A n \in 1..Len(r2) : r2[n] = n
        /\ \A n \in 1..Len(b2) : b2[n] = Len(r2) + n
    <3>1. Last \in Nat /\ rows \in Seq(1..Last) /\ events \in Seq(1..Last)
          /\ full \in 0..Len(events)
      BY <1>1, <1>3, <1>7, <1>9
    <3>2. /\ \A n \in 1..Len(rows) : rows[n] = n
          /\ \A n \in 1..Len(events) : events[n] = Len(rows) + n
      BY <1>3, <1>8
    <3> QED BY <3>1, <3>2, MovedInOrder, ZenonT(60)
  <2> QED BY <1>2, <2>1
<1>11. Len(rows) + Len(events) = nextRecord' - 1
  <2>1. Len(rows) + Len(batch) = nextRecord - 1 /\ nextRecord' = k
        /\ Len(more) = k - nextRecord /\ Len(events) = Len(batch) + Len(more)
    BY <1>2, <1>3, <1>6, <1>7
  <2> QED BY <1>1, <1>4, <2>1
<1> QED BY <1>10, <1>11

(* What acceptResult leaves: an error is that of the next record; what is  *)
(* beyond the next record stays in buffered.                               *)
LEMMA AcceptFacts ==
  ASSUME TypeOK, InOrder, stage # "returned", NEW i \in 1..Last, Accept(i),
         UNCHANGED input
  PROVE  /\ nextRecord' \in nextRecord..(Last + 1)
         /\ nextRecord' \notin buffered' /\ buffered' \subseteq 1..Last
         /\ rows' \in Seq(1..Last) /\ batch' \in Seq(1..Last)
         /\ InOrder'
         /\ \A j \in buffered \cup {i} : j > nextRecord' => j \in buffered'
         /\ \/ /\ AcceptError(i) = Nil
               /\ nextRecord' \notin buffered \cup {i}
            \/ /\ AcceptError(i) = Record(nextRecord')
               /\ nextRecord' <= Last /\ input.fate[nextRecord'] # "good"
         /\ nextRecord <= Last /\ input.fate[nextRecord] # "good" =>
              nextRecord' = nextRecord
<1> DEFINE arrived == buffered \cup {i}
           k == StopIndex(arrived)
<1>1. Last \in Nat /\ nextRecord \in 1..(Last + 1) /\ Last' = Last
      /\ arrived \in SUBSET (1..Last)
  BY InputFacts DEF TypeOK, Last
<1>2. /\ k \in nextRecord..(Last + 1)
      /\ k \notin arrived \/ input.fate[k] # "good"
      /\ \A j \in nextRecord..(k - 1) : j \in arrived /\ input.fate[j] = "good"
  BY <1>1, StopFacts
<1>3. /\ WriteUpTo(k, arrived)
      /\ nextRecord' = k /\ buffered' = arrived \ (nextRecord..k)
  BY DEF Accept, WriteUpTo
<1>4. AcceptError(i) = IF k \in arrived THEN Record(k) ELSE Nil
  BY DEF AcceptError
<1> HIDE DEF k, arrived
<1>5. nextRecord' \notin buffered' /\ buffered' \subseteq 1..Last
  BY <1>1, <1>2, <1>3
<1>6. \A j \in 1..Last : j < nextRecord' => input.fate[j] = "good"
  BY <1>1, <1>2, <1>3 DEF InOrder
<1>7. InOrder'
  BY <1>1, <1>2, <1>3, <1>5, <1>6, WrittenInOrder DEF InOrder
<1>8. \A j \in arrived : j > nextRecord' => j \in buffered'
  BY <1>1, <1>2, <1>3
<1>9. \/ AcceptError(i) = Nil /\ nextRecord' \notin arrived
      \/ /\ AcceptError(i) = Record(nextRecord')
         /\ nextRecord' <= Last /\ input.fate[nextRecord'] # "good"
  BY <1>1, <1>2, <1>3, <1>4
<1>10. nextRecord <= Last /\ input.fate[nextRecord] # "good" =>
         nextRecord' = nextRecord
  BY <1>1, <1>2, <1>3
<1>11. rows' \in Seq(1..Last) /\ batch' \in Seq(1..Last)
  BY <1>2, <1>3, WrittenInOrder
<1> QED BY <1>2, <1>3, <1>5, <1>7, <1>8, <1>9, <1>10, <1>11 DEF arrived

(* A batch that cannot be inserted leaves what is written in order, too.   *)
LEMMA CancelledFacts ==
  ASSUME TypeOK, InOrder, stage # "returned", NEW i \in 1..Last,
         AcceptCancelled(i), UNCHANGED input
  PROVE  /\ cancelled
         /\ nextRecord' \in 1..(Last + 1) /\ buffered' \subseteq 1..Last
         /\ rows' \in Seq(1..Last) /\ batch' \in Seq(1..Last)
         /\ InOrder'
<1> DEFINE arrived == buffered \cup {i}
           stop == StopIndex(arrived)
<1>1. Last \in Nat /\ nextRecord \in 1..(Last + 1) /\ Last' = Last
      /\ arrived \in SUBSET (1..Last)
  BY InputFacts DEF TypeOK, Last
<1>2. PICK k \in arrived \cap (nextRecord..stop) :
        cancelled /\ WriteUpTo(k, arrived)
  BY DEF AcceptCancelled
<1>3. /\ stop \in nextRecord..(Last + 1)
      /\ \A j \in nextRecord..(stop - 1) : input.fate[j] = "good"
  BY <1>1, StopFacts
<1> HIDE DEF arrived, stop
<1>4. nextRecord' = k /\ buffered' = arrived \ (nextRecord..k)
  BY <1>2 DEF WriteUpTo
<1>5. k \in nextRecord..(Last + 1) /\ nextRecord' \in 1..(Last + 1)
  BY <1>1, <1>2, <1>3, <1>4
<1>6. nextRecord' \notin buffered' /\ buffered' \subseteq 1..Last
  BY <1>1, <1>2, <1>3, <1>4
<1>7. \A j \in 1..Last : j < nextRecord' => input.fate[j] = "good"
  BY <1>1, <1>2, <1>3, <1>4 DEF InOrder
<1>8. /\ rows' \in Seq(1..Last) /\ batch' \in Seq(1..Last)
      /\ Len(rows') + Len(batch') = nextRecord' - 1
      /\ \A n \in 1..Len(rows') : rows'[n] = n
      /\ \A n \in 1..Len(batch') : batch'[n] = Len(rows') + n
  BY <1>2, <1>5, WrittenInOrder
<1>9. InOrder'
  BY <1>1, <1>6, <1>7, <1>8 DEF InOrder
<1> QED BY <1>2, <1>5, <1>6, <1>8, <1>9

-----------------------------------------------------------------------------
(* Lemmas on the steps                                                     *)

LEMMA Errors ==
  /\ \A i : Record(i) \notin {Nil, DecodeError, NoEvents, StoreError, Cancelled,
                              Stopped, Running}
  /\ \A i, j : Record(i) = Record(j) => i = j
  /\ Nil \notin {DecodeError, NoEvents, StoreError, Cancelled, Stopped, Running}
  /\ DecodeError \notin {NoEvents, StoreError, Cancelled, Stopped, Running}
  /\ Cancelled \notin {NoEvents, StoreError, Stopped, Running}
  /\ Stopped \notin {NoEvents, StoreError, Running}
BY DEF Record, Nil, DecodeError, NoEvents, StoreError, Cancelled, Stopped, Running

LEMMA Numbers ==
  ASSUME IInv
  PROVE  /\ Last \in Nat /\ decoded \in 0..Last /\ Released \in 0..Last
         /\ Released <= decoded
         /\ InHand => decoded \in 1..Last /\ Released = decoded - 1
         /\ ~InHand => Released = decoded
         /\ nextRecord \in 1..(Last + 1) /\ pendingJobs \in 0..Last
         /\ Load \in Nat /\ Load <= pendingJobs /\ pendingJobs <= Released
         /\ Window \in Nat
<1>1. Last \in Nat /\ decoded \in 0..Last /\ pendingJobs \in 0..Last
      /\ nextRecord \in 1..(Last + 1)
  BY InputFacts DEF IInv, TypeOK
<1>2. Load \in Nat /\ Load <= pendingJobs /\ pendingJobs <= Released
  BY LoadFacts DEF IInv, Counted
<1>3. Released = IF InHand THEN decoded - 1 ELSE decoded
  BY DEF Released
<1> QED BY <1>1, <1>2, <1>3, CapacityFacts

(* A step that neither sends nor receives leaves what is in flight.        *)
LEMMA SameFlight ==
  ASSUME UNCHANGED <<jobs, results, held>>
  PROVE  /\ Load' = Load
         /\ \A j : InFlight(j)' <=> InFlight(j)
BY DEF Load, Busy, InFlight

(* What was in view, other than what is written now, remains so.           *)
KeptInView(i) ==
  \A l \in 1..Last :
    /\ nextRecord' <= l
    /\ l \in buffered \/ l = i \/ InFlight(l)
    => l \in buffered' \/ InFlight(l)'

(* How accepting the result of record i ends: at the next record's error,  *)
(* or with nothing lost and no failed record passed over.                  *)
Accepted(i) ==
  \/ /\ AcceptError(i) = Record(nextRecord')
     /\ nextRecord' <= Last /\ input.fate[nextRecord'] # "good"
  \/ /\ AcceptError(i) = Nil
     /\ KeptInView(i)
     /\ \A l \in buffered \cup {i} : input.fate[l] # "good" => l \in buffered'

LEMMA AcceptStep ==
  ASSUME IInv, stage # "returned", NEW i \in 1..Last, Accept(i),
         UNCHANGED input,
         \A j \in 1..Last : InFlight(j) => j = i \/ InFlight(j)'
  PROVE  /\ nextRecord' \in nextRecord..(Last + 1)
         /\ buffered' \subseteq 1..Last
         /\ rows' \in Seq(1..Last) /\ batch' \in Seq(1..Last)
         /\ InOrder'
         /\ Accepted(i)
         /\ nextRecord <= Last /\ input.fate[nextRecord] # "good" =>
              nextRecord' = nextRecord
<1>1. /\ nextRecord' \in nextRecord..(Last + 1)
      /\ nextRecord' \notin buffered' /\ buffered' \subseteq 1..Last
      /\ rows' \in Seq(1..Last) /\ batch' \in Seq(1..Last)
      /\ InOrder'
      /\ \A j \in buffered \cup {i} : j > nextRecord' => j \in buffered'
      /\ \/ /\ AcceptError(i) = Nil
            /\ nextRecord' \notin buffered \cup {i}
         \/ /\ AcceptError(i) = Record(nextRecord')
            /\ nextRecord' <= Last /\ input.fate[nextRecord'] # "good"
      /\ nextRecord <= Last /\ input.fate[nextRecord] # "good" =>
           nextRecord' = nextRecord
  BY AcceptFacts DEF IInv
<1>2. ASSUME AcceptError(i) = Nil, nextRecord' \notin buffered \cup {i}
      PROVE  Accepted(i)
  <2>1. Last \in Nat /\ nextRecord' \in Nat /\ buffered \subseteq 1..Last
        /\ Last' = Last
    BY <1>1, Numbers DEF IInv, TypeOK, Last
  <2>2. KeptInView(i)
    <3> SUFFICES ASSUME NEW l \in 1..Last, nextRecord' <= l,
                        l \in buffered \/ l = i \/ InFlight(l)
                 PROVE  l \in buffered' \/ InFlight(l)'
      BY DEF KeptInView
    <3>1. CASE l \in buffered \cup {i}
      <4>1. l > nextRecord'
        BY <1>2, <2>1, <3>1
      <4> QED BY <1>1, <3>1, <4>1
    <3>2. CASE l \notin buffered \cup {i}
      BY <3>2
    <3> QED BY <3>1, <3>2
  <2>3. \A l \in buffered \cup {i} : input.fate[l] # "good" => l \in buffered'
    <3> SUFFICES ASSUME NEW l \in buffered \cup {i}, input.fate[l] # "good"
                 PROVE  l \in buffered'
      OBVIOUS
    <3>1. l \in 1..Last /\ l # nextRecord'
      BY <1>2, <2>1
    <3>2. ~(l < nextRecord')
      BY <1>1, <2>1, <3>1 DEF InOrder
    <3>3. l > nextRecord'
      BY <2>1, <3>1, <3>2
    <3> QED BY <1>1, <3>3
  <2> QED BY <1>2, <2>2, <2>3 DEF Accepted
<1>3. Accepted(i)
  BY <1>1, <1>2 DEF Accepted
<1> QED BY <1>1, <1>3

(* The decoding goroutine receives a result.                               *)
LEMMA Received ==
  ASSUME IInv, stage # "returned", Receive,
         UNCHANGED <<input, jobs, held>>
  PROVE  /\ Head(results) \in 1..Last /\ Head(results) <= Released
         /\ results' \in Seq(1..Last)
         /\ pendingJobs' = pendingJobs - 1 /\ pendingJobs > 0
         /\ Load' = Load - 1
         /\ \A j \in 1..Last : InFlight(j)' => InFlight(j)
         /\ \A j \in 1..Last :
              InFlight(j) => j = Head(results) \/ InFlight(j)'
<1>1. /\ results \in Seq(1..Last) /\ results # <<>>
      /\ results' = Tail(results) /\ pendingJobs' = pendingJobs - 1
      /\ Last' = Last
  BY DEF Receive, IInv, TypeOK, Last
<1>2. /\ Head(results) \in 1..Last
      /\ results' \in Seq(1..Last)
      /\ Len(results') = Len(results) - 1
      /\ \A n \in 1..Len(results') : results'[n] = results[n + 1]
  BY <1>1, HeadTailProperties
<1>3. Len(results) \in Nat /\ Len(results') \in Nat /\ Len(results) >= 1
      /\ Head(results) = results[1]
  BY <1>1, <1>2, LenProperties, EmptySeq
<1>4. InFlight(Head(results))
  BY <1>3 DEF InFlight
<1>5. Head(results) <= Released
  BY <1>2, <1>4 DEF IInv, Counted
<1>6. Load' = Load - 1 /\ Load >= 1
  <2>1. Cardinality(Busy) \in Nat /\ Len(jobs) \in Nat
    BY LoadFacts DEF IInv
  <2>2. Busy' = Busy /\ Len(jobs)' = Len(jobs)
    BY DEF Busy
  <2>3. Load = Len(jobs) + Len(results) + Cardinality(Busy)
        /\ Load' = Len(jobs) + Len(results') + Cardinality(Busy)
    BY <2>2 DEF Load
  <2> QED BY <1>2, <1>3, <2>1, <2>3
<1>7. pendingJobs > 0
  BY <1>6, Numbers
<1>8. ASSUME NEW j \in 1..Last, InFlight(j)'
      PROVE  InFlight(j)
  <2>1. CASE \E n \in 1..Len(results') : results'[n] = j
    <3>1. PICK n \in 1..Len(results') : results'[n] = j
      BY <2>1
    <3>2. n + 1 \in 1..Len(results) /\ results[n + 1] = j
      BY <1>2, <1>3, <3>1
    <3> QED BY <3>2 DEF InFlight
  <2>2. CASE ~ \E n \in 1..Len(results') : results'[n] = j
    BY <1>8, <2>2 DEF InFlight
  <2> QED BY <2>1, <2>2
<1>9. ASSUME NEW j \in 1..Last, InFlight(j)
      PROVE  j = Head(results) \/ InFlight(j)'
  <2>1. CASE \E n \in 1..Len(results) : results[n] = j
    <3>1. PICK n \in 1..Len(results) : results[n] = j
      BY <2>1
    <3>2. CASE n = 1
      BY <1>3, <3>1, <3>2
    <3>3. CASE n # 1
      <4>1. n - 1 \in 1..Len(results') /\ (n - 1) + 1 = n
        BY <1>2, <1>3, <3>3
      <4>2. results'[n - 1] = j
        BY <1>2, <3>1, <4>1
      <4> QED BY <4>1, <4>2 DEF InFlight
    <3> QED BY <3>2, <3>3
  <2>2. CASE ~ \E n \in 1..Len(results) : results[n] = j
    BY <1>9, <2>2 DEF InFlight
  <2> QED BY <2>1, <2>2
<1> QED BY <1>1, <1>2, <1>5, <1>6, <1>7, <1>8, <1>9

-----------------------------------------------------------------------------
(* The steps of the decoding goroutine without a result                    *)

LEMMA InitInv ==
  ASSUME Init
  PROVE  IInv
<1>1. Last \in Nat
  BY InputFacts DEF Init
<1>2. <<>> \in Seq(1..Last) /\ Len(<<>>) = 0
  BY EmptySeq
<1>3. /\ input \in Inputs /\ stage = "decoding" /\ decoded = 0
      /\ jobs = <<>> /\ closed = FALSE /\ results = <<>> /\ pendingJobs = 0
      /\ nextRecord = 1 /\ buffered = {} /\ batch = <<>> /\ rows = <<>>
      /\ decodeErr = Nil /\ outcome = Running /\ held = [w \in Worker |-> 0]
      /\ gone = {} /\ cancelled = FALSE /\ stopping = FALSE
  BY DEF Init
<1>4. TypeOK
  <2>1. /\ jobs \in Seq(1..Last) /\ results \in Seq(1..Last)
        /\ batch \in Seq(1..Last) /\ rows \in Seq(1..Last)
    BY <1>2, <1>3, Zenon
  <2>2. held \in [Worker -> 0..Last]
    BY <1>1, <1>3
  <2>3. /\ decoded \in 0..Last /\ pendingJobs \in 0..Last
        /\ nextRecord \in 1..(Last + 1)
    BY <1>1, <1>3
  <2>4. /\ input \in Inputs /\ stage \in Stage /\ closed \in BOOLEAN
        /\ buffered \subseteq 1..Last /\ gone \subseteq Worker
        /\ cancelled \in BOOLEAN /\ stopping \in BOOLEAN
    BY <1>3 DEF Stage
  <2>5. decodeErr \in Error /\ outcome \in Error \cup {Running}
    BY <1>3, Zenon DEF Error
  <2> QED BY <2>1, <2>2, <2>3, <2>4, <2>5 DEF TypeOK
<1>5. ~InHand /\ Released = 0
  BY <1>3 DEF InHand, Released
<1>6. Load = 0 /\ \A j : j # 0 => ~InFlight(j)
  <2>1. Busy = {}
    BY <1>3 DEF Busy
  <2>2. Cardinality(Busy) = 0
    BY <2>1, FS_EmptySet
  <2>3. \A j : j # 0 => ~InFlight(j)
    BY <1>2, <1>3 DEF InFlight
  <2> QED BY <1>2, <1>3, <2>2, <2>3 DEF Load
<1>7. Counted
  BY <1>1, <1>3, <1>5, <1>6 DEF Counted
<1>8. InOrder
  BY <1>1, <1>2, <1>3 DEF InOrder
<1>9. Accounted
  BY <1>1, <1>3, <1>5 DEF Accounted, AccountedUpTo
<1>10. ErrorMeaning
  BY <1>3, Errors DEF ErrorMeaning
<1>11. Paced
  BY <1>3, CapacityFacts DEF Paced
<1>12. LikeSequential
  BY <1>3 DEF LikeSequential
<1> QED BY <1>4, <1>7, <1>8, <1>9, <1>10, <1>11, <1>12 DEF IInv

(* A step that neither sends, receives nor writes.                         *)
LEMMA QuietStep ==
  ASSUME IInv, stage # "returned", stage' \in Stage \ {"returned"},
         UNCHANGED <<input, jobs, results, pendingJobs, progress, outcome,
                     workers, cancelled>>,
         decoded' \in 0..Last, closed' \in BOOLEAN, stopping' \in BOOLEAN,
         \/ decodeErr' = decodeErr /\ Released' = Released
         \/ decodeErr' = DecodeError /\ decodeErr = Nil /\ Released' = Released
         \/ decodeErr' = Cancelled /\ Released' >= Released
  PROVE  TypeOK' /\ Counted' /\ InOrder' /\ Accounted' /\ LikeSequential'
<1>1. UNCHANGED <<input, jobs, results, pendingJobs, nextRecord, buffered,
                  batch, rows, outcome, held, gone, cancelled>>
  BY DEF progress, workers
<1>2. Last' = Last /\ Error' = Error
  BY <1>1 DEF Last, Error
<1>3. Load' = Load /\ \A j : InFlight(j)' <=> InFlight(j)
  BY <1>1, SameFlight
<1>4. decodeErr' \in Error
  BY DEF IInv, TypeOK, Error
<1>5. TypeOK'
  BY <1>1, <1>2, <1>4 DEF IInv, TypeOK
<1>6. Released' \in Int /\ Released' >= Released
  <2>1. decoded' \in Int
    BY Numbers
  <2>2. Released' \in Int
    BY <2>1 DEF Released
  <2> QED BY <2>2, Numbers
<1>7. Counted'
  BY <1>1, <1>2, <1>3, <1>6, Numbers DEF IInv, Counted
<1>8. InOrder'
  BY <1>1, <1>2 DEF IInv, InOrder
<1>9. Accounted'
  BY <1>1, <1>2, <1>3, Errors DEF IInv, Accounted, AccountedUpTo, Stuck
<1>10. LikeSequential'
  BY DEF LikeSequential
<1> QED BY <1>5, <1>7, <1>8, <1>9, <1>10

LEMMA DecodeStep ==
  ASSUME IInv, Decode
  PROVE  IInv'
<1>1. /\ stage = "decoding" /\ stage' = "consuming" /\ decoded < Last
      /\ decoded' = decoded + 1
      /\ UNCHANGED <<decodeErr, closed, input, jobs, results, pendingJobs,
                     progress, outcome, workers, cancelled, stopping>>
  BY DEF Decode, Continue
<1>2. decodeErr = Nil
  BY <1>1 DEF IInv, ErrorMeaning
<1>3. Released' = Released /\ decoded' \in 0..Last
  BY <1>1, Numbers DEF Released, InHand
<1>4. TypeOK' /\ Counted' /\ InOrder' /\ Accounted' /\ LikeSequential'
  BY <1>1, <1>3, QuietStep DEF IInv, TypeOK, Stage
<1>5. ErrorMeaning'
  BY <1>1, <1>2, Errors DEF ErrorMeaning
<1>6. Paced'
  BY <1>1 DEF Paced
<1> QED BY <1>4, <1>5, <1>6 DEF IInv

LEMMA EndOfInputStep ==
  ASSUME IInv, EndOfInput
  PROVE  IInv'
<1>1. /\ stage = "decoding" /\ stage' = "draining" /\ decoded = Last
      /\ decodeErr' = IF input.decodes THEN Nil ELSE DecodeError
      /\ closed' = TRUE
      /\ UNCHANGED <<input, decoded, jobs, results, pendingJobs, progress,
                     outcome, workers, cancelled, stopping>>
  BY DEF EndOfInput, StopDecoding
<1>2. decodeErr = Nil
  BY <1>1 DEF IInv, ErrorMeaning
<1>3. Released' = Released /\ decoded' \in 0..Last
  BY <1>1, Numbers DEF Released, InHand
<1>4. TypeOK' /\ Counted' /\ InOrder' /\ Accounted' /\ LikeSequential'
  BY <1>1, <1>2, <1>3, QuietStep DEF IInv, TypeOK, Stage
<1>5. Last' = Last
  BY <1>1 DEF Last
<1>6. ErrorMeaning'
  BY <1>1, <1>5, Errors DEF ErrorMeaning, InHand
<1>7. Paced'
  BY <1>1 DEF Paced
<1> QED BY <1>4, <1>6, <1>7 DEF IInv

LEMMA DecodingCancelledStep ==
  ASSUME IInv, DecodingCancelled
  PROVE  IInv'
<1>1. /\ stage \in {"decoding", "submitting", "consuming", "collecting"}
      /\ stage' = "draining"
      /\ decodeErr' = Cancelled /\ closed' = TRUE /\ cancelled
      /\ UNCHANGED <<input, decoded, jobs, results, pendingJobs, progress,
                     outcome, workers, cancelled, stopping>>
  BY DEF DecodingCancelled, StopDecoding
<1>2. Released' >= Released /\ decoded' \in 0..Last
  BY <1>1, Numbers DEF Released, InHand
<1>3. TypeOK' /\ Counted' /\ InOrder' /\ Accounted' /\ LikeSequential'
  BY <1>1, <1>2, QuietStep DEF IInv, TypeOK, Stage
<1>4. ErrorMeaning'
  BY <1>1, Errors DEF ErrorMeaning, InHand
<1>5. Paced'
  BY <1>1 DEF Paced
<1> QED BY <1>3, <1>4, <1>5 DEF IInv

LEMMA ParseRecordStep ==
  ASSUME IInv, ParseRecord
  PROVE  IInv'
<1>1. /\ stage = "consuming" /\ stage' \in {"collecting", "submitting"}
      /\ decoded - nextRecord < Window
      /\ UNCHANGED <<decodeErr, closed, input, decoded, jobs, results,
                     pendingJobs, progress, outcome, workers, cancelled,
                     stopping>>
  BY DEF ParseRecord, ParseRecordWithin, Continue
<1>2. decodeErr = Nil
  BY <1>1 DEF IInv, ErrorMeaning, InHand
<1>3. Released' = Released /\ decoded' \in 0..Last
  BY <1>1, Numbers DEF Released, InHand
<1>4. TypeOK' /\ Counted' /\ InOrder' /\ Accounted' /\ LikeSequential'
  BY <1>1, <1>3, QuietStep DEF IInv, TypeOK, Stage
<1>5. ErrorMeaning'
  BY <1>1, <1>2, Errors DEF ErrorMeaning
<1>6. Paced'
  <2>1. nextRecord' = nextRecord /\ Window' = Window
    BY <1>1 DEF progress
  <2> QED BY <1>1, <2>1, Numbers DEF Paced
<1> QED BY <1>4, <1>5, <1>6 DEF IInv

LEMMA StartDiscoveryStep ==
  ASSUME IInv, StartDiscovery
  PROVE  IInv'
<1>1. /\ stage = "collecting" /\ stage' = "discovering" /\ pendingJobs = 0
      /\ UNCHANGED <<decodeErr, closed, input, decoded, jobs, results,
                     pendingJobs, progress, outcome, workers, cancelled,
                     stopping>>
  BY DEF StartDiscovery, StartDiscoveryWhen, Continue
<1>2. decodeErr = Nil
  BY <1>1 DEF IInv, ErrorMeaning, InHand
<1>3. Released' = Released /\ decoded' \in 0..Last
  BY <1>1, Numbers DEF Released, InHand
<1>4. TypeOK' /\ Counted' /\ InOrder' /\ Accounted' /\ LikeSequential'
  BY <1>1, <1>3, QuietStep DEF IInv, TypeOK, Stage
<1>5. ErrorMeaning'
  BY <1>1, <1>2, Errors DEF ErrorMeaning
<1>6. Paced'
  <2>1. nextRecord' = nextRecord /\ Window' = Window
    BY <1>1 DEF progress
  <2> QED BY <1>1, <2>1 DEF IInv, Paced
<1> QED BY <1>4, <1>5, <1>6 DEF IInv

LEMMA DrainingCancelledStep ==
  ASSUME IInv, DrainingCancelled
  PROVE  IInv'
<1>1. /\ stage = "draining" /\ stage' = "finishing" /\ cancelled
      /\ decodeErr' = Cancelled /\ stopping' = TRUE
      /\ UNCHANGED <<closed, input, decoded, jobs, results, pendingJobs,
                     progress, outcome, workers, cancelled>>
  BY DEF DrainingCancelled, FinishDraining
<1>2. Released' >= Released /\ decoded' \in 0..Last
  BY <1>1, Numbers DEF Released, InHand
<1>3. TypeOK' /\ Counted' /\ InOrder' /\ Accounted' /\ LikeSequential'
  BY <1>1, <1>2, QuietStep DEF IInv, TypeOK, Stage
<1>4. ErrorMeaning'
  BY <1>1, Errors DEF ErrorMeaning, InHand
<1>5. Paced'
  BY <1>1 DEF Paced
<1> QED BY <1>3, <1>4, <1>5 DEF IInv

LEMMA DrainedStep ==
  ASSUME IInv, Drained
  PROVE  IInv'
<1>1. /\ stage = "draining" /\ stage' = "finishing" /\ pendingJobs = 0
      /\ UNCHANGED <<decodeErr, stopping, closed, input, decoded, jobs,
                     results, pendingJobs, progress, outcome, workers,
                     cancelled>>
  BY DEF Drained, DrainedWhen, FinishDraining
<1>2. Released' = Released /\ decoded' \in 0..Last
  BY <1>1, Numbers DEF Released, InHand
<1>3. TypeOK' /\ Counted' /\ InOrder' /\ Accounted' /\ LikeSequential'
  BY <1>1, <1>2, QuietStep DEF IInv, TypeOK, Stage
<1>4. Last' = Last /\ (Stuck' <=> Stuck)
  BY <1>1 DEF Last, Stuck, progress
<1>5. ErrorMeaning'
  BY <1>1, <1>4 DEF IInv, ErrorMeaning, InHand
<1>6. Paced'
  BY <1>1 DEF Paced
<1> QED BY <1>3, <1>5, <1>6 DEF IInv

-----------------------------------------------------------------------------
(* The steps of the decoding goroutine with a result                       *)

LEMMA StuckError ==
  ASSUME Stuck'
  PROVE  decodeErr' \notin {Nil, DecodeError, Cancelled, Stopped}
BY Errors DEF Stuck

(* The result of record i, received or its own, is accepted.               *)
LEMMA ResultStep ==
  ASSUME IInv, stage # "returned", stage' \in Stage \ {"returned"},
         UNCHANGED <<input, jobs, outcome, workers, cancelled, decoded>>,
         closed' \in BOOLEAN, stopping' \in BOOLEAN,
         NEW i \in 1..Last, Accept(i),
         \/ TakeResult /\ i = Head(results) /\ Released' >= Released
         \/ /\ UNCHANGED <<results, pendingJobs>>
            /\ i = Released + 1 /\ Released' = i,
         \/ AcceptError(i) # Nil /\ decodeErr' = AcceptError(i)
         \/ /\ AcceptError(i) = Nil
            /\ decodeErr = Nil /\ decodeErr' = Stopped
            /\ input.fate[i] # "good"
         \/ /\ AcceptError(i) = Nil /\ decodeErr' = decodeErr
            /\ Released' \in {Released, i}
  PROVE  /\ TypeOK' /\ Counted' /\ InOrder' /\ Accounted' /\ LikeSequential'
         /\ nextRecord' >= nextRecord
         /\ AcceptError(i) # Nil => Stuck'
         /\ AcceptError(i) = Nil /\ Stuck /\ decodeErr' = decodeErr => Stuck'
<1>1. /\ UNCHANGED <<input, jobs, outcome, held, gone, cancelled, decoded>>
      /\ Last' = Last /\ Error' = Error
  BY DEF workers, Last, Error
<1>2. /\ results' \in Seq(1..Last) /\ pendingJobs' \in 0..Last
      /\ pendingJobs' <= Released'
      /\ Load' <= pendingJobs' /\ (Load < pendingJobs => Load' < pendingJobs')
      /\ \A j \in 1..Last : InFlight(j)' => InFlight(j)
      /\ \A j \in 1..Last : InFlight(j) => j = i \/ InFlight(j)'
      /\ i <= Released + 1 /\ Released' >= Released /\ Released' \in Int
  <2>1. Released' \in Int
    <3>1. decoded' \in Int
      BY <1>1, Numbers
    <3> QED BY <3>1 DEF Released
  <2>2. CASE TakeResult /\ i = Head(results) /\ Released' >= Released
    <3>1. /\ Head(results) <= Released
          /\ results' \in Seq(1..Last)
          /\ pendingJobs' = pendingJobs - 1 /\ pendingJobs > 0
          /\ Load' = Load - 1
          /\ \A j \in 1..Last : InFlight(j)' => InFlight(j)
          /\ \A j \in 1..Last : InFlight(j) => j = Head(results) \/ InFlight(j)'
      BY <1>1, <2>2, Received DEF TakeResult
    <3>2. /\ pendingJobs' \in 0..Last /\ pendingJobs' <= Released'
          /\ Load' <= pendingJobs' /\ (Load < pendingJobs => Load' < pendingJobs')
          /\ i <= Released + 1 /\ Released' >= Released
      <4>1. /\ Last \in Nat /\ pendingJobs \in 0..Last /\ Load \in Nat
            /\ Released \in 0..Last /\ Load <= pendingJobs
            /\ pendingJobs <= Released
        BY Numbers
      <4>2. /\ pendingJobs' = pendingJobs - 1 /\ pendingJobs > 0
            /\ Load' = Load - 1 /\ i <= Released /\ Released' >= Released
        BY <2>2, <3>1
      <4> QED BY <2>1, <4>1, <4>2
    <3>3. \A j \in 1..Last : InFlight(j) => j = i \/ InFlight(j)'
      BY <2>2, <3>1
    <3> QED BY <2>1, <3>1, <3>2, <3>3
  <2>3. CASE /\ UNCHANGED <<results, pendingJobs>>
             /\ i = Released + 1 /\ Released' = i
    <3>1. Load' = Load /\ \A j : InFlight(j)' <=> InFlight(j)
      BY <1>1, <2>3, SameFlight
    <3>2. results' \in Seq(1..Last)
      BY <2>3 DEF IInv, TypeOK
    <3> QED BY <2>1, <2>3, <3>1, <3>2, Numbers
  <2> QED BY <2>2, <2>3
<1>3. /\ nextRecord' \in nextRecord..(Last + 1)
      /\ buffered' \subseteq 1..Last
      /\ rows' \in Seq(1..Last) /\ batch' \in Seq(1..Last)
      /\ InOrder'
      /\ Accepted(i)
      /\ nextRecord <= Last /\ input.fate[nextRecord] # "good" =>
           nextRecord' = nextRecord
  BY <1>1, <1>2, AcceptStep
<1>4. nextRecord' \in 1..(Last + 1) /\ nextRecord' >= nextRecord
  BY <1>3, Numbers
<1>5. AcceptError(i) # Nil =>
        /\ AcceptError(i) = Record(nextRecord') /\ nextRecord' <= Last
        /\ input.fate[nextRecord'] # "good"
  BY <1>3 DEF Accepted
<1>6. AcceptError(i) = Nil =>
        /\ KeptInView(i)
        /\ \A l \in buffered \cup {i} : input.fate[l] # "good" => l \in buffered'
  BY <1>3, Errors DEF Accepted
<1>7. AcceptError(i) # Nil => Stuck'
  BY <1>1, <1>5 DEF Stuck
<1>8. AcceptError(i) = Nil /\ Stuck /\ decodeErr' = decodeErr => Stuck'
  BY <1>1, <1>3 DEF Stuck
<1>9. decodeErr' \in Error
  <2>1. nextRecord' <= Last => Record(nextRecord') \in Error
    BY <1>4, Numbers DEF Error
  <2>2. decodeErr \in Error /\ Stopped \in Error
    BY DEF IInv, TypeOK, Error
  <2> QED BY <1>5, <2>1, <2>2
<1>10. TypeOK'
  BY <1>1, <1>2, <1>3, <1>4, <1>9 DEF IInv, TypeOK
<1>11. Counted'
  <2>1. \A j \in 1..Last : InFlight(j)' => j <= Released'
    BY <1>2, Numbers DEF IInv, Counted
  <2> QED BY <1>1, <1>2, <2>1 DEF Counted
<1>12. Accounted'
  <2>1. CASE Load < pendingJobs
    BY <1>2, <2>1 DEF Accounted
  <2>2. CASE AcceptError(i) # Nil
    BY <1>7, <2>2 DEF Accounted
  <2>3. CASE AcceptError(i) = Nil /\ decodeErr = Nil /\ ~(Load < pendingJobs)
    <3>1. AccountedUpTo(Released)
      BY <2>3, Errors DEF IInv, Accounted, Stuck
    <3>2. ASSUME NEW l \in 1..Last, nextRecord' <= l, l <= Released \/ l = i
          PROVE  l \in buffered' \/ InFlight(l)'
      <4>1. nextRecord <= l
        BY <1>4, <3>2, Numbers
      <4>2. l \in buffered \/ l = i \/ InFlight(l)
        BY <3>1, <3>2, <4>1 DEF AccountedUpTo
      <4> QED BY <1>6, <2>3, <3>2, <4>2 DEF KeptInView
    <3>3. \A l \in 1..Last : l <= i => l <= Released \/ l = i
      BY <1>2, Numbers
    <3>4. CASE decodeErr' = Stopped /\ input.fate[i] # "good"
      <4>1. i \in buffered'
        BY <1>6, <2>3, <3>4
      <4>2. AccountedUpTo(i)'
        BY <1>1, <3>2, <3>3 DEF AccountedUpTo
      <4>3. input'.fate[i] # "good"
        BY <1>1, <3>4
      <4> QED BY <3>4, <4>1, <4>2, <4>3 DEF Accounted
    <3>5. CASE decodeErr' = decodeErr /\ Released' \in {Released, i}
      <4>1. \A l \in 1..Last : l <= Released' => l <= Released \/ l = i
        BY <3>3, <3>5
      <4>2. AccountedUpTo(Released)'
        BY <1>1, <3>2, <4>1 DEF AccountedUpTo
      <4> QED BY <2>3, <3>5, <4>2 DEF Accounted
    <3> QED BY <2>3, <3>4, <3>5
  <2>4. CASE /\ AcceptError(i) = Nil /\ decodeErr # Nil
             /\ ~(Load < pendingJobs) /\ decodeErr' = decodeErr
             /\ Released' \in {Released, i}
    <3>1. CASE Stuck
      BY <1>8, <2>4, <3>1 DEF Accounted
    <3>2. CASE decodeErr = Cancelled
      BY <2>4, <3>2 DEF Accounted
    <3>3. ASSUME NEW n, AccountedUpTo(n),
                 NEW l \in 1..Last, nextRecord' <= l, l <= n \/ l = i
          PROVE  l \in buffered' \/ InFlight(l)'
      <4>1. nextRecord <= l
        BY <1>4, <3>3, Numbers
      <4>2. l \in buffered \/ l = i \/ InFlight(l)
        BY <3>3, <4>1 DEF AccountedUpTo
      <4> QED BY <1>6, <2>4, <3>3, <4>2 DEF KeptInView
    <3>4. CASE /\ decodeErr = Stopped
               /\ \E j \in buffered : input.fate[j] # "good" /\ AccountedUpTo(j)
      <4>1. PICK j \in buffered : input.fate[j] # "good" /\ AccountedUpTo(j)
        BY <3>4
      <4>2. j \in buffered' /\ input'.fate[j] # "good"
        BY <1>1, <1>6, <2>4, <4>1
      <4>3. AccountedUpTo(j)'
        BY <1>1, <3>3, <4>1 DEF AccountedUpTo
      <4> QED BY <2>4, <3>4, <4>2, <4>3 DEF Accounted
    <3>5. CASE decodeErr = DecodeError /\ AccountedUpTo(Released)
      <4>1. PICK n : n = Released
        OBVIOUS
      <4>2. AccountedUpTo(n)
        BY <3>5, <4>1
      <4>3. \A l \in 1..Last : l <= Released' => l <= n \/ l = i
        BY <1>2, <2>4, <4>1, Numbers
      <4>4. AccountedUpTo(Released)'
        BY <1>1, <3>3, <4>2, <4>3 DEF AccountedUpTo
      <4> QED BY <2>4, <3>5, <4>4 DEF Accounted
    <3> QED BY <2>4, <3>1, <3>2, <3>4, <3>5 DEF IInv, Accounted
  <2> QED BY <2>1, <2>2, <2>3, <2>4
<1>13. LikeSequential'
  BY DEF LikeSequential
<1> QED BY <1>3, <1>4, <1>7, <1>8, <1>10, <1>11, <1>12, <1>13

LEMMA ReceiveAheadStep ==
  ASSUME IInv, ReceiveAhead
  PROVE  IInv'
<1>1. /\ stage \in {"consuming", "submitting"} /\ TakeResult
      /\ UNCHANGED <<input, decoded, jobs, outcome, workers, cancelled, stopping>>
      /\ stage = "consuming" => decoded - nextRecord >= Window
  BY DEF ReceiveAhead
<1>2. PICK i \in 1..Last : i = Head(results)
  BY <1>1, Received DEF workers, TakeResult
<1>3. Accept(i) /\ decodeErr = Nil
  BY <1>1, <1>2 DEF TakeResult, IInv, ErrorMeaning, InHand
<1>4. \/ AcceptError(i) # Nil /\ stage' = "draining" /\ closed' = TRUE
           /\ decodeErr' = AcceptError(i)
      \/ AcceptError(i) = Nil /\ Faulty(i) /\ stage' = "draining"
           /\ closed' = TRUE /\ decodeErr' = Stopped
      \/ AcceptError(i) = Nil /\ stage' = stage
           /\ UNCHANGED <<decodeErr, closed>>
  BY <1>2 DEF ReceiveAhead, StopDecoding, Continue
<1>5. Released' >= Released /\ (stage' = stage => Released' = Released)
  BY <1>1, <1>4, Numbers DEF Released, InHand
<1>6. Faulty(i) => input.fate[i] # "good"
  BY DEF Faulty
<1>7. stage # "returned" /\ stage' \in Stage \ {"returned"}
      /\ closed' \in BOOLEAN /\ stopping' \in BOOLEAN
  BY <1>1, <1>4 DEF Stage, IInv, TypeOK
<1>8. /\ TypeOK' /\ Counted' /\ InOrder' /\ Accounted' /\ LikeSequential'
      /\ nextRecord' >= nextRecord
      /\ AcceptError(i) # Nil => Stuck'
  BY <1>1, <1>2, <1>3, <1>4, <1>5, <1>6, <1>7, ResultStep
<1>9. ErrorMeaning'
  BY <1>1, <1>3, <1>4, <1>8, Errors, StuckError DEF ErrorMeaning, InHand
<1>10. Paced'
  <2>1. nextRecord' \in Int /\ Window' = Window
    BY <1>8 DEF TypeOK
  <2> QED BY <1>1, <1>4, <1>8, <2>1, Numbers DEF IInv, Paced
<1> QED BY <1>8, <1>9, <1>10 DEF IInv

LEMMA RejectRecordStep ==
  ASSUME IInv, RejectRecord
  PROVE  IInv'
<1>1. /\ stage = "consuming" /\ input.fate[decoded] = "unparsable"
      /\ Accept(decoded)
      /\ UNCHANGED <<input, decoded, jobs, results, pendingJobs, outcome,
                     workers, cancelled, stopping>>
      /\ stage' = "draining" /\ closed' = TRUE
  BY DEF RejectRecord, StopDecoding
<1>2. PICK i \in 1..Last : i = decoded
  BY <1>1, Numbers DEF InHand
<1>3. Accept(i) /\ decodeErr = Nil /\ input.fate[i] # "good"
  BY <1>1, <1>2 DEF IInv, ErrorMeaning, InHand
<1>4. decodeErr' = IF AcceptError(i) # Nil THEN AcceptError(i) ELSE Stopped
  BY <1>2 DEF RejectRecord, StopDecoding
<1>5. i = Released + 1 /\ Released' = i
  BY <1>1, <1>2, Numbers DEF Released, InHand
<1>6. stage # "returned" /\ stage' \in Stage \ {"returned"}
      /\ closed' \in BOOLEAN /\ stopping' \in BOOLEAN
  BY <1>1 DEF Stage, IInv, TypeOK
<1>7. /\ TypeOK' /\ Counted' /\ InOrder' /\ Accounted' /\ LikeSequential'
      /\ AcceptError(i) # Nil => Stuck'
  BY <1>1, <1>3, <1>4, <1>5, <1>6, ResultStep
<1>8. ErrorMeaning'
  BY <1>1, <1>4, <1>7, Errors, StuckError DEF ErrorMeaning, InHand
<1>9. Paced'
  BY <1>1 DEF Paced
<1> QED BY <1>7, <1>8, <1>9 DEF IInv

LEMMA CollectStep ==
  ASSUME IInv, Collect
  PROVE  IInv'
<1>1. /\ stage = "collecting" /\ TakeResult
      /\ UNCHANGED <<input, decoded, jobs, outcome, workers, cancelled, stopping>>
  BY DEF Collect
<1>2. PICK i \in 1..Last : i = Head(results)
  BY <1>1, Received DEF workers, TakeResult
<1>3. Accept(i) /\ decodeErr = Nil
  BY <1>1, <1>2 DEF TakeResult, IInv, ErrorMeaning, InHand
<1>4. \/ AcceptError(i) # Nil /\ stage' = "draining" /\ closed' = TRUE
           /\ decodeErr' = AcceptError(i)
      \/ AcceptError(i) = Nil /\ stage' = stage
           /\ UNCHANGED <<decodeErr, closed>>
  BY <1>1, <1>2 DEF Collect, StopDecoding, Continue
<1>5. Released' >= Released /\ (stage' = stage => Released' = Released)
  BY <1>1, <1>4, Numbers DEF Released, InHand
<1>6. stage # "returned" /\ stage' \in Stage \ {"returned"}
      /\ closed' \in BOOLEAN /\ stopping' \in BOOLEAN
  BY <1>1, <1>4 DEF Stage, IInv, TypeOK
<1>7. /\ TypeOK' /\ Counted' /\ InOrder' /\ Accounted' /\ LikeSequential'
      /\ nextRecord' >= nextRecord
      /\ AcceptError(i) # Nil => Stuck'
  BY <1>1, <1>2, <1>3, <1>4, <1>5, <1>6, ResultStep
<1>8. ErrorMeaning'
  BY <1>1, <1>3, <1>4, <1>7, Errors, StuckError DEF ErrorMeaning, InHand
<1>9. Paced'
  <2>1. nextRecord' \in Int /\ Window' = Window
    BY <1>7 DEF TypeOK
  <2> QED BY <1>1, <1>4, <1>7, <2>1, Numbers DEF IInv, Paced
<1> QED BY <1>7, <1>8, <1>9 DEF IInv

LEMMA DiscoverStep ==
  ASSUME IInv, Discover
  PROVE  IInv'
<1>1. /\ stage = "discovering" /\ Accept(decoded)
      /\ UNCHANGED <<input, decoded, jobs, results, pendingJobs, outcome,
                     workers, cancelled, stopping>>
  BY DEF Discover
<1>2. PICK i \in 1..Last : i = decoded
  BY <1>1, Numbers DEF InHand
<1>3. Accept(i) /\ decodeErr = Nil
  BY <1>1, <1>2 DEF IInv, ErrorMeaning, InHand
<1>4. \/ AcceptError(i) # Nil /\ stage' = "draining" /\ closed' = TRUE
           /\ decodeErr' = AcceptError(i)
      \/ AcceptError(i) = Nil /\ stage' = "decoding"
           /\ UNCHANGED <<decodeErr, closed>>
  BY <1>2 DEF Discover, StopDecoding, Continue
<1>5. i = Released + 1 /\ Released' = i
  BY <1>1, <1>2, <1>4, Numbers DEF Released, InHand
<1>6. stage # "returned" /\ stage' \in Stage \ {"returned"}
      /\ closed' \in BOOLEAN /\ stopping' \in BOOLEAN
  BY <1>1, <1>4 DEF Stage, IInv, TypeOK
<1>7. /\ TypeOK' /\ Counted' /\ InOrder' /\ Accounted' /\ LikeSequential'
      /\ nextRecord' >= nextRecord
      /\ AcceptError(i) # Nil => Stuck'
  BY <1>1, <1>3, <1>4, <1>5, <1>6, ResultStep
<1>8. ErrorMeaning'
  BY <1>1, <1>3, <1>4, <1>7, Errors, StuckError DEF ErrorMeaning, InHand
<1>9. Paced'
  <2>1. nextRecord' \in Int /\ Window' = Window
    BY <1>7 DEF TypeOK
  <2> QED BY <1>1, <1>4, <1>7, <2>1, Numbers DEF IInv, Paced
<1> QED BY <1>7, <1>8, <1>9 DEF IInv

LEMMA DrainStep ==
  ASSUME IInv, Drain
  PROVE  IInv'
<1>1. /\ stage = "draining" /\ TakeResult
      /\ UNCHANGED <<input, decoded, jobs, outcome, workers, cancelled, closed>>
  BY DEF Drain, FinishDraining, Continue
<1>2. PICK i \in 1..Last : i = Head(results)
  BY <1>1, Received DEF workers, TakeResult
<1>3. Accept(i)
  BY <1>1, <1>2 DEF TakeResult
<1>4. \/ AcceptError(i) # Nil /\ stage' = "finishing" /\ stopping' = TRUE
           /\ decodeErr' = AcceptError(i)
      \/ AcceptError(i) = Nil /\ stage' = "draining"
           /\ UNCHANGED <<decodeErr, stopping>>
  BY <1>2 DEF Drain, FinishDraining, Continue
<1>5. Released' = Released /\ Released' >= Released
  BY <1>1, <1>4, Numbers DEF Released, InHand
<1>6. stage # "returned" /\ stage' \in Stage \ {"returned"}
      /\ closed' \in BOOLEAN /\ stopping' \in BOOLEAN
  BY <1>1, <1>4 DEF Stage, IInv, TypeOK
<1>7. /\ TypeOK' /\ Counted' /\ InOrder' /\ Accounted' /\ LikeSequential'
      /\ AcceptError(i) # Nil => Stuck'
      /\ AcceptError(i) = Nil /\ Stuck /\ decodeErr' = decodeErr => Stuck'
  BY <1>1, <1>2, <1>3, <1>4, <1>5, <1>6, ResultStep
<1>8. ErrorMeaning'
  <2>1. Last' = Last
    BY <1>1 DEF Last
  <2> QED BY <1>1, <1>4, <1>7, <2>1, Errors, StuckError DEF IInv, ErrorMeaning, InHand
<1>9. Paced'
  BY <1>4 DEF Paced
<1> QED BY <1>7, <1>8, <1>9 DEF IInv

LEMMA BatchCancelledStep ==
  ASSUME IInv, BatchCancelled
  PROVE  IInv'
<1>1. /\ stage \in Stage \ {"returned", "finishing", "decoding"}
      /\ stage' \in {"draining", "finishing"} /\ decodeErr' = Cancelled
      /\ closed' \in BOOLEAN /\ stopping' \in BOOLEAN
      /\ UNCHANGED <<input, decoded, jobs, outcome, held, gone, cancelled>>
  BY DEF BatchCancelled, FinishDraining, StopDecoding, Stage, IInv, TypeOK,
         workers
<1>2. Last' = Last /\ Error' = Error
  BY <1>1 DEF Last, Error
<1>3. Released' >= Released /\ Released' \in 0..Last
  BY <1>1, Numbers DEF Released, InHand
<1>4. /\ results' \in Seq(1..Last) /\ pendingJobs' \in 0..Last
      /\ pendingJobs' <= Released /\ Load' <= pendingJobs'
      /\ \A j \in 1..Last : InFlight(j)' => InFlight(j)
      /\ \E i \in 1..Last : AcceptCancelled(i)
  <2>1. CASE Receive /\ AcceptCancelled(Head(results))
    BY <1>1, <2>1, Received, Numbers
  <2>2. CASE /\ stage = "discovering" /\ AcceptCancelled(decoded)
             /\ UNCHANGED <<results, pendingJobs>>
    <3>1. Load' = Load /\ \A j : InFlight(j)' <=> InFlight(j)
      BY <1>1, <2>2, SameFlight
    <3>2. decoded \in 1..Last
      BY <2>2, Numbers DEF InHand
    <3>3. results' \in Seq(1..Last)
      BY <2>2 DEF IInv, TypeOK
    <3> QED BY <2>2, <3>1, <3>2, <3>3, Numbers
  <2> QED BY <2>1, <2>2 DEF BatchCancelled
<1>5. /\ cancelled
      /\ nextRecord' \in 1..(Last + 1) /\ buffered' \subseteq 1..Last
      /\ rows' \in Seq(1..Last) /\ batch' \in Seq(1..Last)
      /\ InOrder'
  BY <1>1, <1>4, CancelledFacts DEF IInv
<1>6. TypeOK'
  BY <1>1, <1>2, <1>4, <1>5 DEF IInv, TypeOK, Stage, Error
<1>7. Counted'
  <2>1. \A j \in 1..Last : InFlight(j)' => j <= Released'
    BY <1>3, <1>4, Numbers DEF IInv, Counted
  <2> QED BY <1>2, <1>3, <1>4, <2>1, Numbers DEF Counted
<1>8. Accounted' /\ LikeSequential'
  BY <1>1 DEF Accounted, LikeSequential
<1>9. ErrorMeaning' /\ Paced'
  BY <1>1, <1>5, Errors DEF ErrorMeaning, Paced, InHand
<1> QED BY <1>5, <1>6, <1>7, <1>8, <1>9 DEF IInv

LEMMA SubmitStep ==
  ASSUME IInv, Submit
  PROVE  IInv'
<1>1. /\ stage = "submitting" /\ stage' = "decoding"
      /\ jobs' = Append(jobs, decoded) /\ pendingJobs' = pendingJobs + 1
      /\ UNCHANGED <<decodeErr, closed, input, decoded, results, nextRecord,
                     buffered, batch, rows, outcome, held, gone, cancelled,
                     stopping>>
  BY DEF Submit, SubmitCounting, Continue, progress, workers
<1>2. Last' = Last /\ Error' = Error
  BY <1>1 DEF Last, Error
<1>3. decodeErr = Nil
  BY <1>1 DEF IInv, ErrorMeaning, InHand
<1>4. decoded \in 1..Last /\ Released' = decoded /\ Released = decoded - 1
  BY <1>1, Numbers DEF Released, InHand
<1>5. /\ jobs \in Seq(1..Last) /\ jobs' \in Seq(1..Last)
      /\ Len(jobs) \in Nat /\ Len(jobs') = Len(jobs) + 1
      /\ \A n \in 1..Len(jobs) : jobs'[n] = jobs[n]
      /\ jobs'[Len(jobs) + 1] = decoded
  <2>1. jobs \in Seq(1..Last)
    BY DEF IInv, TypeOK
  <2>2. Len(jobs) \in Nat
    BY <2>1, LenProperties
  <2> QED BY <1>1, <1>4, <2>1, <2>2, AppendProperties
<1>6. Load' = Load + 1
  <2>1. Cardinality(Busy) \in Nat /\ Len(results) \in Nat
    BY LoadFacts DEF IInv
  <2>2. Busy' = Busy /\ Len(results)' = Len(results)
    BY <1>1 DEF Busy
  <2>3. Load = Len(jobs) + Len(results) + Cardinality(Busy)
        /\ Load' = Len(jobs') + Len(results) + Cardinality(Busy)
    BY <2>2 DEF Load
  <2> QED BY <1>5, <2>1, <2>3
<1>7. ASSUME NEW j \in 1..Last, InFlight(j) \/ j = decoded
      PROVE  InFlight(j)'
  <2>1. CASE j = decoded
    <3>1. Len(jobs) + 1 \in 1..Len(jobs')
      BY <1>5
    <3> QED BY <1>5, <2>1, <3>1 DEF InFlight
  <2>2. CASE \E n \in 1..Len(jobs) : jobs[n] = j
    <3>1. PICK n \in 1..Len(jobs) : jobs[n] = j
      BY <2>2
    <3>2. n \in 1..Len(jobs') /\ jobs'[n] = j
      BY <1>5, <3>1
    <3> QED BY <3>2 DEF InFlight
  <2>3. CASE j # decoded /\ ~ \E n \in 1..Len(jobs) : jobs[n] = j
    BY <1>1, <1>7, <2>3 DEF InFlight
  <2> QED BY <2>1, <2>2, <2>3
<1>8. ASSUME NEW j \in 1..Last, InFlight(j)'
      PROVE  InFlight(j) \/ j = decoded
  <2>1. CASE \E n \in 1..Len(jobs') : jobs'[n] = j
    <3>1. PICK n \in 1..Len(jobs') : jobs'[n] = j
      BY <2>1
    <3>2. CASE n = Len(jobs) + 1
      BY <1>5, <3>1, <3>2
    <3>3. CASE n # Len(jobs) + 1
      <4>1. n \in 1..Len(jobs)
        BY <1>5, <3>3
      <4>2. jobs[n] = j
        BY <1>5, <3>1, <4>1
      <4> QED BY <4>1, <4>2 DEF InFlight
    <3> QED BY <3>2, <3>3
  <2>2. CASE ~ \E n \in 1..Len(jobs') : jobs'[n] = j
    BY <1>1, <1>8, <2>2 DEF InFlight
  <2> QED BY <2>1, <2>2
<1>9. pendingJobs' \in 0..Last /\ pendingJobs' <= Released'
      /\ Load' <= pendingJobs' /\ (Load < pendingJobs => Load' < pendingJobs')
  BY <1>1, <1>4, <1>6, Numbers
<1>10. TypeOK'
  BY <1>1, <1>2, <1>5, <1>9 DEF IInv, TypeOK, Stage
<1>11. Counted'
  <2>1. \A j \in 1..Last : InFlight(j)' => j <= Released'
    BY <1>4, <1>8, Numbers DEF IInv, Counted
  <2> QED BY <1>2, <1>9, <2>1 DEF Counted
<1>12. InOrder'
  BY <1>1, <1>2 DEF IInv, InOrder
<1>13. Accounted'
  <2>1. CASE Load < pendingJobs
    BY <1>9, <2>1 DEF Accounted
  <2>2. CASE ~(Load < pendingJobs)
    <3>1. AccountedUpTo(Released)
      BY <1>3, <2>2, Errors DEF IInv, Accounted, Stuck
    <3>2. \A l \in 1..Last : l <= Released' => l <= Released \/ l = decoded
      BY <1>4
    <3>3. AccountedUpTo(Released)'
      BY <1>1, <1>2, <1>7, <3>1, <3>2 DEF AccountedUpTo
    <3> QED BY <1>1, <1>3, <3>3 DEF Accounted
  <2> QED BY <2>1, <2>2
<1>14. ErrorMeaning'
  BY <1>1, <1>3, Errors DEF ErrorMeaning
<1>15. Paced'
  <2>1. Window' = Window
    OBVIOUS
  <2> QED BY <1>1, <2>1 DEF IInv, Paced
<1>16. LikeSequential'
  BY <1>1 DEF LikeSequential
<1> QED BY <1>10, <1>11, <1>12, <1>13, <1>14, <1>15, <1>16 DEF IInv

-----------------------------------------------------------------------------
(* The steps of the workers and of the context                             *)

LEMMA OtherStep ==
  ASSUME IInv,
         UNCHANGED <<input, stage, decoded, closed, pendingJobs, progress,
                     decodeErr, outcome, stopping>>,
         cancelled' \in BOOLEAN, cancelled => cancelled',
         jobs' \in Seq(1..Last), results' \in Seq(1..Last),
         held' \in [Worker -> 0..Last], gone' \subseteq Worker,
         \A j \in 1..Last : InFlight(j)' => InFlight(j),
         \/ Load' = Load /\ \A j \in 1..Last : InFlight(j) => InFlight(j)'
         \/ Load' = Load - 1
  PROVE  IInv'
<1>1. UNCHANGED <<input, stage, decoded, closed, pendingJobs, nextRecord,
                  buffered, batch, rows, decodeErr, outcome, stopping>>
      /\ Last' = Last /\ Error' = Error /\ Released' = Released
      /\ Window' = Window
  BY DEF progress, Last, Error, Released, InHand
<1>2. Load \in Nat /\ Load <= pendingJobs /\ pendingJobs \in Nat
  BY Numbers
<1>3. Load' <= pendingJobs' /\ (Load < pendingJobs => Load' < pendingJobs')
      /\ (Load' = Load - 1 => Load' < pendingJobs')
  BY <1>1, <1>2
<1>4. TypeOK'
  BY <1>1 DEF IInv, TypeOK
<1>5. Counted'
  BY <1>1, <1>3 DEF IInv, Counted
<1>6. InOrder'
  BY <1>1 DEF IInv, InOrder
<1>7. Accounted'
  <2>1. CASE Load < pendingJobs \/ Load' = Load - 1
    BY <1>3, <2>1 DEF Accounted
  <2>2. CASE ~(Load < pendingJobs) /\ \A j \in 1..Last : InFlight(j) => InFlight(j)'
    <3>1. Stuck' <=> Stuck
      BY <1>1 DEF Stuck
    <3>2. \A n : AccountedUpTo(n) => AccountedUpTo(n)'
      BY <1>1, <2>2 DEF AccountedUpTo
    <3>3. AccountedUpTo(Released) => AccountedUpTo(Released)'
      BY <1>1, <2>2 DEF AccountedUpTo
    <3> QED BY <1>1, <2>2, <3>1, <3>2, <3>3 DEF IInv, Accounted
  <2> QED BY <2>1, <2>2
<1>8. ErrorMeaning'
  <2>1. Stuck' <=> Stuck
    BY <1>1 DEF Stuck
  <2>2. InHand' <=> InHand
    BY <1>1 DEF InHand
  <2> QED BY <1>1, <2>1, <2>2 DEF IInv, ErrorMeaning
<1>9. Paced'
  BY <1>1 DEF IInv, Paced
<1>10. LikeSequential'
  <2>1. SequentialOutcome' = SequentialOutcome
    BY <1>1 DEF SequentialOutcome
  <2> QED BY <1>1, <2>1 DEF IInv, LikeSequential
<1> QED BY <1>4, <1>5, <1>6, <1>7, <1>8, <1>9, <1>10 DEF IInv

LEMMA CancelStep ==
  ASSUME IInv, Cancel
  PROVE  IInv'
<1>1. /\ cancelled' = TRUE
      /\ UNCHANGED <<input, stage, decoded, closed, jobs, results, pendingJobs,
                     progress, decodeErr, outcome, held, gone, stopping>>
  BY DEF Cancel, channels, workers
<1>2. Load' = Load /\ \A j : InFlight(j)' <=> InFlight(j)
  BY <1>1, SameFlight
<1>3. /\ jobs' \in Seq(1..Last) /\ results' \in Seq(1..Last)
      /\ held' \in [Worker -> 0..Last] /\ gone' \subseteq Worker
  BY <1>1 DEF IInv, TypeOK
<1> QED BY <1>1, <1>2, <1>3, OtherStep

LEMMA StutterStep ==
  ASSUME IInv, UNCHANGED vars
  PROVE  IInv'
<1>1. UNCHANGED <<input, stage, decoded, closed, jobs, results, pendingJobs,
                  progress, decodeErr, outcome, held, gone, cancelled, stopping>>
  BY DEF vars, channels, workers
<1>2. Load' = Load /\ \A j : InFlight(j)' <=> InFlight(j)
  BY <1>1, SameFlight
<1>3. /\ jobs' \in Seq(1..Last) /\ results' \in Seq(1..Last)
      /\ held' \in [Worker -> 0..Last] /\ gone' \subseteq Worker
      /\ cancelled' \in BOOLEAN
  BY <1>1 DEF IInv, TypeOK
<1> QED BY <1>1, <1>2, <1>3, OtherStep

LEMMA TakeStep ==
  ASSUME IInv, NEW w \in Worker, Take(w)
  PROVE  IInv'
<1>1. /\ held[w] = 0 /\ jobs # <<>>
      /\ held' = [held EXCEPT ![w] = Head(jobs)] /\ jobs' = Tail(jobs)
      /\ UNCHANGED <<input, stage, decoded, closed, results, pendingJobs,
                     progress, decodeErr, outcome, gone, cancelled, stopping>>
  BY DEF Take
<1>2. /\ jobs \in Seq(1..Last) /\ results \in Seq(1..Last)
      /\ held \in [Worker -> 0..Last] /\ gone \subseteq Worker
      /\ cancelled \in BOOLEAN
  BY DEF IInv, TypeOK
<1>3. /\ Head(jobs) \in 1..Last /\ jobs' \in Seq(1..Last)
      /\ Len(jobs') = Len(jobs) - 1
      /\ \A n \in 1..Len(jobs') : jobs'[n] = jobs[n + 1]
  BY <1>1, <1>2, HeadTailProperties
<1>4. Len(jobs) \in Nat /\ Len(jobs') \in Nat /\ Len(jobs) >= 1
      /\ Head(jobs) = jobs[1]
  BY <1>1, <1>2, <1>3, LenProperties, EmptySeq
<1>5. held' \in [Worker -> 0..Last] /\ held'[w] = Head(jobs)
      /\ \A v \in Worker \ {w} : held'[v] = held[v]
  BY <1>1, <1>2, <1>3
<1>6. Load' = Load
  <2>1. Busy' = Busy \cup {w} /\ w \notin Busy
    BY <1>1, <1>3, <1>5 DEF Busy
  <2>2. IsFiniteSet(Busy) /\ Cardinality(Busy) \in Nat /\ Len(results) \in Nat
    BY LoadFacts DEF IInv
  <2>3. Cardinality(Busy \cup {w}) = Cardinality(Busy) + 1
    BY <2>1, <2>2, FS_AddElement
  <2>4. Cardinality(Busy') = Cardinality(Busy) + 1 /\ Len(results') = Len(results)
    BY <1>1, <2>1, <2>3
  <2>5. Load = Len(jobs) + Len(results) + Cardinality(Busy)
        /\ Load' = Len(jobs') + Len(results') + Cardinality(Busy')
    BY DEF Load
  <2> QED BY <1>3, <1>4, <2>2, <2>4, <2>5
<1>7. ASSUME NEW j \in 1..Last, InFlight(j)
      PROVE  InFlight(j)'
  <2>1. CASE \E n \in 1..Len(jobs) : jobs[n] = j
    <3>1. PICK n \in 1..Len(jobs) : jobs[n] = j
      BY <2>1
    <3>2. CASE n = 1
      BY <1>4, <1>5, <3>1, <3>2 DEF InFlight
    <3>3. CASE n # 1
      <4>1. n - 1 \in 1..Len(jobs') /\ (n - 1) + 1 = n
        BY <1>3, <1>4, <3>3
      <4>2. jobs'[n - 1] = j
        BY <1>3, <3>1, <4>1
      <4> QED BY <4>1, <4>2 DEF InFlight
    <3> QED BY <3>2, <3>3
  <2>2. CASE \E n \in 1..Len(results) : results[n] = j
    BY <1>1, <2>2 DEF InFlight
  <2>3. CASE \E v \in Worker : held[v] = j
    <3>1. PICK v \in Worker : held[v] = j
      BY <2>3
    <3>2. v # w
      BY <1>1, <3>1
    <3> QED BY <1>5, <3>1, <3>2 DEF InFlight
  <2> QED BY <1>7, <2>1, <2>2, <2>3 DEF InFlight
<1>8. ASSUME NEW j \in 1..Last, InFlight(j)'
      PROVE  InFlight(j)
  <2>1. CASE \E n \in 1..Len(jobs') : jobs'[n] = j
    <3>1. PICK n \in 1..Len(jobs') : jobs'[n] = j
      BY <2>1
    <3>2. n + 1 \in 1..Len(jobs) /\ jobs[n + 1] = j
      BY <1>3, <1>4, <3>1
    <3> QED BY <3>2 DEF InFlight
  <2>2. CASE \E n \in 1..Len(results') : results'[n] = j
    BY <1>1, <2>2 DEF InFlight
  <2>3. CASE \E v \in Worker : held'[v] = j
    <3>1. PICK v \in Worker : held'[v] = j
      BY <2>3
    <3>2. CASE v = w
      <4>1. 1 \in 1..Len(jobs) /\ jobs[1] = j
        BY <1>4, <1>5, <3>1, <3>2
      <4> QED BY <4>1 DEF InFlight
    <3>3. CASE v # w
      BY <1>5, <3>1, <3>3 DEF InFlight
    <3> QED BY <3>2, <3>3
  <2> QED BY <1>8, <2>1, <2>2, <2>3 DEF InFlight
<1>9. results' \in Seq(1..Last) /\ gone' \subseteq Worker
      /\ cancelled' \in BOOLEAN /\ (cancelled => cancelled')
  BY <1>1, <1>2
<1> QED BY <1>1, <1>3, <1>5, <1>6, <1>7, <1>8, <1>9, OtherStep

LEMMA PutStep ==
  ASSUME IInv, NEW w \in Worker, Put(w)
  PROVE  IInv'
<1>1. /\ held[w] # 0
      /\ results' = Append(results, held[w]) /\ held' = [held EXCEPT ![w] = 0]
      /\ UNCHANGED <<input, stage, decoded, jobs, closed, pendingJobs,
                     progress, decodeErr, outcome, gone, cancelled, stopping>>
  BY DEF Put
<1>2. /\ jobs \in Seq(1..Last) /\ results \in Seq(1..Last) /\ Last \in Nat
      /\ held \in [Worker -> 0..Last] /\ gone \subseteq Worker
      /\ cancelled \in BOOLEAN
  BY Numbers DEF IInv, TypeOK
<1>3. held[w] \in 1..Last /\ Len(results) \in Nat
  BY <1>1, <1>2, LenProperties
<1>4. /\ results' \in Seq(1..Last) /\ Len(results') = Len(results) + 1
      /\ \A n \in 1..Len(results) : results'[n] = results[n]
      /\ results'[Len(results) + 1] = held[w]
  BY <1>1, <1>2, <1>3, AppendProperties
<1>5. held' \in [Worker -> 0..Last] /\ held'[w] = 0
      /\ \A v \in Worker \ {w} : held'[v] = held[v]
  BY <1>1, <1>2
<1>6. Load' = Load
  <2>1. Busy' = Busy \ {w} /\ w \in Busy
    BY <1>1, <1>5 DEF Busy
  <2>2. IsFiniteSet(Busy) /\ Cardinality(Busy) \in Nat /\ Len(jobs) \in Nat
    BY LoadFacts DEF IInv
  <2>3. Cardinality(Busy \ {w}) = Cardinality(Busy) - 1
    BY <2>1, <2>2, FS_RemoveElement
  <2>4. Cardinality(Busy') = Cardinality(Busy) - 1 /\ Len(jobs') = Len(jobs)
    BY <1>1, <2>1, <2>3
  <2>5. Load = Len(jobs) + Len(results) + Cardinality(Busy)
        /\ Load' = Len(jobs') + Len(results') + Cardinality(Busy')
    BY DEF Load
  <2> QED BY <1>3, <1>4, <2>2, <2>4, <2>5
<1>7. ASSUME NEW j \in 1..Last, InFlight(j)
      PROVE  InFlight(j)'
  <2>1. CASE \E n \in 1..Len(jobs) : jobs[n] = j
    BY <1>1, <2>1 DEF InFlight
  <2>2. CASE \E n \in 1..Len(results) : results[n] = j
    <3>1. PICK n \in 1..Len(results) : results[n] = j
      BY <2>2
    <3>2. n \in 1..Len(results') /\ results'[n] = j
      BY <1>3, <1>4, <3>1
    <3> QED BY <3>2 DEF InFlight
  <2>3. CASE \E v \in Worker : held[v] = j
    <3>1. PICK v \in Worker : held[v] = j
      BY <2>3
    <3>2. CASE v = w
      <4>1. Len(results) + 1 \in 1..Len(results')
            /\ results'[Len(results) + 1] = j
        BY <1>3, <1>4, <3>1, <3>2
      <4> QED BY <4>1 DEF InFlight
    <3>3. CASE v # w
      BY <1>5, <3>1, <3>3 DEF InFlight
    <3> QED BY <3>2, <3>3
  <2> QED BY <1>7, <2>1, <2>2, <2>3 DEF InFlight
<1>8. ASSUME NEW j \in 1..Last, InFlight(j)'
      PROVE  InFlight(j)
  <2>1. CASE \E n \in 1..Len(jobs') : jobs'[n] = j
    BY <1>1, <2>1 DEF InFlight
  <2>2. CASE \E n \in 1..Len(results') : results'[n] = j
    <3>1. PICK n \in 1..Len(results') : results'[n] = j
      BY <2>2
    <3>2. CASE n = Len(results) + 1
      BY <1>4, <3>1, <3>2 DEF InFlight
    <3>3. CASE n # Len(results) + 1
      <4>1. n \in 1..Len(results)
        BY <1>3, <1>4, <3>3
      <4>2. results[n] = j
        BY <1>4, <3>1, <4>1
      <4> QED BY <4>1, <4>2 DEF InFlight
    <3> QED BY <3>2, <3>3
  <2>3. CASE \E v \in Worker : held'[v] = j
    <3>1. PICK v \in Worker : held'[v] = j
      BY <2>3
    <3>2. v # w
      BY <1>2, <1>5, <3>1
    <3> QED BY <1>5, <3>1, <3>2 DEF InFlight
  <2> QED BY <1>8, <2>1, <2>2, <2>3 DEF InFlight
<1>9. jobs' \in Seq(1..Last) /\ gone' \subseteq Worker
      /\ cancelled' \in BOOLEAN /\ (cancelled => cancelled')
  BY <1>1, <1>2
<1> QED BY <1>1, <1>4, <1>5, <1>6, <1>7, <1>8, <1>9, OtherStep

LEMMA LeaveStep ==
  ASSUME IInv, NEW w \in Worker, Leave(w)
  PROVE  IInv'
<1>1. /\ gone' = gone \cup {w} /\ held' = [held EXCEPT ![w] = 0]
      /\ UNCHANGED <<input, stage, decoded, jobs, closed, results,
                     pendingJobs, progress, decodeErr, outcome, cancelled,
                     stopping>>
  BY DEF Leave, channels
<1>2. /\ jobs \in Seq(1..Last) /\ results \in Seq(1..Last) /\ Last \in Nat
      /\ held \in [Worker -> 0..Last] /\ gone \subseteq Worker
      /\ cancelled \in BOOLEAN
  BY Numbers DEF IInv, TypeOK
<1>3. held' \in [Worker -> 0..Last] /\ held'[w] = 0
      /\ \A v \in Worker \ {w} : held'[v] = held[v]
  BY <1>1, <1>2
<1>4. ASSUME NEW j \in 1..Last, InFlight(j)'
      PROVE  InFlight(j)
  <2>1. CASE \E v \in Worker : held'[v] = j
    <3>1. PICK v \in Worker : held'[v] = j
      BY <2>1
    <3>2. v # w
      BY <1>2, <1>3, <3>1
    <3> QED BY <1>3, <3>1, <3>2 DEF InFlight
  <2>2. CASE ~ \E v \in Worker : held'[v] = j
    BY <1>1, <1>4, <2>2 DEF InFlight
  <2> QED BY <2>1, <2>2
<1>5. \/ Load' = Load /\ \A j \in 1..Last : InFlight(j) => InFlight(j)'
      \/ Load' = Load - 1
  <2>1. IsFiniteSet(Busy) /\ Cardinality(Busy) \in Nat /\ Len(jobs) \in Nat
        /\ Len(results) \in Nat
    BY LoadFacts DEF IInv
  <2>2. Load = Len(jobs) + Len(results) + Cardinality(Busy)
        /\ Load' = Len(jobs') + Len(results') + Cardinality(Busy')
    BY DEF Load
  <2>3. CASE held[w] = 0
    <3>1. held' = held
      BY <1>1, <1>2, <2>3
    <3> QED BY <1>1, <3>1, SameFlight
  <2>4. CASE held[w] # 0
    <3>1. Busy' = Busy \ {w} /\ w \in Busy
      BY <1>3, <2>4 DEF Busy
    <3>2. Cardinality(Busy \ {w}) = Cardinality(Busy) - 1
      BY <2>1, <3>1, FS_RemoveElement
    <3>3. Cardinality(Busy') = Cardinality(Busy) - 1
      BY <3>1, <3>2
    <3> QED BY <1>1, <2>1, <2>2, <3>3
  <2> QED BY <2>3, <2>4
<1>6. /\ jobs' \in Seq(1..Last) /\ results' \in Seq(1..Last)
      /\ gone' \subseteq Worker
      /\ cancelled' \in BOOLEAN /\ (cancelled => cancelled')
  BY <1>1, <1>2
<1> QED BY <1>1, <1>3, <1>4, <1>5, <1>6, OtherStep

-----------------------------------------------------------------------------
(* The end of the import                                                   *)

(* When the workers have been waited for and no error is to be returned,   *)
(* every record was written; errPipelineStopped has been replaced by the   *)
(* error of the record it stands for.                                      *)
LEMMA FinishFacts ==
  ASSUME IInv, stage = "finishing"
  PROVE  /\ decodeErr # Stopped
         /\ decodeErr \in {Nil, DecodeError} =>
              /\ \A i \in 1..Last : input.fate[i] = "good"
              /\ nextRecord = Last + 1 /\ decoded = Last
         /\ decodeErr = Nil => input.decodes
         /\ decodeErr = DecodeError => ~input.decodes
         /\ decodeErr = Cancelled => cancelled
         /\ decodeErr \in {Nil, DecodeError, Cancelled} \/ Stuck
<1>1. /\ Last \in Nat /\ nextRecord \in 1..(Last + 1) /\ Released = decoded
      /\ Load \in Nat /\ Load <= pendingJobs /\ pendingJobs \in Nat
      /\ buffered \subseteq 1..Last /\ nextRecord \notin buffered
      /\ \A i \in 1..Last : i < nextRecord => input.fate[i] = "good"
  BY Numbers DEF InHand, IInv, TypeOK, InOrder
<1>2. ASSUME decodeErr \in {Nil, DecodeError, Stopped}
      PROVE  /\ ~Stuck /\ Load = 0 /\ pendingJobs = 0
             /\ \A i \in 1..Last : ~InFlight(i)
  <2>1. ~Stuck
    BY <1>2, Errors DEF Stuck
  <2>2. pendingJobs = 0
    BY <1>2, <2>1, Errors DEF IInv, ErrorMeaning
  <2>3. Load = 0
    BY <1>1, <2>2
  <2> QED BY <2>1, <2>2, <2>3, NothingInFlight DEF IInv
<1>3. ASSUME NEW n \in 0..Last, AccountedUpTo(n),
             \A i \in 1..Last : ~InFlight(i)
      PROVE  n < nextRecord
  <2> SUFFICES ASSUME nextRecord <= n
               PROVE  FALSE
    BY <1>1
  <2>1. nextRecord \in 1..Last
    BY <1>1
  <2>2. nextRecord \in buffered
    BY <1>1, <1>3, <2>1 DEF AccountedUpTo
  <2> QED BY <1>1, <2>2
<1>4. decodeErr # Stopped
  <2> SUFFICES ASSUME decodeErr = Stopped
               PROVE  FALSE
    OBVIOUS
  <2>1. ~Stuck /\ Load = 0 /\ pendingJobs = 0 /\ \A i \in 1..Last : ~InFlight(i)
    BY <1>2
  <2>2. PICK j \in buffered : input.fate[j] # "good" /\ AccountedUpTo(j)
    BY <2>1, Errors DEF IInv, Accounted
  <2>3. j \in 0..Last /\ j \in 1..Last
    BY <1>1
  <2>4. j < nextRecord
    BY <1>3, <2>1, <2>2, <2>3
  <2> QED BY <1>1, <2>2, <2>3, <2>4
<1>5. ASSUME decodeErr \in {Nil, DecodeError}
      PROVE  /\ \A i \in 1..Last : input.fate[i] = "good"
             /\ nextRecord = Last + 1 /\ decoded = Last
  <2>1. ~Stuck /\ Load = 0 /\ pendingJobs = 0 /\ \A i \in 1..Last : ~InFlight(i)
    BY <1>2, <1>5
  <2>2. AccountedUpTo(Released)
    BY <1>5, <2>1, Errors DEF IInv, Accounted
  <2>3. decoded = Last
    BY <1>5, Errors DEF IInv, ErrorMeaning
  <2>4. Last < nextRecord
    BY <1>1, <1>3, <2>1, <2>2, <2>3
  <2>5. nextRecord = Last + 1
    BY <1>1, <2>4
  <2> QED BY <1>1, <2>3, <2>5
<1>6. /\ decodeErr = Nil => input.decodes
      /\ decodeErr = DecodeError => ~input.decodes
      /\ decodeErr = Cancelled => cancelled
      /\ decodeErr \in {Nil, DecodeError, Cancelled, Stopped} \/ Stuck
  BY DEF IInv, ErrorMeaning
<1> QED BY <1>4, <1>5, <1>6

LEMMA SequentialStuck ==
  ASSUME IInv, Stuck
  PROVE  SequentialOutcome = decodeErr
<1> DEFINE failing == {i \in 1..Last : input.fate[i] # "good"}
           least == CHOOSE i \in failing : \A j \in failing : i <= j
<1>1. /\ nextRecord \in 1..Last /\ input.fate[nextRecord] # "good"
      /\ decodeErr = Record(nextRecord)
  BY Numbers DEF Stuck
<1>2. nextRecord \in failing /\ \A j \in failing : nextRecord <= j
  BY <1>1 DEF IInv, InOrder
<1>3. least \in failing /\ \A j \in failing : least <= j
  BY <1>2
<1>4. least = nextRecord
  BY <1>1, <1>2, <1>3
<1>5. SequentialOutcome = Record(least)
  BY <1>2 DEF SequentialOutcome
<1> QED BY <1>1, <1>4, <1>5

LEMMA SequentialGood ==
  ASSUME \A i \in 1..Last : input.fate[i] = "good"
  PROVE  SequentialOutcome = IF ~input.decodes THEN DecodeError
                             ELSE IF Last = 0 THEN NoEvents
                             ELSE Nil
<1>1. {i \in 1..Last : input.fate[i] # "good"} = {}
  OBVIOUS
<1> QED BY <1>1 DEF SequentialOutcome

LEMMA ReturnStep ==
  ASSUME IInv, stage = "finishing", NEW result, Return(result),
         result \in Error, rows' \in Seq(1..Last), batch' = <<>>,
         \/ result = SequentialOutcome
         \/ result = StoreError /\ SequentialOutcome = Nil
         \/ result = Cancelled /\ cancelled,
         rows' = IF result = Nil THEN [i \in 1..Last |-> i] ELSE <<>>
  PROVE  IInv'
<1>1. /\ stage' = "returned" /\ outcome' = result
      /\ UNCHANGED <<input, decoded, jobs, closed, results, pendingJobs,
                     nextRecord, buffered, decodeErr, held, gone, cancelled,
                     stopping>>
  BY DEF Return, channels, workers
<1>2. Last' = Last /\ Error' = Error /\ Released' = Released
      /\ (Stuck' <=> Stuck) /\ SequentialOutcome' = SequentialOutcome
  BY <1>1 DEF Last, Error, Released, InHand, Stuck, SequentialOutcome
<1>3. Load' = Load /\ \A j : InFlight(j)' <=> InFlight(j)
  BY <1>1, SameFlight
<1>4. TypeOK'
  <2>1. batch' \in Seq(1..Last)
    BY EmptySeq
  <2> QED BY <1>1, <1>2, <2>1 DEF IInv, TypeOK, Stage
<1>5. Counted'
  BY <1>1, <1>2, <1>3 DEF IInv, Counted
<1>6. InOrder'
  BY <1>1, <1>2 DEF IInv, InOrder
<1>7. Accounted'
  <2>1. \A n : AccountedUpTo(n) => AccountedUpTo(n)'
    BY <1>1, <1>2, <1>3 DEF AccountedUpTo
  <2>2. AccountedUpTo(Released) => AccountedUpTo(Released)'
    BY <1>1, <1>2, <1>3 DEF AccountedUpTo
  <2> QED BY <1>1, <1>2, <1>3, <2>1, <2>2 DEF IInv, Accounted
<1>8. ErrorMeaning'
  BY <1>1, <1>2 DEF IInv, ErrorMeaning, InHand
<1>9. Paced'
  BY <1>1 DEF Paced
<1>10. LikeSequential'
  BY <1>1, <1>2 DEF LikeSequential
<1> QED BY <1>4, <1>5, <1>6, <1>7, <1>8, <1>9, <1>10 DEF IInv

LEMMA FailStep ==
  ASSUME IInv, Fail
  PROVE  IInv'
<1>1. stage = "finishing" /\ rows' = <<>> /\ batch' = <<>>
  BY DEF Fail
<1>2. <<>> \in Seq(1..Last)
  BY EmptySeq
<1>3. CASE decodeErr \notin {Nil, Stopped} /\ Return(decodeErr)
  <2>1. \/ decodeErr = SequentialOutcome
        \/ decodeErr = Cancelled /\ cancelled
    <3>1. CASE decodeErr = DecodeError
      BY <1>1, <3>1, FinishFacts, SequentialGood
    <3>2. CASE Stuck
      BY <3>2, SequentialStuck
    <3>3. CASE decodeErr = Cancelled
      BY <1>1, <3>3, FinishFacts
    <3> QED BY <1>1, <1>3, <3>1, <3>2, <3>3, FinishFacts
  <2>2. PICK result : result = decodeErr
    OBVIOUS
  <2>3. result \in Error /\ result # Nil /\ Return(result)
    BY <1>3, <2>2 DEF IInv, TypeOK
  <2> QED BY <1>1, <1>2, <2>1, <2>2, <2>3, ReturnStep
<1>4. CASE decodeErr \in {Nil, Stopped} /\ decoded = 0 /\ Return(NoEvents)
  <2>1. decodeErr = Nil
    BY <1>1, <1>4, FinishFacts
  <2>2. Last = 0 /\ input.decodes /\ \A i \in 1..Last : input.fate[i] = "good"
    BY <1>1, <1>4, <2>1, FinishFacts
  <2>3. SequentialOutcome = NoEvents
    BY <2>2, SequentialGood
  <2>4. NoEvents \in Error /\ NoEvents # Nil
    BY Errors DEF Error
  <2> QED BY <1>1, <1>2, <1>4, <2>3, <2>4, ReturnStep
<1> QED BY <1>3, <1>4 DEF Fail

LEMMA CommitStep ==
  ASSUME IInv, Commit
  PROVE  IInv'
<1>1. /\ stage = "finishing" /\ decodeErr \in {Nil, Stopped} /\ decoded > 0
      /\ batch' = <<>>
      /\ \/ rows' = rows \o batch /\ Return(Nil)
         \/ /\ rows' = <<>>
            /\ Return(IF cancelled THEN Cancelled ELSE StoreError)
  BY DEF Commit, CommitRows
<1>2. decodeErr = Nil
  BY <1>1, FinishFacts
<1>3. /\ \A i \in 1..Last : input.fate[i] = "good"
      /\ nextRecord = Last + 1 /\ decoded = Last /\ input.decodes
  BY <1>1, <1>2, FinishFacts
<1>4. SequentialOutcome = Nil
  <2>1. Last # 0
    BY <1>1, <1>3, Numbers
  <2> QED BY <1>3, <2>1, SequentialGood
<1>5. CASE rows' = rows \o batch /\ Return(Nil)
  <2>1. /\ rows \in Seq(1..Last) /\ batch \in Seq(1..Last) /\ Last \in Nat
        /\ Len(rows) + Len(batch) = nextRecord - 1
        /\ \A i \in 1..Len(rows) : rows[i] = i
        /\ \A i \in 1..Len(batch) : batch[i] = Len(rows) + i
    BY <1>1, Numbers DEF IInv, TypeOK, InOrder
  <2>2. Len(rows) \in Nat /\ Len(batch) \in Nat
        /\ Len(rows) + Len(batch) = Last
    BY <1>3, <2>1, LenProperties
  <2>3. /\ rows' \in Seq(1..Last)
        /\ Len(rows') = Len(rows) + Len(batch)
        /\ \A i \in 1..(Len(rows) + Len(batch)) :
             rows'[i] = IF i <= Len(rows) THEN rows[i] ELSE batch[i - Len(rows)]
    BY <1>5, <2>1, ConcatProperties
  <2>4. ASSUME NEW i \in 1..Last
        PROVE  rows'[i] = i
    <3>1. rows'[i] = IF i <= Len(rows) THEN rows[i] ELSE batch[i - Len(rows)]
      BY <2>2, <2>3
    <3>2. CASE i <= Len(rows)
      BY <2>1, <2>2, <3>1, <3>2
    <3>3. CASE ~(i <= Len(rows))
      <4>1. i - Len(rows) \in 1..Len(batch)
        BY <2>2, <3>3
      <4>2. rows'[i] = Len(rows) + (i - Len(rows))
        BY <2>1, <3>1, <3>3, <4>1
      <4> QED BY <2>2, <4>2
    <3> QED BY <3>2, <3>3
  <2>5. rows' = [i \in 1..Last |-> i]
    <3>1. rows' \in [1..Last -> 1..Last]
      BY <2>2, <2>3, LenProperties
    <3> QED BY <2>4, <3>1
  <2>6. Nil \in Error
    BY DEF Error
  <2> QED BY <1>1, <1>4, <1>5, <2>3, <2>5, <2>6, ReturnStep
<1>6. CASE /\ rows' = <<>>
           /\ Return(IF cancelled THEN Cancelled ELSE StoreError)
  <2>1. <<>> \in Seq(1..Last)
    BY EmptySeq
  <2>2. PICK result : result = IF cancelled THEN Cancelled ELSE StoreError
    OBVIOUS
  <2>3. result \in Error /\ result # Nil
    BY <2>2, Errors DEF Error
  <2>4. \/ result = StoreError /\ SequentialOutcome = Nil
        \/ result = Cancelled /\ cancelled
    BY <1>4, <2>2
  <2>5. Return(result)
    BY <1>6, <2>2
  <2> QED BY <1>1, <1>6, <2>1, <2>3, <2>4, <2>5, ReturnStep
<1> QED BY <1>1, <1>5, <1>6

-----------------------------------------------------------------------------
(* Theorems                                                                *)

LEMMA NextInv ==
  ASSUME IInv, [Next]_vars
  PROVE  IInv'
<1>1. CASE Main
  BY <1>1, DecodeStep, EndOfInputStep, DecodingCancelledStep, ReceiveAheadStep,
     RejectRecordStep, ParseRecordStep, CollectStep, StartDiscoveryStep,
     DiscoverStep, SubmitStep, DrainStep, DrainingCancelledStep,
     BatchCancelledStep, DrainedStep, FailStep, CommitStep DEF Main
<1>2. ASSUME NEW w \in Worker, Work(w)
      PROVE  IInv'
  BY <1>2, TakeStep, PutStep, LeaveStep DEF Work
<1>3. CASE Cancel
  BY <1>3, CancelStep
<1>4. CASE UNCHANGED vars
  BY <1>4, StutterStep
<1> QED BY <1>1, <1>2, <1>3, <1>4 DEF Next, Done

LEMMA Inductive == Spec => []IInv
<1>1. Init => IInv
  BY InitInv
<1>2. IInv /\ [Next]_vars => IInv'
  BY NextInv
<1> QED BY <1>1, <1>2, PTL DEF Spec

(* Every variable of an import has the type the pipeline of Import relies  *)
(* on; in particular no more jobs are pending than records were decoded.   *)
THEOREM TypeCorrect == Spec => []TypeOK
<1>1. IInv => TypeOK
  BY DEF IInv
<1> QED BY <1>1, Inductive, PTL

(* For any number of workers, any batch size and any input: Import returns *)
(* what importing one record after the other would, and leaves the rows    *)
(* that would.                                                             *)
THEOREM SameAsSequential == Spec => []LikeSequential
<1>1. IInv => LikeSequential
  BY DEF IInv
<1> QED BY <1>1, Inductive, PTL

(* While the decoding goroutine extends the embedded paths, every record   *)
(* submitted before has been prepared and received.                        *)
THEOREM DiscoveryConfined == Spec => []DiscoveryAlone
<1>1. IInv => DiscoveryAlone
  <2> SUFFICES ASSUME IInv, stage = "discovering"
               PROVE  /\ jobs = <<>> /\ results = <<>>
                      /\ \A w \in Worker : held[w] = 0
    BY DEF DiscoveryAlone
  <2>1. Load = 0
    BY Numbers DEF IInv, Paced
  <2> QED BY <2>1, NothingInFlight DEF IInv
<1> QED BY <1>1, Inductive, PTL

(* Decoding is never more than 3 * workerCount records ahead of the next   *)
(* record to write, however slow a worker is.                              *)
THEOREM LeadBounded == Spec => []BoundedLead
<1>1. IInv => BoundedLead
  BY DEF IInv, Paced, BoundedLead
<1> QED BY <1>1, Inductive, PTL

-----------------------------------------------------------------------------
(* The end of every import                                                 *)

(* The decoding goroutine has a step to take: the guards of Main.          *)
MainCanStep ==
  \/ stage \in {"decoding", "discovering"}
  \/ stage = "consuming" /\ decoded - nextRecord < Window
  \/ stage = "submitting" /\ Len(jobs) < Capacity
  \/ stage \in {"collecting", "draining"} /\ pendingJobs = 0
  \/ /\ stage \in {"consuming", "submitting", "collecting", "draining"}
     /\ results # <<>> \/ cancelled
  \/ stage = "finishing" /\ gone = Worker

(* And a worker: the guards of Work.                                       *)
WorkerCanStep(w) ==
  \/ w \notin gone /\ held[w] = 0 /\ jobs # <<>>
  \/ held[w] # 0 /\ Len(results) < Capacity
  \/ /\ w \notin gone
     /\ cancelled \/ stopping \/ (held[w] = 0 /\ closed /\ jobs = <<>>)

(* The goroutines never all wait for each other.                           *)
NeverStuck ==
  stage # "returned" => MainCanStep \/ \E w \in Worker : WorkerCanStep(w)

(* Workers leave, and jobs get lost with them, only when the import is     *)
(* being wound up; without that the jobs pending are those in flight.      *)
Winding ==
  /\ closed <=> stage \in {"draining", "finishing", "returned"}
  /\ stopping => stage \in {"finishing", "returned"}
  /\ gone # {} => cancelled \/ stopping \/ (closed /\ jobs = <<>>)
  /\ \A w \in gone : held[w] = 0
  /\ Load < pendingJobs => cancelled \/ stopping
  /\ stage = "finishing" => pendingJobs = 0 \/ stopping \/ cancelled

(* The steps that are left at most: 7 of a record that is not decoded yet, *)
(* less of one that was; those of the stages; and one of each worker and   *)
(* of the context.                                                         *)
stageLeft ==
  [consuming |-> 9, collecting |-> 8, discovering |-> 7, submitting |-> 7,
   decoding |-> 3, draining |-> 2, finishing |-> 1, returned |-> 0]

FlightLeft == 3 * Len(jobs) + 2 * Cardinality(Busy) + Len(results)

StepsLeft ==
  7 * (Last - decoded) + stageLeft[stage] + FlightLeft
    + Cardinality(Worker \ gone) + (IF cancelled THEN 0 ELSE 1)

MostSteps == 7 * Last + workerCount + 4

LEMMA StageLeft ==
  /\ stageLeft["consuming"] = 9 /\ stageLeft["collecting"] = 8
  /\ stageLeft["discovering"] = 7 /\ stageLeft["submitting"] = 7
  /\ stageLeft["decoding"] = 3 /\ stageLeft["draining"] = 2
  /\ stageLeft["finishing"] = 1 /\ stageLeft["returned"] = 0
BY DEF stageLeft

LEMMA FlightSums ==
  ASSUME NEW j \in Nat, NEW r \in Nat, NEW b \in Nat
  PROVE  /\ j + (r - 1) + b = (j + r + b) - 1
         /\ 3 * j + 2 * b + (r - 1) = (3 * j + 2 * b + r) - 1
         /\ (j + 1) + r + b = (j + r + b) + 1
         /\ 3 * (j + 1) + 2 * b + r = (3 * j + 2 * b + r) + 3
         /\ (j - 1) + r + (b + 1) = j + r + b
         /\ 3 * (j - 1) + 2 * (b + 1) + r = (3 * j + 2 * b + r) - 1
         /\ j + (r + 1) + (b - 1) = j + r + b
         /\ 3 * j + 2 * (b - 1) + (r + 1) = (3 * j + 2 * b + r) - 1
         /\ j + r + (b - 1) = (j + r + b) - 1
         /\ 3 * j + 2 * (b - 1) + r <= 3 * j + 2 * b + r
OBVIOUS

(* How each kind of step changes what is in flight.                        *)
LEMMA QuietFlight ==
  ASSUME UNCHANGED <<jobs, results, held>>
  PROVE  FlightLeft' = FlightLeft /\ Load' = Load
BY DEF FlightLeft, Load, Busy

LEMMA ReceivedFlight ==
  ASSUME IInv, Receive, UNCHANGED <<jobs, held>>
  PROVE  /\ FlightLeft' = FlightLeft - 1 /\ Load' = Load - 1
         /\ pendingJobs' = pendingJobs - 1
<1>1. /\ results \in Seq(1..Last) /\ results # <<>>
      /\ results' = Tail(results) /\ pendingJobs' = pendingJobs - 1
  BY DEF Receive, IInv, TypeOK
<1>2. Len(results') = Len(results) - 1
  BY <1>1, HeadTailProperties
<1>3. Cardinality(Busy)' = Cardinality(Busy) /\ Len(jobs)' = Len(jobs)
  BY DEF Busy
<1>4. Cardinality(Busy) \in Nat /\ Len(jobs) \in Nat /\ Len(results) \in Nat
  BY LoadFacts DEF IInv
<1>5. PICK j \in Nat, r \in Nat, b \in Nat :
        j = Len(jobs) /\ r = Len(results) /\ b = Cardinality(Busy)
  BY <1>4
<1>6. /\ Load = j + r + b /\ FlightLeft = 3 * j + 2 * b + r
      /\ Load' = j + (r - 1) + b
      /\ FlightLeft' = 3 * j + 2 * b + (r - 1)
  BY <1>2, <1>3, <1>5 DEF Load, FlightLeft
<1> QED BY <1>1, <1>6, FlightSums

LEMMA SubmittedFlight ==
  ASSUME IInv, Submit
  PROVE  /\ FlightLeft' = FlightLeft + 3 /\ Load' = Load + 1
         /\ pendingJobs' = pendingJobs + 1
<1>1. /\ jobs \in Seq(1..Last) /\ decoded \in 1..Last
      /\ jobs' = Append(jobs, decoded) /\ pendingJobs' = pendingJobs + 1
      /\ results' = results /\ held' = held
  BY Numbers DEF Submit, SubmitCounting, IInv, TypeOK, InHand, workers
<1>2. Len(jobs') = Len(jobs) + 1
  BY <1>1, AppendProperties
<1>3. Cardinality(Busy)' = Cardinality(Busy) /\ Len(results)' = Len(results)
  BY <1>1 DEF Busy
<1>4. Cardinality(Busy) \in Nat /\ Len(jobs) \in Nat /\ Len(results) \in Nat
  BY LoadFacts DEF IInv
<1>5. PICK j \in Nat, r \in Nat, b \in Nat :
        j = Len(jobs) /\ r = Len(results) /\ b = Cardinality(Busy)
  BY <1>4
<1>6. /\ Load = j + r + b /\ FlightLeft = 3 * j + 2 * b + r
      /\ Load' = (j + 1) + r + b
      /\ FlightLeft' = 3 * (j + 1) + 2 * b + r
  BY <1>2, <1>3, <1>5 DEF Load, FlightLeft
<1> QED BY <1>1, <1>6, FlightSums

LEMMA TakenFlight ==
  ASSUME IInv, NEW w \in Worker, Take(w)
  PROVE  FlightLeft' = FlightLeft - 1 /\ Load' = Load
<1>1. /\ held[w] = 0 /\ jobs # <<>> /\ jobs \in Seq(1..Last)
      /\ held \in [Worker -> 0..Last]
      /\ held' = [held EXCEPT ![w] = Head(jobs)] /\ jobs' = Tail(jobs)
      /\ results' = results
  BY DEF Take, IInv, TypeOK
<1>2. Head(jobs) \in 1..Last /\ Len(jobs') = Len(jobs) - 1
  BY <1>1, HeadTailProperties
<1>3. Busy' = Busy \cup {w} /\ w \notin Busy
  BY <1>1, <1>2 DEF Busy
<1>4. /\ IsFiniteSet(Busy) /\ Cardinality(Busy) \in Nat
      /\ Len(jobs) \in Nat /\ Len(results) \in Nat
  BY LoadFacts DEF IInv
<1>5. Cardinality(Busy)' = Cardinality(Busy) + 1
  BY <1>3, <1>4, FS_AddElement
<1>6. PICK j \in Nat, r \in Nat, b \in Nat :
        j = Len(jobs) /\ r = Len(results) /\ b = Cardinality(Busy)
  BY <1>4
<1>7. /\ Load = j + r + b /\ FlightLeft = 3 * j + 2 * b + r
      /\ Load' = (j - 1) + r + (b + 1)
      /\ FlightLeft' = 3 * (j - 1) + 2 * (b + 1) + r
  BY <1>1, <1>2, <1>5, <1>6 DEF Load, FlightLeft
<1> QED BY <1>7, FlightSums

LEMMA PutFlight ==
  ASSUME IInv, NEW w \in Worker, Put(w)
  PROVE  FlightLeft' = FlightLeft - 1 /\ Load' = Load
<1>1. /\ held[w] \in 1..Last /\ results \in Seq(1..Last)
      /\ held \in [Worker -> 0..Last]
      /\ results' = Append(results, held[w])
      /\ held' = [held EXCEPT ![w] = 0] /\ jobs' = jobs
  <2>1. Last \in Nat
    BY Numbers
  <2>2. /\ results \in Seq(1..Last) /\ held \in [Worker -> 0..Last]
        /\ held[w] # 0
    BY DEF Put, IInv, TypeOK
  <2>3. held[w] \in 1..Last
    BY <2>1, <2>2
  <2> QED
    BY <2>2, <2>3 DEF Put
<1>2. Len(results') = Len(results) + 1
  BY <1>1, AppendProperties
<1>3. Busy' = Busy \ {w} /\ w \in Busy
  BY <1>1 DEF Busy
<1>4. /\ IsFiniteSet(Busy) /\ Cardinality(Busy) \in Nat
      /\ Len(jobs) \in Nat /\ Len(results) \in Nat
  BY LoadFacts DEF IInv
<1>5. Cardinality(Busy)' = Cardinality(Busy) - 1
  BY <1>3, <1>4, FS_RemoveElement
<1>6. PICK j \in Nat, r \in Nat, b \in Nat :
        j = Len(jobs) /\ r = Len(results) /\ b = Cardinality(Busy)
  BY <1>4
<1>7. /\ Load = j + r + b /\ FlightLeft = 3 * j + 2 * b + r
      /\ Load' = j + (r + 1) + (b - 1)
      /\ FlightLeft' = 3 * j + 2 * (b - 1) + (r + 1)
  BY <1>1, <1>2, <1>5, <1>6 DEF Load, FlightLeft
<1> QED BY <1>7, FlightSums

LEMMA LeftFlight ==
  ASSUME IInv, NEW w \in Worker, Leave(w)
  PROVE  /\ FlightLeft' \in Int /\ FlightLeft' <= FlightLeft
         /\ held[w] = 0 => Load' = Load
<1>1. /\ held \in [Worker -> 0..Last] /\ held' = [held EXCEPT ![w] = 0]
      /\ jobs' = jobs /\ results' = results
  BY DEF Leave, IInv, TypeOK, channels
<1>2. /\ IsFiniteSet(Busy) /\ Cardinality(Busy) \in Nat
      /\ Len(jobs) \in Nat /\ Len(results) \in Nat
  BY LoadFacts DEF IInv
<1>3. CASE held[w] = 0
  <2>1. held' = held
    BY <1>1, <1>3
  <2>2. FlightLeft' = FlightLeft /\ Load' = Load
    BY <1>1, <2>1, QuietFlight
  <2>3. FlightLeft \in Int
    BY <1>2 DEF FlightLeft
  <2> QED BY <2>2, <2>3
<1>4. CASE held[w] # 0
  <2>1. Busy' = Busy \ {w} /\ w \in Busy
    BY <1>1, <1>4 DEF Busy
  <2>2. Cardinality(Busy)' = Cardinality(Busy) - 1
    BY <1>2, <2>1, FS_RemoveElement
  <2>3. /\ Load = Len(jobs) + Len(results) + Cardinality(Busy)
        /\ Load' = Len(jobs) + Len(results) + (Cardinality(Busy) - 1)
        /\ FlightLeft = 3 * Len(jobs) + 2 * Cardinality(Busy) + Len(results)
        /\ FlightLeft' = 3 * Len(jobs) + 2 * (Cardinality(Busy) - 1)
                           + Len(results)
    BY <1>1, <2>2 DEF Load, FlightLeft
  <2>4. FlightLeft' \in Int
    <3>1. PICK j \in Nat, r \in Nat, b \in Nat :
            j = Len(jobs) /\ r = Len(results) /\ b = Cardinality(Busy)
      BY <1>2
    <3>2. FlightLeft' = 3 * j + 2 * (b - 1) + r
      BY <2>3, <3>1
    <3> QED BY <3>2
  <2> QED BY <1>2, <1>4, <2>3, <2>4, FlightSums
<1> QED BY <1>3, <1>4

(* The steps of the decoding goroutine, by what they do to the channels.   *)
LEMMA MainMoves ==
  ASSUME Main
  PROVE  /\ UNCHANGED <<input, held, gone, cancelled>>
         /\ stopping => stopping'
         /\ \/ /\ UNCHANGED <<jobs, results, pendingJobs>>
               /\ \/ /\ decoded < Last /\ decoded' = decoded + 1
                     /\ stage = "decoding" /\ stage' = "consuming"
                  \/ decoded' = decoded /\ stageLeft[stage'] < stageLeft[stage]
            \/ /\ Receive /\ UNCHANGED <<jobs, decoded>>
               /\ stageLeft[stage'] <= stageLeft[stage]
            \/ Submit /\ UNCHANGED <<decoded, closed, stopping>>
               /\ stage = "submitting" /\ stage' = "decoding"
<1>1. CASE Decode
  BY <1>1 DEF Decode, Continue, workers
<1>2. CASE EndOfInput \/ RejectRecord \/ ParseRecord \/ StartDiscovery
           \/ Discover \/ DecodingCancelled
  BY <1>2, StageLeft
  DEF EndOfInput, RejectRecord, ParseRecord, ParseRecordWithin, StartDiscovery,
      StartDiscoveryWhen, Discover, DecodingCancelled, Continue, StopDecoding,
      workers
<1>3. CASE DrainingCancelled \/ Drained
  BY <1>3, StageLeft
  DEF DrainingCancelled, Drained, DrainedWhen, FinishDraining, workers
<1>4. CASE Fail \/ Commit
  BY <1>4, StageLeft DEF Fail, Commit, CommitRows, Return, channels, workers
<1>5. CASE ReceiveAhead \/ Collect \/ Drain
  BY <1>5, StageLeft
  DEF ReceiveAhead, Collect, Drain, TakeResult, FinishDraining, Continue,
      StopDecoding, workers
<1>6. CASE Submit
  BY <1>6 DEF Submit, SubmitCounting, Continue, workers
<1>7. CASE BatchCancelled
  BY <1>7, StageLeft DEF BatchCancelled, FinishDraining, StopDecoding, workers
<1> QED BY <1>1, <1>2, <1>3, <1>4, <1>5, <1>6, <1>7 DEF Main

(* Winding up.                                                             *)
LEMMA InitWinding ==
  ASSUME Init, IInv
  PROVE  Winding
<1>1. Load <= 0 /\ Load \in Nat
  BY LoadFacts DEF IInv, Counted, Init
<1> QED BY <1>1 DEF Init, Winding

LEMMA MainWinding ==
  ASSUME IInv, Winding, Main
  PROVE  Winding'
<1>1. closed' <=> stage' \in {"draining", "finishing", "returned"}
  BY DEF Winding, Main, Decode, EndOfInput, DecodingCancelled, ReceiveAhead,
         RejectRecord, ParseRecord, ParseRecordWithin, Collect, StartDiscovery,
         StartDiscoveryWhen, Discover, Submit, SubmitCounting, Drain,
         DrainingCancelled, BatchCancelled, Drained, DrainedWhen, Fail, Commit, CommitRows,
         StopDecoding, Continue, FinishDraining, Return, channels
<1>2. stopping' => stage' \in {"finishing", "returned"}
  BY DEF Winding, Main, Decode, EndOfInput, DecodingCancelled, ReceiveAhead,
         RejectRecord, ParseRecord, ParseRecordWithin, Collect, StartDiscovery,
         StartDiscoveryWhen, Discover, Submit, SubmitCounting, Drain,
         DrainingCancelled, BatchCancelled, Drained, DrainedWhen, Fail, Commit, CommitRows,
         StopDecoding, Continue, FinishDraining, Return
<1>3. stage' = "finishing" => pendingJobs' = 0 \/ stopping' \/ cancelled'
  BY DEF Main, Decode, EndOfInput, DecodingCancelled, ReceiveAhead,
         RejectRecord, ParseRecord, ParseRecordWithin, Collect, StartDiscovery,
         StartDiscoveryWhen, Discover, Submit, SubmitCounting, Drain,
         DrainingCancelled, BatchCancelled, Drained, DrainedWhen, Fail, Commit, CommitRows,
         StopDecoding, Continue, FinishDraining, Return
<1>4. UNCHANGED <<held, gone, cancelled>> /\ (stopping => stopping')
  BY MainMoves
<1>5. gone' # {} => cancelled' \/ stopping' \/ (closed' /\ jobs' = <<>>)
  <2>1. closed => closed'
    BY <1>1
    DEF Winding, Main, Decode, EndOfInput, DecodingCancelled, ReceiveAhead,
        RejectRecord, ParseRecord, ParseRecordWithin, Collect, StartDiscovery,
        StartDiscoveryWhen, Discover, Submit, SubmitCounting, Drain,
        DrainingCancelled, BatchCancelled, Drained, DrainedWhen, Fail, Commit, CommitRows,
        StopDecoding, Continue, FinishDraining, Return, channels
  <2>2. jobs' = jobs \/ stage = "submitting"
    BY MainMoves
  <2> QED BY <1>4, <2>1, <2>2 DEF Winding
<1>6. Load' < pendingJobs' => Load < pendingJobs
  <2>1. CASE UNCHANGED <<jobs, results, pendingJobs>>
    BY <1>4, <2>1, QuietFlight
  <2>2. CASE Receive /\ jobs' = jobs
    BY <1>4, <2>2, ReceivedFlight, Numbers
  <2>3. CASE Submit
    BY <2>3, SubmittedFlight, Numbers
  <2> QED BY <2>1, <2>2, <2>3, MainMoves
<1>7. Load' < pendingJobs' => cancelled' \/ stopping'
  BY <1>4, <1>6 DEF Winding
<1> QED BY <1>1, <1>2, <1>3, <1>4, <1>5, <1>7 DEF Winding

LEMMA WorkWinding ==
  ASSUME IInv, Winding, NEW w \in Worker, Work(w)
  PROVE  Winding'
<1>1. UNCHANGED <<stage, closed, pendingJobs, cancelled, stopping>>
  BY DEF Work, Take, Put, Leave, channels
<1>2. held \in [Worker -> 0..Last] /\ gone \subseteq Worker
  BY DEF IInv, TypeOK
<1>3. CASE Take(w)
  <2>1. /\ jobs # <<>> /\ gone' = gone /\ w \notin gone /\ jobs' = Tail(jobs)
        /\ \A v \in Worker \ {w} : held'[v] = held[v]
    BY <1>2, <1>3 DEF Take
  <2>2. Load' = Load
    BY <1>3, TakenFlight
  <2> QED BY <1>1, <1>2, <2>1, <2>2 DEF Winding
<1>4. CASE Put(w)
  <2>1. /\ jobs' = jobs /\ gone' = gone
        /\ \A v \in Worker : held'[v] \in {held[v], 0}
    BY <1>2, <1>4 DEF Put
  <2>2. Load' = Load
    BY <1>4, PutFlight
  <2> QED BY <1>1, <1>2, <2>1, <2>2 DEF Winding
<1>5. CASE Leave(w)
  <2>1. /\ jobs' = jobs /\ gone' = gone \cup {w} /\ held'[w] = 0
        /\ \A v \in Worker : held'[v] \in {held[v], 0}
        /\ \/ cancelled \/ stopping
           \/ held[w] = 0 /\ closed /\ jobs = <<>>
    BY <1>2, <1>5 DEF Leave, channels
  <2>2. held[w] = 0 => Load' = Load
    BY <1>5, LeftFlight
  <2> QED BY <1>1, <1>2, <2>1, <2>2 DEF Winding
<1> QED BY <1>3, <1>4, <1>5 DEF Work

LEMMA NextWinding ==
  ASSUME IInv, Winding, [Next]_vars
  PROVE  Winding'
<1>1. CASE Cancel \/ UNCHANGED vars
  <2>1. /\ UNCHANGED <<stage, closed, jobs, results, pendingJobs, held, gone,
                       stopping>>
        /\ cancelled => cancelled'
    BY <1>1 DEF Cancel, vars, channels, workers
  <2>2. Load' = Load
    BY <2>1, QuietFlight
  <2> QED BY <2>1, <2>2 DEF Winding
<1> QED BY <1>1, MainWinding, WorkWinding DEF Next, Done

LEMMA AlwaysWinding == Spec => [](IInv /\ Winding)
<1>1. Init => IInv /\ Winding
  BY InitInv, InitWinding
<1>2. IInv /\ Winding /\ [Next]_vars => (IInv /\ Winding)'
  BY NextInv, NextWinding
<1> QED BY <1>1, <1>2, PTL DEF Spec

(* Whatever is in flight, somebody can move it: the decoding goroutine     *)
(* receives, or a worker that has a job and room to offer its result, or   *)
(* one that has neither while there are jobs.                              *)
LEMMA FlightMoves ==
  ASSUME IInv, Winding, ~cancelled, ~stopping, Load > 0,
         results = <<>>
  PROVE  \E w \in Worker : WorkerCanStep(w)
<1>1. CASE \E w \in Worker : held[w] # 0
  <2>1. Len(results) = 0 /\ Capacity > 0
    BY CapacityFacts, EmptySeq DEF Capacity
  <2> QED BY <1>1, <2>1 DEF WorkerCanStep
<1>2. CASE \A w \in Worker : held[w] = 0
  <2>1. Cardinality(Busy) = 0
    <3>1. Busy = {}
      BY <1>2 DEF Busy
    <3> QED BY <3>1, FS_EmptySet
  <2>2. jobs # <<>>
    BY <2>1, EmptySeq DEF Load
  <2>3. gone = {}
    BY <2>2 DEF Winding
  <2>4. PICK w \in Worker : TRUE
    BY IngestAssumption
  <2> QED BY <1>2, <2>2, <2>3, <2>4 DEF WorkerCanStep
<1> QED BY <1>1, <1>2

(* The decoding goroutine sends jobs while the workers send results, into  *)
(* bounded channels, and records wait for others to be written: whatever   *)
(* the number of workers, they never all wait. A select of the callback    *)
(* that waits for the next record to be written finds it in flight.        *)
THEOREM NoDeadlock == Spec => []NeverStuck
<1>1. ASSUME IInv, Winding
      PROVE  NeverStuck
  <2> SUFFICES ASSUME stage # "returned", ~MainCanStep
               PROVE  \E w \in Worker : WorkerCanStep(w)
    BY DEF NeverStuck
  <2>1. /\ stage \in {"consuming", "submitting", "collecting", "draining",
                       "finishing"}
        /\ stage # "finishing" => results = <<>> /\ ~cancelled /\ ~stopping
    BY <1>1 DEF IInv, TypeOK, Stage, MainCanStep, Winding
  <2>2. CASE stage = "finishing"
    <3>1. PICK w \in Worker : w \notin gone
      BY <1>1, <2>2 DEF IInv, TypeOK, MainCanStep
    <3>2. CASE cancelled \/ stopping
      BY <3>1, <3>2 DEF WorkerCanStep
    <3>3. CASE ~cancelled /\ ~stopping
      <4>1. Load = 0
        BY <1>1, <2>2, <3>3, Numbers DEF Winding
      <4> QED BY <1>1, <2>2, <3>1, <4>1, NothingInFlight
              DEF IInv, Winding, WorkerCanStep
    <3> QED BY <3>2, <3>3
  <2>3. CASE stage \in {"collecting", "draining"}
    <3>1. pendingJobs # 0
      BY <2>3 DEF MainCanStep
    <3>2. Load > 0
      BY <1>1, <2>1, <2>3, <3>1, Numbers DEF Winding
    <3> QED BY <1>1, <2>1, <2>3, <3>2, FlightMoves
  <2>4. CASE stage = "submitting"
    <3>1. Len(jobs) > 0
      BY <1>1, <2>4, LoadFacts, CapacityFacts DEF IInv, MainCanStep, Capacity
    <3>2. Load > 0
      BY <1>1, <3>1, LoadFacts DEF IInv, Load
    <3> QED BY <1>1, <2>1, <2>4, <3>2, FlightMoves
  <2>5. CASE stage = "consuming"
    <3>1. nextRecord \in 1..Last /\ nextRecord <= Released
      <4>1. decoded - nextRecord >= Window
        BY <1>1, <2>5, Numbers DEF MainCanStep
      <4>2. Window > 0 /\ Window \in Nat
        BY CapacityFacts DEF Window
      <4> QED BY <1>1, <2>5, <4>1, <4>2, Numbers DEF InHand
    <3>2. Load = pendingJobs
      BY <1>1, <2>1, <2>5, Numbers DEF Winding
    <3>3. decodeErr = Nil
      BY <1>1, <2>5 DEF IInv, ErrorMeaning, InHand
    <3>4. AccountedUpTo(Released)
      BY <1>1, <3>2, <3>3, Numbers, Errors DEF IInv, Accounted, Stuck
    <3>5. InFlight(nextRecord)
      BY <1>1, <3>1, <3>4 DEF IInv, InOrder, AccountedUpTo
    <3>6. Load > 0
      <4>1. Load \in Nat
        BY <1>1, Numbers
      <4> QED BY <1>1, <3>1, <3>5, <4>1, NothingInFlight DEF IInv
    <3> QED BY <1>1, <2>1, <2>5, <3>6, FlightMoves
  <2> QED BY <2>1, <2>2, <2>3, <2>4, <2>5
<1> QED BY <1>1, AlwaysWinding, PTL

LEMMA LeftNumbers ==
  ASSUME IInv
  PROVE  /\ Last \in Nat /\ decoded \in 0..Last /\ FlightLeft \in Nat
         /\ stageLeft[stage] \in Nat
         /\ IsFiniteSet(Worker \ gone) /\ Cardinality(Worker \ gone) \in Nat
<1>1. TypeOK
  BY DEF IInv
<1>2. FlightLeft \in Nat
  <2>1. PICK j \in Nat, r \in Nat, b \in Nat :
          j = Len(jobs) /\ r = Len(results) /\ b = Cardinality(Busy)
    BY <1>1, LoadFacts
  <2>2. FlightLeft = 3 * j + 2 * b + r
    BY <2>1 DEF FlightLeft
  <2> QED BY <2>2
<1>3. stageLeft[stage] \in Nat
  <2>1. stage \in Stage
    BY <1>1 DEF TypeOK
  <2> QED BY <2>1, StageLeft DEF Stage
<1>4. IsFiniteSet(Worker \ gone) /\ Cardinality(Worker \ gone) \in Nat
  BY IngestAssumption, FS_Subset, FS_CardinalityType
<1> QED BY <1>2, <1>3, <1>4, Numbers

LEMMA StepsLeftType ==
  ASSUME IInv
  PROVE  StepsLeft \in Nat /\ MostSteps \in Nat
<1>1. 7 * (Last - decoded) \in Nat
  BY LeftNumbers
<1>2. workerCount \in Nat
  BY IngestAssumption, FS_CardinalityType DEF workerCount
<1> QED BY <1>1, <1>2, LeftNumbers DEF StepsLeft, MostSteps

LEMMA LeftSums ==
  ASSUME NEW l \in Nat, NEW d \in 0..l, NEW s \in Nat, NEW f \in Nat,
         NEW g \in Nat, NEW c \in {0, 1}
  PROVE  /\ d < l => 7 * (l - (d + 1)) + 9 + f + g + c
                        < 7 * (l - d) + 3 + f + g + c
         /\ \A t \in Nat : t < s => 7 * (l - d) + t + f + g + c
                                      < 7 * (l - d) + s + f + g + c
         /\ \A t \in Nat : t <= s => 7 * (l - d) + t + (f - 1) + g + c
                                      < 7 * (l - d) + s + f + g + c
         /\ 7 * (l - d) + 3 + (f + 3) + g + c < 7 * (l - d) + 7 + f + g + c
         /\ \A e \in Int : e <= f => 7 * (l - d) + s + e + (g - 1) + c
                                      < 7 * (l - d) + s + f + g + c
OBVIOUS

LEMMA MainLeft ==
  ASSUME IInv, Main
  PROVE  StepsLeft' < StepsLeft
<1> DEFINE Context == IF cancelled THEN 0 ELSE 1
<1>1. PICK l \in Nat, d \in Nat, s \in Nat, f \in Nat, g \in Nat,
           c \in {0, 1} :
        /\ l = Last /\ d = decoded /\ d \in 0..l /\ s = stageLeft[stage]
        /\ f = FlightLeft
        /\ g = Cardinality(Worker \ gone) /\ c = Context
  BY LeftNumbers
<1>2. StepsLeft = 7 * (l - d) + s + f + g + c
  BY <1>1 DEF StepsLeft
<1>3. /\ Last' = l /\ Cardinality(Worker \ gone)' = g /\ Context' = c
  BY <1>1, MainMoves DEF Last
<1>4. StepsLeft' = 7 * (l - decoded') + stageLeft[stage'] + FlightLeft' + g + c
  BY <1>3 DEF StepsLeft, stageLeft
<1>5. stageLeft[stage'] \in Nat
  <2>1. IInv'
    BY NextInv DEF Next
  <2>2. stage' \in Stage
    BY <2>1 DEF IInv, TypeOK
  <2> QED BY <2>2, StageLeft DEF Stage
<1> HIDE DEF Context
<1>6. CASE UNCHANGED <<jobs, results, pendingJobs>> /\ decoded < Last
           /\ decoded' = decoded + 1 /\ stage = "decoding"
           /\ stage' = "consuming"
  <2>1. FlightLeft' = f
    BY <1>1, <1>6, MainMoves, QuietFlight
  <2>2. s = 3 /\ stageLeft[stage'] = 9
    BY <1>1, <1>6, StageLeft
  <2> QED BY <1>1, <1>2, <1>4, <1>6, <2>1, <2>2, LeftSums
<1>7. CASE UNCHANGED <<jobs, results, pendingJobs>> /\ decoded' = decoded
           /\ stageLeft[stage'] < stageLeft[stage]
  <2>1. FlightLeft' = f
    BY <1>1, <1>7, MainMoves, QuietFlight
  <2> QED BY <1>1, <1>2, <1>4, <1>5, <1>7, <2>1, LeftSums
<1>8. CASE Receive /\ UNCHANGED <<jobs, decoded>>
           /\ stageLeft[stage'] <= stageLeft[stage]
  <2>1. FlightLeft' = f - 1
    BY <1>1, <1>8, MainMoves, ReceivedFlight
  <2> QED BY <1>1, <1>2, <1>4, <1>5, <1>8, <2>1, LeftSums
<1>9. CASE Submit /\ decoded' = decoded /\ stage = "submitting"
           /\ stage' = "decoding"
  <2>1. FlightLeft' = f + 3
    BY <1>1, <1>9, SubmittedFlight
  <2>2. s = 7 /\ stageLeft[stage'] = 3
    BY <1>1, <1>9, StageLeft
  <2> QED BY <1>1, <1>2, <1>4, <1>9, <2>1, <2>2, LeftSums
<1> QED BY <1>6, <1>7, <1>8, <1>9, MainMoves

LEMMA WorkLeft ==
  ASSUME IInv, NEW w \in Worker, Work(w)
  PROVE  StepsLeft' < StepsLeft
<1> DEFINE Context == IF cancelled THEN 0 ELSE 1
<1>1. PICK l \in Nat, d \in Nat, s \in Nat, f \in Nat, g \in Nat,
           c \in {0, 1} :
        /\ l = Last /\ d = decoded /\ d \in 0..l /\ s = stageLeft[stage]
        /\ f = FlightLeft
        /\ g = Cardinality(Worker \ gone) /\ c = Context
  BY LeftNumbers
<1>2. StepsLeft = 7 * (l - d) + s + f + g + c
  BY <1>1 DEF StepsLeft
<1>3. /\ Last' = l /\ decoded' = d /\ stageLeft[stage'] = s /\ Context' = c
  BY <1>1 DEF Work, Take, Put, Leave, channels, Last
<1>4. StepsLeft' = 7 * (l - d) + s + FlightLeft'
                     + Cardinality(Worker \ gone)' + c
  BY <1>3 DEF StepsLeft, stageLeft
<1> HIDE DEF Context
<1>5. CASE Take(w) \/ Put(w)
  <2>1. FlightLeft' = f - 1
    BY <1>1, <1>5, TakenFlight, PutFlight
  <2>2. Cardinality(Worker \ gone)' = g
    BY <1>1, <1>5 DEF Take, Put
  <2> QED BY <1>1, <1>2, <1>4, <2>1, <2>2, LeftSums
<1>6. CASE Leave(w)
  <2>1. FlightLeft' <= f /\ FlightLeft' \in Int
    BY <1>1, <1>6, LeftFlight
  <2>2. (Worker \ gone)' = (Worker \ gone) \ {w} /\ w \in Worker \ gone
    BY <1>6 DEF Leave
  <2>3. Cardinality(Worker \ gone)' = g - 1
    <3>1. Cardinality((Worker \ gone) \ {w}) = Cardinality(Worker \ gone) - 1
      BY <2>2, LeftNumbers, FS_RemoveElement
    <3> QED BY <1>1, <2>2, <3>1
  <2> QED BY <1>1, <1>2, <1>4, <2>1, <2>3, LeftSums
<1> QED BY <1>5, <1>6 DEF Work

LEMMA NextLeft ==
  ASSUME IInv, [Next]_vars
  PROVE  StepsLeft' < StepsLeft \/ UNCHANGED vars
<1>1. CASE Cancel
  <2>1. /\ UNCHANGED <<input, stage, decoded, jobs, results, held, gone>>
        /\ ~cancelled /\ cancelled'
    BY <1>1 DEF Cancel, channels, workers
  <2>2. FlightLeft' = FlightLeft
    BY <2>1, QuietFlight
  <2>3. PICK n \in Int :
          n = 7 * (Last - decoded) + stageLeft[stage] + FlightLeft
                + Cardinality(Worker \ gone)
    BY LeftNumbers
  <2>4. StepsLeft = n + 1 /\ StepsLeft' = n + 0
    BY <2>1, <2>2, <2>3 DEF StepsLeft, stageLeft, Last
  <2> QED BY <2>4
<1> QED BY <1>1, MainLeft, WorkLeft DEF Next, Done

(* No import takes more than MostSteps steps, 7 of each record, one of     *)
(* each worker and 4, however its goroutines are scheduled and whenever it *)
(* is cancelled: none of its loops runs for ever. As NoDeadlock finds one  *)
(* of them that can move, an import that is scheduled fairly ends.         *)
THEOREM Terminates ==
  Spec => [](StepsLeft \in 0..MostSteps) /\ [][StepsLeft' < StepsLeft]_vars
<1> DEFINE Bounded == StepsLeft <= MostSteps
<1>1. ASSUME Init, IInv
      PROVE  Bounded
  <2>1. /\ decoded = 0 /\ stage = "decoding" /\ gone = {} /\ ~cancelled
        /\ jobs = <<>> /\ results = <<>> /\ Busy = {}
    BY <1>1 DEF Init, Busy
  <2>2. FlightLeft = 0
    BY <2>1, EmptySeq, FS_EmptySet DEF FlightLeft
  <2>3. Worker \ gone = Worker
    BY <2>1
  <2>4. stageLeft[stage] = 3
    BY <2>1, StageLeft
  <2>5. PICK l \in Nat, n \in Nat : l = Last /\ n = Cardinality(Worker)
    BY <1>1, <2>3, LeftNumbers
  <2>6. /\ StepsLeft = 7 * (l - 0) + 3 + 0 + n + 1
        /\ MostSteps = 7 * l + n + 4
    BY <2>1, <2>2, <2>3, <2>4, <2>5 DEF StepsLeft, MostSteps, workerCount
  <2> QED BY <2>6
<1>2. Spec => [](StepsLeft \in Nat /\ MostSteps \in Nat)
  <2>1. IInv => StepsLeft \in Nat /\ MostSteps \in Nat
    BY StepsLeftType
  <2> QED BY <2>1, Inductive, PTL
<1>3. ASSUME IInv, Bounded, StepsLeft \in Nat, MostSteps \in Nat,
             (StepsLeft \in Nat)', [Next]_vars
      PROVE  Bounded'
  <2>1. Last' = Last /\ MostSteps' = MostSteps
    BY <1>3, MainMoves DEF Next, Work, Take, Put, Leave, Cancel, Done, vars,
                           Last, MostSteps, workerCount
  <2>2. CASE UNCHANGED vars
    <3>1. StepsLeft' = StepsLeft
      BY <2>2 DEF vars, channels, workers, StepsLeft, FlightLeft, Busy, Last,
                  stageLeft
    <3> QED BY <1>3, <2>1, <3>1
  <2>3. CASE StepsLeft' < StepsLeft
    BY <1>3, <2>1, <2>3
  <2> QED BY <1>3, <2>2, <2>3, NextLeft
<1>4. IInv /\ [Next]_vars => [StepsLeft' < StepsLeft]_vars
  BY NextLeft
<1>5. StepsLeft \in Nat /\ MostSteps \in Nat /\ Bounded
        => StepsLeft \in 0..MostSteps
  OBVIOUS
<1> HIDE DEF Bounded
<1> QED
  BY <1>1, <1>2, <1>3, <1>4, <1>5, InitInv, Inductive, PTL DEF Spec

-----------------------------------------------------------------------------
(* The type recorded for a path                                            *)

LEMMA CommonNull ==
  ASSUME NEW types, types \subseteq {"null"} PROVE CommonType(types) = "null"
BY DEF CommonType

LEMMA CommonOne ==
  ASSUME NEW types, NEW type, types \ {"null"} = {type}
  PROVE  CommonType(types) = type
<1>1. type \in types /\ type # "null" /\ ~(types \subseteq {"null"})
  OBVIOUS
<1>2. \A t \in types : types \ {"null"} = {t} => t = type
  OBVIOUS
<1>3. (CHOOSE t \in types : types \ {"null"} = {t}) = type
  BY <1>1, <1>2
<1> QED
  BY <1>1, <1>3 DEF CommonType

LEMMA CommonMixed ==
  ASSUME NEW types, NEW s \in types, NEW t \in types, s # t,
         s # "null", t # "null"
  PROVE  CommonType(types) = "mixed"
<1>1. ~(types \subseteq {"null"})
  OBVIOUS
<1>2. ~ \E u \in types : types \ {"null"} = {u}
  OBVIOUS
<1> QED
  BY <1>1, <1>2 DEF CommonType

(* recordField folds the type of one more value into the common one.       *)
LEMMA CommonMerged ==
  ASSUME NEW types, NEW type
  PROVE  MergedType(CommonType(types), type) = CommonType(types \cup {type})
<1>1. CASE types \subseteq {"null"}
  <2>1. CommonType(types) = "null"
    BY <1>1, CommonNull
  <2>2. CASE type = "null"
    BY <2>1, <2>2, <1>1, CommonNull DEF MergedType
  <2>3. CASE type # "null"
    <3>1. (types \cup {type}) \ {"null"} = {type}
      BY <1>1, <2>3
    <3> QED
      BY <3>1, <2>1, CommonOne DEF MergedType
  <2> QED
    BY <2>2, <2>3
<1>2. CASE \E s \in types : types \ {"null"} = {s}
  <2>1. PICK s \in types : types \ {"null"} = {s}
    BY <1>2
  <2>2. CommonType(types) = s /\ s # "null"
    BY <2>1, CommonOne
  <2>3. CASE type \in {"null", s}
    <3>1. (types \cup {type}) \ {"null"} = {s}
      BY <2>1, <2>3
    <3> QED
      BY <3>1, <2>2, <2>3, CommonOne DEF MergedType
  <2>4. CASE type \notin {"null", s}
    <3>1. CommonType(types \cup {type}) = "mixed"
      BY <2>2, <2>4, CommonMixed
    <3> QED
      BY <3>1, <2>2, <2>4 DEF MergedType
  <2> QED
    BY <2>3, <2>4
<1>3. CASE ~(types \subseteq {"null"})
           /\ ~ \E s \in types : types \ {"null"} = {s}
  <2>1. PICK s \in types : s # "null"
    BY <1>3
  <2>2. PICK t \in types : t # "null" /\ t # s
    BY <1>3, <2>1
  <2>3. CommonType(types) = "mixed"
    BY <2>1, <2>2, CommonMixed
  <2>4. CommonType(types \cup {type}) = "mixed"
    BY <2>1, <2>2, CommonMixed
  <2> QED
    BY <2>3, <2>4 DEF MergedType
<1> QED
  BY <1>1, <1>2, <1>3

(* The calls of recordField: o[i] is the path and the type of the i-th and *)
(* f[i] the fields it leaves.                                              *)
FieldsRecorded(f, o, n) ==
  /\ f[0] = [path \in {} |-> "null"]
  /\ \A i \in 1..n : f[i] = recordField(f[i-1], o[i][1], o[i][2])

PathsTo(o, n) == {o[i][1] : i \in 1..n}
TypesTo(o, n, path) == {o[i][2] : i \in {j \in 1..n : o[j][1] = path}}

RecordedRight(f, o, n) ==
  f[n] = [path \in PathsTo(o, n) |-> CommonType(TypesTo(o, n, path))]

LEMMA OneMore ==
  ASSUME NEW f, NEW o, NEW n \in Nat \ {0},
         f[n] = recordField(f[n-1], o[n][1], o[n][2]),
         RecordedRight(f, o, n - 1)
  PROVE  RecordedRight(f, o, n)
<1> DEFINE P == o[n][1]
           T == o[n][2]
<1>1. PathsTo(o, n) = PathsTo(o, n-1) \cup {P}
  <2>1. 1..n = 1..n-1 \cup {n}
    OBVIOUS
  <2> QED
    BY <2>1 DEF PathsTo
<1>2. TypesTo(o, n, P) = TypesTo(o, n-1, P) \cup {T}
  <2>1. {j \in 1..n : o[j][1] = P} = {j \in 1..n-1 : o[j][1] = P} \cup {n}
    OBVIOUS
  <2> QED
    BY <2>1 DEF TypesTo
<1>3. \A p : p # P => TypesTo(o, n, p) = TypesTo(o, n-1, p)
  <2>1. \A p : p # P =>
          {j \in 1..n : o[j][1] = p} = {j \in 1..n-1 : o[j][1] = p}
    OBVIOUS
  <2> QED
    BY <2>1 DEF TypesTo
<1>4. DOMAIN f[n-1] = PathsTo(o, n-1)
      /\ \A p \in PathsTo(o, n-1) : f[n-1][p] = CommonType(TypesTo(o, n-1, p))
  BY DEF RecordedRight
<1>5. P \notin PathsTo(o, n-1) => TypesTo(o, n-1, P) = {}
  BY DEF PathsTo, TypesTo
<1>6. f[n] = [p \in PathsTo(o, n) |->
                CASE p # P -> f[n-1][p]
                  [] p = P /\ P \in DOMAIN f[n-1] -> MergedType(f[n-1][P], T)
                  [] OTHER -> T]
  BY <1>1, <1>4 DEF recordField
<1>7. ASSUME NEW p \in PathsTo(o, n)
      PROVE  f[n][p] = CommonType(TypesTo(o, n, p))
  <2>1. CASE p # P
    BY <2>1, <1>1, <1>3, <1>4, <1>6
  <2>2. CASE p = P /\ P \in PathsTo(o, n-1)
    <3>1. f[n][p] = MergedType(CommonType(TypesTo(o, n-1, P)), T)
      BY <2>2, <1>4, <1>6
    <3> QED
      BY <3>1, <2>2, <1>2, CommonMerged
  <2>3. CASE p = P /\ P \notin PathsTo(o, n-1)
    <3>1. f[n][p] = T
      BY <2>3, <1>4, <1>6
    <3>2. TypesTo(o, n, p) = {T}
      BY <2>3, <1>2, <1>5
    <3>3. CommonType({T}) = T
      <4>1. CASE T = "null"
        BY <4>1, CommonNull
      <4>2. CASE T # "null"
        <5>1. {T} \ {"null"} = {T}
          BY <4>2
        <5> QED
          BY <5>1, CommonOne
      <4> QED
        BY <4>1, <4>2
    <3> QED
      BY <3>1, <3>2, <3>3
  <2> QED
    BY <2>1, <2>2, <2>3
<1> QED
  BY <1>6, <1>7 DEF RecordedRight

(* The fields of a dataset are the paths that were come across, each with  *)
(* the type all its values agree on, a null aside, and "mixed" where they  *)
(* do not: recordField, which sees one value at a time, loses nothing.     *)
THEOREM FieldsAreCommonTypes ==
  ASSUME NEW n \in Nat, NEW f, NEW o, FieldsRecorded(f, o, n)
  PROVE  RecordedRight(f, o, n)
<1> SUFFICES ASSUME ~RecordedRight(f, o, n) PROVE FALSE
  OBVIOUS
<1> DEFINE Wrong == {k \in 0..n : ~RecordedRight(f, o, k)}
<1>1. PICK m \in Wrong : \A j \in Wrong : m <= j
  <2>1. n \in Wrong /\ Wrong \subseteq Nat
    OBVIOUS
  <2> HIDE DEF Wrong
  <2> QED
    BY <2>1, LeastNatural
<1>2. m \in 0..n /\ ~RecordedRight(f, o, m)
      /\ \A j \in 0..m-1 : RecordedRight(f, o, j)
  BY <1>1
<1>3. CASE m = 0
  <2>1. PathsTo(o, 0) = {}
    BY DEF PathsTo
  <2>2. RecordedRight(f, o, 0)
    BY <2>1 DEF RecordedRight, FieldsRecorded
  <2> QED
    BY <2>2, <1>2, <1>3
<1>4. CASE m # 0
  <2>1. RecordedRight(f, o, m - 1)
    BY <1>2, <1>4
  <2>2. f[m] = recordField(f[m-1], o[m][1], o[m][2])
    BY <1>2, <1>4 DEF FieldsRecorded
  <2>3. RecordedRight(f, o, m)
    BY <2>1, <2>2, <1>4, OneMore
  <2> QED
    BY <2>3, <1>2
<1> QED
  BY <1>3, <1>4

(* The order in which the values are come across, and how often, does not  *)
(* matter: not that of the records, of the keys that Go's range over the   *)
(* map of a record returns, nor of the batches in which records are        *)
(* searched.                                                               *)
THEOREM OrderOfValuesImmaterial ==
  ASSUME NEW n \in Nat, NEW f, NEW o, FieldsRecorded(f, o, n),
         NEW m \in Nat, NEW g, NEW v, FieldsRecorded(g, v, m),
         {o[i] : i \in 1..n} = {v[i] : i \in 1..m}
  PROVE  f[n] = g[m]
<1>1. \A i \in 1..n : \E j \in 1..m : o[i] = v[j]
  OBVIOUS
<1>2. \A j \in 1..m : \E i \in 1..n : o[i] = v[j]
  OBVIOUS
<1>3. PathsTo(o, n) = PathsTo(v, m)
  BY <1>1, <1>2 DEF PathsTo
<1>4. \A path : TypesTo(o, n, path) = TypesTo(v, m, path)
  BY <1>1, <1>2 DEF TypesTo
<1>5. RecordedRight(f, o, n) /\ RecordedRight(g, v, m)
  BY FieldsAreCommonTypes
<1> QED
  BY <1>3, <1>4, <1>5 DEF RecordedRight
-----------------------------------------------------------------------------
(* The paths of a catalogue                                                *)

Step == {"name", "bracket"} \X DOMAIN Lower

(* A path with a named first step.                                         *)
Rooted(path) ==
  /\ path \in Seq(Step) /\ Len(path) > 0
  /\ \E key \in Identifiers : path[1] = Named(key)

(* The paths of records without the key RawData: below RawData there are   *)
(* only the keys that are no identifiers.                                  *)
Discoverable(path) ==
  /\ Rooted(path)
  /\ path[1] = Named("RawData") =>
       Len(path) > 1 /\ \A key \in Identifiers : path[2] # Quoted(key)

LEMMA StepFacts ==
  ASSUME NEW a, NEW b
  PROVE  /\ Named(a) = Named(b) <=> a = b
         /\ Quoted(a) = Quoted(b) <=> a = b
         /\ Named(a) # Quoted(b)
         /\ Named(a)[2] = a
         /\ a \in DOMAIN Lower => Named(a) \in Step /\ Quoted(a) \in Step
BY DEF Named, Quoted, Step

LEMMA AppendedPath ==
  ASSUME NEW path, Rooted(path), NEW step \in Step
  PROVE  /\ Rooted(Append(path, step))
         /\ Discoverable(path) => Discoverable(Append(path, step))
<1>1. /\ Append(path, step) \in Seq(Step)
      /\ Len(Append(path, step)) = Len(path) + 1
      /\ \A i \in 1..Len(path) : Append(path, step)[i] = path[i]
  BY DEF Rooted
<1> QED
  BY <1>1 DEF Rooted, Discoverable

LEMMA AppendToOne ==
  ASSUME NEW a, NEW b PROVE Append(<<a>>, b) = <<a, b>>
<1>1. /\ Append(<<a>>, b) \in Seq({a, b}) /\ Len(Append(<<a>>, b)) = 2
      /\ Append(<<a>>, b)[1] = a /\ Append(<<a>>, b)[2] = b
  OBVIOUS
<1>2. /\ <<a, b>> \in Seq({a, b}) /\ Len(<<a, b>>) = 2
      /\ <<a, b>>[1] = a /\ <<a, b>>[2] = b
  OBVIOUS
<1> DEFINE s == Append(<<a>>, b)
           t == <<a, b>>
<1>3. /\ s \in Seq({a, b}) /\ t \in Seq({a, b}) /\ Len(s) = Len(t)
      /\ \A i \in 1..Len(s) : s[i] = t[i]
  BY <1>1, <1>2
<1> HIDE DEF s, t
<1>4. s = t
  BY <1>3, SeqEqual
<1> QED
  BY <1>4 DEF s, t

(* The paths that discoverRecord hands to recordField are discoverable.    *)
LEMMA PathsDiscoverable ==
  ASSUME NEW path, path = <<>> \/ Discoverable(path),
         NEW key \in DOMAIN Lower, path = <<>> => key # "RawData"
  PROVE  Discoverable(appendFieldPath(path, key))
<1> DEFINE step == IF key \in Identifiers THEN Named(key) ELSE Quoted(key)
<1>1. step \in Step
  BY StepFacts
<1>2. CASE path # <<>>
  <2>1. appendFieldPath(path, key) = Append(path, step)
    BY <1>2 DEF appendFieldPath
  <2> QED
    BY <2>1, <1>1, <1>2, AppendedPath DEF Discoverable
<1>3. CASE path = <<>> /\ key \in Identifiers
  <2>1. appendFieldPath(path, key) = <<Named(key)>>
    BY <1>3 DEF appendFieldPath
  <2>2. <<Named(key)>> \in Seq(Step) /\ Len(<<Named(key)>>) = 1
        /\ <<Named(key)>>[1] = Named(key)
    BY StepFacts
  <2> QED
    BY <2>1, <2>2, <1>3, StepFacts DEF Discoverable, Rooted
<1>4. CASE path = <<>> /\ key \notin Identifiers
  <2> DEFINE p == <<Named("RawData"), Quoted(key)>>
  <2>1. appendFieldPath(path, key) = p
    <3>1. appendFieldPath(path, key) =
            Append(<<Named("RawData")>>, Quoted(key))
      BY <1>4 DEF appendFieldPath
    <3> QED
      BY <3>1, AppendToOne
  <2>2. "RawData" \in Identifiers /\ "RawData" \in DOMAIN Lower
    BY ColumnsAssumption
  <2>3. Named("RawData") \in Step /\ Quoted(key) \in Step
    BY <2>2, StepFacts
  <2>4. p \in Seq(Step) /\ Len(p) = 2 /\ p[1] = Named("RawData")
        /\ p[2] = Quoted(key)
    BY <2>3
  <2>5. \A k \in Identifiers : p[2] # Quoted(k)
    BY <2>4, <1>4, StepFacts
  <2> QED
    BY <2>1, <2>2, <2>4, <2>5 DEF Discoverable, Rooted
<1> QED
  BY <1>2, <1>3, <1>4

(* Where catalogueFields puts a path.                                      *)
LEMMA Moved ==
  ASSUME NEW path, path \in Seq(Step), Len(path) > 0, NEW blocked,
         NEW key \in blocked, path[1] = Named(key)
  PROVE  LET moved == CataloguePath(path, blocked)
         IN  /\ Len(moved) = Len(path) + 1
             /\ moved[1] = Named("RawData") /\ moved[2] = Quoted(key)
             /\ \A i \in 2..Len(path) : moved[i + 1] = path[i]
<1>1. path[1][2] = key
  BY StepFacts
<1> DEFINE front == <<Named("RawData"), Quoted(key)>>
           moved == front \o Tail(path)
<1>2. CataloguePath(path, blocked) = moved
  BY <1>1 DEF CataloguePath
<1>3. /\ Tail(path) \in Seq(Step) /\ Len(Tail(path)) = Len(path) - 1
      /\ \A i \in 1..Len(path)-1 : Tail(path)[i] = path[i+1]
  OBVIOUS
<1>4. "RawData" \in DOMAIN Lower
  BY ColumnsAssumption
<1>5. front \in Seq({Named("RawData"), Quoted(key)}) /\ Len(front) = 2
      /\ front[1] = Named("RawData") /\ front[2] = Quoted(key)
  OBVIOUS
<1>6. Len(moved) = Len(path) + 1
  BY <1>3, <1>5
<1>7. moved[1] = Named("RawData") /\ moved[2] = Quoted(key)
  BY <1>3, <1>5
<1>8. \A i \in 2..Len(path) : moved[i + 1] = path[i]
  BY <1>3, <1>5
<1> QED
  BY <1>2, <1>6, <1>7, <1>8

LEMMA Unmoved ==
  ASSUME NEW path, NEW blocked, \A key \in blocked : path[1] # Named(key)
  PROVE  CataloguePath(path, blocked) = path
BY DEF CataloguePath

(* No two paths become one.                                                *)
LEMMA CataloguePathInjective ==
  ASSUME NEW blocked, blocked \subseteq Identifiers,
         NEW p, Discoverable(p), NEW q, Discoverable(q),
         CataloguePath(p, blocked) = CataloguePath(q, blocked)
  PROVE  p = q
<1> DEFINE IsMoved(r) == \E key \in blocked : r[1] = Named(key)
<1>1. /\ p \in Seq(Step) /\ Len(p) > 0 /\ Len(p) \in Nat
      /\ q \in Seq(Step) /\ Len(q) > 0 /\ Len(q) \in Nat
  BY DEF Discoverable, Rooted
<1>2. CASE IsMoved(p) /\ IsMoved(q)
  <2>1. PICK k \in blocked : p[1] = Named(k)
    BY <1>2
  <2>2. PICK l \in blocked : q[1] = Named(l)
    BY <1>2
  <2> DEFINE moved == CataloguePath(p, blocked)
  <2>3. /\ Len(moved) = Len(p) + 1 /\ moved[2] = Quoted(k)
        /\ \A i \in 2..Len(p) : moved[i + 1] = p[i]
    BY <2>1, <1>1, Moved
  <2>4. /\ Len(moved) = Len(q) + 1 /\ moved[2] = Quoted(l)
        /\ \A i \in 2..Len(q) : moved[i + 1] = q[i]
    BY <2>2, <1>1, Moved
  <2> HIDE DEF moved
  <2>5. Len(p) = Len(q) /\ k = l
    <3>1. Len(p) + 1 = Len(q) + 1 /\ Quoted(k) = Quoted(l)
      BY <2>3, <2>4
    <3> QED
      BY <3>1, <1>1, StepFacts
  <2>6. \A i \in 1..Len(p) : p[i] = q[i]
    <3>1. p[1] = q[1]
      BY <2>1, <2>2, <2>5
    <3>2. \A i \in 2..Len(p) : p[i] = q[i]
      BY <2>3, <2>4, <2>5
    <3> QED
      BY <3>1, <3>2, <1>1
  <2> QED
    BY <2>5, <2>6, <1>1, SeqEqual
<1>3. ASSUME NEW r, Discoverable(r), NEW s, Discoverable(s),
             IsMoved(r), ~IsMoved(s),
             CataloguePath(r, blocked) = CataloguePath(s, blocked)
      PROVE  FALSE
  <2>1. PICK k \in blocked : r[1] = Named(k)
    BY <1>3
  <2>2. r \in Seq(Step) /\ Len(r) > 0
    BY <1>3 DEF Discoverable, Rooted
  <2>3. s[1] = Named("RawData") /\ s[2] = Quoted(k)
    <3>1. CataloguePath(r, blocked)[1] = Named("RawData")
          /\ CataloguePath(r, blocked)[2] = Quoted(k)
      BY <2>1, <2>2, Moved
    <3>2. CataloguePath(s, blocked) = s
      BY <1>3, Unmoved
    <3> QED
      BY <3>1, <3>2, <1>3
  <2> QED
    BY <2>1, <2>3, <1>3, <1>1 DEF Discoverable
<1>4. CASE ~IsMoved(p) /\ ~IsMoved(q)
  BY <1>4, Unmoved
<1> QED
  BY <1>2, <1>3, <1>4

(* A catalogue has every field that was discovered, with its type, and no  *)
(* other: where a root cannot be a column, its paths go below RawData      *)
(* without taking the place of another field, in whatever order Go ranges  *)
(* over the map of the fields.                                             *)
THEOREM CatalogueLosesNothing ==
  ASSUME NEW fields, \A path \in DOMAIN fields : Discoverable(path)
  PROVE  LET Stored(p) == CataloguePath(p, BlockedRoots(DOMAIN fields))
         IN  /\ DOMAIN catalogueFields(fields) =
                  {Stored(p) : p \in DOMAIN fields}
             /\ \A p \in DOMAIN fields :
                  catalogueFields(fields)[Stored(p)] = fields[p]
             /\ \A p, q \in DOMAIN fields : Stored(p) = Stored(q) => p = q
<1> DEFINE blocked == BlockedRoots(DOMAIN fields)
           Stored(p) == CataloguePath(p, blocked)
<1>1. blocked \subseteq Identifiers
  BY DEF BlockedRoots, RootNames
<1>2. catalogueFields(fields) =
        [path \in {Stored(p) : p \in DOMAIN fields} |->
           fields[CHOOSE p \in DOMAIN fields : Stored(p) = path]]
  BY DEF catalogueFields
<1> HIDE DEF blocked
<1>3. \A p, q \in DOMAIN fields : Stored(p) = Stored(q) => p = q
  BY <1>1, CataloguePathInjective
<1> HIDE DEF Stored
<1>4. ASSUME NEW p \in DOMAIN fields
      PROVE  catalogueFields(fields)[Stored(p)] = fields[p]
  <2>1. (CHOOSE r \in DOMAIN fields : Stored(r) = Stored(p)) = p
    BY <1>3
  <2> QED
    BY <2>1, <1>2
<1> QED
  BY <1>2, <1>3, <1>4 DEF Stored, blocked

(* The roots that a catalogue keeps.                                       *)
LEMMA CatalogueRoots ==
  ASSUME NEW fields, \A path \in DOMAIN fields : Rooted(path)
  PROVE  RootNames(DOMAIN catalogueFields(fields)) =
           RootNames(DOMAIN fields) \ BlockedRoots(DOMAIN fields)
<1> DEFINE blocked == BlockedRoots(DOMAIN fields)
<1>1. DOMAIN catalogueFields(fields) =
        {CataloguePath(p, blocked) : p \in DOMAIN fields}
  BY DEF catalogueFields
<1> HIDE DEF blocked
<1>2. ASSUME NEW key \in Identifiers, NEW p \in DOMAIN fields,
             CataloguePath(p, blocked) = <<Named(key)>>
      PROVE  p = <<Named(key)>> /\ key \notin blocked
  <2>1. p \in Seq(Step) /\ Len(p) > 0 /\ Len(p) \in Nat
    BY DEF Rooted
  <2>2. \A k \in blocked : p[1] # Named(k)
    <3> SUFFICES ASSUME NEW k \in blocked, p[1] = Named(k) PROVE FALSE
      OBVIOUS
    <3>1. Len(CataloguePath(p, blocked)) = Len(p) + 1
      BY <2>1, Moved
    <3>2. Len(<<Named(key)>>) = 1
      OBVIOUS
    <3> QED
      BY <3>1, <3>2, <2>1, <1>2
  <2>3. p = <<Named(key)>>
    BY <2>2, <1>2, Unmoved
  <2>4. p[1] = Named(key)
    BY <2>3
  <2> QED
    BY <2>2, <2>3, <2>4
<1>3. ASSUME NEW key \in Identifiers, <<Named(key)>> \in DOMAIN fields,
             key \notin blocked
      PROVE  CataloguePath(<<Named(key)>>, blocked) = <<Named(key)>>
  <2>1. <<Named(key)>>[1] = Named(key)
    OBVIOUS
  <2>2. \A k \in blocked : <<Named(key)>>[1] # Named(k)
    BY <2>1, <1>3, StepFacts
  <2> QED
    BY <2>2, Unmoved
<1>4. ASSUME NEW key \in Identifiers
      PROVE  <<Named(key)>> \in DOMAIN catalogueFields(fields) <=>
               <<Named(key)>> \in DOMAIN fields /\ key \notin blocked
  BY <1>1, <1>2, <1>3
<1> QED
  BY <1>4 DEF RootNames, blocked

(* No column of a dataset has the name of a system column or, but for the  *)
(* case of its letters, that of another one.                               *)
THEOREM ColumnNamesDistinct ==
  ASSUME NEW fields, \A path \in DOMAIN fields : Rooted(path)
  PROVE  LET names == RootNames(DOMAIN catalogueFields(fields))
         IN  \A key \in names : /\ Lower[key] \notin ReservedNames
                                /\ ~Collide(key, names)
<1> DEFINE names == RootNames(DOMAIN catalogueFields(fields))
           roots == RootNames(DOMAIN fields)
<1>1. names = roots \ BlockedRoots(DOMAIN fields)
  BY CatalogueRoots
<1>2. \A key \in roots : key \in BlockedRoots(DOMAIN fields) <=>
        Lower[key] \in ReservedNames \/ Collide(key, roots)
  BY DEF BlockedRoots, RootNames
<1>3. \A key : Collide(key, names) => Collide(key, roots)
  BY <1>1 DEF Collide
<1> QED
  BY <1>1, <1>2, <1>3

-----------------------------------------------------------------------------
(* The columns of a table                                                  *)

LEMMA FiniteImage ==
  ASSUME NEW S, IsFiniteSet(S), NEW f, DOMAIN f = S, f = [x \in S |-> f[x]]
  PROVE  IsFiniteSet({f[x] : x \in S})
<1> DEFINE T == {f[x] : x \in S}
<1>1. f \in Surjection(S, T)
  BY DEF Surjection
<1> QED
  BY <1>1, FS_Surjection

(* Where all the datasets of a table have columns with proper names, the   *)
(* columns of the table are those no two of which collide, and each has    *)
(* the type that all its datasets give it or "mixed".                      *)
LEMMA MergedColumns ==
  ASSUME NEW catalogues, IsFiniteSet(catalogues),
         \A c \in catalogues : \A key \in RootNames(DOMAIN c) :
           Lower[key] \notin ReservedNames
  PROVE  ColumnsLaw(catalogues)
<1> DEFINE fields == ListFieldGroups(catalogues)
           names == UNION {RootNames(DOMAIN c) : c \in catalogues}
           Types(key) == TypesOf(catalogues, <<Named(key)>>)
           columns == Columns(catalogues)
<1>1. DOMAIN fields = UNION {DOMAIN c : c \in catalogues}
  BY DEF ListFieldGroups
<1>2. RootNames(DOMAIN fields) = names
  BY <1>1 DEF RootNames
<1>3. DOMAIN columns = {key \in names : ~Collide(key, names)}
      /\ \A key \in DOMAIN columns : columns[key] = fields[<<Named(key)>>]
  <2> HIDE DEF fields
  <2>1. columns = logicalFields(fields)
    BY DEF Columns, fields
  <2>2. \A key \in names : Lower[key] \notin ReservedNames
    OBVIOUS
  <2> QED
    BY <2>1, <2>2, <1>2 DEF logicalFields
<1>4. ASSUME NEW key \in names
      PROVE  /\ IsFiniteSet(Types(key)) /\ Types(key) # {}
             /\ fields[<<Named(key)>>] =
                  IF Cardinality(Types(key)) = 1
                  THEN CHOOSE type \in Types(key) : TRUE ELSE "mixed"
  <2> DEFINE path == <<Named(key)>>
             having == {d \in catalogues : path \in DOMAIN d}
  <2>1. having # {} /\ path \in DOMAIN fields
    BY <1>1 DEF RootNames
  <2>2. IsFiniteSet(having)
    BY FS_Subset
  <2>3. Types(key) = {c[path] : c \in having}
    BY DEF TypesOf
  <2>4. IsFiniteSet({c[path] : c \in having})
    <3> DEFINE f == [c \in having |-> c[path]]
    <3>1. {c[path] : c \in having} = {f[c] : c \in having}
      OBVIOUS
    <3>2. DOMAIN f = having /\ f = [c \in having |-> f[c]]
      OBVIOUS
    <3> HIDE DEF having, f
    <3>3. IsFiniteSet({f[c] : c \in having})
      BY <2>2, <3>2, FiniteImage
    <3> QED
      BY <3>1, <3>3
  <2>5. Types(key) # {}
    BY <2>1, <2>3
  <2>6. fields[path] = IF Cardinality(TypesOf(catalogues, path)) = 1
                       THEN CHOOSE type \in TypesOf(catalogues, path) : TRUE
                       ELSE "mixed"
    BY <2>1 DEF ListFieldGroups
  <2> QED
    BY <2>3, <2>4, <2>5, <2>6
<1>5. ASSUME NEW key \in DOMAIN columns
      PROVE  IF columns[key] = "mixed"
             THEN "mixed" \in Types(key) \/ Cardinality(Types(key)) > 1
             ELSE Types(key) = {columns[key]}
  <2> DEFINE type == columns[key]
             T == Types(key)
  <2>1. /\ IsFiniteSet(T) /\ T # {}
        /\ type = IF Cardinality(T) = 1 THEN CHOOSE t \in T : TRUE ELSE "mixed"
    BY <1>3, <1>4
  <2> HIDE DEF T, type
  <2>2. Cardinality(T) \in Nat /\ Cardinality(T) # 0
    BY <2>1, FS_CardinalityType, FS_EmptySet
  <2>3. CASE Cardinality(T) = 1
    <3>1. PICK t : T = {t}
      BY <2>1, <2>3, FS_Singleton
    <3>2. type = t
      BY <3>1, <2>1, <2>3
    <3> QED
      BY <3>1, <3>2 DEF T, type
  <2>4. CASE Cardinality(T) # 1
    <3>1. type = "mixed" /\ Cardinality(T) > 1
      BY <2>1, <2>2, <2>4
    <3> QED
      BY <3>1 DEF T, type
  <2> QED
    BY <2>3, <2>4
<1> QED
  BY <1>3, <1>5 DEF ColumnsLaw

(* The columns that the schema publishes of a table, for any number of     *)
(* datasets and whatever was discovered in them.                           *)
THEOREM ColumnsOfTable ==
  ASSUME NEW datasets, IsFiniteSet(datasets),
         \A fields \in datasets : \A path \in DOMAIN fields : Rooted(path)
  PROVE  ColumnsLaw({catalogueFields(fields) : fields \in datasets})
<1> DEFINE catalogues == {catalogueFields(fields) : fields \in datasets}
           f == [fields \in datasets |-> catalogueFields(fields)]
<1>1. IsFiniteSet(catalogues)
  <2>1. catalogues = {f[fields] : fields \in datasets}
    OBVIOUS
  <2>2. DOMAIN f = datasets /\ f = [fields \in datasets |-> f[fields]]
    OBVIOUS
  <2> HIDE DEF catalogues, f
  <2> QED
    BY <2>1, <2>2, FiniteImage
<1>2. \A c \in catalogues : \A key \in RootNames(DOMAIN c) :
        Lower[key] \notin ReservedNames
  BY ColumnNamesDistinct
<1> QED
  BY <1>1, <1>2, MergedColumns
=============================================================================

--------------------------- MODULE IngestPipeline ---------------------------
(***************************************************************************)
(* The parallel import of a dataset, Import of internal/ingest/ingest.go:  *)
(* one goroutine decodes the records and writes the prepared events in the *)
(* order of their index, workerCount others prepare them. Records of the   *)
(* discovery sample, and those with a set of keys not seen before, are     *)
(* prepared by the decoding goroutine itself, which then extends the       *)
(* embedded paths that the workers read.                                   *)
(*                                                                         *)
(* What a record is prepared to is abstracted to whether it fails, and how *)
(* an input fails is fixed in advance. Everything is written in one        *)
(* transaction, whose rows are the indexes of the records they come from.  *)
(***************************************************************************)
EXTENDS Integers, Sequences, FiniteSets

CONSTANTS
  Worker,     (* the workers, workerCount of them                           *)
  BatchSize,  (* eventInsertBatchSize                                       *)
  Inputs      (* the inputs that may be imported, see Input                 *)

Fate == {"good",        (* prepared and written                             *)
         "unparsable",  (* parseRecord fails                                *)
         "bad",         (* prepareParsedEvent fails                         *)
         "unwritable"}  (* the insert of the batch it completes fails       *)

(* An input: the fate of each record, the records that take part in field  *)
(* discovery, and whether the decoder reaches the end without an error.    *)
IsInput(i) ==
  /\ i.fate \in Seq(Fate)
  /\ i.full \subseteq DOMAIN i.fate
  /\ i.decodes \in BOOLEAN
  /\ \A r \in DOMAIN i.fate :
       i.fate[r] = "unwritable" => r % BatchSize = 0

ASSUME IngestAssumption ==
  /\ IsFiniteSet(Worker) /\ Worker # {}
  /\ BatchSize \in Nat \ {0}
  /\ \A i \in Inputs : IsInput(i)

VARIABLES
  input,       (* the input of this import                                  *)
  stage,       (* where the decoding goroutine is                           *)
  decoded,     (* decodedCount                                              *)
  jobs,        (* the channel jobs, and whether it is closed                *)
  closed,
  results,     (* the channel results                                       *)
  pendingJobs,
  nextRecord,
  buffered,    (* the results that wait for a lower index                   *)
  batch,       (* the records of pendingValues                              *)
  rows,        (* the rows of the transaction                               *)
  decodeErr,
  outcome,     (* what Import returned                                      *)
  held,        (* the job each worker prepares or offers, 0 for none        *)
  gone,        (* the workers that returned                                 *)
  cancelled,   (* ctx is done                                               *)
  stopping     (* cancelWorkers was called                                  *)

progress == <<nextRecord, buffered, batch, rows>>
channels == <<jobs, closed, results, pendingJobs>>
workers  == <<held, gone>>
vars == <<input, stage, decoded, channels, progress, decodeErr, outcome,
          workers, cancelled, stopping>>

workerCount == Cardinality(Worker)
Capacity == 2 * workerCount
Window == 3 * workerCount

Last == Len(input.fate)

(* Errors. A record's error carries its index.                             *)
Nil         == <<"nil", 0>>
Record(i)   == <<"record", i>>
DecodeError == <<"decode", 0>>
NoEvents    == <<"no events", 0>>
StoreError  == <<"store", 0>>
Cancelled   == <<"cancelled", 0>>
Stopped     == <<"stopped", 0>>  (* errPipelineStopped                      *)

Running == <<"running", 0>>      (* Import has not returned                 *)

Stage == {"decoding",     (* in decodeRecords                               *)
          "consuming",    (* the callback, with a record, up to parseRecord *)
          "collecting",   (* its drainAll, before discovery                 *)
          "discovering",  (* prepareParsedEvent with discovery              *)
          "submitting",   (* its select on jobs and results                 *)
          "draining",     (* drainAll after decodeRecords                   *)
          "finishing",    (* the workers are waited for                     *)
          "returned"}

Init ==
  /\ input \in Inputs
  /\ stage = "decoding"
  /\ decoded = 0
  /\ jobs = <<>> /\ closed = FALSE /\ results = <<>>
  /\ pendingJobs = 0
  /\ nextRecord = 1
  /\ buffered = {}
  /\ batch = <<>> /\ rows = <<>>
  /\ decodeErr = Nil
  /\ outcome = Running
  /\ held = [w \in Worker |-> 0]
  /\ gone = {}
  /\ cancelled = FALSE /\ stopping = FALSE

-----------------------------------------------------------------------------
(* Writing in order                                                        *)

(* A result whose err is not nil.                                          *)
Faulty(i) == input.fate[i] \in {"unparsable", "bad"}

(* Where acceptResult stops: at the first index, from nextRecord on, that  *)
(* has not arrived, carries an error or cannot be written.                 *)
StopIndex(arrived) ==
  CHOOSE k \in nextRecord..(Last + 1) :
    /\ k \notin arrived \/ input.fate[k] # "good"
    /\ \A i \in nextRecord..(k - 1) : i \in arrived /\ input.fate[i] = "good"

Written(k) == batch \o [j \in 1..(k - nextRecord) |-> nextRecord + j - 1]

(* The loop of acceptResult comes to k: the records before k go to         *)
(* writeEvent, which inserts each batch it fills. At an error the entry is *)
(* gone from buffered and nextRecord stays, so nothing more is written.    *)
WriteUpTo(k, arrived) ==
  LET events == Written(k)
      full   == (Len(events) \div BatchSize) * BatchSize
  IN  /\ nextRecord' = k
      /\ buffered' = arrived \ (nextRecord..k)
      /\ rows' = rows \o SubSeq(events, 1, full)
      /\ batch' = SubSeq(events, full + 1, Len(events))

(* acceptResult with everything that is next in order.                     *)
Accept(i) ==
  LET arrived == buffered \cup {i}
  IN  WriteUpTo(StopIndex(arrived), arrived)

(* It ends before: ctx is done, so that the insert of a batch fails.       *)
AcceptCancelled(i) ==
  LET arrived == buffered \cup {i}
  IN  \E k \in arrived \cap (nextRecord..StopIndex(arrived)) :
        /\ cancelled
        /\ k % BatchSize = 0 /\ ~Faulty(k)
        /\ WriteUpTo(k, arrived)

AcceptError(i) ==
  LET k == StopIndex(buffered \cup {i})
  IN  IF k \in buffered \cup {i} THEN Record(k) ELSE Nil

-----------------------------------------------------------------------------
(* The decoding goroutine                                                  *)

(* Mutant: the channel jobs is not closed.                                 *)
StopDecodingOpen(err) ==
  /\ stage' = "draining"
  /\ decodeErr' = err
  /\ UNCHANGED closed

(* decodeRecords returns err: jobs is closed and drainAll begins.          *)
StopDecoding(err) ==
  /\ stage' = "draining"
  /\ decodeErr' = err
  /\ closed' = TRUE

Continue(next) ==
  /\ stage' = next
  /\ UNCHANGED <<decodeErr, closed>>

(* The decoder has another record.                                         *)
Decode ==
  /\ stage = "decoding"
  /\ decoded < Last
  /\ decoded' = decoded + 1
  /\ Continue("consuming")
  /\ UNCHANGED <<input, jobs, results, pendingJobs, progress, outcome, workers,
                 cancelled, stopping>>

EndOfInput ==
  /\ stage = "decoding"
  /\ decoded = Last
  /\ StopDecoding(IF input.decodes THEN Nil ELSE DecodeError)
  /\ UNCHANGED <<input, decoded, jobs, results, pendingJobs, progress, outcome,
                 workers, cancelled, stopping>>

(* ctx.Done() in the decoder or in a select of the callback.               *)
DecodingCancelled ==
  /\ cancelled
  /\ \/ stage \in {"decoding", "submitting"}
     \/ stage = "consuming" /\ decoded - nextRecord >= Window
     \/ stage = "collecting" /\ pendingJobs > 0
  /\ StopDecoding(Cancelled)
  /\ UNCHANGED <<input, decoded, jobs, results, pendingJobs, progress, outcome,
                 workers, cancelled, stopping>>

Receive ==
  /\ results # <<>>
  /\ results' = Tail(results)
  /\ pendingJobs' = pendingJobs - 1

TakeResult == Receive /\ Accept(Head(results))

(* The callback receives a result, while too many records are ahead of the *)
(* next one to write or while it offers its own. Any error ends decoding;  *)
(* one of a record that is not the next is left to be found in drainAll.   *)
ReceiveAhead ==
  /\ \/ stage = "consuming" /\ decoded - nextRecord >= Window
     \/ stage = "submitting"
  /\ TakeResult
  /\ LET err == AcceptError(Head(results)) IN
       IF err # Nil THEN StopDecoding(err)
       ELSE IF Faulty(Head(results)) THEN StopDecoding(Stopped)
       ELSE Continue(stage)
  /\ UNCHANGED <<input, decoded, jobs, outcome, workers, cancelled, stopping>>

(* parseRecord fails.                                                      *)
RejectRecord ==
  /\ stage = "consuming"
  /\ decoded - nextRecord < Window
  /\ input.fate[decoded] = "unparsable"
  /\ Accept(decoded)
  /\ StopDecoding(IF AcceptError(decoded) # Nil THEN AcceptError(decoded)
                                                ELSE Stopped)
  /\ UNCHANGED <<input, decoded, jobs, results, pendingJobs, outcome, workers,
                 cancelled, stopping>>

ParseRecordWithin(lead) ==
  /\ stage = "consuming"
  /\ decoded - nextRecord < lead
  /\ input.fate[decoded] # "unparsable"
  /\ Continue(IF decoded \in input.full THEN "collecting" ELSE "submitting")
  /\ UNCHANGED <<input, decoded, jobs, results, pendingJobs, progress, outcome,
                 workers, cancelled, stopping>>

(* Mutant: decoding runs ahead as far as it likes.                         *)
ParseRecordAhead == ParseRecordWithin(Last)

ParseRecord == ParseRecordWithin(Window)

(* drainAll before discovery.                                              *)
Collect ==
  /\ stage = "collecting"
  /\ pendingJobs > 0
  /\ TakeResult
  /\ LET err == AcceptError(Head(results)) IN
       IF err # Nil THEN StopDecoding(err) ELSE Continue("collecting")
  /\ UNCHANGED <<input, decoded, jobs, outcome, workers, cancelled, stopping>>

StartDiscoveryWhen(drained) ==
  /\ stage = "collecting"
  /\ drained
  /\ Continue("discovering")
  /\ UNCHANGED <<input, decoded, jobs, results, pendingJobs, progress, outcome,
                 workers, cancelled, stopping>>

(* Mutant: discovery does not wait for the jobs in flight.                 *)
StartDiscoveryAtOnce == StartDiscoveryWhen(TRUE)

StartDiscovery == StartDiscoveryWhen(pendingJobs = 0)

(* The record is prepared here, and its result accepted.                   *)
Discover ==
  /\ stage = "discovering"
  /\ Accept(decoded)
  /\ IF AcceptError(decoded) # Nil THEN StopDecoding(AcceptError(decoded))
                                   ELSE Continue("decoding")
  /\ UNCHANGED <<input, decoded, jobs, results, pendingJobs, outcome, workers,
                 cancelled, stopping>>

SubmitCounting(increment) ==
  /\ stage = "submitting"
  /\ Len(jobs) < Capacity
  /\ jobs' = Append(jobs, decoded)
  /\ pendingJobs' = pendingJobs + increment
  /\ Continue("decoding")
  /\ UNCHANGED <<input, decoded, results, progress, outcome, workers, cancelled,
                 stopping>>

(* Mutant: a submitted job is not counted as pending.                      *)
SubmitUncounted == SubmitCounting(0)

Submit == SubmitCounting(1)

FinishDraining(err, stop) ==
  /\ stage' = "finishing"
  /\ decodeErr' = err
  /\ stopping' = stop
  /\ UNCHANGED closed

(* drainAll once decoding has ended. Its error comes before decodeErr.     *)
Drain ==
  /\ stage = "draining"
  /\ pendingJobs > 0
  /\ TakeResult
  /\ IF AcceptError(Head(results)) # Nil
       THEN FinishDraining(AcceptError(Head(results)), TRUE)
       ELSE Continue("draining") /\ UNCHANGED stopping
  /\ UNCHANGED <<input, decoded, jobs, outcome, workers, cancelled>>

DrainingCancelled ==
  /\ cancelled
  /\ stage = "draining"
  /\ pendingJobs > 0
  /\ FinishDraining(Cancelled, TRUE)
  /\ UNCHANGED <<input, decoded, jobs, results, pendingJobs, progress, outcome,
                 workers, cancelled>>

(* Wherever a result is accepted, the ctx of its batch may be done.        *)
BatchCancelled ==
  /\ \/ /\ \/ stage = "consuming" /\ decoded - nextRecord >= Window
           \/ stage = "submitting"
           \/ stage \in {"collecting", "draining"} /\ pendingJobs > 0
        /\ Receive
        /\ AcceptCancelled(Head(results))
     \/ /\ stage = "discovering"
        /\ AcceptCancelled(decoded)
        /\ UNCHANGED <<results, pendingJobs>>
  /\ IF stage = "draining" THEN FinishDraining(Cancelled, TRUE)
     ELSE StopDecoding(Cancelled) /\ UNCHANGED stopping
  /\ UNCHANGED <<input, decoded, jobs, outcome, workers, cancelled>>

DrainedWhen(drained) ==
  /\ stage = "draining"
  /\ drained
  /\ FinishDraining(decodeErr, stopping)
  /\ UNCHANGED <<input, decoded, jobs, results, pendingJobs, progress, outcome,
                 workers, cancelled>>

(* Mutant: an error ends the import without collecting the jobs in flight. *)
DrainedOnError == DrainedWhen(pendingJobs = 0 \/ decodeErr # Nil)

Drained == DrainedWhen(pendingJobs = 0)

Return(result) ==
  /\ stage' = "returned"
  /\ outcome' = result
  /\ UNCHANGED <<input, decoded, channels, nextRecord, buffered, decodeErr,
                 workers, cancelled, stopping>>

(* workers.Wait() is over and there is an error to return; the deferred    *)
(* function rolls the transaction back.                                    *)
Fail ==
  /\ stage = "finishing"
  /\ gone = Worker
  /\ \/ decodeErr \notin {Nil, Stopped} /\ Return(decodeErr)
     \/ /\ decodeErr \in {Nil, Stopped}
        /\ decoded = 0
        /\ Return(NoEvents)
  /\ rows' = <<>> /\ batch' = <<>>

CommitRows(committed) ==
  /\ stage = "finishing"
  /\ gone = Worker
  /\ decodeErr \in {Nil, Stopped}
  /\ decoded > 0
  /\ \/ ~cancelled /\ rows' = committed /\ Return(Nil)
     \/ /\ rows' = <<>>
        /\ Return(IF cancelled THEN Cancelled ELSE StoreError)
  /\ batch' = <<>>

(* Mutant: the last, incomplete batch is not flushed.                      *)
CommitBatches == CommitRows(rows)

(* The rest of Import: the remaining events, the fields and the count are  *)
(* stored and the transaction is committed, or one of the statements fails *)
(* and it is rolled back. A record that failed cannot be left in buffered. *)
Commit == CommitRows(rows \o batch)

-----------------------------------------------------------------------------
(* The workers                                                             *)

Take(w) ==
  /\ w \notin gone
  /\ held[w] = 0
  /\ jobs # <<>>
  /\ held' = [held EXCEPT ![w] = Head(jobs)]
  /\ jobs' = Tail(jobs)
  /\ UNCHANGED <<input, stage, decoded, closed, results, pendingJobs, progress,
                 decodeErr, outcome, gone, cancelled, stopping>>

(* The result of a prepared record is offered.                             *)
Put(w) ==
  /\ held[w] # 0
  /\ Len(results) < Capacity
  /\ results' = Append(results, held[w])
  /\ held' = [held EXCEPT ![w] = 0]
  /\ UNCHANGED <<input, stage, decoded, jobs, closed, pendingJobs, progress,
                 decodeErr, outcome, gone, cancelled, stopping>>

Leave(w) ==
  /\ w \notin gone
  /\ \/ cancelled \/ stopping
     \/ held[w] = 0 /\ closed /\ jobs = <<>>
  /\ gone' = gone \cup {w}
  /\ held' = [held EXCEPT ![w] = 0]
  /\ UNCHANGED <<input, stage, decoded, channels, progress, decodeErr, outcome,
                 cancelled, stopping>>

(* The context of the import ends.                                         *)
Cancel ==
  /\ stage # "returned"
  /\ ~cancelled
  /\ cancelled' = TRUE
  /\ UNCHANGED <<input, stage, decoded, channels, progress, decodeErr, outcome,
                 workers, stopping>>

-----------------------------------------------------------------------------

Main ==
  \/ Decode
  \/ EndOfInput
  \/ DecodingCancelled
  \/ ReceiveAhead
  \/ RejectRecord
  \/ ParseRecord
  \/ Collect
  \/ StartDiscovery
  \/ Discover
  \/ Submit
  \/ Drain
  \/ DrainingCancelled
  \/ BatchCancelled
  \/ Drained
  \/ Fail
  \/ Commit

Work(w) == Take(w) \/ Put(w) \/ Leave(w)

Done == stage = "returned" /\ UNCHANGED vars

Next ==
  \/ Main
  \/ \E w \in Worker : Work(w)
  \/ Cancel
  \/ Done

Spec == Init /\ [][Next]_vars

(* The decoder reaches the end of its input and goroutines are scheduled.  *)
Fairness == WF_vars(Main) /\ \A w \in Worker : WF_vars(Work(w))

FairSpec == Spec /\ Fairness

-----------------------------------------------------------------------------
(* Properties                                                              *)

Error == {Nil, DecodeError, NoEvents, StoreError, Cancelled, Stopped}
           \cup {Record(i) : i \in 1..Last}

TypeOK ==
  /\ input \in Inputs
  /\ stage \in Stage
  /\ decoded \in 0..Last
  /\ jobs \in Seq(1..Last) /\ results \in Seq(1..Last)
  /\ closed \in BOOLEAN
  /\ pendingJobs \in 0..Last
  /\ nextRecord \in 1..(Last + 1)
  /\ buffered \subseteq 1..Last
  /\ batch \in Seq(1..Last) /\ rows \in Seq(1..Last)
  /\ decodeErr \in Error
  /\ outcome \in Error \cup {Running}
  /\ held \in [Worker -> 0..Last]
  /\ gone \subseteq Worker
  /\ cancelled \in BOOLEAN /\ stopping \in BOOLEAN

(* What importing the records one after the other would return.            *)
SequentialOutcome ==
  LET failing == {i \in 1..Last : input.fate[i] # "good"} IN
  IF failing # {} THEN Record(CHOOSE i \in failing : \A j \in failing : i <= j)
  ELSE IF ~input.decodes THEN DecodeError
  ELSE IF Last = 0 THEN NoEvents
  ELSE Nil

(* However the goroutines are scheduled, the import returns what importing *)
(* one record at a time would: the error of the failing record with the    *)
(* lowest index, or success with every record in the order of the input;   *)
(* and it leaves no row when it fails. Only a failing statement or the end *)
(* of its context can make it return something else.                       *)
LikeSequential ==
  stage = "returned" =>
    /\ \/ outcome = SequentialOutcome
       \/ outcome = StoreError /\ SequentialOutcome = Nil
       \/ outcome = Cancelled /\ cancelled
    /\ rows = IF outcome = Nil THEN [i \in 1..Last |-> i] ELSE <<>>

(* While the decoding goroutine extends the embedded paths, no worker      *)
(* reads them, nor will one with a record that was submitted before: what  *)
(* a record is normalised by is what the records before it contained.      *)
DiscoveryAlone ==
  stage = "discovering" =>
    /\ jobs = <<>> /\ results = <<>>
    /\ \A w \in Worker : held[w] = 0

(* The reorder buffer is bounded: whatever worker is slow, decoding is at  *)
(* most 3 * workerCount records ahead of the next one to write.            *)
BoundedLead ==
  stage \in {"decoding", "submitting", "discovering"} =>
    decoded - nextRecord <= Window

(* The import always returns, and by then no worker is left.               *)
AlwaysReturns == <>(stage = "returned" /\ gone = Worker)

=============================================================================

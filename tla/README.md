# Striem in TLA+

A verification project for Striem, a workspace for investigating event logs with
KQL: a Go server (`cmd/striem`, `internal/`) on a SQLite database, and a web
interface (`web/src`). The modules describe the parts of both whose
correctness depends on the order in which things happen, and the algorithms
without state that are easy to get wrong. TLC checks them on small instances,
TLAPS proves the most important properties of the former for all instances.

Every definition is a translation of the code; `PROJECT.json` maps it to the
lines it stands for (`map`), lists the runs, for each property a change of the
code that breaks it (`mutants`), and the hazards the properties are about.

## The system

One process serves HTTP requests from a SQLite database in WAL mode. At startup
it loads a *deployment*: a manifest (YAML) that names datasets (files of JSON,
CSV or EVTX records) and, for a capture-the-flag event, questions and a flag.
After that the datasets do not change; users run KQL queries, which an external
compiler (`ksql`) turns into SQL, and answer the questions.

| Component | State | Operations | What is hard |
|---|---|---|---|
| Client query limiter (`internal/api/client_limit.go`) | map client → slots (channel of tokens, user count) | `acquire`, `release`, `leave`, wrapped around query handlers by `limitClientQueries` | the map entry is looked up again, outside the critical section that created it; timeout against a free slot; leaks |
| Query execution (`internal/api/server.go`, `internal/database/interrupt.go`) | context and deadlines of a handler, pooled connections, the interrupt flag of each | `query`, `validateQuery`, `compileQuery` and its discovery queries, `RunQuery` and its watchdog | interrupts are lost before the first step of a statement, and could reach the next user of the connection |
| Query service (both, and `Open` of `internal/database/database.go`) | slots and connections | requests of several clients | one client holding every connection |
| Challenge (`internal/database/questions.go`, `questions` and `submitAnswer` of `server.go`) | table `investigation_progress`; the definition in memory | `ConfigureChallenge`, `ChallengeState`, `SubmitAnswer` | read-then-update in concurrent transactions, stale clocks, restart between commit and swap, rows of older versions |
| Deployment loader (`internal/deployment/loader.go`, storage functions of `database.go`) | datasets, events, indexes and full-text index on disk; what the process knows of them | `Load`, `ConfigureEventStorage`, `DropEventIndexes`, `SyncFullTextIndex`, ... | crashes between statements, failure in the middle and its clean-up, files edited meanwhile |
| Ingest pipeline (`internal/ingest/ingest.go`) | channels `jobs` and `results`, reorder buffer, one transaction | `Import`: decoding goroutine and `workerCount` workers | order of results and of errors, bounded buffers, shared embedded paths, shutdown of the pipeline |
| Field catalogue (`ingest.go`, `ListFieldGroups` of `database.go`, `logicalFields` of `server.go`) | during an import: path → type, key sets, known paths of embedded JSON | `observeTopLevelKeySet`, `discover`, `normalizeKnownEmbeddedJSON`, `catalogueFields`, `buildTableCatalog` | independence of the order of records and datasets; what is not searched after the sample; names that collide |
| Server lifecycle (`server.go`, `cmd/striem/main.go`, `access.go`) | `ready`, `startupError`, `tableCatalog` | `SetLoading`, `SetStartupError`, `RefreshCatalog`, `whenReady`, shutdown | requests during loading, failed startup |
| Web interface: queries (`web/src/app.ts`) | running query, validation timer and generation, what is displayed and for which text | `runQuery`, `scheduleQueryValidation`, `onDocumentChange` | late and aborted responses, edits while a query runs |
| Web interface: tasks (`app.ts`) | question generation, challenge state, active task, drafts, cooldowns | `loadQuestions`, `submitActiveQuestion`, `renderActiveTask` | loads and answers that overlap; timeouts against late answers |
| Web interface: query library (`app.ts`, `storage.ts`, `ui/toast.ts`) | saved and recent hunts in `localStorage` and in each tab; the Undo on show | `recordQuery`, `saveNamedQuery`, removal, clearing, Undo | several tabs write the same keys; a storage that refuses; an Undo that is late |
| Web interface: startup, fields (`bootstrap.ts`, `app.ts`) | readiness loop; fields | `waitUntilReady`, `start`, `loadFields` | timeouts against late answers; a server that fails or restarts |
| SQL functions (`internal/database/kql_*.go`, `sqlite_functions.go`) | none; an aggregate has the rows of its group | scalar and aggregate functions registered with SQLite | numeric edges, limits, the order of rows |
| KQL adapters (`internal/kql`), authorizer, native Kusto forwarding | none | text translation, a permission table, an HTTP client | nothing that interleaves |

The interactions: `main` opens the store, starts the HTTP server and calls
`Load`, which calls `Import` for each changed dataset and `ConfigureChallenge`
at the end; `RefreshCatalog` then opens the routes that `whenReady` keeps
closed. From there on handlers run concurrently. Query handlers run inside a
slot of the limiter and call `RunQuery`; question handlers call the store.

## Modules

| Module | Models | Composes |
|---|---|---|
| `AdmissionControl` | what the limiter promises: abstract | |
| `ClientLimiter` | the limiter, mutex section by mutex section | implements `AdmissionControl` |
| `ClientLimiterProofs` | its theorems | extends `ClientLimiter` |
| `QueryExecution` | handlers, `RunQuery`, watchdog, driver and SQLite's interrupt flag | |
| `QueryService` | the query endpoints | `QueryExecution` and `AdmissionControl` |
| `QueryServiceProofs` | the theorems of both, and of functions without recursion | extends `QueryService`, `ArrayMoves`, `Sketches` and `AddressRanges` |
| `Investigation` | what the questions promise all clients: abstract | |
| `Challenge` | questions, with restarts and concurrent requests | implements `Investigation` |
| `ChallengeProofs` | its theorems | extends `Challenge` |
| `Deployment` | startup, `Load` and the derived structures on disk | |
| `DeploymentProofs` | its theorems | extends `Deployment` |
| `IngestPipeline` | the goroutines of one `Import` | |
| `IngestPipelineProofs` | its theorems, and those of the columns | extends `IngestPipeline` and `FieldColumns` |
| `QueryPanel` | editor, validation, running query and results in the browser | |
| `QueryPanelProofs` | its theorems | extends `QueryPanel` |
| `QuestionPanel` | the tasks in the browser, and the server's end of their requests | |
| `QuestionPanelProofs` | its theorems | extends `QuestionPanel` |
| `Int64Values` | the kinds of values, int64 arithmetic, how functions fail | |
| `ArrayMoves` | rotating, shifting, reversing and cutting arrays; bins | extends `Int64Values` |
| `DynamicValues` | JSON values and texts | extends `Int64Values` |
| `DynamicArrays`, `DynamicBags` | the other functions of dynamic arrays, sets and bags; sorting, ranges | extend `DynamicValues`, the first `ArrayMoves` too |
| `Aggregates` | aggregates as folds over rows: collections, bags, bits, statistics, schemas | extends `DynamicValues` |
| `Sketches` | t-digest, HyperLogLog and `reduce` as folds over rows | |
| `AddressRanges` | IPv4 and IPv6 addresses, ranges and their blocks | extends `Int64Values` |
| `TextFunctions`, `Addresses` | searching, splitting, replacing, terms; lists of ranges, addresses in texts | extend `DynamicValues`, the second `AddressRanges` too |
| `FieldColumns` | from the types observed at each path to a table's columns | |
| `FieldCatalogue` | from the records of a table's datasets to the types at each path | extends `DynamicValues` and `FieldColumns` |
| `QueryLibrary` | saved and recent hunts, local storage, Undo | |
| `Workspace` | the start of the page, beside the server's | extends `QueryLibrary` |
| `WorkspaceProofs` | its theorems | extends `Workspace` |

`MCx` and `MCx.cfg` instantiate module `x` for TLC; `MCFunctions` instantiates the
modules without state, and `MCQueryService` `QueryExecution` with `QueryService`.

### ClientLimiter

One process per request. `pc` is the place in `acquire`, the handler, `release`
and `leave`; `slots` is the local variable of that name. A critical section of
`l.mu` is one action (`Refuse`, `Join`, `Create`, `LookUp`, `Leave`), and so is
each channel operation (`TakeSlot`, `Receive`). A `clientSlots` object is an
address, `tokens` is the length of its channel; objects that nothing refers to
can be allocated again. `home`, a history variable, remembers the object a
request was counted in, so that `OneGeneration` can say that `release` finds the
same one. Fairness: a request's own steps (`Proceed`) happen, because the timer
of `acquire` fires, `RunQuery` ends at its deadline (see `QueryExecution`) and
goroutines are scheduled. Nothing is assumed about winning a slot.

`AdmissionControl` knows neither map nor channel: sets of admitted and running
requests per client. The refinement mapping takes a request as admitted from the
first critical section of `acquire` to that of `leave`, and as running from its
send into the channel to its receive.

### QueryExecution

`pc` follows the handler through compilation, its call and the response, and
`kind` is what the call runs: a discovery query of the compiler, the compiled query,
or the statement that a validation prepares. The first two go through `RunQuery`;
the third only through `PrepareContext`, which takes a connection of the same pool,
may wait for it as long as the handler's deadline, and gives it back when the SQL is
parsed (`Prepare`, `Prepared`). It has no watchdog. `NoHandle` are the error
returns of `RunQuery` before there is one.

`watchdog` follows the goroutine that calls `striem_interrupt`; `TypeOK` says that
it has a connection to call it with. `interrupted[c]` is SQLite's `isInterrupted`,
which the first step of a statement, or the parser when it begins, clears: an
interrupt that comes before is lost. The driver, external code, interrupts once.
Timers are abstracted to "may happen at any moment", and to "happens eventually" by
fairness: deadlines pass, the goroutines of Go run, the compiler and SQLite's parser
end. `WatchdogStops` is strongly fair, because a `select` that is offered `done`
again and again beside the ticker chooses it some time. Nothing is assumed of the
driver's interrupt, nor that a statement ends by itself (`Complete` has no
fairness), so `HandlerReturns` is due to the watchdog's ticks.

The pool is that of a database file. One in memory, or whose path has a `?`, is
read through the only pool of the store, whose connections the other handlers use
as well.

### QueryService

The limiter, as `AdmissionControl`, around the handlers of `QueryExecution`.
A validation owns a slot like a query. The pool has `max(2, min(GOMAXPROCS, 4))`
connections and a client 2 slots. With
a connection to spare, `OneClientLeavesAConnection` holds; with the 2
connections of a machine of one or two cores it does not
(`MCQueryServicePool2.cfg`), although the comment on `maxClientQueries`
(`client_limit.go:13-15`) gives it as the reason for the limit: the first of the
findings below. `FairServiceSpec` adds the fairness of the handlers and none of the
limiter, so that `HandlerReturns` is about whoever has got a slot.

### Challenge

`progress` is the table, `challenge` the definition in memory, `manifest` the
one on disk. Requests are processes: a submission goes through its `SELECT`
(`ReadSolved`, `ReadOpen`), its `UPDATE` (`Write`) and its `Commit`, and then
reports the state, reading the rows one at a time like `ChallengeState`.
Transactions are deferred: the `UPDATE` fails if another transaction has
committed since the `SELECT` (`stale`) or holds the write lock (`Locked`), which
is SQLite's `SQLITE_BUSY` and a 500 for the client. A handler keeps the time it
read (`guess[r].at`) while the clock goes on. `Restart` ends the process at any
point and starts another, with any manifest of `Manifests`. `Legacy` rows are those
of databases from before answers were stored. `earned`, a history variable,
holds the questions that were answered correctly, per revision. The clock does
not go back; if it did, a cooldown would last longer, never shorter.
`ConfigureChallenge` does not race with handlers because `whenReady` lets none
in before `RefreshCatalog`.

`Investigation` knows neither transactions nor handlers, only the rows, what is
served and who was told the flag. `Take` checks a guess against the cooldown of
the row and counts it in one step, `Tell` tells the flag while every question is
solved, and rows are otherwise touched only while nothing is served. The
refinement mapping takes a guess where its transaction commits, and tells the
flag where `ChallengeState` has read its last question; all that comes before,
and every request that fails, is a stutter. `OneAtATime` is that specification as
a property of `Challenge`.

### Deployment

`stage` is the place in `main` and `Load`. `stored`, `indexes` and `fts` are on
disk and survive `Crash`, which may come between any two statements: signals are
only caught once `Load` is over, so that stopping the process while it loads is
a crash as well. `LoadFails` is any error return; when the derived structures
were dropped before, the deferred function (`RestoreIndexes`,
`RestoreFullTextIndex`) comes first, and each of its halves may fail. `fts` is
`"stale"` as soon as events changed under an existing full-text index.
An expression index is the path it is for: `CreateEventIndexes` names indexes by
their position in the manifest and compares the text of their SQL
(`database.go:331`), which comes to keeping those whose position and path are
unchanged and creating the others again. In the set of paths, both are kept.
`Edit` changes a file at any time, between its signature and its import and
during the import too. An edit always changes the signature: the code takes the
size and the modification time in nanoseconds for that. The migrations of old
schemas in `initialize` are left out; losing power while `synchronous` is off is
outside of what the code promises and of the model.

### IngestPipeline

The decoding goroutine is the sequence of stages of `Import`; `Accept` is
`acceptResult` with `writeEvent`, whose loop over the reorder buffer is one step,
as it touches nothing a worker sees. When the context has ended the insert of a batch
in the middle of that loop fails for it (`BatchCancelled`). A worker takes a job, prepares it and
offers the result. Records are reduced to their fate: prepared, failing in
`parseRecord` or in `prepareParsedEvent`, or failing when their batch is
inserted. An input fixes the fates, the records that take part in field
discovery, and whether the decoder ends with an error. Fairness: the decoder
reads on and goroutines are scheduled.

### QueryPanel

One thread runs the handlers, so that each is an action; what interleaves are the
user (`Edit`, `StartQuery`, `CancelQuery`), the validation timer (`Validate`) and
the ends of requests (`Validated`, `Succeed`, `Cancel`, `Fail`). A request is a
record with the text it was sent for and whether it was aborted. An abort does not
take an answer back that has arrived already: `Succeed` and `Cancel` both have to
deal with it. A validation is `outdated` when `validationGeneration` is not what it
was when it was scheduled. `notice`, `failure` and `diagnostic` are the three
things the page says beside the results: each with the text it is about, so that
`NoticeTruthful` and `ErrorsCurrent` can compare it with the editor. The timer is
any delay, a validation that does not report a position displays nothing.

### QuestionPanel

`loads` holds the requests of `loadQuestions` that have not ended, `submission` that
of `submitActiveQuestion`. A load is `aborted` by its timeout or by another request,
and `outdated` once `questionRequestGeneration` has changed. The server is reduced
to the set `solved`: `ServeSubmission` is the transaction of `SubmitAnswer` and
`Answered` is `ChallengeState`, which reads the questions one at a time, so that
an answer has some of those solved since the request came and not others (`Challenge`
has it step by step). `Teammate` is anybody else, including this page's own
submissions that it has given up. `bar` and `list` are the two places that display
tasks, loading and failures. `Retry` and `Refresh` both call `loadQuestions`; a
refresh in the background neither displays that it loads nor that it failed.
The deployment, which has tasks, does not change while the page is open, and a
solved task comes with its answer, which hides its form. A cooldown is only a
question's presence in `cooling`, which ends at any time.

### The SQL functions

Each function is an operator with the name of the Go function; a value is a pair
of its kind and its content, so that the text of a dynamic value is the value.
Two results are not values: `NULL`, and `Error`, which ends the query. Integers
are as wide as `MaxInt` says, `Wrap` is the arithmetic of int64 and every
function guards against overflow, or does not, as the code does
(`recoverFunction` is what a panic becomes). Characters are numbers. An
aggregate is its start and one step per row, and `MCFunctions` delivers the rows
one at a time, as SQLite does, in any order.

Beside the translations stand the laws, written from what the function is for
and not from how it works: rotations and shifts by counting places, sorting by
permutations, sets by sets, a path of a bag by what it sets and then reads, a
search by the set of all occurrences, the blocks of an address range by the
addresses they cover, a statistic by exact fractions, a sketch by the sketch of
all rows at once, a schema by the values that conform to it. `ScalarLaws` and
`AggregateLaws` are their conjunctions. The percentiles of a digest are exact
fractions here, where the code has floating-point numbers; the estimate of a
HyperLogLog sketch is a function of its registers. What a regular
expression matches is given with it; the engine is external.

JSON values nest, so that most of these functions are recursive and only checked.
What needs none of it is in modules of its own, about which theorems are proved:
`Int64Values`, `ArrayMoves` (moving the elements of an array, bins), `Sketches`
(folds) and `AddressRanges`, where only `Blocks` calls itself, as a recursive
function.

`RegexWindowLaw` is what `indexof_regex` promises. `RegexSearchLaw`, which is among
the `ScalarLaws`, asks for it where `start + length` is an int64; beyond, the code
does not keep the promise (see Findings). `CollectLaw` had to accept that `make_list`
adds the JSON null if it is given as dynamic text, as nulls are only skipped before
a text is parsed: the comment at `kql_collect.go:17-19` says "nulls are skipped" and
leaves open which. The rows of the `functions` run have such a null beside `NULL`.

Sketches of any two accuracies are merged in both orders, and any three of one
accuracy in every order. Three of different accuracies would be too much to ask: the
code merges two only while both are exact (`kql_sketches.go:507`), so that the order
decides. One at a low accuracy and then two at a higher one are refused if the first
two are too many to be exact together; the same three in the order two, three, one
may be merged.

A bag has no order of its keys here. `buildschema` lists keys in the order in which
they come (`kql_buildschema.go:54`), `SchemaAdd` takes those of one bag sorted:
neither the kinds of a field nor the count of values depends on it.

### FieldCatalogue

A record is a bag; a text that holds JSON is `Text(v)` of the value it holds,
which `decodeEmbeddedJSON` replaces. A path is a sequence of named, bracketed
and element steps. `Import` is what happens to one record, `Discovered` folds it
over a dataset. What follows looks at paths and types only and is in
`FieldColumns`: `recordField`, `catalogueFields`, `ListFieldGroups` and
`logicalFields`; it has theorems.
`CatalogueLaw`, `StoredLaw` and `ColumnsLaw` say what the results mean in terms
of the records alone: the types their values agree on, the same data parsed, the
names that do not collide; `FieldLaws` is their conjunction, and
`CollisionsOmitted` what the repository's README promises instead (see Findings).
Records with a key `RawData` are set aside in `CatalogueLaw`:
a key `x-y` of the record and a key `x-y` below the key `RawData` are catalogued under one path. The types of two datasets merge to
`mixed` also when one of them is `null`, unlike those of two records.

### QueryLibrary and Workspace

Local storage is one record for all tabs; a tab has its own copy of both lists
and writes it as a whole. `toast` is the message on show as far as it offers an
Undo: `ShowToast` replaces it, which is what keeps an Undo from taking a later
change back. A write may fail (`ok`); the page then goes on with its list.
`known`, `removed`, `announced` and `forgone` are history variables: what a tab
has read or saved, what was removed there, what it has called saved, and what a
tab has written over without having read it. `HuntsStored` makes an exception of
the last: with two tabs, the one that writes last wins. The code does nothing
against that and promises nothing, so it is a hazard that no property covers.

`Workspace` adds the pages. `page` is the place in `waitUntilReady` and `start`,
`answer` the answer that is on its way, `server` the three answers of
`readiness`. `NotReady` is a request that is aborted after 8 seconds, refused, or
answered by something else (a database that does not answer the ping). Fairness:
the import of a deployment ends; timers and promises of the page are served
(`AskAgain`, `Import`), and a server that is asked again and again does answer in
time some time (strong fairness of `Readiness` and `Ready`, as every request may
be aborted). A page need not stay `open`: the user may reload it.

## Findings

* With one or two cores the pool has 2 connections, and one client may run 2
  queries: it can hold them all, which `client_limit.go:13-15` says the limit
  prevents (`query_service_pool2`).
* README.md:166 says that root keys that differ only by case "are omitted from
  any schema in which they collide". `catalogueFields` moves both keys of one
  dataset below `RawData`; `logicalFields`, which looks for collisions in the
  table, does not see them there. If another dataset of the table has just one of
  the keys, that becomes a column (`functions_collision`).

* The comment at `kql_text_tools.go:443-444` says that `indexof_regex` finds its
  occurrence "within [start, start+length)", and `kql_indexof.go:43` says of the same
  window "Clamp before adding, including when length is MaxInt64". Line 469 of the
  former adds without a clamp: the sum wraps, slicing the text panics, and the query
  fails (`functions_window`).

## Runs

All runs end within five minutes on two cores.

| Run | Instance | Shows |
|---|---|---|
| `client_limiter` | 2 clients, 3 requests, 3 slot objects, 1 slot + 1 waiter | with two requests a client is full, the third is refused or belongs to the other client, which creates and deletes its entry meanwhile; an address can be used again. Every request is answered; refinement of `AdmissionControl` with its fairness. No symmetry |
| `query_service` | 2 handlers, 2 clients, 2 connections, 1 slot and no waiter, 1 discovery query | both connections change hands, so that a late interrupt would meet the other's query or validation; no client holds the pool when it is larger than its slots; connections are held within slots only; a statement that never ends is stopped. Symmetry of clients and of connections, which neither `HandlerReturns` nor the fairness names |
| `query_service_pool2` | 3 queries, 2 clients, 2 connections, 2 slots, no discovery query | expected violation: see Findings |
| `challenge` | 2 questions, 2 requests, 2 right answers and a wrong one, 2 manifests, time 0..3, cooldown 1 doubled once up to a cap of 3 | two guesses in every interleaving, a cooldown that grows and ends within the time bound, a manifest that revises one question and drops the other; refinement of `Investigation` |
| `deployment` | 2 datasets, 3 manifests, 3 versions of a file | a dataset dropped and added again, indexes and full-text index turned on and off, edits before and during an import |
| `ingest_pipeline` | 2 workers, batches of 2, 10 inputs of up to 9 records | inputs longer than the window of 6 records, errors in two workers, behind the decoder and in a batch, late discovery |
| `query_panel` | 3 texts, one of them blank | an edit, an edit back, and any number of validations and runs between them |
| `question_panel` | 2 tasks, a right and a wrong text, 3 loads in flight | a load and its successor beside one that was given up, before, during and after a submission |
| `functions` | integers -4..3, limits of 1 to 12, arrays and records of up to 3 elements, texts of up to 4 characters, addresses of 3 and 5 bits, 3 rows; 14 kinds of records in datasets of up to 3, the sample being 2 | every law on all these arguments: overflow at both ends, each limit reached and passed, an aggregate in every order of its rows, a record after the sample with and without a new key set |
| `functions_collision` | the same | expected violation: see Findings |
| `functions_window` | the same | expected violation: see Findings |
| `workspace` | 2 tabs, 2 hunts, 2 queries, 2 recent hunts kept, 4 uses, a refused write, a restart and a reload | a removal, a save in either tab, an Undo and a reload in every order; a server that fails or comes up before, during and after a request |

Deadlock is checked everywhere but in `workspace`, where an open page whose user
has stopped is the end. `MaxTime`, `MaxVersion`, `MaxDiscoveries`, `MaxLoads`,
`MaxUses`, `MaxRefused`, `MaxRestarts` and `MaxReloads` bound counters; elsewhere
the number of restarts, crashes and requests is not bounded.
The bounds are enough for what they bound: an edit between signature and import
and one more need three versions; a cooldown, its double and its cap need three
units of time; one discovery query, the query itself and a validation are the three
kinds of call, and two handlers with two connections never wait for one but by the
fairness of `Connect` (waiting ends with a connection or with the context, whoever
holds it; waiting for a slot is in `client_limiter`); and a load that is wanted can be behind two that are not. `QueryPanel` has
no bound: validations of one text that are alike are one element of a set.

## Proofs

TLAPS proves these for every value of the constants that satisfies the
assumptions declared with them: any number of requests, clients, connections,
workers, questions, datasets, manifests, tasks and texts, any input of an import,
and any limits and cooldowns. In each module `IInv` is the inductive invariant (in
`QueryServiceProofs` that of `QueryExecution`, and `SInv` that of
`QueryService`); there is one lemma per action that says that the action
preserves it, and the theorems at the end follow.

* `ClientLimiterProofs`. The invariant `IInv` says, beside the types, that a
  request in flight is counted in the object its client's entry holds (`home`),
  that its local variable is that object wherever it is used, that `users` and
  `tokens` are the cardinalities of the sets of requests they count, and that
  no two entries share an object. `OneGeneration`, `ReleaseNeverBlocks`,
  `RunningBounded` and `NoIdleEntries` follow, none of which is inductive: that
  an entry is not deleted too early depends on the exact count. `Refinement`
  proves that every step maps to a step of `AdmissionControl` or a stutter.
* `QueryServiceProofs`. For `QueryExecution`, `HeldOnce` says that a connection
  has one holder, and only a handler inside `RunQuery` or `PrepareContext` holds one,
  in the stages of what its call runs (`KindOfCall`);
  `WatchdogOfCall` that a watchdog belongs to the call under way and has the
  handle of the connection that call holds, and starts to interrupt only once
  the context has ended; `FlagOfCall` that a flag that is set while a statement
  runs was set for that statement, although an earlier holder may leave it set
  on the connection, and that none is set while a validation is parsed. Without the last
  an interrupt could come from anywhere, and it only holds because the first
  step clears the flag. `OnlyOwnDeadline` and `WatchdogOwnsConnection` follow.

  For `QueryService`, the same invariant, and: a request is counted for one
  client (`CountedOnce`), no more than `MaxRunning` per client run
  (`WithinLimit`, what `AdmissionControl` promises), and a handler that is not
  idle belongs to a request that runs and was not answered (`HandlerNeedsSlot`).
  `ConnectionNeedsSlot` follows, and `OneClientLeavesAConnection` from the
  hypothesis `Cardinality(Conn) > MaxRunning`, which is the theorem's own and not
  an assumption of the module: the pool of a small machine does not satisfy it.

  Two theorems say what the deadline of a query rests on, as far as safety can:
  `WatchdogStays`, that a statement which may run has its watchdog, aimed at its
  connection and not told to stop; and `DeadlineStopsStatement`, that once the
  context has ended no step of anybody takes the interrupt further away, while
  every step of the watchdog brings it nearer. It is at most two steps away
  (`UntilInterrupt`), so that fairness, which TLC checks with, has only these
  left to do.
* SQL functions, also in `QueryServiceProofs`, for every width of integers,
  hashes and addresses:
  * `RotationExact`, `ShiftExact`, `SliceExact` and `BinsExact`, of every array within the
    limit and every integer: an operation of int64 that leaves the range and is
    used nevertheless must still give the right place. Remainders are
    characterised by their uniqueness (`RemainderUnique`), `Wrap` by the values
    on which it is the identity and by its period.
  * `SketchesExact`. A sketch is a set of hashes until it grows (`densify`), then an
    array of registers; the theorem says that both are functions of the set of
    hashes alone (`SketchOf`), whatever was added, made dense or merged in what order, and
    that a register has the greatest place of a first bit set. The code finds
    that place behind a guard bit in what is left of the hash after a shift:
    `RankIs` shows that it is the first bit set of the unshifted hash.
  * `BlocksExact`, of `ipv4_range_to_cidr_list`. `Exact` is what the blocks from an
    address on are; it follows for a list from the same of the list without its
    first block (`OneMoreBlock`). That two neighbours could not have been one
    block needs that the first would then have been that block
    (`NeighboursApart`). The recursion has a solution, and just one up to the end
    of the range (`TilesExist`).
  * `RangesExact`, of comparing, matching, formatting and `in`-functions: all come down
    to the number of the network an address is in at a prefix (`Network`), and that
    addresses in one network are in one at any shorter prefix (`ShorterPrefix`).

  `SketchesExact`, `BlocksExact` and `RangesExact` have a hypothesis, `PowersOfTwo`: `2^0 = 1`, and `2^(n+1)` is the
  double of `2^n`. It is the definition of the exponentials of `Naturals`, of which
  the provers know nothing.
* `IngestPipelineProofs`. `Load` counts what is in the two channels and with
  workers. `Counted` says that it never exceeds `pendingJobs`: a worker that leaves
  with a job in hand makes `pendingJobs` too large for good, which only the end of
  the context or an error ends. `InOrder` says that what is written, in rows and
  in the batch, is 1, 2, ... up to the next record. `Accounted` says that no record
  is lost unless the import is bound to fail: those from the next one on are in the
  reorder buffer or in flight, up to the last one released, or, when decoding was
  stopped by a result out of order (`errPipelineStopped`), up to a failed record
  that is still in the buffer. `ErrorMeaning` says what the error of decoding tells
  about the input. At the end nothing is in flight, so that `Accounted` leaves
  no record out, and an import that was stopped is bound to have met the error of
  a lower record: that gives `LikeSequential`. `DiscoveryAlone` follows
  from `Counted`, `BoundedLead` from `Paced`.

  `NoDeadlock` and `Terminates` are what makes every import end. `Winding` says
  that no worker leaves, and no job is lost with one, before the import is being
  wound up; until then `pendingJobs` is exactly what is in flight, so that a
  `select` which waits for a result, or for the next record to be written, waits
  for a record that some worker can move (for the latter `Accounted` is needed:
  the next record is neither lost nor stuck in the reorder buffer). `StepsLeft`
  goes down with every step, the end of the context included. `ENABLED` is out of
  the prover's reach, so `MainCanStep` and `WorkerCanStep` repeat the guards of
  `Main` and `Work`; that fair scheduling then brings the import to its end is
  left to TLC (`AlwaysReturns`, for the inputs and workers of its run).
* The columns of a table, also in `IngestPipelineProofs`. `FieldsRecorded` is any
  sequence of calls of `recordField`; after it, a path has the type that its values agree
  on (`FieldsAreCommonTypes`), from which it follows that their order, the order of
  a Go map among them, does not matter (`OrderOfValuesImmaterial`).
  `CatalogueLosesNothing` says that `catalogueFields` gives different paths different
  places and keeps their types. It is about the paths of records that have no key
  `RawData` (`Discoverable`), as with one it is false. `ColumnNamesDistinct`
  and `ColumnsOfTable` are about any number of datasets and need only that a path
  begins with a named step (`Rooted`).
* `ChallengeProofs`. The invariant `IInv` says that handlers are only active
  while the process serves and on questions of its definition, that rows carry
  the configured revision from the commit of `ConfigureChallenge` on, that at
  most one transaction writes, that a transaction that can still write has seen
  the row as it is (its question is unsolved and not cooling down at the time
  of the guess), and that whatever is solved, or was found solved by a request,
  was earned. `ProgressAvailable` (no request misses the row of its question) is
  a part of it; `CooldownHolds`, `SolvedStays` and `FlagEarned`, which speak about
  steps, follow from it. `Refinement` proves that every step maps to a step of
  `Investigation` or a stutter; it adds to the invariant that nothing is served
  while a process starts and that a guess in flight was not made in the future.
  `CooldownHolds` states the wait by the power of two that the attempts deserve
  (`Escalated`) and not by the loop; `CooldownIs` proves that `cooldownAfter` returns
  it, although its loop runs past the cap and is cut back, and rests on
  `PowersOfTwo` like the theorems above. `CooldownEscalates` says without powers what
  the loop returns: the base cooldown for the free attempts, then twice the last one
  up to the cap.
* `DeploymentProofs`. The invariant says that the full-text index is absent
  while the derived structures are dropped, and that as long as they are not,
  all configured datasets and no others are stored under the signature that was
  read, so that nothing is imported or deleted under an existing index; and
  that what was read of a file lies between its signature and its present
  version. `FullTextCurrent`, `KeptIsCurrent` and `ReadyAsConfigured` (a server that
  serves has what its manifest says, whatever earlier starts left) follow.
  `NoEventBehindTheIndex` is about steps: events change only while they have no
  full-text index and their other indexes are dropped, in the process that
  changes them.
* `QueryPanelProofs`. The invariant adds to the three properties about what is
  displayed that validations which are neither aborted nor outdated are for the
  text in the editor, that a run which was not aborted is too, and that
  `lastResultQuery` is the query of the result displayed.
  `CanceledStaysCanceled` follows from the steps.
* `QuestionPanelProofs`. The invariant says that at most one load is wanted, none
  during a submission and only a background one once tasks are displayed; that what
  it will bring lies between what is displayed and what the server holds, already
  when it is sent; and the same of a submission. `ViewNeverGoesBack` and
  `LoadingEnds` follow, neither of which is inductive; `DraftsSafe` needs that a
  submission that was accepted is in the state it returns.

* `WorkspaceProofs`. `LibraryKept` is not inductive. That a tab forgets no hunt
  needs that a list an Undo puts back has all that the tab has now
  (`UndoLosesNothing`), which is so because whatever is saved in between replaces
  the message with the Undo; that a new hunt takes nothing away needs that its
  id was nowhere before (`OnlyUsed`), in no list, in no Undo and in no memory of a
  removal. That recent queries are distinct needs the same of the stored list and
  of what an Undo would put back (`DistinctRecent`), as other tabs write the one
  and a tab cuts the other off at `MaxRecent`. `NothingBeforeOpen` covers reloads.
  `OpensWhenReady` says that no page imports the application before the
  deployment is loaded, unless the server restarts under it: an answer under way
  that says so was true, and is as long as there is no restart (`AnswersHold`).

The cooldown loop and the filter of lists are recursive functions. The library's
induction theorems take an operator as a parameter, which the provers at hand
cannot instantiate, so both proofs argue by the least counterexample: a set of
naturals that is not empty has a least element (`LeastNatural`), and the function
restricted to an initial segment exists, is unique there, and therefore is the
one that the definition chooses. `FieldsAreCommonTypes` takes the first call of
`recordField` that would go wrong, `BlocksExact` goes down from the end of the
range; and a fold over a set, whose order is a `CHOOSE`, is compared with what it should
be on a least set on which they differ (`OneFold`).

Some theorems are about no property of a run. `RunningBounded` (with
`AdmittedBounded`) need not be one, as the refinement of `AdmissionControl` has the
same bounds. `NoDeadlock`, `Terminates`, `WatchdogStays`, `DeadlineStopsStatement`,
`NoEventBehindTheIndex` and `OpensWhenReady` are what the liveness
properties and the invariants of the runs rest on. The theorems on functions state single
laws, of which a run checks the conjunction.

Only model-checked:

* liveness (`EveryRequestLeaves`, `HandlerReturns`, `AlwaysReturns`, `PageSettles`)
  and the fairness part of `AdmissionControl`, which are out of the prover's
  reach, like `ENABLED`;
* of the algorithms without state, what is not named above. Of `ScalarLaws`, the laws
  of rotating, shifting, cutting, bins, blocks and ranges are proved; of
  `AggregateLaws`, that of HyperLogLog; of `FieldLaws`, the columns, and of the
  catalogue that nothing is lost and that order does not matter. The rest is written
  with operators declared `RECURSIVE`, which cannot occur in a module with theorems
  (JSON values nest, and what a recursive definition computes for every value needs
  induction), or folds over the rows of a group: t-digests and `reduce`
  depend on the order of their rows, and their laws with it, so that a proof would
  need induction over the rows. All of it is checked against its laws over
  bounded inputs.

## Not modelled

* The KQL adapters of `internal/kql`, the text of queries and their compilation by
  `ksql`: they rewrite a text token by token, keep nothing between queries, and
  what is right is defined by the compiler, which is not in the repository.
* The authorizer, one lookup in a table, and the forwarding to a native Kusto
  service, an HTTP client without state behind the same limiter.
* The decoders of JSON, CSV and EVTX files, timestamps, and those SQL functions
  that are conversions of the standard library: dates, formats, encodings,
  hashes, URLs, XML, CSV and floating-point mathematics.
* The shutdown of the HTTP server, access keys and the check of origins: a call of
  `net/http` and comparisons.
* The migrations of databases of older versions in `initialize`, other than the
  rows without an answer that `Challenge` starts with.
* `loadFields` of the page, which never overlaps itself: its callers are the start
  of the page and buttons that it removes when it begins. How results, fields,
  timelines and pivots are rendered. `logLimiter`, which thins out log lines.

## Plan

Done: the limiter and its refinement; query execution and the query service; the
challenge and its refinement; the ingest pipeline; the deployment; the query
panel; the question panel; the workspace with its query library and the start of
a page; the field catalogue; the larger part of the SQL functions; and proofs of
the safety properties of every module with state and of the functions that need
no recursion over values.

What could come next, most useful first:

1. An abstract specification of a start, from the manifest to what is served, for
   `Deployment` to implement, and one of the tasks that `QuestionPanel` shares with
   `Investigation`: its server takes an answer of `ChallengeState` to have all
   that was solved when the request came and nothing that is not solved now.
2. The laws of t-digests and `reduce` for any number of rows.
3. The decoders' part of an import: how a compressed, truncated or concatenated
   file ends in an error or in none, which is an input of `IngestPipeline` now.
4. The remaining functions on dates (`bin_at`, calendar arithmetic) against
   definitions that count days.

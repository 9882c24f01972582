# A verification project for jobstreaming

jobstreaming searches several job boards at once and hands the results to an application as a
stream of events that it acknowledges, so that a search can be stopped at any point and resumed
from a checkpoint. These TLA+ modules model the parts of `jobstreaming/` in which threads,
failures and restarts meet; TLC checks them on small instances, and TLAPS proves the guarantees that
matter most for every instance. `PROJECT.json` maps every definition to the lines it
models and lists the runs, the mutants, the findings, the hazards and the theorems.

## 1. The system

| Component | State it keeps | Operations |
| --- | --- | --- |
| **Stream runtime** (`runtime.py`) | `_queue`, `_active_workers`, `_last_delivered`, `_last_acknowledged`, `_checkpoint`, `_closed`, the totals | `__next__`, `ack`, `close`, `_run_adapter` (one worker thread per site), `diagnostics` |
| **Scrape context** (`context.py`) | `_state`, `_seen` of one site; the stop event and the latch of external cancellation; the operation start lock | `emit_job`, `emit_progress`, `emit_warning`, `already_seen`, `wait`, `run_interruptibly`, `stop` |
| **Adapter ownership** (`runtime.py`, `context.py`) | `_open_adapters`, `_managed_adapters`, three flags per adapter, worker, operation and cleanup threads | register, release, complete, retire, schedule a close |
| **Checkpoint stores** (`checkpoint.py`) | memory: one object; JSON: one file; SQLite: header, adapter rows, key rows | `load`, `save`, `save_incremental`, `replace`, `clear` |
| **Transport ownership** (`model.py`, `Scraper`) | `_transports`, `_transports_closed`, cleanup errors | `track_transport`, `transport_scope`, `close` |
| **Adapter registry** (`registry.py`) | `_registrations` | `register`, `create` |
| **Error policy** (`exception.py`, the adapters' requests, `runtime.py`) | the attempt | `classify_exception`, `parse_retry_after`, the retries of `_run_adapter` |
| **Board adapters** (eight packages) | page or cursor, `page_skip`/`skipped`, `raw_seen` | `scrape`: walk pages, emit jobs and progress |
| **Collector, outcome** (`collector.py`, `outcome.py`, `result.py`, `batch.py`) | jobs and errors by site | fold the events of a stream |
| API, models, salary and text parsing, HTTP | none that outlives a call | construction, validation, parsing |

How they interact. Every worker owns one `ScrapeContext`. It creates an adapter by the registry,
registers it, and waits behind `run_interruptibly` for an operation thread that runs
`adapter.scrape`. The adapter reports jobs, warnings and progress through the context, whose sink is
the stream's bounded queue. The application's thread takes messages out with `next()` and turns them
into events; acknowledging an event (by `ack()`, or implicitly by the next `next()`) computes a new
checkpoint and saves it in the store. `close()` may come from any thread: it sets a flag, takes the
open adapters, sets the stop event, wakes the consumer and starts the threads that close the adapters.

The hard parts: a key is reserved before its job is delivered; a put may be refused or time out; a
message may enter the queue after cancellation; a retry goes on from memory and a restart from the
checkpoint; a caller's callback may change its mind; three threads may be the last to need an adapter;
several streams may own one SQLite file; a factory is called without the lock of the registry; a
session may be registered while its adapter is closed; a save may be cut off at any step.

What makes each component correct:

* **delivery** - nothing a site lists is lost, over failures, retries, cancellation and restarts;
  nothing acknowledged is delivered again; what the terminal events say is true; the iteration ends.
* **adapter ownership** - every adapter is closed, once, by somebody; no operation starts after the
  stop; nothing is closed under a healthy operation; cleanup errors stay visible; "quiescent" is true.
* **SQLite store** - an acknowledgement is stored entirely or not at all, acknowledged keys are never
  lost within a search, a stream whose search was replaced can never write again.
* **file and memory stores** - a whole checkpoint stands whatever fails, and only its own search goes on
  from it.
* **transports** - each is closed once, by its scope, its adapter's `close()` or the thread that came too
  late; while the adapter is open a scope closes only what its own batch registered, and nothing under its
  user; and none is kept.
* **registry** - an adapter has the contract its registration promises, and gets resume states of its
  own schema version.
* **error policy** - what may pass is retried, nothing else is, and the wait is the backoff, or what the
  board asked for if that is longer.
* **collector** - the outcome of a search is what was delivered, and a healthy search is not refused.
* **paging** - resuming in the middle of a page neither skips nor repeats a listing, the offset excludes
  the same listings however often a search is interrupted, and a site is complete only when its pages
  are exhausted.

## 2. The modules

| Module | Models | Extends |
| --- | --- | --- |
| `SearchStream` | delivery: workers, contexts, queue, `next`, `ack`, `close`, cancellation, crash and resume | |
| `JobDelivery` | abstract: what the application of a search may rely on | |
| `SearchStreamProofs` | proofs of every safety and action property of `SearchStream`, type correctness first, and of the refinement of `JobDelivery` | `SearchStream`, `TLAPS` |
| `AdapterLifecycle` | who owns an adapter, and when it is closed | |
| `AdapterLifecycleProofs` | proofs about adapter ownership | `AdapterLifecycle`, `TLAPS` |
| `SearchCollector` | `collect_jobs`: the events of a stream added up to an outcome | `SearchStream` |
| `SearchCollectorProofs` | proofs about the outcome | `SearchCollector`, `SearchStreamProofs` |
| `CheckpointHistory` | abstract: what a checkpoint store promises | |
| `SqliteSchema` | opening, migrating and creating a SQLite file | |
| `SqliteCheckpoint` | several streams on one SQLite file, by transactions | `SqliteSchema` |
| `SqliteCheckpointProofs` | proofs about the file, the streams and the refinement of `CheckpointHistory` | `SqliteCheckpoint`, `TLAPS` |
| `CheckpointFile` | the JSON, memory and custom stores, and how a stream opens on one | |
| `CheckpointFileProofs` | proofs about the file | `CheckpointFile`, `TLAPS` |
| `TransportOwnership` | who closes the sessions of an adapter | |
| `TransportOwnershipProofs` | proofs about transports | `TransportOwnership`, `TLAPS` |
| `AdapterRegistry` | the registration of a site, `create()` | |
| `ErrorPolicy` | which failures are retried, and after how long | |
| `BoardRequests` | which failure the requests of each board end in | `ErrorPolicy` |
| `AdapterAttempts` | streams that create adapters and retry: registry, requests and policy together | `AdapterRegistry`, `BoardRequests` |
| `AdapterAttemptsProofs` | proofs about contracts, resume states, failures and their retries | `AdapterAttempts`, `TLAPS` |
| `AdapterPaging` | how the eight boards walk the pages of a provider, and their resume states | |
| `AdapterPagingProofs` | proofs about positions, the offset and completeness | `AdapterPaging`, `TLAPS` |
| `MC...` | model values for TLC | the module they are named after |

### SearchStream

A worker and the operation thread it waits for are one process: the worker polls for the result only,
and once it sees the cancellation every later put of either thread is refused. The state of a worker is
its place in `_run_adapter`, the attempt, the context's state (`cursor`: the page it points at),
`_seen`, what is left of the page, and the message it is in `_put_message` with. `armed` says that
`_put_message` saw no cancellation and waits in `queue.put`: `PutChecks`, `PutSucceeds`,
`PutTimesOut` and `PutRefused` are its steps, so that cancellation, close and other workers fall in
between. `EmitJob` reserves the key in `_seen`; `PutRefused` gives it back.

The consumer goes through `__next__` in the code's order: acknowledge the last event in implicit mode
or refuse in explicit mode (`CallNext`), the terminal event delivered (`NextEnds`), closed
(`NextSeesClosed`), cancelled (`NextSeesCancel`, which closes the stream, then `NextRaises`), no active
workers (`DeliverSearchComplete`), the queue (`NextWaits`, `GetTimesOut`, `Get`), a wake-up or a message
got after close (`DropHeld`), WORKER_DONE (`CountWorkerDone`), or an event (`Deliver`). `AckSaves` and
`AckFails` are the rest of `ack()`.

`close()` is `CloseCalled`, `CloseStops`, `CloseWakes`, `CloseMakesRoom`: the flag, the stop event, and
`_wake_iterator`, which makes room in a full queue by taking messages out.

Failures: a retryable and a fatal exception, a BaseException that is not an Exception, a store that
fails and one that reports a conflict. `Resume` is a crash at any point and a new stream on the
checkpoint.

Abstractions. An adapter walks `Pages[s]` from the page its state points at, so its state is a page
number: a `page_skip` within a page only spares the context jobs it knows as seen, and the model
walks the page again; what the states of the boards hold, and that going on from them is right, is the
subject of `AdapterPaging`, and so is a progress event whose counts `ProviderProgress` refuses (finding 1):
here it accepts them all. The pages of a site do not change between attempts. The in-memory checkpoint and
the stored one are one variable, because `ack()` replaces the one only after it saved the other.
Sequence numbers, revisions, capability warnings and the jobs of the `JobResponse` (which
`emit_job` finds already seen) are left out; so is `close(acknowledge=True)`, which by the
consumer's thread is `ack()` followed by `close()`.

### JobDelivery

The promise of a stream, without workers, queue, attempts or threads: the sets of acknowledged jobs, the
job the application has in hand, which sites are completed and the verdict. A job that is returned is
listed, is not acknowledged, and is wanted; it is the only one in hand until it is acknowledged or a restart
forgets it. `SearchStream` implements it (`ImplementsDelivery`): `acknowledged` and `completed` are those of the
checkpoint, `hand` is the job of the last event until `ack()` has saved it (`InHand`), `verdict` is the
completed flag of the SearchCompleteEvent. `Deliver` of a job is `Return`, `AckSaves` is `Acknowledge` or
`Complete`, `DeliverSearchComplete` is `Finish`, `Resume` is `Restart`, and every other step, a failed save among
them, is a stutter. The resume state is not part of it: that is the subject of `NoJobLost` and
`CursorFollowsProgress`.

### SearchCollector

The application of `TwoSites`: every event `next()` returns is accepted before it is acknowledged, as in
`collect_jobs`. `Collect` is conjoined to each step of `SearchStream`; it has an account of each site
and the stream's `_total_jobs`. `FinishAccepts` is that none of the checks of `finish()`,
`SiteSearchSummary` and `SearchOutcome` (`TotalsAgree`, `CompletionAgrees`, `Summarised`) fails when the
terminal event has been accepted (the totals are those of `AllJobs` and `AllFailures`, the jobs and failures
of all accounts), `OutcomeIsAcknowledged` that the outcome's jobs are the keys that
were acknowledged since the stream began.

### AdapterLifecycle

An adapter is named after its site and attempt; its `started`, `complete`, `released` and `cleaned` are
the flags of `_ManagedAdapter`. A step is what a thread does under one acquisition of
`_lifecycle_lock`, or between two of them: a worker registers (`Register`), takes the operation start
lock (`LockStart`), checks the cancellation (`SeeNoStop`), starts the operation (`StartOperation`) and
marks it (`MarkStarted`), gets the result or abandons it, completes an unstarted operation, releases
(`Release`), schedules the close (`ScheduleClose`) and retires (`RetireReleased`). The operation thread
completes and retires; the cleanup thread closes, captures errors, completes and retires. `Close` takes
all open adapters, `CloseStops` needs the start lock, `CloseSchedules` starts one cleanup thread at a
time. One other thread reads diagnostics: open adapters, workers, operations, cleanup tasks, in that
order; or it calls `wait_closed()`, which looks at the operation threads and then at the cleanup
threads (`WaitReadsOperations`, `WaitReadsCleanups`), joins what it found and looks again
(`WaitAgain`), and reads diagnostics when it finds nothing or its time is over
(`WaitReadsDiagnostics`). What a worker says to the consumer, its last message included, belongs to `SearchStream`.

### SqliteSchema, SqliteCheckpoint and CheckpointHistory

A store opens its file in the steps between which others see it: it looks at the schema (`Validate`,
`Incompatible`), adds the generation column to a file of the first release in a transaction
(`Migrate`), and creates what is missing one statement at a time (`Create`), because `executescript`
commits each of them. It may die or fail at any of these (`OpeningFails`). Only then does a stream
use it.

`db` is the committed file: a header with the keys and cursor of each site, and the `emitted_count`
column. A stream loads (`OpenResume` fixes the snapshot its read transaction sees, `LoadFinds` or
`LoadFindsNothing`), or replaces (`OpenFresh`), and acknowledges jobs, other events or the end of
the search. A write transaction takes the lock (`Begin`), compares and swaps the header
(`AdvanceHeader`), then writes the whole checkpoint (`SaveFull`), or one adapter row (`WriteAdapter`)
and one key row (`InsertKey`), or replaces all (`ReplaceSearch`); it ends by `Commit`, `Conflict`,
`StatementFails` or the death of the process. `Interrupt` is an exception after COMMIT and before the
stream takes its new checkpoint over. `Plain` streams reach the store by `save()` only, as through a
wrapper without `save_incremental`. SQLite's locking and snapshots are taken as documented: they are
the external part. uuid4 never repeats.

`CheckpointHistory` is the promise: one register that goes from nothing to a first checkpoint, to a
successor of the same generation with at most one key more, to a replacement of another generation, or
back to nothing, each in one step. `ImplementsHistory` says that `db.checkpoint` behaves so.

### CheckpointFile

`_load_checkpoint` and `ack()` on a store that holds one stream at a time. `OpenFresh` (with
`resume=False`), `OpenNew` and `OpenStored` are the three ways to open; a checkpoint of another request or
another schema version is refused (`Usable`). A save of the JSON store is `WriteTemporary`,
`SyncTemporary`, `ReplaceFile`, `SaveReturns`; of the memory store or a custom one `SaveAtOnce`; a custom store
without `replace()` is cleared first (`ClearForReset`). Any step may raise (`StepFails`), the caller may be
interrupted after the replacement (`Interrupted`), the program killed (`Kill`), the power lost
(`PowerLoss`). The file system is external: `onDisk` are the directory entries a power loss may bring
back, because the code does not synchronise the directory (`DirectoryIsWritten` is the kernel's doing), and a file
that was not synchronised comes back torn.

### TransportOwnership

A step is what a thread does under one acquisition of `_transport_lock`, or between two of them. The
constructor registers one transport or none. An operation enters scopes (`EnterScope`), gives work to helper
threads (`Submit`), ends its scope when its pool has ended (`EndScope`), closes what the scope took one
at a time (`CloseNext`) and leaves (`LeaveScope`). It makes transports whenever it likes, inside of a scope
and outside (`OperationMakes`): Glassdoor, Google and Bayt make theirs at the start of `scrape()`, and the
project's README.md:623 has SDK adapters make them lazily. A helper has one lazily made session
(`HelperMakes`). `track_transport()` is `Register` and `Return`, because the lock is released between them, or
`Refuse`. `origin` remembers where a transport was registered: in a batch (by a pool, or by the operation inside
of its scope), outside of scopes, or outside while another operation had a scope open (`"beside"`).

`close()` is `Shut`, by the runtime's cleanup thread at any moment (`CleanerCloses`) or in the `finally` of
`fetch_job_detail` (`ReturnToDetail`). Each close may fail, and an exception on its way out is not replaced
by that (`AfterClosing`). As in all adapters, the pool is inside the scope, and a scope is not nested
under a running pool, whose sessions its end would take. The operations of an adapter may overlap, because
scopes are there to "serialize overlapping batches on the same adapter"; a stream runs one operation of each
adapter, and `OneOperationIsSafe` says what that changes.

### AdapterRegistry, ErrorPolicy, BoardRequests and AdapterAttempts

A registration is a factory, the contract it promises and the schema version streams validate
checkpoints with. A factory may declare its contract or not, keep its word or not, and make adapters
that accept a context or not; those that do not are bridged, by `legacy_adapter()`, by `register()`
when it can see it, or when the first adapter is made (`Adopted`). `create()` is `Find`, `Make` without the lock, and
`Accept` or `Refuse`; `Replace` is `register(replace=True)` at any moment.

`BoardRequests` has one operator for each kind of request of each board: which exception its ends
become, an answer, a connection that fails, a proxy or certificate, or a body that is cut short or cannot be
decoded (`"cut"`). The last ones are exceptions of requests that `classify_exception` does not name, so that
they end in `adapter_failure`; tls-client does not tell them from others. `ErrorPolicy` is `classify_exception` on these
exceptions, with the parsing and the cap of Retry-After, and the delay of `_run_adapter`. Bodies and texts
are reduced to what the code looks for in them.

`AdapterAttempts` puts them together: streams that share a registry open (`Open` reads the schema
version), create an adapter, scrape, and wait and retry, or fail, for every failure an adapter or a constructor can raise
(`Raises`). `cause` remembers what happened, whether it may pass (`MayPass`) and the time the board asked for (`Asked`), so
that `RetriedInTime` compares the decision with the request and not with the classification. `Lost` names
what does not reach the coordinator of these: the kind of a `"cut"`, the time that BDJobs or the body of a
GraphQL answer came with. `RetriedInTime` leaves out what is lost and nothing else;
`RetryAfterHonoured` leaves out nothing, and is refuted (finding 4). Cancellation and delivery are left to
`SearchStream`.

### AdapterPaging

The `scrape()` of every board is the same loop: ask for a page, go through its listings, emit jobs with a
state that restarts the page, report the page with the state of the next one. What differs is in a
profile of each board: whether it asks by page number, by token or by a continuation; how it applies
the offset; in which order it reads the listings; which of them it counts; and when it stops. The
actions are the steps between two writes to the context or the queue: `FetchPage`, `FetchFails`,
one of `SkipExcluded`, `SkipUnreadable`, `SkipSeen` and `EmitJob` for each listing, `ReportPage`
(`emit_progress`, which moves the state on before it validates the counts), and `ScrapeReturns`. A state
is a record of page, cursor, pages fetched, `skipped`, `page_skip` and `raw_seen`; a board that does
not save a field leaves it alone. `Acknowledge` takes the oldest message into the checkpoint, `Resume`
starts again from there.

Offsets are applied in three ways. Indeed and ZipRecruiter count what they skipped. LinkedIn and
Glassdoor start at the page the offset falls on and compute the index of a listing from the page
number. Google, Bayt and Naukri compute it from `raw_seen` less `page_skip`, BDJobs from `raw_seen`,
which its jobs leave alone.

A listing is named by its position in what the provider lists: page `p` has the positions from
`PageStart(p)` on, the items of a page are the positions the board counts (`ItemsOf`), and `Rank` is the
number of listings counted up to a position, over all pages.

Abstractions. `PageCap` stands for LinkedIn's 1000 listings and for Glassdoor's 30 pages. Google's stop at
900 results is out of reach (`RequestAssumption`), and states saved by versions without `raw_seen` do
not occur. Retries are not counted, because another attempt starts from the context's state whichever
it is. A page of the runs has a readable listing, unless the provider has none (`Legible`): Indeed and
Google take a page on which they can read nothing for the last one. No page of the runs lists a job twice
(`NoRepeats`), though two pages do. `StableListingsAssumption` has TLC check both of the listings it tries.

## 3. The runs

| Run | Bounds | Shows |
| --- | --- | --- |
| `OneSite` | one site, two pages with four listings, one repeated on the second page and one unreadable, `results_wanted` 2, one retry, queue of 2, all failures, one restart, implicit mode, fairness | `NoJobLost`, `CompletedIsExhausted`, `WithinLimit`, `NoRedelivery`, `CursorFollowsProgress`, `ImplementsDelivery`, `IterationEnds` |
| `TwoSites` | a collector on two sites, queue of one place, explicit mode, fatal failures, one restart | what the terminal events and the outcome say: `SiteCompleteCounts`, `CompleteMeansAllDelivered`, `SearchCompleteIsLast`, `FinishAccepts`, `OutcomeIsAcknowledged`, `CompletedStays` |
| `Lifecycle` | one site, one retry, an observer that reads diagnostics or waits after `close()`, fairness | `ClosedOnce`, `NothingLeft`, `NoCloseUnderOperation`, `OperationsInterrupted`, `ErrorsVisible`, `QuiescentAfterClose`, `NoStartAfterStop`, `CloseLeadsToInactive` |
| `TwoOwners` | two streams (one of them `Plain`), a file that is new, of the first or of a later release, one site, two keys, two resume states, two generations, revisions to 2 | `Loadable`, `IdentityMeansContent`, `AcknowledgedIsStored`, `FencedStaysFenced`, `ImplementsHistory` |
| `CheckpointFile` | all three kinds of store, two requests, two releases, three searches, revisions to 2 | `LastSaveStands`, `OwnRequestOnly`, `SearchGoesOn` |
| `Transports` | two operations, two helpers, two transports, scopes nested twice, fairness | `TransportClosedOnce`, `NotClosedInUse`, `NothingKept`, `NothingLeaks` |
| `ReceivesClosed` | as `Transports` | violated: finding 3 |
| `Attempts` | two streams, seven factories with and without an override, one replacement, one retry, every board, a status of each kind, Retry-After in the past, below the backoff, above it and above the cap | `OneContract`, `ResumeStateFits`, `RetriedInTime` |
| `RetryAfterDropped` | as `Attempts`, one stream, every answer has status 429 | violated: finding 4 |
| `Paging` | all eight boards, pages of two, listings for none to four pages with unreadable and repeated ones, offsets 0, 1 and 3, `results_wanted` 3, `max_pages` 3, two interruptions, queue of 3 | `PositionsAgree`, `NothingBehind`, `CompleteIsExhausted`, `OffsetHonoured` |
| `PageTurnedOver` | two listings without a common job, either of them in each run, one interruption; without LinkedIn | violated: finding 1 |
| `ResumedBehindEnd` | as `Paging`, Indeed and ZipRecruiter, one interruption | violated: finding 2 |

Why the bounds are enough. A limit of 2 below the three readable jobs makes the limit bite within a
page and across pages; a listing repeated on the next page meets deduplication; one retry and one
restart let an attempt follow an attempt and a stream follow a stream, and each starts from any state
its predecessor can leave. A queue of one place is full whenever it holds anything, which is what
`_wake_iterator` and the workers compete for. With two owners and two generations a stream can be
replaced, the file cleared and a new search reach the revision the old stream would write next.
Offsets 1 and 3 cut the first and the second page of two in half; of three and four pages the
latter exceed the page budget; two interruptions let a resumed page be interrupted
again. Three searches on a checkpoint file are one that is interrupted, one that is refused or resumes,
and one that replaces it; two revisions are one saved and one cut off. With two operations one
scope waits for the other, or runs beside an operation outside of scopes that registers a session of its own;
with two helpers a pool has a late thread; of two
transports one is being closed when the other is made, or one is taken by a scope and the other spared. Two streams are enough for every pair of steps of `create()`; a
replacement may fall between any two of them. One retry has a first and a last attempt.
`MaxRestarts`, `Turnover`, `Watched`, `MaxRevision`, `MaxGeneration`, `MaxSearches`, `MaxDepth`,
`MaxEpoch` and the set `Transport` are bounds of the models; `Statuses` and `Waits` are what TLC tries of the
answers of a board; the other constants are parameters of the code.

Symmetry is used in `TwoSites`, `Attempts` and `CheckpointFile`, whose sites, streams and requests are
interchangeable, and without liveness properties.

Each property of a passing run has a mutant: a change to one mapped definition that a plausible bug
would make (an operator named `...Mutant...` beside the definition), under which TLC finds the property
violated.

### Fairness

`IterationEnds` assumes that threads are scheduled (weak fairness of each worker and of the thread in
`close()`), and that the application goes on calling `next()`, and `ack()` in explicit mode. Nothing
obliges the caller to cancel, an adapter to fail or a process to restart. A store that fails at every
attempt is excluded: implicit `next()` retries the same acknowledgement for ever, as the code intends.
That is the strong fairness of `AckSaves`: asked again and again, the store answers in the end.
`CloseLeadsToInactive` also assumes that the calls of an adapter return: without it `close()` promises
only to return promptly. `NothingLeaks` assumes that a thread which has a transport in its hand, to
register or to close, goes on.

### Findings

1. `PageTurnedOver`. `emit_progress` sets the state of the next page (`context.py:325`) before
   `ProviderProgress` refuses counts with more jobs than listings (`events.py:93`). The keys are those of
   all runs, the listings of a page that is read again are counted once: a page that lists other
   jobs the next day makes the site fail with a ValueError, and the ErrorEvent commits the state of
   the page after. The project's README.md:206 says that this state advances only after the progress event
   is acknowledged. LinkedIn is left out: the listing here is cut into pages, and its `start` after a
   short page is not a page boundary.
2. `ResumedBehindEnd`. The progress event of the last page leaves Indeed and ZipRecruiter without a
   cursor. Interrupted before the site's completion is acknowledged, the next run asks for the first
   page again, with the offset used up, and delivers the listings the offset had excluded. `OffsetHonoured`
   shows that this is the only way.
3. `ReceivesClosed`. `track_transport()` registers under `_transport_lock` and returns without it
   (`model.py:780-798`); `close()` may take and close the transport in between. Its docstring says that adapter
   code "can never receive a closed client for use" (`model.py:775-777`).
4. `RetryAfterDropped`. BDJobs raises its status as a text (`bdjobs/__init__.py:105`), without the headers of the
   answer, and the rate limits that GraphQL boards find in a body lose them too (`exception.py:217`): the stream
   retries after its backoff, sooner than the board asked. The project's README.md:213 says that valid Retry-After
   values "on retryable board responses are honored".

What the models show besides, without a run of its own (the hazards of `PROJECT.json` have the lines):

* An adapter that raises a BaseException which is not an Exception ends its worker without an ErrorEvent
  (`runtime.py:420` catches Exception). The search then ends with `completed=False` and no failed site, where the
  project's README.md:401 says that at least one site failed. `IncompleteFailed` proves that this is the only way.
* Between taking the open adapters and starting their cleanup threads (`runtime.py:835-840`), `close()` leaves a gap
  in which diagnostics read by another thread are quiescent although an adapter is still to be closed.
  `QuiescentAfterClose` shows that the gap ends when `close()` returns; `Watched = "always"` lets the observer in earlier.
* The end of a scope takes every transport that was registered since it began (`model.py:814-822`), whoever
  registered it. An operation that registers its session outside of scopes, as Glassdoor, Google and Bayt do, while another
  operation of the adapter has a scope open, loses it under its hands. Scopes prevent "one batch from closing
  transports owned by another", as the project's README.md:629 says; this session is of no batch. `NotClosedInUse` says
  that nothing else is closed under its user while the adapter is open, and `OneOperationIsSafe` that it takes
  two operations of one adapter, which streams never have (`runtime.py:387`).
* A process that dies between two statements of `executescript` can leave a SQLite file that every store refuses.
* A connection that is lost in the middle of a body ends its site without a retry, though it may pass
  by itself (`exception.py:248`).
* A factory registered while an undeclared one is being called gets the contract of the other's adapter.

One more was found by an attempt to prove `NothingBehind`: Indeed
counts the offset in jobs it has not seen (`indeed/__init__.py:156-161`), so that on a page that lists a job
twice, `<<j1, j1, j2>>` with offset 1, the second `j1` is delivered, and a search that is resumed on the page
skips both `j1` as seen, takes `j2` for the excluded one and never delivers it.

## 4. What is proved

All theorems hold for every value of the constants that satisfies the named assumptions of the module
(finite sets of sites and jobs, a queue of at least one place, and so on).

* `SearchStreamProofs!TypeCorrect`: the type invariant. `TypeInv` strengthens `TypeOK` by what is in
  `last`, and by the fact that an armed worker has a message. No run checks `TypeOK` any more: the
  theorem covers every instance.
* `SearchStreamProofs`: `NothingLost`, `CompletedExhausted`, `CommittedDelivered` (the checkpoint has no key
  of a job that `next()` never returned) and `CompleteDelivered`, all from one inductive invariant, `DeliveryInv`. A checkpoint is sound because every message on its way to it is: a message
  is `Sound` with respect to a set of keys when its resume state skips no readable listing that is not
  in the set, and when it completes a site only if the set covers the site. The set for a message is
  what the consumer `Got` before it: the checkpoint's keys, the job of the last event, the held message
  and the messages `Earlier` in the queue. The worker's own state is sound with respect to
  `_seen`, and `Accounted` links the two: every key of `_seen` is acknowledged, last delivered, held,
  queued or in the message being put. The link breaks once the stream is closed (messages are dropped)
  or cancelled (a key is given back), which is why the invariant about the worker is conditional on
  neither having happened, and why a put after cancellation needs the check `PutChecks` made.
  The lemmas follow the actions: worker steps that put nothing (`QuietWorkerStep`), puts (`PutStep`),
  the queue (`QueueStep`), acknowledgements (`CheckpointStep`).
  Four more invariants build on it, each about the line of messages between the worker and the checkpoint.
  * `FreshInv`, for `NeverRedelivered`, `WantedBounds` and `CountsExact`: no message in the line carries a
    key that the application has or that comes `Earlier`, and until the stream is closed what the
    worker has kept is what it has sent. Deduplication is then an equation between `_seen`, the line and
    the checkpoint, and the length of `_seen` that goes into a SiteCompleteEvent is exact.
  * `EndingInv`, for `CompleteIsLast` and `CompletedForGood`: of one site nothing follows a WORKER_DONE,
    only that follows a verdict, which is a SITE_COMPLETE or an ERROR (`Ordered`), and neither waits before its
    worker is past it (`Timely`). `CountInv` makes `_active_workers` the number of workers whose last message was not
    counted. It holds until the stream is closed or cancelled, when messages are dropped, and `next`
    makes no SearchCompleteEvent after that.
  * `PlaceInv`, for `CursorTurns`: the pages reached before a message, by the checkpoint and the
    progress messages before it, are an interval that ends at the state the message carries.
  * `WhyInv`, for `IncompleteFailed`: a worker that ended without being cancelled left a verdict, in the
    line, in the checkpoint or with the sites known to have failed. These are a parameter of the invariant: the
    stream only counts its errors (`AnyFailed`), its collector has them by site (`Failed`). The theorem assumes that `"abrupt"` is not among
    `Failures`, which makes the exception exact: a BaseException is the only way to an incomplete search without an error.
  * `ImplementsDeliveryAlways`, the refinement of `JobDelivery`, needs three of these invariants at once. A job that
    `Deliver` returns is not acknowledged (`FreshInv`: it is not among what the application `Got`), is
    wanted (what it `Got` and this job are keys of the worker, who reserves no more than are wanted), is of a site that is
    not completed (`EndingInv`: `Timely`), and is listed (`ListedInv`, which follows the listings from the page to
    the message). `AckSaves` leaves the completed flag of a job's site as it was because of `LastOpen`, and
    completes only an exhausted site because the message is `Sound` (`DeliveryInv`). `StepKinds` says that no other step
    but the terminal event and a restart is seen by the application.
* `SearchCollectorProofs`: `OutcomeAcknowledged` and `OutcomeAccepted`, the two properties of the collector, and
  `NothingAfterTerminal`: `accept()` gets nothing after the terminal event, neither a second one, which it
  would refuse, nor an event of a site, which it would add without a word to totals that are final.
  The collector takes no part in the stream (`CollectedIsStream`), so that all of the above holds with it, and
  what it does follows from the step of the stream (`CollectKinds`). `CollectorInv` relates the two: the
  jobs of an account are what the application `Got` less what the stream began with (`JobsInv`), the totals are
  cardinalities (`TotalsInv`), an account is completed when the application knows that the site is
  (`AccountsInv`), and a site that failed says nothing more but that its worker is done (`FailedInv`), without
  which a site could fail and complete. `OutcomeAccepted` assumes, as `IncompleteFailed` does and for
  the same reason, that no BaseException ends a worker: `finish()` would refuse the outcome of such a search,
  because a summary is neither completed nor failed. It needs `WhyInv` once more, with the failed sites.
* `AdapterLifecycleProofs`: all safety properties of the run. `ClosedAtMostOnce`: the right to
  close an adapter is one token: an adapter that is open, taken by `close()`, or in a worker's hand
  (`rejected`, `scheduling`) has not been closed, it is in one of these places only, and an adapter
  not yet registered is in none. `NoLateStart`: whoever is between the check and the mark holds the
  start lock, and has seen no stop. For the others the invariant `LifeInv` follows one adapter from
  its creation to its end: its flags say where its threads are (`FlagInv`), it is managed until the last
  thread that needs it retires it (`ManagedInv`), somebody who will close it has it (`KeptInv`), and what it
  recorded is captured before it is retired (`ErrorInv`). A step concerns one adapter, or two when
  an attempt follows another; `SameKeeps` disposes of the rest. `NothingIsLeft`,
  `ClosedUnderStopOnly`, `CloseInterrupts` and `ErrorsAreVisible` follow. `QuiescentIsTrueAfterClose`
  rests on `StaysQuiet`: after `close()` returned, nobody is left to start a thread of a kind
  that was read quiet, in the order in which diagnostics read them.
* `TransportOwnershipProofs`: `ClosedOnceAlways`, `NeverClosedInUse` and `NothingIsKept`, all safety
  properties of the run. Again the right to close a transport is a token (`Hands`): registered, or in the hand
  of one thread. `Accounts` says that a transport without its token has been closed, and one with it
  has not. That nothing is closed in use follows what the three kinds of transports are worth until `close()`: one
  registered outside of scopes with none open stays registered, and in the baseline of every open scope
  (`Lasting`); one registered in a batch is used by the owner of the scope and its pool only, and while it is
  registered (`Batches`), because `Scopes` and `Places` say who may have a scope, a pool and a transport in
  hand; and one registered beside a scope takes a second operation (`Beside`).
  `Baselines` says that the outermost scope leaves nothing of its batch, from which `NothingIsKept`.
  `OneOperationIsSafe` draws the conclusion for an adapter with one operation: nothing is closed in use while it is
  open, and what scopes close was registered in a batch (`ScopesCloseOwn`).
* `AdapterAttemptsProofs`: `OneContractAlways` and `ResumeStateAlwaysFits`. A registration that
  promises resume states promises them in the version it validates checkpoints with (`Promised`), which
  `register()` establishes and `create()` keeps (`AdoptedType`); within an epoch the version of an open
  stream is that of the registration (`OpenedInv`). The second half is about failures: `FailuresTold`, of what the requests of the eight boards raise for every
  status and every `Retry-After` (one lemma per shape of error, `RaisedTells` board by board): it is retryable only
  if it may pass, and always unless a body was cut; and it carries the time the board asked for unless that is
  `Lost`, which is BDJobs and the errors in GraphQL bodies. From it follows `RetriedInTimeAlways`. The invariant adds that a stream that waits has a retry left. The
  provers know nothing of powers: `PowerAssumption`, that 2^n is a natural number up to
  `MaxRetries`, is evaluated by TLC on `Attempts`.
* `SqliteCheckpointProofs`: all five properties of the run, `LoadableAlways`, `IdentityMeansContentAlways`,
  `AcknowledgedIsStoredAlways`, `FencedStaysFencedAlways` and the refinement `ImplementsHistoryAlways`, for any
  number of streams, sites and keys. The invariant is about `Past`, the checkpoints that are or were in
  the file and somebody still has: the file itself, what the streams have acknowledged, what one of
  them loads, what one has committed and not yet taken over. Any two of them `Agree`: of one
  generation, the later one has the keys of the earlier one as a prefix, and equal revisions mean
  equal content; none is later than the file (`Latest`). A save that goes on is one event beyond the
  stream's own checkpoint (`Successor`), so that a header that compares equal is that very checkpoint (`GoesOn`),
  and `ImageInv` follows the image through the statements until it is the checkpoint to be published. A first save has a
  generation nobody else has (`FirstInv`), which is why a stream that lost its search stays fenced.
* `CheckpointFileProofs`: `LastSaveAlwaysStands`, `OwnRequestAlways` and `SearchAlwaysGoesOn`. For
  each place of a save the invariant says what is in the file, in the temporary file and in memory: a
  temporary file that is renamed is whole (`TempInv`), and the file is what the stream has in memory or, if its caller was
  interrupted after the replacement, the next revision of it (`FollowInv`).

* `AdapterPagingProofs`: `PositionsHold`, `OffsetHolds`, `NothingIsBehind` and `CompleteIsComplete`, all properties of
  the run, for any listings, page size, offset, limit and budget and any number of interruptions. The
  invariant says when a resume state is `Good` for a set of keys: it is that of the page it names (`Turned`),
  it counts the listings before this page once (`Positioned`; `Exact` for Indeed, which counts by keys), the
  keys have every job of the pages before (`Behind`), and no job that the offset excludes (`Within`). It holds
  of the checkpoint with the acknowledged keys, of each queued message with the keys the application would have after it
  (`Sent`), and of the context, so that an interruption anywhere leads from one good state to another. `ReadingInv` is the loop
  over a page: what is handled and readable is seen, `skipped` is what the offset takes of the handled
  listings. The theorems assume that the provider lists the same in every run (`~Turnover`; finding 1 is what
  happens otherwise). `NothingIsBehind` and `CompleteIsComplete` also assume, only where Indeed is among the boards, that no page
  lists a job twice, and the latter, only where Indeed or Google is, that a page can be read: without
  these they are false, see above and the hazards. That a search by tokens may be resumed behind its last page (finding 2) is part of
  what `OffsetHonoured` says.

Only model-checked: liveness (`IterationEnds`, `CloseLeadsToInactive` and `NothingLeaks`), which is beyond
the prover. Every other property of a passing run is a theorem.

## 5. Not modelled, and the plan

Next:

* `CheckpointFile` with two streams at once on one path, which the documentation of the JSON store
  excludes.

Not modelled:

* Request and result models (`model.py`), salary inference (`salary.py`), text and location parsing, the page
  parsers and the contents of requests, the API facade apart from `fetch_job_detail`: functions from text to values
  without a state or an order of steps to get wrong, whose correctness is in wording that a model would only repeat.
* The loop of `batch.py`, which runs independent searches one after the other, the data frames of
  `result.py`, the adapter test kit, the release scripts.
* In what is modelled: a cleanup thread that cannot be started; exceptions of the caller's cancel
  callback; `close(acknowledge=True)` from another thread than the consumer's; searches that the first
  release left in a SQLite file; paging states without `raw_seen`.

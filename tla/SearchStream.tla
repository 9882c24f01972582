----------------------------- MODULE SearchStream -----------------------------
(***************************************************************************)
(* The acknowledged event stream of jobstreaming: runtime.SearchStream and *)
(* the context.ScrapeContext each of its workers runs behind.              *)
(*                                                                         *)
(* One worker per site reads the site's pages and puts messages on one     *)
(* bounded FIFO queue.  The consumer takes them one at a time with next(), *)
(* and persists a checkpoint when it acknowledges the event it got.  Any   *)
(* thread may close the stream, the caller may cancel it from outside, an  *)
(* adapter attempt may fail and be retried, a save may fail, and the       *)
(* process may crash and a new stream resume from the checkpoint.          *)
(*                                                                         *)
(* A worker thread and the operation thread it waits for are one process   *)
(* here: the worker thread only polls for the result, and once it sees     *)
(* cancellation every later put of either thread is refused (see Abandon). *)
(* Adapter objects and their close are left to AdapterLifecycle.           *)
(***************************************************************************)
EXTENDS Integers, Sequences, FiniteSets

CONSTANTS
  Site,           \* request.sites
  Job,            \* stable job keys
  Pages,          \* Pages[s]: what the provider of s lists, page after page
  Unreadable,     \* Unreadable[s]: listings the adapter warns about and skips
  ResultsWanted,  \* request.results_wanted, per site
  MaxRetries,     \* max_retries
  QueueSize,      \* queue_size
  AckMode,        \* ack_mode
  Failures,       \* which failures may happen, see FailureKinds
  MaxRestarts,    \* bound: how many streams resume after the first
  NoSite, NoJob   \* the site and the job of a message that has none

\* "retryable" and "fatal" are the two outcomes of classify_exception, "abrupt"
\* a BaseException that is not an Exception, "store" a save that raises and
\* "conflict" one that raises CheckpointConflictError.
FailureKinds == {"retryable", "fatal", "abrupt", "store", "conflict"}

ASSUME SiteAssumption  == IsFiniteSet(Site) /\ NoSite \notin Site
ASSUME JobAssumption   == IsFiniteSet(Job) /\ NoJob \notin Job
ASSUME PagesAssumption == /\ Pages \in [Site -> Seq(SUBSET Job)]
                          /\ Unreadable \in [Site -> SUBSET Job]
ASSUME BoundAssumption == /\ ResultsWanted \in Nat \ {0}
                          /\ QueueSize \in Nat \ {0}
                          /\ MaxRetries \in Nat
                          /\ MaxRestarts \in Nat
ASSUME ModeAssumption  == /\ AckMode \in {"implicit", "explicit"}
                          /\ Failures \subseteq FailureKinds

VARIABLES
  \* --- one worker per site: _run_adapter and its ScrapeContext
  worker,      \* where the worker of each site is
  attempt,     \* the attempt number of the retry loop
  cursor,      \* context._state: the page the state points at
  seen,        \* context._seen
  todo,        \* the listings of the current page not yet looked at
  out,         \* the message the worker is in _put_message with
  armed,       \* _put_message saw no cancellation and is in queue.put
  \* --- shared by every thread of the stream
  queue,       \* _queue
  source,      \* the caller's cancel event, or what its callback returns now
  latched,     \* _cancellation._external_cancelled
  stopped,     \* _cancellation._stop_event
  closed,      \* _closed
  closer,      \* where the one effective call of close() is
  \* --- the thread that calls next() and ack()
  consumer,    \* where it is
  active,      \* _active_workers
  held,        \* the message it took from the queue and has not yet turned into an event
  last,        \* _last_delivered
  lastAcked,   \* _last_acknowledged
  errors,      \* _total_errors
  outcome,     \* the completed flag of the delivered SearchCompleteEvent
  \* --- what outlives the process
  checkpoint,  \* _checkpoint, which is also what the store holds
  delivered,   \* history: the jobs next() ever returned, of every stream
  restarts     \* how many streams resumed

workerVars   == <<worker, attempt, cursor, seen, todo, out, armed>>
cancelVars   == <<source, latched, stopped, closed, closer>>
consumerVars == <<consumer, active, held, last, lastAcked, errors, outcome>>
durableVars  == <<checkpoint, delivered, restarts>>
vars == <<workerVars, queue, cancelVars, consumerVars, durableVars>>

-------------------------------------------------------------------------------
\* Messages (_AdapterMessage) and what else travels through the queue.

Message(type, s, job, state, count) ==
  [type |-> type, site |-> s, job |-> job, cursor |-> state, count |-> count]

Nothing == Message("NOTHING", NoSite, NoJob, 0, 0)
Wake    == Message("WAKE", NoSite, NoJob, 0, 0)

\* The SearchCompleteEvent; its completed flag is in outcome.
SearchComplete == Message("SEARCH_COMPLETE", NoSite, NoJob, 0, 0)

AdapterTypes == {"JOB", "PROGRESS", "WARNING", "ERROR", "SITE_COMPLETE"}
Messages ==
  {m \in [type : AdapterTypes \cup {"WORKER_DONE"}, site : Site,
          job : Job \cup {NoJob}, cursor : Nat \ {0}, count : Nat] :
     m.type = "JOB" <=> m.job \in Job}

\* A message that is not about a job carries the state the context has now.
Report(type, s) == Message(type, s, NoJob, cursor[s], 0)

Limited(S)      == Cardinality(S) >= ResultsWanted

\* Mutant: one key too many.
LimitReachedMutantOffByOne(s) == Cardinality(seen[s]) > ResultsWanted
LimitReached(s) == Limited(seen[s])

PagesOf(s)      == DOMAIN Pages[s]
Readable(s, p)  == Pages[s][p] \ Unreadable[s]

-------------------------------------------------------------------------------
\* Cancellation (_CancellationController).

\* _external_cancelled once a check of externally_cancelled has run.
\* Mutant: the answer of the callback is not remembered.
LatchMutantForgets == latched
Latch == latched \/ source

\* externally_cancelled is true, and from now on it stays true.
SeesExternalCancel == (latched \/ source) /\ latched' = Latch

\* cancelled is true; the stop event is looked at first.
SeesCancel == \/ stopped /\ UNCHANGED latched
              \/ ~stopped /\ (latched \/ source) /\ latched' = Latch

\* cancelled is false.
SeesNoCancel == ~stopped /\ ~latched /\ ~source

\* The caller sets its event, or its callback changes its mind either way.
CallerCancels ==
  /\ source' = ~source
  /\ UNCHANGED <<workerVars, queue, latched, stopped, closed, closer,
                 consumerVars, durableVars>>

-------------------------------------------------------------------------------
\* Workers.

\* No message is on its way to the queue: the worker runs its own code.
Runs(s) == out[s] = Nothing

WorkerUnchanged == UNCHANGED <<queue, cancelVars, consumerVars, durableVars>>

\* The message m of the worker of s enters _put_message.
Emit(s, m) == out' = [out EXCEPT ![s] = m]

GoTo(s, place) == worker' = [worker EXCEPT ![s] = place]

\* Mutant: counts only what the consumer has not acknowledged.
CompleteMessageMutantUnackedOnly(s) ==
  Message("SITE_COMPLETE", s, NoJob, cursor[s],
          Cardinality(seen[s] \ checkpoint.seen[s]))

\* _emit_site_complete, with len(context._seen) as the emitted count.
CompleteMessage(s) ==
  Message("SITE_COMPLETE", s, NoJob, cursor[s], Cardinality(seen[s]))

EmitSiteComplete(s) == Emit(s, CompleteMessage(s)) /\ GoTo(s, "finishing")

\* A resumed worker whose checkpoint already holds results_wanted keys
\* completes its site at once; any other begins its first attempt.
StartWorker(s) ==
  /\ worker[s] = "starting" /\ Runs(s)
  /\ SeesNoCancel
  /\ \/ LimitReached(s) /\ EmitSiteComplete(s)
     \/ ~LimitReached(s) /\ GoTo(s, "creating") /\ UNCHANGED out
  /\ UNCHANGED <<attempt, cursor, seen, todo, armed>>
  /\ WorkerUnchanged

\* An attempt creates and registers its adapter; a closed stream does not
\* admit it and the worker ends without another word.
CreateAdapter(s) ==
  /\ worker[s] = "creating" /\ Runs(s)
  /\ GoTo(s, IF closed THEN "finishing" ELSE "listing")
  /\ UNCHANGED <<attempt, cursor, seen, todo, out, armed>>
  /\ WorkerUnchanged

\* The adapter asks its provider for the page its cursor points at.
FetchPage(s) ==
  /\ worker[s] = "listing" /\ Runs(s)
  /\ SeesNoCancel /\ ~LimitReached(s)
  /\ cursor[s] \in PagesOf(s)
  /\ todo' = [todo EXCEPT ![s] = Pages[s][cursor[s]]]
  /\ GoTo(s, "page")
  /\ UNCHANGED <<attempt, cursor, seen, out, armed>>
  /\ WorkerUnchanged

\* What the next step does with listing j of the current page.
Looks(s, j) ==
  /\ worker[s] = "page" /\ Runs(s)
  /\ j \in todo[s]
  /\ SeesNoCancel /\ ~LimitReached(s)
  /\ todo' = [todo EXCEPT ![s] = @ \ {j}]

\* A job event restarts its own page: it carries the state of the page it is on.
\* Mutant: it carries the state of the next page.
JobStateMutantNextPage(s) == cursor[s] + 1
JobState(s) == cursor[s]

\* emit_job reserves the key before the message is on the queue.
EmitJob(s, j) ==
  /\ Looks(s, j) /\ j \notin Unreadable[s]
  /\ j \notin seen[s]
  /\ seen' = [seen EXCEPT ![s] = @ \cup {j}]
  /\ Emit(s, Message("JOB", s, j, JobState(s), 0))
  /\ UNCHANGED <<worker, attempt, cursor, armed>>
  /\ WorkerUnchanged

\* already_seen, or emit_job returning False for a key it has.
SkipSeen(s, j) ==
  /\ Looks(s, j) /\ j \notin Unreadable[s]
  /\ j \in seen[s]
  /\ UNCHANGED <<worker, attempt, cursor, seen, out, armed>>
  /\ WorkerUnchanged

\* A listing the adapter cannot read costs a warning, not the site.
SkipUnreadable(s, j) ==
  /\ Looks(s, j) /\ j \in Unreadable[s]
  /\ Emit(s, Report("WARNING", s))
  /\ UNCHANGED <<worker, attempt, cursor, seen, armed>>
  /\ WorkerUnchanged

\* The page is read, or the loop over it broke off because the limit is
\* reached: emit_progress moves the state to the next page and says so.
PageIsRead(s) == todo[s] = {} \/ LimitReached(s)

FinishPage(s) ==
  /\ worker[s] = "page" /\ Runs(s)
  /\ PageIsRead(s)
  /\ SeesNoCancel
  /\ cursor' = [cursor EXCEPT ![s] = @ + 1]
  /\ todo' = [todo EXCEPT ![s] = {}]
  /\ Emit(s, Message("PROGRESS", s, NoJob, cursor[s] + 1, 0))
  /\ GoTo(s, "listing")
  /\ UNCHANGED <<attempt, seen, armed>>
  /\ WorkerUnchanged

\* scrape() returns: no page is left, or the limit is reached.  The jobs of
\* its response were emitted on the way, so emitting them again does nothing.
ScrapeReturns(s) ==
  /\ worker[s] = "listing" /\ Runs(s)
  /\ SeesNoCancel
  /\ LimitReached(s) \/ cursor[s] \notin PagesOf(s)
  /\ EmitSiteComplete(s)
  /\ UNCHANGED <<attempt, cursor, seen, todo, armed>>
  /\ WorkerUnchanged

InAttempt(s) == worker[s] \in {"creating", "listing", "page"} /\ Runs(s)

RetriesLeft(s) == attempt[s] < MaxRetries

\* An attempt raises.  With the limit reached the site is complete all the
\* same; a retryable error is retried while attempts are left.
Fail(s, kind) ==
  /\ InAttempt(s) /\ kind \in Failures \cap {"retryable", "fatal"}
  /\ SeesNoCancel
  /\ todo' = [todo EXCEPT ![s] = {}]
  /\ \/ /\ LimitReached(s)
        /\ EmitSiteComplete(s)
        /\ UNCHANGED attempt
     \/ /\ ~LimitReached(s) /\ kind = "retryable" /\ RetriesLeft(s)
        /\ Emit(s, Report("WARNING", s))
        /\ attempt' = [attempt EXCEPT ![s] = @ + 1]
        /\ GoTo(s, "backoff")
     \/ /\ ~LimitReached(s) /\ (kind = "fatal" \/ ~RetriesLeft(s))
        /\ Emit(s, Report("ERROR", s))
        /\ GoTo(s, "finishing")
        /\ UNCHANGED attempt
  /\ UNCHANGED <<cursor, seen, armed>>
  /\ WorkerUnchanged

\* Mutant: no finally, the thread just ends.
AfterBaseExceptionMutantNoFinally == "dead"
AfterBaseException == "finishing"

\* A BaseException passes the worker's "except Exception": only the outer
\* finally runs.
FailAbruptly(s) ==
  /\ InAttempt(s) /\ "abrupt" \in Failures
  /\ todo' = [todo EXCEPT ![s] = {}]
  /\ GoTo(s, AfterBaseException)
  /\ UNCHANGED <<attempt, cursor, seen, out, armed>>
  /\ WorkerUnchanged

\* context.wait(delay) ended without cancellation.
Retry(s) ==
  /\ worker[s] = "backoff" /\ Runs(s)
  /\ SeesNoCancel
  /\ GoTo(s, "creating")
  /\ UNCHANGED <<attempt, cursor, seen, todo, out, armed>>
  /\ WorkerUnchanged

\* The worker sees that the stream is cancelled and returns.  What its
\* adapter may still do is refused: emit_job, emit_progress and _put_message
\* all look at cancellation first, and cancellation stays.
Abandon(s) ==
  /\ worker[s] \in {"starting", "creating", "listing", "page", "backoff"} /\ Runs(s)
  /\ SeesCancel
  /\ todo' = [todo EXCEPT ![s] = {}]
  /\ GoTo(s, "finishing")
  /\ UNCHANGED <<attempt, cursor, seen, out, armed>>
  /\ UNCHANGED <<queue, source, stopped, closed, closer, consumerVars, durableVars>>

\* The outermost finally.
FinishWorker(s) ==
  /\ worker[s] = "finishing" /\ Runs(s)
  /\ Emit(s, Report("WORKER_DONE", s))
  /\ GoTo(s, "dead")
  /\ UNCHANGED <<attempt, cursor, seen, todo, armed>>
  /\ WorkerUnchanged

-------------------------------------------------------------------------------
\* _put_message: check cancellation, block in queue.put for a moment, repeat.

PutChecks(s) ==
  /\ ~Runs(s) /\ ~armed[s]
  /\ SeesNoCancel
  /\ armed' = [armed EXCEPT ![s] = TRUE]
  /\ UNCHANGED <<worker, attempt, cursor, seen, todo, out>>
  /\ WorkerUnchanged

\* put succeeds, even if the stream was cancelled since the check.
PutSucceeds(s) ==
  /\ armed[s]
  /\ Len(queue) < QueueSize
  /\ queue' = Append(queue, out[s])
  /\ out' = [out EXCEPT ![s] = Nothing]
  /\ armed' = [armed EXCEPT ![s] = FALSE]
  /\ UNCHANGED <<worker, attempt, cursor, seen, todo>>
  /\ UNCHANGED <<cancelVars, consumerVars, durableVars>>

PutTimesOut(s) ==
  /\ armed[s]
  /\ Len(queue) = QueueSize
  /\ armed' = [armed EXCEPT ![s] = FALSE]
  /\ UNCHANGED <<worker, attempt, cursor, seen, todo, out>>
  /\ WorkerUnchanged

\* The stream is cancelled: the message is dropped and emit_job gives the
\* key it reserved back.
PutRefused(s) ==
  /\ ~Runs(s) /\ ~armed[s]
  /\ SeesCancel
  /\ seen' = [seen EXCEPT ![s] = @ \ {out[s].job}]
  /\ out' = [out EXCEPT ![s] = Nothing]
  /\ UNCHANGED <<worker, attempt, cursor, todo, armed>>
  /\ UNCHANGED <<queue, source, stopped, closed, closer, consumerVars, durableVars>>

-------------------------------------------------------------------------------
\* close(): the flag, then the stop event, then the wake-up of the consumer.
\* _close_lock admits one effective call; a later one waits for it and returns.

BeginClose == closed' = TRUE /\ closer' = "stop"

\* Any thread, the consumer included, calls close().
CloseCalled ==
  /\ ~closed
  /\ BeginClose
  /\ UNCHANGED <<workerVars, queue, source, latched, stopped, consumerVars, durableVars>>

CloseStops ==
  /\ closer = "stop"
  /\ stopped' = TRUE
  /\ closer' = "wake"
  /\ UNCHANGED <<workerVars, queue, source, latched, closed, consumerVars, durableVars>>

\* _wake_iterator: put the wake-up if it fits ...
CloseWakes ==
  /\ closer = "wake"
  /\ Len(queue) < QueueSize
  /\ queue' = Append(queue, Wake)
  /\ closer' = "done"
  /\ UNCHANGED <<workerVars, source, latched, stopped, closed, consumerVars, durableVars>>

\* ... or drop the oldest entry, whatever it is, and try again.
CloseMakesRoom ==
  /\ closer = "wake"
  /\ Len(queue) = QueueSize
  /\ queue' = Tail(queue)
  /\ UNCHANGED <<workerVars, cancelVars, consumerVars, durableVars>>

-------------------------------------------------------------------------------
\* ack().

ConsumerGoes(place) ==
  /\ consumer' = place
  /\ UNCHANGED <<active, held, last, lastAcked, errors, outcome>>

\* Mutant: a failed site counts as completed.
AckedMutantErrorCompletes(e) ==
  IF e.type = "SEARCH_COMPLETE"
  THEN [checkpoint EXCEPT !.done = outcome = "complete"]
  ELSE [checkpoint EXCEPT
          !.cursor[e.site]    = e.cursor,
          !.seen[e.site]      = IF e.type = "JOB" THEN @ \cup {e.job} ELSE @,
          !.completed[e.site] = e.type \in {"SITE_COMPLETE", "ERROR"}]

\* Mutant: saves the keys the worker reserved instead of the acknowledged ones.
AckedMutantReservedKeys(e) ==
  IF e.type = "SEARCH_COMPLETE"
  THEN [checkpoint EXCEPT !.done = outcome = "complete"]
  ELSE [checkpoint EXCEPT
          !.cursor[e.site]    = e.cursor,
          !.seen[e.site]      = seen[e.site],
          !.completed[e.site] = e.type = "SITE_COMPLETE"]

\* The checkpoint after event e is acknowledged.
Acked(e) ==
  IF e.type = "SEARCH_COMPLETE"
  THEN [checkpoint EXCEPT !.done = outcome = "complete"]
  ELSE [checkpoint EXCEPT
          !.cursor[e.site]    = e.cursor,
          !.seen[e.site]      = IF e.type = "JOB" THEN @ \cup {e.job} ELSE @,
          !.completed[e.site] = e.type = "SITE_COMPLETE"]

\* The last event is not acknowledged yet.
Unacked == ~lastAcked

\* The application calls ack(): nothing forbids it on a closed stream.
CallAck ==
  /\ consumer = "idle" /\ Unacked
  /\ consumer' = "acking"
  /\ UNCHANGED <<active, held, last, lastAcked, errors, outcome>>
  /\ UNCHANGED <<workerVars, queue, cancelVars, durableVars>>

\* The store saved the new checkpoint; only then is the event acknowledged.
\* An ack that next() made goes on with next().
AckSaves ==
  /\ consumer \in {"acking", "nextAcking"}
  /\ checkpoint' = Acked(last)
  /\ lastAcked' = TRUE
  /\ consumer' = IF consumer = "acking" THEN "idle" ELSE "next"
  /\ UNCHANGED <<active, held, last, errors, outcome>>
  /\ UNCHANGED <<workerVars, queue, cancelVars, delivered, restarts>>

\* The save raises: the event stays unacknowledged, and ack() or next() raises.
\* A conflict tells that another stream owns the search, so ack() closes this one.
AckFails ==
  /\ consumer \in {"acking", "nextAcking"}
  /\ \/ /\ "store" \in Failures
        /\ UNCHANGED <<closed, closer>>
        /\ ConsumerGoes("idle")
     \/ /\ "conflict" \in Failures
        /\ IF closed THEN UNCHANGED <<closed, closer>> ELSE BeginClose
        /\ ConsumerGoes("closing")
  /\ UNCHANGED <<workerVars, queue, source, latched, stopped, durableVars>>

-------------------------------------------------------------------------------
\* __next__().

\* The checks before the loop.  An explicit stream refuses to go past an
\* unacknowledged event, an implicit one acknowledges it.  Asking for more
\* after the SearchCompleteEvent closes the stream.
CallNext ==
  /\ consumer = "idle" /\ ~closed /\ ~latched /\ ~source
  /\ AckMode = "implicit" \/ ~Unacked
  /\ ConsumerGoes(IF Unacked THEN "nextAcking" ELSE "next")
  /\ UNCHANGED <<workerVars, queue, cancelVars, durableVars>>

NextEnds ==
  /\ consumer = "next" /\ outcome # "none"
  /\ IF closed THEN UNCHANGED <<closed, closer>> ELSE BeginClose
  /\ ConsumerGoes("closing")
  /\ UNCHANGED <<workerVars, queue, source, latched, stopped, durableVars>>

\* The top of the loop sees the stream closed: StopIteration.
NextSeesClosed ==
  /\ consumer = "next" /\ outcome = "none" /\ closed
  /\ ConsumerGoes("idle")
  /\ UNCHANGED <<workerVars, queue, cancelVars, durableVars>>

\* next() sees the caller's cancellation, closes and raises.
NextSeesCancel ==
  /\ consumer = "idle" \/ (consumer = "next" /\ outcome = "none")
  /\ ~closed
  /\ SeesExternalCancel
  /\ BeginClose
  /\ ConsumerGoes("closing")
  /\ UNCHANGED <<workerVars, queue, source, stopped, durableVars>>

\* close() returned and next(), or the ack() that called it, raises.
NextRaises ==
  /\ consumer = "closing" /\ closer = "done"
  /\ ConsumerGoes("idle")
  /\ UNCHANGED <<workerVars, queue, cancelVars, durableVars>>

Continues == consumer = "next" /\ outcome = "none" /\ ~closed /\ ~latched /\ ~source

\* Mutant: looks at the threads instead of counting their last messages.
AllWorkersDoneMutantThreads == \A s \in Site : worker[s] = "dead"
AllWorkersDone == active = 0

\* Every worker reported that it is done: the search is complete.
\* Mutant: one completed site is enough.
CompletedOutcomeMutantAny ==
  IF \E s \in Site : checkpoint.completed[s] THEN "complete" ELSE "incomplete"

CompletedOutcome ==
  IF \A s \in Site : checkpoint.completed[s] THEN "complete" ELSE "incomplete"

DeliverSearchComplete ==
  /\ Continues /\ AllWorkersDone
  /\ outcome' = CompletedOutcome
  /\ last' = SearchComplete /\ lastAcked' = FALSE
  /\ consumer' = "idle"
  /\ UNCHANGED <<active, held, errors>>
  /\ UNCHANGED <<workerVars, queue, cancelVars, durableVars>>

\* Workers are left: block in queue.get.
NextWaits ==
  /\ Continues /\ ~AllWorkersDone
  /\ ConsumerGoes("waiting")
  /\ UNCHANGED <<workerVars, queue, cancelVars, durableVars>>

GetTimesOut ==
  /\ consumer = "waiting" /\ queue = <<>>
  /\ ConsumerGoes("next")
  /\ UNCHANGED <<workerVars, queue, cancelVars, durableVars>>

Get ==
  /\ consumer = "waiting" /\ queue # <<>>
  /\ queue' = Tail(queue)
  /\ held' = Head(queue)
  /\ consumer' = "holding"
  /\ UNCHANGED <<active, last, lastAcked, errors, outcome>>
  /\ UNCHANGED <<workerVars, cancelVars, durableVars>>

\* What was taken is the wake-up, or the stream was closed meanwhile: the
\* message is not delivered.
DropHeld ==
  /\ consumer = "holding" /\ (held = Wake \/ closed)
  /\ held' = Nothing
  /\ consumer' = IF held = Wake THEN "next" ELSE "idle"
  /\ UNCHANGED <<active, last, lastAcked, errors, outcome>>
  /\ UNCHANGED <<workerVars, queue, cancelVars, durableVars>>

Holds(types) ==
  consumer = "holding" /\ ~closed /\ held.type \in types /\ held' = Nothing

CountWorkerDone ==
  /\ Holds({"WORKER_DONE"})
  /\ active' = active - 1
  /\ consumer' = "next"
  /\ UNCHANGED <<last, lastAcked, errors, outcome>>
  /\ UNCHANGED <<workerVars, queue, cancelVars, durableVars>>

\* next() returns the event made from the message, and remembers it.
Deliver ==
  /\ Holds(AdapterTypes)
  /\ last' = held /\ lastAcked' = FALSE
  /\ errors' = errors + (IF held.type = "ERROR" THEN 1 ELSE 0)
  /\ delivered' = IF held.type = "JOB"
                  THEN [delivered EXCEPT ![held.site] = @ \cup {held.job}]
                  ELSE delivered
  /\ consumer' = "idle"
  /\ UNCHANGED <<active, outcome>>
  /\ UNCHANGED <<workerVars, queue, cancelVars, checkpoint, restarts>>

-------------------------------------------------------------------------------
\* A stream begins: _load_checkpoint and _start_workers.

NewCheckpoint ==
  [cursor |-> [s \in Site |-> 1], seen |-> [s \in Site |-> {}],
   completed |-> [s \in Site |-> FALSE], done |-> FALSE]

\* Mutant: completed sites are searched again.
PendingMutantAll(ck) == Site
Pending(ck) == {s \in Site : ~ck.completed[s]}

Init ==
  /\ checkpoint = NewCheckpoint
  /\ delivered = [s \in Site |-> {}]
  /\ restarts = 0
  /\ worker = [s \in Site |-> "starting"]
  /\ attempt = [s \in Site |-> 0]
  /\ cursor = checkpoint.cursor
  /\ seen = checkpoint.seen
  /\ todo = [s \in Site |-> {}]
  /\ out = [s \in Site |-> Nothing]
  /\ armed = [s \in Site |-> FALSE]
  /\ queue = <<>>
  /\ source = FALSE /\ latched = FALSE
  /\ stopped = FALSE /\ closed = FALSE /\ closer = "none"
  /\ consumer = "idle"
  /\ active = Cardinality(Site)
  /\ held = Nothing /\ last = Nothing /\ lastAcked = TRUE
  /\ errors = 0 /\ outcome = "none"

\* Mutant: a resumed context does not know the acknowledged keys.
ResumedKeysMutantNone == [s \in Site |-> {}]
ResumedKeys == checkpoint.seen

\* The process crashes at any point, or ends after close(), and a new stream
\* resumes from the checkpoint; completed sites get no worker.
Resume ==
  /\ restarts < MaxRestarts
  /\ restarts' = restarts + 1
  /\ UNCHANGED <<checkpoint, delivered>>
  /\ worker' = [s \in Site |-> IF s \in Pending(checkpoint) THEN "starting" ELSE "dead"]
  /\ attempt' = [s \in Site |-> 0]
  /\ cursor' = checkpoint.cursor
  /\ seen' = ResumedKeys
  /\ todo' = [s \in Site |-> {}]
  /\ out' = [s \in Site |-> Nothing]
  /\ armed' = [s \in Site |-> FALSE]
  /\ queue' = <<>>
  /\ source' = FALSE /\ latched' = FALSE
  /\ stopped' = FALSE /\ closed' = FALSE /\ closer' = "none"
  /\ consumer' = "idle"
  /\ active' = Cardinality(Pending(checkpoint))
  /\ held' = Nothing /\ last' = Nothing /\ lastAcked' = TRUE
  /\ errors' = 0 /\ outcome' = "none"

\* The stream is closed and everything it started has ended.
AllQuiet ==
  /\ closer = "done" /\ consumer = "idle"
  /\ \A s \in Site : worker[s] = "dead" /\ Runs(s)

Stay == AllQuiet /\ UNCHANGED vars

WorkerStep(s) ==
  \/ StartWorker(s) \/ CreateAdapter(s) \/ FetchPage(s)
  \/ \E j \in Job : EmitJob(s, j) \/ SkipSeen(s, j) \/ SkipUnreadable(s, j)
  \/ FinishPage(s) \/ ScrapeReturns(s)
  \/ Abandon(s) \/ Retry(s) \/ FinishWorker(s)
  \/ PutChecks(s) \/ PutSucceeds(s) \/ PutTimesOut(s) \/ PutRefused(s)

AdapterFails(s) == FailAbruptly(s) \/ \E kind \in FailureKinds : Fail(s, kind)

CloserStep == CloseStops \/ CloseWakes \/ CloseMakesRoom

AckStep == CallAck \/ AckSaves

NextStep ==
  \/ CallNext \/ NextEnds \/ NextSeesClosed \/ NextSeesCancel \/ NextRaises
  \/ DeliverSearchComplete \/ NextWaits \/ GetTimesOut \/ Get \/ DropHeld
  \/ CountWorkerDone \/ Deliver

Next ==
  \/ \E s \in Site : WorkerStep(s) \/ AdapterFails(s)
  \/ AckStep \/ AckFails \/ NextStep
  \/ CloserStep \/ CloseCalled \/ CallerCancels
  \/ Resume \/ Stay

Spec == Init /\ [][Next]_vars

-------------------------------------------------------------------------------
\* Properties.

Places == {"starting", "creating", "listing", "page", "backoff", "finishing", "dead"}
Consumers == {"idle", "acking", "nextAcking", "next", "waiting", "holding", "closing"}
Checkpoints ==
  [cursor : [Site -> Nat \ {0}], seen : [Site -> SUBSET Job],
   completed : [Site -> BOOLEAN], done : BOOLEAN]

WorkerTypeOK ==
  /\ worker \in [Site -> Places]
  /\ attempt \in [Site -> 0..MaxRetries]
  /\ cursor \in [Site -> Nat \ {0}]
  /\ seen \in [Site -> SUBSET Job]
  /\ todo \in [Site -> SUBSET Job]
  /\ out \in [Site -> Messages \cup {Nothing}]
  /\ armed \in [Site -> BOOLEAN]

SharedTypeOK ==
  /\ queue \in Seq(Messages \cup {Wake}) /\ Len(queue) <= QueueSize
  /\ source \in BOOLEAN /\ latched \in BOOLEAN
  /\ stopped \in BOOLEAN /\ closed \in BOOLEAN
  /\ closer \in {"none", "stop", "wake", "done"}

ConsumerTypeOK ==
  /\ consumer \in Consumers
  /\ active \in Int
  /\ held \in Messages \cup {Nothing, Wake}
  /\ last \in Messages \cup {Nothing, SearchComplete}
  /\ lastAcked \in BOOLEAN
  /\ errors \in Nat
  /\ outcome \in {"none", "complete", "incomplete"}

DurableTypeOK ==
  /\ checkpoint \in Checkpoints
  /\ delivered \in [Site -> SUBSET Job]
  /\ restarts \in 0..MaxRestarts

\* Every variable holds a value of its kind; the queue never exceeds its size
\* (queue.Queue(queue_size)) nor the attempts of a worker max_retries + 1.
TypeOK == WorkerTypeOK /\ SharedTypeOK /\ ConsumerTypeOK /\ DurableTypeOK

\* All that site s lists before page n is in S, or S is full.
Covers(S, s, n) ==
  Limited(S) \/ \A p \in PagesOf(s) : p < n => Readable(s, p) \subseteq S

CoversAll(S, s) == Limited(S) \/ \A p \in PagesOf(s) : Readable(s, p) \subseteq S

\* No job is lost: a search resumed from the checkpoint starts at its cursor,
\* so everything listed before it must be acknowledged (README, "at-least-once
\* delivery: it favors avoiding data loss").
NoJobLost == \A s \in Site : Covers(checkpoint.seen[s], s, checkpoint.cursor[s])

\* A site the checkpoint calls completed is never asked again, so every job it
\* lists is acknowledged, or results_wanted of them are.
CompletedIsExhausted ==
  \A s \in Site : checkpoint.completed[s] => CoversAll(checkpoint.seen[s], s)

\* The job of the last event is in the application's hand until the store has
\* saved it.
InHand == IF Unacked /\ last.type = "JOB" THEN {<<last.site, last.job>>} ELSE {}
ListedJobs == [s \in Site |-> UNION {Readable(s, p) : p \in PagesOf(s)}]

Delivery == INSTANCE JobDelivery WITH
  Listed <- ListedJobs, Wanted <- ResultsWanted,
  acknowledged <- checkpoint.seen, hand <- InHand,
  completed <- checkpoint.completed, verdict <- outcome

\* To its application a stream, with the streams resumed from its checkpoint, is
\* a JobDelivery: next() returns new and listed jobs one at a time, ack() commits
\* the job in hand and no key a worker reserved, a site is completed when it is
\* exhausted, and the verdict comes last.
ImplementsDelivery == Delivery!Spec

\* results_wanted bounds what is acknowledged, over all attempts and restarts.
WithinLimit == \A s \in Site : Cardinality(checkpoint.seen[s]) <= ResultsWanted

\* A job whose event was acknowledged is never returned by next() again, not in
\* this stream, nor after a retry, nor after a restart.
NoRedelivery ==
  [][lastAcked /\ ~lastAcked' /\ last'.type = "JOB"
       => last'.job \notin checkpoint.seen[last'.site]]_vars

\* The cursor of a site moves only when the progress event of the page it
\* stands on is acknowledged, and then by one page: no acknowledged job,
\* warning or error carries it past a page nor back to one.
CursorFollowsProgress ==
  [][\A s \in Site : checkpoint'.cursor[s] # checkpoint.cursor[s] =>
       /\ last.type = "PROGRESS" /\ last.site = s
       /\ checkpoint'.cursor[s] = checkpoint.cursor[s] + 1]_vars

\* ack() recomputes the completed flag from the type of each event; a site that
\* completed stays completed because nothing of it is delivered afterwards.
CompletedStays ==
  [][\A s \in Site : checkpoint.completed[s] => checkpoint'.completed[s]]_vars

\* The count a SiteCompleteEvent reports is the number of acknowledged jobs.
SiteCompleteCounts ==
  last.type = "SITE_COMPLETE" => last.count = Cardinality(checkpoint.seen[last.site])

\* SearchCompleteEvent(completed=True): every job of every site was returned to
\* the application at some time, or as many of the site as it wanted.
CompleteMeansAllDelivered ==
  outcome = "complete" => \A s \in Site : CoversAll(delivered[s], s)

\* README: "completed=False means at least one site failed", and a failed site
\* has an ErrorEvent.  So it is unless an adapter raised a BaseException that is
\* not an Exception.
IncompleteMeansError == outcome = "incomplete" => errors > 0

\* README: SearchCompleteEvent means "every worker stopped", so no message of
\* theirs is left behind it.
SearchCompleteIsLast ==
  outcome # "none" =>
    /\ \A s \in Site : worker[s] = "dead" /\ Runs(s)
    /\ \A i \in 1..Len(queue) : queue[i] = Wake

\* Threads are scheduled, the application goes on calling next() and, in
\* explicit mode, ack(), and a store that is asked again and again does not
\* fail for ever.
Fairness ==
  /\ \A s \in Site : WF_vars(WorkerStep(s))
  /\ WF_vars(CloserStep)
  /\ WF_vars(AckStep \/ NextStep)
  /\ SF_vars(AckSaves)

FairSpec == Spec /\ Fairness

\* Whatever fails, is cancelled, closed or resumed, the iteration ends: workers,
\* closer and consumer never wait on each other for ever.
IterationEnds == <>[]AllQuiet
===============================================================================

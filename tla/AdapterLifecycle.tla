--------------------------- MODULE AdapterLifecycle ---------------------------
(***************************************************************************)
(* Who owns an adapter of a jobstreaming.runtime.SearchStream, and when it *)
(* is closed.                                                              *)
(*                                                                         *)
(* Every attempt of a worker creates an adapter and registers it; an       *)
(* operation thread runs its scrape(), and a cleanup thread closes it.     *)
(* The worker gives it up when the attempt ends, close() takes away all    *)
(* that are open, and a stream that is closed admits no new one.  An       *)
(* observer reads diagnostics meanwhile.  What workers and adapters say to *)
(* the consumer is the subject of SearchStream.                            *)
(*                                                                         *)
(* A step is what a thread does under one acquisition of _lifecycle_lock,  *)
(* or between two of them.                                                 *)
(***************************************************************************)
EXTENDS Integers, FiniteSets

CONSTANTS
  Site,        \* request.sites
  MaxRetries,  \* max_retries
  Watched,     \* bound: when some thread may begin to read or to wait, once
  NoOne        \* nobody holds the operation start lock

ASSUME SiteAssumption    == IsFiniteSet(Site) /\ NoOne \notin Site
ASSUME RetriesAssumption == MaxRetries \in Nat /\ Watched \in {"always", "afterClose"}

VARIABLES
  \* --- the worker of each site
  worker,     \* where it is in _run_adapter
  attempt,    \* the attempt it makes
  again,      \* another attempt follows this one
  \* --- the adapter of each attempt (_ManagedAdapter)
  started,    \* operation_started
  complete,   \* operation_complete
  released,   \* released
  cleaned,    \* cleanup_complete
  op,         \* its operation thread
  cleanup,    \* its cleanup thread
  closes,     \* how often a cleanup thread was started for it
  recorded,   \* transport_cleanup_errors: who recorded one
  \* --- the stream
  open,       \* _open_adapters
  managed,    \* _managed_adapters
  captured,   \* _cleanup_errors
  closed,     \* _closed
  stopped,    \* _cancellation._stop_event
  cancelled,  \* _cancellation._external_cancelled
  startLock,  \* who holds _operation_start_lock
  closer,     \* where the one effective call of close() is
  taken,      \* the adapters close() took and has not scheduled yet
  \* --- a thread that reads diagnostics
  watch,      \* what it reads next
  quiet,      \* everything it has read so far is inactive
  asked       \* it began "before" close() returned or "after" it; or after close()
              \* returned wait_closed "waited" until it found no thread

workerVars   == <<worker, attempt, again>>
flagVars     == <<started, complete, released, cleaned>>
threadVars   == <<op, cleanup, closes, recorded>>
streamVars   == <<open, managed, captured>>
closeVars    == <<closed, stopped, cancelled, startLock, closer, taken>>
observerVars == <<watch, quiet, asked>>
vars == <<workerVars, flagVars, threadVars, streamVars, closeVars, observerVars>>

\* The adapters a stream may create, named after their site and attempt.
Adapter == Site \X (0..MaxRetries)
Current(s) == <<s, attempt[s]>>

Stops == stopped \/ cancelled

\* _retire_adapter_registration by one of the three threads that may be the
\* last to need the adapter: what its transports recorded goes to the stream.
\* Mutant: does not wait for the operation.
ReadyMutantEarly(a) == released[a] /\ cleaned[a]
Ready(a) == released[a] /\ complete[a] /\ cleaned[a]

Retire(a) ==
  IF Ready(a)
  THEN /\ managed' = managed \ {a}
       /\ captured' = captured \cup {<<a, who>> : who \in recorded[a]}
  ELSE UNCHANGED <<managed, captured>>

\* _schedule_adapter_close starts the cleanup thread.
Schedule(a) ==
  /\ cleanup' = [cleanup EXCEPT ![a] = "closing"]
  /\ closes' = [closes EXCEPT ![a] = @ + 1]

GoTo(s, place) == worker' = [worker EXCEPT ![s] = place]

-------------------------------------------------------------------------------
\* The worker of site s.

RetriesLeft(s) == attempt[s] < MaxRetries

\* Nobody makes another attempt once the stream is cancelled.
MayRetry(s) == RetriesLeft(s) /\ ~Stops

\* registry.create() raises: there is no adapter to release.
CreateFails(s) ==
  /\ worker[s] = "creating"
  /\ \/ MayRetry(s) /\ attempt' = [attempt EXCEPT ![s] = @ + 1] /\ UNCHANGED worker
     \/ GoTo(s, "dead") /\ UNCHANGED attempt
  /\ UNCHANGED <<again, flagVars, threadVars, streamVars, closeVars, observerVars>>

\* Mutant: the closed flag is not looked at.
AdmittedMutantAlways == TRUE
Admitted == ~closed

\* _register_adapter: a closed stream admits no adapter.
Register(s) ==
  /\ worker[s] = "creating"
  /\ managed' = managed \cup {Current(s)}
  /\ open' = IF Admitted THEN open \cup {Current(s)} ELSE open
  /\ GoTo(s, IF Admitted THEN "admitted" ELSE "rejected")
  /\ again' = [again EXCEPT ![s] = FALSE]
  /\ UNCHANGED <<attempt, flagVars, threadVars, captured, closeVars, observerVars>>

\* An adapter that is not admitted is closed at once.
CloseRejected(s) ==
  /\ worker[s] = "rejected"
  /\ Schedule(Current(s))
  /\ GoTo(s, "finally")
  /\ UNCHANGED <<attempt, again, flagVars, op, recorded, streamVars, closeVars, observerVars>>

\* start_unless_cancelled takes the lock that stop() takes too ...
LockStart(s) ==
  /\ worker[s] = "admitted" /\ startLock = NoOne
  /\ startLock' = s
  /\ GoTo(s, "starting")
  /\ UNCHANGED <<attempt, again, flagVars, threadVars, streamVars, closed, stopped,
                 cancelled, closer, taken, observerVars>>

\* ... sees no cancellation ...
SeeNoStop(s) ==
  /\ worker[s] = "starting" /\ ~Stops
  /\ GoTo(s, "clear")
  /\ UNCHANGED <<attempt, again, flagVars, threadVars, streamVars, closeVars, observerVars>>

\* ... and starts the operation thread.
StartOperation(s) ==
  /\ worker[s] = "clear"
  /\ op' = [op EXCEPT ![Current(s)] = "running"]
  /\ GoTo(s, "started")
  /\ UNCHANGED <<attempt, again, flagVars, cleanup, closes, recorded, streamVars, closeVars,
                 observerVars>>

\* Mutant: the lock is never released.
LockAfterStartMutantKept(s) == s
LockAfterStart(s) == NoOne

\* _mark_adapter_operation_started, before the lock is released.
MarkStarted(s) ==
  /\ worker[s] = "started"
  /\ started' = [started EXCEPT ![Current(s)] = TRUE]
  /\ startLock' = LockAfterStart(s)
  /\ GoTo(s, "waiting")
  /\ UNCHANGED <<attempt, again, complete, released, cleaned, threadVars, streamVars, closed,
                 stopped, cancelled, closer, taken, observerVars>>

\* The attempt ends; another one follows it or not.
EndAttempt(s, retries) ==
  /\ GoTo(s, "finally")
  /\ again' = [again EXCEPT ![s] = retries]
  /\ UNCHANGED attempt

\* The stream is cancelled, or the system cannot start a thread.
StartRefused(s) ==
  /\ (worker[s] = "starting" /\ Stops) \/ worker[s] = "clear"
  /\ EndAttempt(s, FALSE)
  /\ startLock' = LockAfterStart(s)
  /\ UNCHANGED <<flagVars, threadVars, streamVars, closed, stopped, cancelled, closer, taken,
                 observerVars>>

\* Mutant: the result is looked for as soon as the operation is started.
HasResultMutantStarted(a) == started[a]
HasResult(a) == op[a] \in {"ended", "dead"}

\* run_interruptibly got the result or the exception of scrape().
SeeResult(s) ==
  /\ worker[s] = "waiting" /\ HasResult(Current(s))
  /\ EndAttempt(s, FALSE) \/ (MayRetry(s) /\ EndAttempt(s, TRUE))
  /\ UNCHANGED <<flagVars, threadVars, streamVars, closeVars, observerVars>>

\* run_interruptibly saw the cancellation: the operation may go on without it.
Abandon(s) ==
  /\ worker[s] = "waiting" /\ Stops
  /\ EndAttempt(s, FALSE)
  /\ UNCHANGED <<flagVars, threadVars, streamVars, closeVars, observerVars>>

\* Mutant: an operation that never started is never complete.
IsOverMutantStartedOnly(a) == complete[a]
IsOver(a) == complete[a] \/ ~started[a]

\* The inner finally: an operation that never started is complete ...
CompleteUnstarted(s) ==
  /\ worker[s] = "finally"
  /\ complete' = [complete EXCEPT ![Current(s)] = IsOver(Current(s))]
  /\ GoTo(s, "releasing")
  /\ UNCHANGED <<attempt, again, started, released, cleaned, threadVars, streamVars, closeVars,
                 observerVars>>

\* ... and _release_adapter gives the adapter up.  Who takes it out of
\* _open_adapters, this or close(), schedules its close.
Release(s) ==
  LET a == Current(s) IN
  /\ worker[s] = "releasing"
  /\ released' = [released EXCEPT ![a] = TRUE]
  /\ open' = open \ {a}
  /\ GoTo(s, IF a \in open THEN "scheduling" ELSE "retiring")
  /\ UNCHANGED <<attempt, again, started, complete, cleaned, threadVars, managed, captured,
                 closeVars, observerVars>>

ScheduleClose(s) ==
  /\ worker[s] = "scheduling"
  /\ Schedule(Current(s))
  /\ GoTo(s, "retiring")
  /\ UNCHANGED <<attempt, again, flagVars, op, recorded, streamVars, closeVars, observerVars>>

\* The last of _release_adapter; the loop goes on or the thread ends.
RetireReleased(s) ==
  /\ worker[s] = "retiring"
  /\ Retire(Current(s))
  /\ attempt' = IF again[s] THEN [attempt EXCEPT ![s] = @ + 1] ELSE attempt
  /\ GoTo(s, IF again[s] THEN "creating" ELSE "dead")
  /\ UNCHANGED <<again, flagVars, threadVars, open, closeVars, observerVars>>

-------------------------------------------------------------------------------
\* The operation thread of adapter a: _run_managed_adapter_operation.

Recorded(a, who) == recorded' = [recorded EXCEPT ![a] = @ \cup {who}]

\* scrape() returns or raises; a transport it created late may have failed to
\* close.
OperationEnds(a) ==
  /\ op[a] = "running"
  /\ op' = [op EXCEPT ![a] = "completing"]
  /\ Recorded(a, "operation") \/ UNCHANGED recorded
  /\ UNCHANGED <<workerVars, flagVars, cleanup, closes, streamVars, closeVars, observerVars>>

OperationCompletes(a) ==
  /\ op[a] = "completing"
  /\ complete' = [complete EXCEPT ![a] = TRUE]
  /\ op' = [op EXCEPT ![a] = "retiring"]
  /\ UNCHANGED <<workerVars, started, released, cleaned, cleanup, closes, recorded, streamVars,
                 closeVars, observerVars>>

\* Its result is there for the worker once it has retired the adapter.
OperationRetires(a) ==
  /\ op[a] = "retiring"
  /\ Retire(a)
  /\ op' = [op EXCEPT ![a] = "ended"]
  /\ UNCHANGED <<workerVars, flagVars, cleanup, closes, recorded, open, closeVars, observerVars>>

OperationDies(a) ==
  /\ op[a] = "ended"
  /\ op' = [op EXCEPT ![a] = "dead"]
  /\ UNCHANGED <<workerVars, flagVars, cleanup, closes, recorded, streamVars, closeVars,
                 observerVars>>

-------------------------------------------------------------------------------
\* The cleanup thread of adapter a: close_adapter.

\* The adapter's close() runs; one of its transports may fail to close.
CleanupCloses(a) ==
  /\ cleanup[a] = "closing"
  /\ cleanup' = [cleanup EXCEPT ![a] = "capturing"]
  /\ Recorded(a, "close") \/ UNCHANGED recorded
  /\ UNCHANGED <<workerVars, flagVars, op, closes, streamVars, closeVars, observerVars>>

CleanupCaptures(a) ==
  /\ cleanup[a] = "capturing"
  /\ cleanup' = [cleanup EXCEPT ![a] = "marking"]
  /\ captured' = captured \cup {<<a, who>> : who \in recorded[a]}
  /\ UNCHANGED <<workerVars, flagVars, op, closes, recorded, open, managed, closeVars,
                 observerVars>>

CleanupCompletes(a) ==
  /\ cleanup[a] = "marking"
  /\ cleanup' = [cleanup EXCEPT ![a] = "retiring"]
  /\ cleaned' = [cleaned EXCEPT ![a] = TRUE]
  /\ UNCHANGED <<workerVars, started, complete, released, op, closes, recorded, streamVars,
                 closeVars, observerVars>>

CleanupRetires(a) ==
  /\ cleanup[a] = "retiring"
  /\ Retire(a)
  /\ cleanup' = [cleanup EXCEPT ![a] = "dead"]
  /\ UNCHANGED <<workerVars, flagVars, op, closes, recorded, open, closeVars, observerVars>>

-------------------------------------------------------------------------------
\* close() and cancellation.

CallerCancels ==
  /\ ~cancelled /\ cancelled' = TRUE
  /\ UNCHANGED <<workerVars, flagVars, threadVars, streamVars, closed, stopped, startLock,
                 closer, taken, observerVars>>

\* Mutant: the adapters stay open for the workers to release.
LeftOpenMutantAll == open
LeftOpen == {}

\* Under the lock: the flag, and all that is open.
Close ==
  /\ closer = "none"
  /\ closed' = TRUE
  /\ taken' = open
  /\ open' = LeftOpen
  /\ closer' = "stop"
  /\ UNCHANGED <<workerVars, flagVars, threadVars, managed, captured, stopped, cancelled,
                 startLock, observerVars>>

\* Mutant: stop() does not wait for a start that is under way.
StartsAreOverMutantNoLock == TRUE
StartsAreOver == startLock = NoOne

CloseStops ==
  /\ closer = "stop" /\ StartsAreOver
  /\ stopped' = TRUE
  /\ closer' = "schedule"
  /\ UNCHANGED <<workerVars, flagVars, threadVars, streamVars, closed, cancelled, startLock,
                 taken, observerVars>>

CloseSchedules ==
  /\ closer = "schedule"
  /\ \E a \in taken : Schedule(a) /\ taken' = taken \ {a}
  /\ UNCHANGED <<workerVars, flagVars, op, recorded, streamVars, closed, stopped, cancelled,
                 startLock, closer, observerVars>>

CloseReturns ==
  /\ closer = "schedule" /\ taken = {}
  /\ closer' = "done"
  /\ UNCHANGED <<workerVars, flagVars, threadVars, streamVars, closed, stopped, cancelled,
                 startLock, taken, observerVars>>

-------------------------------------------------------------------------------
\* diagnostics, read by a thread of its own: the adapters under the lock, then
\* the workers, the operations and the cleanup tasks.  quiescent is quiet at the
\* end; what is read after something active does not matter for it.

Looks(isQuiet, next, otherwise) ==
  /\ quiet' = isQuiet
  /\ watch' = IF isQuiet THEN next ELSE otherwise

Reads(place, isQuiet, next, otherwise) ==
  /\ watch = place
  /\ Looks(isQuiet, next, otherwise)
  /\ UNCHANGED asked
  /\ UNCHANGED <<workerVars, flagVars, threadVars, streamVars, closeVars>>

MayBeginToWatch == watch = "idle" /\ (Watched = "always" \/ closer = "done")
Since == IF closer = "done" THEN "after" ELSE "before"

WorkersQuiet    == \A s \in Site : worker[s] = "dead"
OperationsQuiet == \A a \in Adapter : op[a] \in {"none", "dead"}
CleanupsQuiet   == \A a \in Adapter : cleanup[a] \in {"none", "dead"}

\* Mutant: the cleanup tasks are read first, the workers last.
WatchOrderMutantReversed == [workers |-> CleanupsQuiet, cleanups |-> WorkersQuiet]
WatchOrder == [workers |-> WorkersQuiet, cleanups |-> CleanupsQuiet]

BeginDiagnostics ==
  /\ MayBeginToWatch
  /\ Looks(open = {}, "workers", "done")
  /\ asked' = Since
  /\ UNCHANGED <<workerVars, flagVars, threadVars, streamVars, closeVars>>

ReadWorkers    == Reads("workers", WatchOrder.workers, "operations", "done")
ReadOperations == Reads("operations", OperationsQuiet, "cleanups", "done")
ReadCleanups   == Reads("cleanups", WatchOrder.cleanups, "done", "done")

\* wait_closed collects the active threads in the same order ...
BeginWait ==
  /\ MayBeginToWatch
  /\ Looks(WatchOrder.workers, "waitOperations", "joining")
  /\ asked' = Since
  /\ UNCHANGED <<workerVars, flagVars, threadVars, streamVars, closeVars>>

WaitReadsOperations == Reads("waitOperations", OperationsQuiet, "waitCleanups", "joining")
WaitReadsCleanups   == Reads("waitCleanups", WatchOrder.cleanups, "waited", "joining")

\* ... joins those it found and looks again ...
WaitAgain == Reads("joining", WatchOrder.workers, "waitOperations", "joining")

\* ... and reads diagnostics, when it found none or its time is over.
WaitReadsDiagnostics ==
  /\ watch \in {"waited", "joining"}
  /\ Looks(open = {}, "workers", "done")
  /\ asked' = IF watch = "waited" /\ asked = "after" THEN "waited" ELSE asked
  /\ UNCHANGED <<workerVars, flagVars, threadVars, streamVars, closeVars>>

-------------------------------------------------------------------------------
Init ==
  /\ worker = [s \in Site |-> "creating"]
  /\ attempt = [s \in Site |-> 0]
  /\ again = [s \in Site |-> FALSE]
  /\ started = [a \in Adapter |-> FALSE]
  /\ complete = [a \in Adapter |-> FALSE]
  /\ released = [a \in Adapter |-> FALSE]
  /\ cleaned = [a \in Adapter |-> FALSE]
  /\ op = [a \in Adapter |-> "none"]
  /\ cleanup = [a \in Adapter |-> "none"]
  /\ closes = [a \in Adapter |-> 0]
  /\ recorded = [a \in Adapter |-> {}]
  /\ open = {} /\ managed = {} /\ captured = {}
  /\ closed = FALSE /\ stopped = FALSE /\ cancelled = FALSE
  /\ startLock = NoOne /\ closer = "none" /\ taken = {}
  /\ watch = "idle" /\ quiet = FALSE /\ asked = "before"

WorkerStep(s) ==
  \/ CreateFails(s) \/ Register(s) \/ CloseRejected(s)
  \/ LockStart(s) \/ SeeNoStop(s) \/ StartOperation(s) \/ MarkStarted(s) \/ StartRefused(s)
  \/ SeeResult(s) \/ Abandon(s)
  \/ CompleteUnstarted(s) \/ Release(s) \/ ScheduleClose(s) \/ RetireReleased(s)

OperationStep(a) ==
  OperationEnds(a) \/ OperationCompletes(a) \/ OperationRetires(a) \/ OperationDies(a)

CleanupStep(a) ==
  CleanupCloses(a) \/ CleanupCaptures(a) \/ CleanupCompletes(a) \/ CleanupRetires(a)

\* No thread runs, and close() is not between taking an adapter and closing it.
Inactive ==
  /\ WorkersQuiet /\ OperationsQuiet /\ CleanupsQuiet
  /\ open = {} /\ taken = {}

\* Everything ended; a later close() finds nothing to do.
Stay == Inactive /\ closer = "done" /\ UNCHANGED vars

CloserStep == CloseStops \/ CloseSchedules \/ CloseReturns

ObserverStep ==
  \/ BeginDiagnostics \/ ReadWorkers \/ ReadOperations \/ ReadCleanups
  \/ BeginWait \/ WaitReadsOperations \/ WaitReadsCleanups \/ WaitAgain
  \/ WaitReadsDiagnostics

Next ==
  \/ \E s \in Site : WorkerStep(s)
  \/ \E a \in Adapter : OperationStep(a) \/ CleanupStep(a)
  \/ Close \/ CloserStep \/ CallerCancels
  \/ ObserverStep
  \/ Stay

Spec == Init /\ [][Next]_vars

-------------------------------------------------------------------------------
\* Properties.

Places == {"creating", "admitted", "rejected", "starting", "clear", "started", "waiting",
           "finally", "releasing", "scheduling", "retiring", "dead"}

\* Every variable holds a value of its kind: the attempts of a worker stay
\* within the range of _run_adapter's loop.
TypeOK ==
  /\ worker \in [Site -> Places]
  /\ attempt \in [Site -> 0..MaxRetries]
  /\ again \in [Site -> BOOLEAN]
  /\ started \in [Adapter -> BOOLEAN] /\ complete \in [Adapter -> BOOLEAN]
  /\ released \in [Adapter -> BOOLEAN] /\ cleaned \in [Adapter -> BOOLEAN]
  /\ op \in [Adapter -> {"none", "running", "completing", "retiring", "ended", "dead"}]
  /\ cleanup \in [Adapter -> {"none", "closing", "capturing", "marking", "retiring", "dead"}]
  /\ closes \in [Adapter -> Nat]
  /\ recorded \in [Adapter -> SUBSET {"operation", "close"}]
  /\ open \subseteq Adapter /\ managed \subseteq Adapter /\ taken \subseteq Adapter
  /\ captured \subseteq Adapter \X {"operation", "close"}
  /\ closed \in BOOLEAN /\ stopped \in BOOLEAN /\ cancelled \in BOOLEAN
  /\ startLock \in Site \cup {NoOne}
  /\ closer \in {"none", "stop", "schedule", "done"}
  /\ watch \in {"idle", "waitOperations", "waitCleanups", "joining", "waited",
               "workers", "operations", "cleanups", "done"}
  /\ quiet \in BOOLEAN /\ asked \in {"before", "after", "waited"}

\* No adapter is closed twice, however release, rejection and close() race.
ClosedOnce == \A a \in Adapter : closes[a] <= 1

\* When nothing runs any more, every adapter was closed, and none is kept.
NothingLeft ==
  Inactive => /\ managed = {}
              /\ \A a \in Adapter : started[a] => closes[a] = 1

\* No operation starts once close() has set the stop event.
NoStartAfterStop ==
  [][\A a \in Adapter : op[a] = "none" /\ op'[a] = "running" => ~stopped]_vars

\* An adapter is closed under a running operation only if the stream stops.
NoCloseUnderOperation ==
  \A a \in Adapter : op[a] = "running" /\ closes[a] > 0 => closed \/ cancelled

\* README: close() "closes registered adapter transports": once it returned, an
\* operation that still runs had its adapter closed, by close() or its worker.
OperationsInterrupted ==
  closer = "done" =>
    \A a \in Adapter : op[a] = "running" =>
      closes[a] > 0 \/ (Current(a[1]) = a /\ worker[a[1]] = "scheduling")

\* What failed to close is in diagnostics: captured, or read from an adapter
\* that is still managed.
ErrorsVisible ==
  \A a \in Adapter : a \in managed \/ \A who \in recorded[a] : <<a, who>> \in captured

\* quiescent, of diagnostics that were asked for after close() returned, is
\* true only when nothing is active, and then nothing becomes active again: a
\* wait_closed that ends before its time is over returns it.  Not of earlier ones:
\* close() takes the open adapters before it starts the threads that close them.
QuiescentAfterClose ==
  watch = "done" /\ asked # "before" =>
    /\ quiet => Inactive
    /\ asked = "waited" => quiet

\* Threads are scheduled and every call of an adapter returns.
Fairness ==
  /\ \A s \in Site : WF_vars(WorkerStep(s))
  /\ \A a \in Adapter : WF_vars(OperationStep(a)) /\ WF_vars(CleanupStep(a))
  /\ WF_vars(CloserStep)

FairSpec == Spec /\ Fairness

\* A closed stream becomes inactive: nobody waits for a lock for ever.
CloseLeadsToInactive == closed ~> Inactive
===============================================================================

------------------------ MODULE AdapterLifecycleProofs ------------------------
(***************************************************************************)
(* Proofs about AdapterLifecycle: no adapter is closed twice, no operation *)
(* starts after the stream was told to stop, nothing and no error is left  *)
(* behind, and diagnostics read after close() tell the truth.              *)
(***************************************************************************)
EXTENDS AdapterLifecycle, TLAPS

Attempts == 0..MaxRetries

\* A worker that will make another attempt has one left.
RetryInv ==
  \A s \in Site :
    worker[s] \in {"rejected", "finally", "releasing", "scheduling", "retiring"} /\ again[s]
      => attempt[s] < MaxRetries

TypeInv == TypeOK /\ RetryInv

LEMMA CurrentType ==
  ASSUME TypeOK, NEW s \in Site
  PROVE  Current(s) \in Adapter
  BY DEF TypeOK, Current, Adapter

LEMMA RetireType ==
  ASSUME TypeOK, NEW a \in Adapter, Retire(a)
  PROVE  /\ managed' \subseteq Adapter
         /\ captured' \subseteq Adapter \X {"operation", "close"}
  <1>1. recorded[a] \subseteq {"operation", "close"}
    BY DEF TypeOK
  <1> QED BY <1>1 DEF TypeOK, Retire

\* Whoever reads diagnostics or waits leaves the stream as it is.
LEMMA ObserverFrame ==
  ASSUME ObserverStep
  PROVE  UNCHANGED <<workerVars, flagVars, threadVars, streamVars, closeVars>>
  BY DEF ObserverStep, BeginDiagnostics, ReadWorkers, ReadOperations, ReadCleanups, BeginWait,
     WaitReadsOperations, WaitReadsCleanups, WaitAgain, WaitReadsDiagnostics, Reads

LEMMA LooksType ==
  ASSUME NEW isQuiet \in BOOLEAN, NEW next, NEW otherwise, Looks(isQuiet, next, otherwise)
  PROVE  quiet' \in BOOLEAN /\ watch' \in {next, otherwise}
  BY DEF Looks

LEMMA ObserverTypes ==
  ASSUME TypeOK, ObserverStep
  PROVE  /\ watch' \in {"idle", "waitOperations", "waitCleanups", "joining", "waited",
                       "workers", "operations", "cleanups", "done"}
         /\ quiet' \in BOOLEAN /\ asked' \in {"before", "after", "waited"}
  <1>1. /\ (open = {}) \in BOOLEAN /\ OperationsQuiet \in BOOLEAN
        /\ WatchOrder.workers \in BOOLEAN /\ WatchOrder.cleanups \in BOOLEAN
    BY DEF OperationsQuiet, WatchOrder, WorkersQuiet, CleanupsQuiet
  <1>2. /\ asked \in {"before", "after", "waited"}
        /\ Since \in {"before", "after"}
    BY DEF TypeOK, Since
  <1>3. CASE BeginDiagnostics
    BY <1>2, <1>3, Zenon DEF BeginDiagnostics, Looks
  <1>4. CASE ReadWorkers
    BY <1>1, <1>2, <1>4, LooksType DEF ReadWorkers, Reads
  <1>5. CASE ReadOperations
    BY <1>1, <1>2, <1>5, LooksType DEF ReadOperations, Reads
  <1>6. CASE ReadCleanups
    BY <1>1, <1>2, <1>6, LooksType DEF ReadCleanups, Reads
  <1>7. CASE BeginWait
    BY <1>1, <1>2, <1>7, LooksType DEF BeginWait
  <1>8. CASE WaitReadsOperations
    BY <1>1, <1>2, <1>8, LooksType DEF WaitReadsOperations, Reads
  <1>9. CASE WaitReadsCleanups
    BY <1>1, <1>2, <1>9, LooksType DEF WaitReadsCleanups, Reads
  <1>10. CASE WaitAgain
    BY <1>1, <1>2, <1>10, LooksType DEF WaitAgain, Reads
  <1>11. CASE WaitReadsDiagnostics
    BY <1>2, <1>11, Zenon DEF WaitReadsDiagnostics, Looks
  <1> QED
    BY <1>3, <1>4, <1>5, <1>6, <1>7, <1>8, <1>9, <1>10, <1>11 DEF ObserverStep

LEMMA WorkerTypeStep ==
  ASSUME TypeInv, NEW s \in Site, WorkerStep(s)
  PROVE  TypeInv'
  <1> USE RetriesAssumption DEF TypeInv, TypeOK, RetryInv, Places, GoTo, flagVars, threadVars,
        streamVars, closeVars, observerVars, workerVars
  <1>1. Current(s) \in Adapter
    BY CurrentType
  <1>2. CASE CreateFails(s)
    BY <1>2 DEF CreateFails, MayRetry, RetriesLeft
  <1>3. CASE Register(s)
    BY <1>1, <1>3 DEF Register, Admitted
  <1>4. CASE CloseRejected(s)
    BY <1>1, <1>4 DEF CloseRejected, Schedule
  <1>5. CASE LockStart(s)
    BY <1>5 DEF LockStart
  <1>6. CASE SeeNoStop(s)
    BY <1>6 DEF SeeNoStop
  <1>7. CASE StartOperation(s)
    BY <1>1, <1>7 DEF StartOperation
  <1>8. CASE MarkStarted(s)
    BY <1>1, <1>8 DEF MarkStarted, LockAfterStart
  <1>9. CASE StartRefused(s)
    BY <1>9 DEF StartRefused, EndAttempt, LockAfterStart
  <1>10. CASE SeeResult(s)
    <2>1. CASE EndAttempt(s, FALSE)
      BY <1>10, <2>1 DEF SeeResult, EndAttempt
    <2>2. CASE MayRetry(s) /\ EndAttempt(s, TRUE)
      BY <1>10, <2>2 DEF SeeResult, EndAttempt, MayRetry, RetriesLeft
    <2> QED BY <1>10, <2>1, <2>2 DEF SeeResult
  <1>11. CASE Abandon(s)
    BY <1>11 DEF Abandon, EndAttempt
  <1>12. CASE CompleteUnstarted(s)
    BY <1>1, <1>12 DEF CompleteUnstarted, IsOver
  <1>13. CASE Release(s)
    BY <1>1, <1>13 DEF Release
  <1>14. CASE ScheduleClose(s)
    BY <1>1, <1>14 DEF ScheduleClose, Schedule
  <1>15. CASE RetireReleased(s)
    <2>1. /\ managed' \subseteq Adapter
          /\ captured' \subseteq Adapter \X {"operation", "close"}
      BY <1>1, <1>15, RetireType DEF RetireReleased
    <2> QED BY <1>15, <2>1 DEF RetireReleased
  <1> QED BY <1>2, <1>3, <1>4, <1>5, <1>6, <1>7, <1>8, <1>9, <1>10, <1>11, <1>12, <1>13, <1>14, <1>15 DEF WorkerStep

LEMMA ThreadTypeStep ==
  ASSUME TypeInv, NEW a \in Adapter, OperationStep(a) \/ CleanupStep(a)
  PROVE  TypeInv'
  <1> USE DEF TypeInv, TypeOK, RetryInv, flagVars, threadVars, streamVars, closeVars,
        observerVars, workerVars
  <1>1. recorded[a] \subseteq {"operation", "close"}
    OBVIOUS
  <1>2. CASE OperationEnds(a)
    BY <1>1, <1>2 DEF OperationEnds, Recorded
  <1>3. CASE OperationCompletes(a)
    BY <1>3 DEF OperationCompletes
  <1>4. CASE OperationDies(a)
    BY <1>4 DEF OperationDies
  <1>5. CASE CleanupCloses(a)
    BY <1>1, <1>5 DEF CleanupCloses, Recorded
  <1>6. CASE CleanupCaptures(a)
    BY <1>1, <1>6 DEF CleanupCaptures
  <1>7. CASE CleanupCompletes(a)
    BY <1>7 DEF CleanupCompletes
  <1>8. CASE OperationRetires(a)
    <2>1. /\ managed' \subseteq Adapter
          /\ captured' \subseteq Adapter \X {"operation", "close"}
      BY <1>8, RetireType DEF OperationRetires
    <2> QED BY <1>8, <2>1 DEF OperationRetires
  <1>9. CASE CleanupRetires(a)
    <2>1. /\ managed' \subseteq Adapter
          /\ captured' \subseteq Adapter \X {"operation", "close"}
      BY <1>9, RetireType DEF CleanupRetires
    <2> QED BY <1>9, <2>1 DEF CleanupRetires
  <1> QED BY <1>2, <1>3, <1>4, <1>5, <1>6, <1>7, <1>8, <1>9 DEF OperationStep, CleanupStep

LEMMA TypeInit == Init => TypeInv
  <1> SUFFICES ASSUME Init PROVE TypeInv
    OBVIOUS
  <1>1. 0 \in 0..MaxRetries
    BY RetriesAssumption
  <1>2. RetryInv
    BY DEF Init, RetryInv
  <1>3. /\ worker \in [Site -> Places]
        /\ attempt \in [Site -> 0..MaxRetries]
        /\ again \in [Site -> BOOLEAN]
    BY <1>1 DEF Init, Places
  <1>4. TypeOK
    BY <1>3 DEF Init, TypeOK
  <1> QED BY <1>2, <1>4 DEF TypeInv

LEMMA TypeStep == TypeInv /\ [Next]_vars => TypeInv'
  <1> SUFFICES ASSUME TypeInv, [Next]_vars PROVE TypeInv'
    OBVIOUS
  <1> USE DEF vars, flagVars, threadVars, streamVars, closeVars, observerVars, workerVars
  <1>1. CASE \E s \in Site : WorkerStep(s)
    BY <1>1, WorkerTypeStep
  <1>2. CASE \E a \in Adapter : OperationStep(a) \/ CleanupStep(a)
    BY <1>2, ThreadTypeStep
  <1>3. CASE Close \/ CloseStops \/ CloseReturns \/ CallerCancels
    <2>1. CASE Close
      BY <2>1 DEF TypeInv, TypeOK, RetryInv, Close, LeftOpen
    <2>2. CASE CloseStops
      BY <2>2 DEF TypeInv, TypeOK, RetryInv, CloseStops
    <2>3. CASE CloseReturns
      BY <2>3 DEF TypeInv, TypeOK, RetryInv, CloseReturns
    <2>4. CASE CallerCancels
      BY <2>4 DEF TypeInv, TypeOK, RetryInv, CallerCancels
    <2> QED BY <1>3, <2>1, <2>2, <2>3, <2>4
  <1>4. CASE CloseSchedules
    <2>1. PICK a \in taken : Schedule(a) /\ taken' = taken \ {a}
      BY <1>4 DEF CloseSchedules
    <2> QED BY <1>4, <2>1 DEF TypeInv, TypeOK, RetryInv, CloseSchedules, Schedule
  <1>5. CASE ObserverStep
    <2>1. UNCHANGED <<workerVars, flagVars, threadVars, streamVars, closeVars>>
      BY <1>5, ObserverFrame
    <2>2. /\ watch' \in {"idle", "waitOperations", "waitCleanups", "joining", "waited",
                        "workers", "operations", "cleanups", "done"}
          /\ quiet' \in BOOLEAN /\ asked' \in {"before", "after", "waited"}
      BY <1>5, ObserverTypes DEF TypeInv
    <2> QED
      BY <2>1, <2>2 DEF TypeInv, TypeOK, RetryInv, workerVars, flagVars, threadVars, streamVars,
         closeVars
  <1>6. CASE Stay \/ UNCHANGED vars
    BY <1>6 DEF TypeInv, TypeOK, RetryInv, Stay
  <1> QED BY <1>1, <1>2, <1>3, <1>4, <1>5, <1>6 DEF Next, CloserStep

\* The attempts of a worker stay within the range of _run_adapter's loop, and
\* every variable keeps its type.
THEOREM AdapterTypeCorrect == Spec => []TypeOK
  <1>1. TypeInv => TypeOK
    BY DEF TypeInv
  <1> QED BY <1>1, TypeInit, TypeStep, PTL DEF Spec

-------------------------------------------------------------------------------
\* The right to close an adapter is one token: the adapter is open, or taken by
\* close(), or in the hand of its worker, or it was closed.

InHand(s) == worker[s] \in {"rejected", "scheduling"}

\* The adapter of attempt n of site s is not registered yet.
Ahead(s, n) == n > attempt[s] \/ (n = attempt[s] /\ worker[s] = "creating")

TokenInv ==
  \A s \in Site, n \in Attempts :
    /\ closes[<<s, n>>] <= 1
    /\ <<s, n>> \in open  => <<s, n>> \notin taken /\ closes[<<s, n>>] = 0
    /\ <<s, n>> \in taken => closes[<<s, n>>] = 0
    /\ Ahead(s, n) => <<s, n>> \notin open \cup taken /\ closes[<<s, n>>] = 0

HandInv ==
  \A s \in Site :
    InHand(s) => Current(s) \notin open \cup taken /\ closes[Current(s)] = 0

Ownership == TokenInv /\ HandInv

\* Who closes is the one who holds the token, and then nobody does.
LEMMA OwnershipWorker ==
  ASSUME TypeInv, Ownership, NEW s \in Site, WorkerStep(s)
  PROVE  Ownership'
  <1> USE RetriesAssumption DEF Attempts, TypeInv, TypeOK, Ownership, TokenInv, HandInv, InHand,
        Ahead, Current, Adapter, GoTo, flagVars, threadVars, streamVars, closeVars,
        observerVars, workerVars
  <1>1. CASE CreateFails(s)
    BY <1>1 DEF CreateFails, MayRetry, RetriesLeft
  <1>2. CASE Register(s)
    BY <1>2 DEF Register, Admitted
  <1>3. CASE CloseRejected(s)
    BY <1>3 DEF CloseRejected, Schedule
  <1>4. CASE LockStart(s) \/ SeeNoStop(s) \/ StartOperation(s) \/ MarkStarted(s)
    BY <1>4 DEF LockStart, SeeNoStop, StartOperation, MarkStarted
  <1>5. CASE StartRefused(s) \/ SeeResult(s) \/ Abandon(s)
    BY <1>5 DEF StartRefused, SeeResult, Abandon, EndAttempt
  <1>6. CASE CompleteUnstarted(s)
    BY <1>6 DEF CompleteUnstarted
  <1>7. CASE Release(s)
    <2>1. /\ UNCHANGED <<closes, taken, attempt>> /\ open' \subseteq open
          /\ worker[s] = "releasing" /\ worker'[s] \in {"scheduling", "retiring"}
          /\ worker'[s] = "scheduling" => Current(s) \in open
          /\ Current(s) \notin open'
          /\ \A u \in Site \ {s} : worker'[u] = worker[u]
      BY <1>7 DEF Release
    <2>2. TokenInv'
      <3>1. \A u \in Site, n \in Attempts : Ahead(u, n)' => Ahead(u, n)
        BY <2>1
      <3> HIDE DEF Ahead
      <3> QED BY <2>1, <3>1
    <2>3. HandInv'
      BY <2>1
    <2> QED BY <2>2, <2>3
  <1>8. CASE ScheduleClose(s)
    BY <1>8 DEF ScheduleClose, Schedule
  <1>9. CASE RetireReleased(s)
    BY <1>9 DEF RetireReleased
  <1> QED BY <1>1, <1>2, <1>3, <1>4, <1>5, <1>6, <1>7, <1>8, <1>9 DEF WorkerStep

LEMMA OwnershipFrame ==
  ASSUME Ownership, UNCHANGED <<worker, attempt, open, taken, closes>>
  PROVE  Ownership'
  BY DEF Ownership, TokenInv, HandInv, InHand, Ahead, Current

LEMMA OwnershipStep == TypeInv /\ Ownership /\ [Next]_vars => Ownership'
  <1> SUFFICES ASSUME TypeInv, Ownership, [Next]_vars PROVE Ownership'
    OBVIOUS
  <1> USE DEF vars, flagVars, threadVars, streamVars, closeVars, observerVars, workerVars
  <1>1. CASE \E s \in Site : WorkerStep(s)
    BY <1>1, OwnershipWorker
  <1>2. CASE \E a \in Adapter : OperationStep(a) \/ CleanupStep(a)
    <2>1. PICK a \in Adapter : OperationStep(a) \/ CleanupStep(a)
      BY <1>2
    <2>2. UNCHANGED <<worker, attempt, open, taken, closes>>
      BY <2>1 DEF OperationStep, CleanupStep, OperationEnds, OperationCompletes,
           OperationRetires, OperationDies, CleanupCloses, CleanupCaptures, CleanupCompletes,
           CleanupRetires
    <2> QED BY <2>2, OwnershipFrame
  <1>3. CASE Close
    BY <1>3 DEF Close, LeftOpen, Ownership, TokenInv, HandInv, InHand, Ahead, Current
  <1>4. CASE CloseSchedules
    <2>1. PICK a \in taken : Schedule(a) /\ taken' = taken \ {a}
      BY <1>4 DEF CloseSchedules
    <2>2. a \in Adapter
      BY <2>1 DEF TypeInv, TypeOK
    <2>3. UNCHANGED <<worker, attempt, open>>
      BY <1>4 DEF CloseSchedules
    <2>4. TokenInv'
      <3> SUFFICES ASSUME NEW s \in Site, NEW n \in Attempts
                   PROVE  /\ closes'[<<s, n>>] <= 1
                          /\ <<s, n>> \in open'
                               => <<s, n>> \notin taken' /\ closes'[<<s, n>>] = 0
                          /\ <<s, n>> \in taken' => closes'[<<s, n>>] = 0
                          /\ Ahead(s, n)'
                               => <<s, n>> \notin open' \cup taken' /\ closes'[<<s, n>>] = 0
        BY DEF TokenInv
      <3>1. <<s, n>> \in Adapter
        BY DEF Adapter, Attempts
      <3>2. Ahead(s, n)' = Ahead(s, n)
        BY <2>3 DEF Ahead
      <3>3. /\ closes[<<s, n>>] <= 1
            /\ <<s, n>> \in open  => <<s, n>> \notin taken /\ closes[<<s, n>>] = 0
            /\ <<s, n>> \in taken => closes[<<s, n>>] = 0
            /\ Ahead(s, n) => <<s, n>> \notin open \cup taken /\ closes[<<s, n>>] = 0
        BY DEF Ownership, TokenInv
      <3>4. CASE <<s, n>> = a
        <4>1. closes[a] = 0 /\ closes'[a] = 1 /\ a \notin open
          BY <2>1, <2>2, <3>3, <3>4 DEF Schedule, TypeInv, TypeOK
        <4> QED BY <2>1, <2>3, <3>2, <3>3, <3>4, <4>1
      <3>5. CASE <<s, n>> # a
        <4>1. closes'[<<s, n>>] = closes[<<s, n>>]
          BY <2>1, <2>2, <3>1, <3>5 DEF Schedule, TypeInv, TypeOK
        <4> QED BY <2>1, <2>3, <3>2, <3>3, <3>5, <4>1
      <3> QED BY <3>4, <3>5
    <2>5. HandInv'
      BY <2>1, <2>2, <2>3 DEF Schedule, TypeInv, TypeOK, Ownership, HandInv, InHand, Current,
           Adapter
    <2> QED BY <2>4, <2>5 DEF Ownership
  <1>5. CASE CloseStops \/ CloseReturns \/ CallerCancels \/ ObserverStep
    <2>1. UNCHANGED <<worker, attempt, open, taken, closes>>
      BY <1>5, ObserverFrame DEF CloseStops, CloseReturns, CallerCancels, workerVars,
           threadVars, streamVars, closeVars
    <2> QED BY <2>1, OwnershipFrame
  <1>6. CASE Stay \/ UNCHANGED vars
    BY <1>6, OwnershipFrame DEF Stay
  <1> QED BY <1>1, <1>2, <1>3, <1>4, <1>5, <1>6 DEF Next, CloserStep

LEMMA OwnershipInit == Init => Ownership
  BY RetriesAssumption DEF Init, Ownership, TokenInv, HandInv, InHand, Ahead, Adapter, Attempts

\* No adapter is closed twice, however the release by its worker, the rejection
\* by a closed stream and close() race for it.
THEOREM ClosedAtMostOnce == Spec => []ClosedOnce
  <1>1. Ownership => ClosedOnce
    BY DEF Ownership, TokenInv, ClosedOnce, Adapter, Attempts
  <1> QED BY <1>1, TypeInit, TypeStep, OwnershipInit, OwnershipStep, PTL DEF Spec

-------------------------------------------------------------------------------
\* Whoever is between the check for a stop and the mark that the operation
\* started holds the start lock; past the check there was no stop.

StartInv ==
  \A s \in Site :
    /\ worker[s] \in {"starting", "clear", "started"} => startLock = s
    /\ worker[s] = "clear" => ~stopped

LEMMA StartStep == TypeInv /\ StartInv /\ [Next]_vars => StartInv'
  <1> SUFFICES ASSUME TypeInv, StartInv, [Next]_vars PROVE StartInv'
    OBVIOUS
  <1> USE SiteAssumption DEF vars, flagVars, threadVars, streamVars, closeVars, observerVars,
        workerVars
  <1>1. CASE \E s \in Site : WorkerStep(s)
    <2>1. PICK s \in Site : WorkerStep(s)
      BY <1>1
    <2> QED BY <2>1 DEF WorkerStep, CreateFails, Register, CloseRejected, LockStart, SeeNoStop,
               StartOperation, MarkStarted, StartRefused, SeeResult, Abandon, CompleteUnstarted,
               Release, ScheduleClose, RetireReleased, EndAttempt, LockAfterStart, GoTo, Stops,
               TypeInv, TypeOK, StartInv
  <1>2. CASE \E a \in Adapter : OperationStep(a) \/ CleanupStep(a)
    BY <1>2 DEF StartInv, OperationStep, CleanupStep, OperationEnds, OperationCompletes,
         OperationRetires, OperationDies, CleanupCloses, CleanupCaptures, CleanupCompletes,
         CleanupRetires
  <1>3. CASE Close \/ CloseStops \/ CloseSchedules \/ CloseReturns \/ CallerCancels
    BY <1>3 DEF StartInv, Close, CloseStops, StartsAreOver, CloseSchedules, CloseReturns,
         CallerCancels
  <1>4. CASE ObserverStep \/ Stay \/ UNCHANGED vars
    BY <1>4, ObserverFrame DEF StartInv, Stay, vars, workerVars, flagVars, threadVars, closeVars
  <1> QED BY <1>1, <1>2, <1>3, <1>4 DEF Next, CloserStep

LEMMA StartInit == Init => StartInv
  BY DEF Init, StartInv

\* Only StartOperation starts an operation thread.
LEMMA StartsUnstopped ==
  ASSUME TypeInv, StartInv, [Next]_vars, NEW a \in Adapter,
         op[a] = "none", op'[a] = "running"
  PROVE  ~stopped
  <1> USE DEF vars, flagVars, threadVars, streamVars, closeVars, observerVars, workerVars
  <1>1. CASE \E s \in Site : WorkerStep(s)
    <2>1. PICK s \in Site : WorkerStep(s)
      BY <1>1
    <2>2. CASE StartOperation(s)
      BY <2>2 DEF StartOperation, StartInv
    <2>3. CASE ~StartOperation(s)
      <3>1. UNCHANGED op
        BY <2>1, <2>3 DEF WorkerStep, CreateFails, Register, CloseRejected, LockStart,
             SeeNoStop, MarkStarted, StartRefused, SeeResult, Abandon, CompleteUnstarted,
             Release, ScheduleClose, RetireReleased
      <3> QED BY <3>1
    <2> QED BY <2>2, <2>3
  <1>2. CASE \E b \in Adapter : OperationStep(b) \/ CleanupStep(b)
    BY <1>2 DEF TypeInv, TypeOK, OperationStep, CleanupStep, OperationEnds, OperationCompletes,
         OperationRetires, OperationDies, CleanupCloses, CleanupCaptures, CleanupCompletes,
         CleanupRetires
  <1>3. CASE ~(\E s \in Site : WorkerStep(s))
             /\ ~(\E b \in Adapter : OperationStep(b) \/ CleanupStep(b))
    <2>1. UNCHANGED op
      BY <1>3, ObserverFrame DEF Next, CloserStep, Close, CloseStops, CloseSchedules,
         CloseReturns, CallerCancels, Stay, vars, threadVars
    <2> QED BY <2>1
  <1> QED BY <1>1, <1>2, <1>3

\* No operation thread starts once close() has set the stop event: the check
\* and the start are under the lock stop() takes.
THEOREM NoLateStart == Spec => NoStartAfterStop
  <1>1. TypeInv /\ StartInv /\ [Next]_vars
          => [\A a \in Adapter : op[a] = "none" /\ op'[a] = "running" => ~stopped]_vars
    BY StartsUnstopped
  <1> QED BY <1>1, TypeInit, TypeStep, StartInit, StartStep, PTL DEF Spec, NoStartAfterStop

-------------------------------------------------------------------------------
\* The life of an adapter.  Its worker registers it and has it in hand until it
\* has released it; an operation may outlive that, and a cleanup thread follows.

Here(a, places) == Current(a[1]) = a /\ worker[a[1]] \in places

InWork == {"admitted", "starting", "clear", "started", "waiting"}
Registered == InWork \cup {"rejected", "finally", "releasing"}

\* Somebody will close it, or did.
Kept(a) == a \in open \cup taken \/ closes[a] > 0

\* Nobody has seen it yet.
Untouched(a) ==
  /\ op[a] = "none" /\ closes[a] = 0 /\ recorded[a] = {} /\ a \notin open \cup taken
  /\ ~Here(a, Places \ {"creating", "dead"})

\* Its flags follow its threads.
FlagInv(a) ==
  /\ closes[a] = 0 <=> cleanup[a] = "none"
  /\ cleaned[a] <=> cleanup[a] \in {"retiring", "dead"}
  /\ op[a] \in {"retiring", "ended", "dead"} => complete[a]
  /\ op[a] \in {"running", "completing"} => ~complete[a]
  /\ started[a] => op[a] # "none"
  /\ op[a] # "none" => started[a] \/ Here(a, {"started"})
  /\ Here(a, {"started"}) => op[a] # "none"
  /\ a[2] > attempt[a[1]] \/ Here(a, {"creating", "admitted", "rejected", "starting", "clear"})
       => op[a] = "none" /\ ~complete[a]
  /\ a[2] > attempt[a[1]] \/ Here(a, Registered \cup {"creating"}) => ~released[a]
  /\ released[a] \/ Here(a, {"releasing"}) => complete[a] \/ op[a] \in {"running", "completing"}

\* It is managed from its registration until the last of its threads retires it.
ManagedInv(a) ==
  /\ a \in managed =>
       /\ released[a] \/ Here(a, Registered)
       /\ Ready(a) => Here(a, {"retiring"}) \/ op[a] = "retiring" \/ cleanup[a] = "retiring"
  /\ a \in managed \/ Ready(a) \/ Untouched(a)

\* It is in the hands of somebody who will close it.
KeptInv(a) ==
  /\ a \in managed \/ op[a] # "none" => Kept(a) \/ Here(a, {"rejected", "scheduling"})
  /\ Here(a, InWork) => closed \/ a \in open
  /\ Here(a, InWork \cup {"finally", "releasing"}) => Kept(a)
  /\ op[a] = "running" => closed \/ cancelled \/ Here(a, {"started", "waiting"})
  /\ Here(a, {"rejected"}) => op[a] = "none"

\* What it recorded is captured before it is retired.
ErrorInv(a) == a \notin managed => \A who \in recorded[a] : <<a, who>> \in captured

LifeOf(a) == FlagInv(a) /\ ManagedInv(a) /\ KeptInv(a) /\ ErrorInv(a)

\* A step that does not concern the adapter: its worker stays at it, or stays
\* away from it.
Aside(a) ==
  /\ Current(a[1])' = a <=> Current(a[1]) = a
  /\ Current(a[1]) = a => worker'[a[1]] = worker[a[1]]
  /\ a[2] > attempt'[a[1]] <=> a[2] > attempt[a[1]]

SameFlags(a) ==
  /\ started'[a] = started[a] /\ complete'[a] = complete[a]
  /\ released'[a] = released[a] /\ cleaned'[a] = cleaned[a]

SameThreads(a) ==
  /\ op'[a] = op[a] /\ cleanup'[a] = cleanup[a] /\ closes'[a] = closes[a]
  /\ recorded'[a] = recorded[a]

SameStream(a) ==
  /\ a \in open' <=> a \in open
  /\ a \in taken' <=> a \in taken
  /\ a \in managed' <=> a \in managed
  /\ captured \subseteq captured'

Monotone == (closed => closed') /\ (cancelled => cancelled')

LEMMA AsideHere ==
  ASSUME NEW a, NEW places, Aside(a)
  PROVE  Here(a, places)' <=> Here(a, places)
  BY DEF Aside, Here

\* What does not concern an adapter leaves its life as it was.
LEMMA SameKeeps ==
  ASSUME NEW a \in Adapter, LifeOf(a), Aside(a), SameFlags(a), SameThreads(a), SameStream(a),
         Monotone
  PROVE  LifeOf(a)'
  <1>1. \A places : Here(a, places)' <=> Here(a, places)
    BY AsideHere
  <1>2. Ready(a)' <=> Ready(a)
    BY DEF SameFlags, Ready
  <1>3. FlagInv(a)'
    <2>1. FlagInv(a)
      BY DEF LifeOf
    <2> QED BY <1>1, <2>1 DEF FlagInv, Aside, SameFlags, SameThreads
  <1>4. Kept(a)' <=> Kept(a)
    BY DEF Kept, SameStream, SameThreads
  <1>5. ManagedInv(a)'
    <2>1. ManagedInv(a)
      BY DEF LifeOf
    <2>2. Untouched(a)' <=> Untouched(a)
      BY <1>1 DEF Untouched, SameThreads, SameStream
    <2> QED BY <1>1, <1>2, <2>1, <2>2 DEF ManagedInv, SameFlags, SameThreads, SameStream
  <1>6. KeptInv(a)'
    <2>1. KeptInv(a)
      BY DEF LifeOf
    <2> QED BY <1>1, <1>4, <2>1 DEF KeptInv, SameThreads, SameStream, Monotone
  <1>7. ErrorInv(a)'
    <2>1. ErrorInv(a)
      BY DEF LifeOf
    <2> QED BY <2>1 DEF ErrorInv, SameThreads, SameStream
  <1> QED BY <1>3, <1>5, <1>6, <1>7 DEF LifeOf

\* The flags of close() follow its place.
ClosingInv ==
  /\ closer # "none" <=> closed
  /\ stopped => closed
  /\ closed => open = {}
  /\ taken # {} => closer \in {"stop", "schedule"}

LifeInv ==
  /\ ClosingInv
  /\ \A a \in Adapter : LifeOf(a)

\* What was read quiet after close() returned is quiet still.
ObserverInv ==
  /\ asked # "before" => closer = "done"
  /\ asked # "before" /\ quiet =>
       /\ watch \in {"operations", "cleanups", "done", "waitOperations", "waitCleanups",
            "waited"}
            => WorkersQuiet
       /\ watch \in {"cleanups", "done", "waitCleanups", "waited"} => OperationsQuiet
       /\ watch \in {"done", "waited"} => CleanupsQuiet
  /\ watch \in {"workers", "operations", "cleanups", "waitOperations", "waitCleanups", "waited"}
       => quiet
  /\ asked = "waited" =>
       Inactive /\ quiet /\ watch \in {"workers", "operations", "cleanups", "done"}

\* A worker disturbs the adapters of its present and its next attempt only.
LEMMA OthersKept ==
  ASSUME TypeInv, NEW s \in Site, WorkerStep(s), NEW a \in Adapter, LifeOf(a),
         a # Current(s), Current(s)' # a
  PROVE  LifeOf(a)'
  <1>1. Current(s) \in Adapter /\ a = <<a[1], a[2]>> /\ a[1] \in Site /\ a[2] \in Attempts
    BY CurrentType DEF TypeInv, Adapter, Attempts
  <1> USE DEF GoTo, flagVars, threadVars, streamVars, closeVars, observerVars, workerVars
  <1>2. SameFlags(a) /\ SameThreads(a) /\ SameStream(a) /\ Monotone
    <2> USE <1>1 DEF SameFlags, SameThreads, SameStream, Monotone, TypeInv, TypeOK
    <2>1. CASE CreateFails(s)
      BY <2>1 DEF CreateFails, MayRetry, RetriesLeft
    <2>2. CASE Register(s)
      BY <2>2 DEF Register, Admitted
    <2>3. CASE CloseRejected(s)
      BY <2>3 DEF CloseRejected, Schedule
    <2>4. CASE LockStart(s)
      BY <2>4 DEF LockStart
    <2>5. CASE SeeNoStop(s)
      BY <2>5 DEF SeeNoStop
    <2>6. CASE StartOperation(s)
      BY <2>6 DEF StartOperation
    <2>7. CASE MarkStarted(s)
      BY <2>7 DEF MarkStarted, LockAfterStart
    <2>8. CASE StartRefused(s)
      BY <2>8 DEF StartRefused, EndAttempt
    <2>9. CASE SeeResult(s)
      BY <2>9 DEF SeeResult, EndAttempt
    <2>10. CASE Abandon(s)
      BY <2>10 DEF Abandon, EndAttempt
    <2>11. CASE CompleteUnstarted(s)
      BY <2>11 DEF CompleteUnstarted
    <2>12. CASE Release(s)
      BY <2>12 DEF Release
    <2>13. CASE ScheduleClose(s)
      BY <2>13 DEF ScheduleClose, Schedule
    <2>14. CASE RetireReleased(s)
      BY <2>14 DEF RetireReleased, Retire
    <2> QED BY <2>1, <2>2, <2>3, <2>4, <2>5, <2>6, <2>7, <2>8, <2>9, <2>10, <2>11, <2>12,
         <2>13, <2>14 DEF WorkerStep
  <1>3. Aside(a)
    <2>1. /\ \A t \in Site : t # s => worker'[t] = worker[t] /\ attempt'[t] = attempt[t]
          /\ attempt'[s] \in {attempt[s], attempt[s] + 1}
      <3> USE DEF TypeInv, TypeOK
      <3>1. CASE CreateFails(s)
        BY <3>1 DEF CreateFails, MayRetry, RetriesLeft
      <3>2. CASE Register(s)
        BY <3>2 DEF Register, Admitted
      <3>3. CASE CloseRejected(s)
        BY <3>3 DEF CloseRejected, Schedule
      <3>4. CASE LockStart(s)
        BY <3>4 DEF LockStart
      <3>5. CASE SeeNoStop(s)
        BY <3>5 DEF SeeNoStop
      <3>6. CASE StartOperation(s)
        BY <3>6 DEF StartOperation
      <3>7. CASE MarkStarted(s)
        BY <3>7 DEF MarkStarted, LockAfterStart
      <3>8. CASE StartRefused(s)
        BY <3>8 DEF StartRefused, EndAttempt
      <3>9. CASE SeeResult(s)
        BY <3>9 DEF SeeResult, EndAttempt
      <3>10. CASE Abandon(s)
        BY <3>10 DEF Abandon, EndAttempt
      <3>11. CASE CompleteUnstarted(s)
        BY <3>11 DEF CompleteUnstarted
      <3>12. CASE Release(s)
        BY <3>12 DEF Release
      <3>13. CASE ScheduleClose(s)
        BY <3>13 DEF ScheduleClose, Schedule
      <3>14. CASE RetireReleased(s)
        BY <3>14 DEF RetireReleased, Retire
      <3> QED BY <3>1, <3>2, <3>3, <3>4, <3>5, <3>6, <3>7, <3>8, <3>9, <3>10, <3>11, <3>12,
           <3>13, <3>14 DEF WorkerStep
    <2>2. CASE a[1] # s
      BY <1>1, <2>1, <2>2 DEF Aside, Current
    <2>3. CASE a[1] = s
      <3>1. a[2] # attempt[s] /\ a[2] # attempt'[s]
        BY <1>1, <2>3 DEF Current
      <3>2. a[2] \in Int /\ attempt[s] \in Int
        BY <1>1, RetriesAssumption DEF Attempts, TypeInv, TypeOK
      <3>3. a[2] > attempt'[s] <=> a[2] > attempt[s]
        BY <2>1, <3>1, <3>2
      <3>4. Current(s) # a /\ Current(s)' # a
        OBVIOUS
      <3> QED BY <2>3, <3>3, <3>4 DEF Aside
    <2> QED BY <2>2, <2>3
  <1> QED BY <1>2, <1>3, SameKeeps

-------------------------------------------------------------------------------
\* The steps of a worker, for the adapter of its attempt.

LEMMA CurrentFacts ==
  ASSUME TypeInv, Ownership, NEW s \in Site, NEW a, a = Current(s), LifeOf(a)
  PROVE  /\ a \in Adapter /\ a[1] = s /\ a[2] = attempt[s] /\ Current(s) = a
         /\ FlagInv(a) /\ ManagedInv(a) /\ KeptInv(a) /\ ErrorInv(a)
         /\ InHand(s) => a \notin open \cup taken /\ closes[a] = 0
         /\ a \in open => closes[a] = 0
  <1>1. a \in Adapter /\ a[1] = s /\ a[2] = attempt[s]
    BY CurrentType DEF TypeInv, Current
  <1>2. a \in open => closes[a] = 0
    BY <1>1 DEF Ownership, TokenInv, Adapter, Attempts
  <1> QED BY <1>1, <1>2 DEF LifeOf, Ownership, HandInv

\* It is managed from here, and open unless the stream is closed.
LEMMA RegisterLife ==
  ASSUME TypeInv, Ownership, ClosingInv, NEW s \in Site, NEW a, a = Current(s), LifeOf(a),
         Register(s)
  PROVE  LifeOf(a)'
  <1> USE DEF GoTo, flagVars, threadVars, streamVars, closeVars, observerVars, workerVars
  <1>1. /\ a \in Adapter /\ a[1] = s /\ a[2] = attempt[s] /\ Current(s) = a
        /\ FlagInv(a) /\ ManagedInv(a) /\ KeptInv(a) /\ ErrorInv(a)
        /\ InHand(s) => a \notin open \cup taken /\ closes[a] = 0
        /\ a \in open => closes[a] = 0
    BY CurrentFacts
  <1>2. Current(s)' = a /\ attempt' = attempt
    BY <1>1 DEF Register, Admitted, Current
  <1> USE <1>1, <1>2 DEF TypeInv, TypeOK, Register, Admitted, Here, Registered, InWork, Kept
  <1>5. FlagInv(a)'
    BY DEF FlagInv, InHand
  <1>6. ManagedInv(a)'
    BY DEF ManagedInv, Ready, Untouched, Places, FlagInv, InHand
  <1>7. KeptInv(a)'
    BY DEF KeptInv, ClosingInv, FlagInv, InHand
  <1>8. ErrorInv(a)'
    BY DEF ErrorInv, FlagInv, InHand
  <1> QED BY <1>5, <1>6, <1>7, <1>8 DEF LifeOf

\* The worker closes what was not admitted.
LEMMA CloseRejectedLife ==
  ASSUME TypeInv, Ownership, ClosingInv, NEW s \in Site, NEW a, a = Current(s), LifeOf(a),
         CloseRejected(s)
  PROVE  LifeOf(a)'
  <1> USE DEF GoTo, flagVars, threadVars, streamVars, closeVars, observerVars, workerVars
  <1>1. /\ a \in Adapter /\ a[1] = s /\ a[2] = attempt[s] /\ Current(s) = a
        /\ FlagInv(a) /\ ManagedInv(a) /\ KeptInv(a) /\ ErrorInv(a)
        /\ InHand(s) => a \notin open \cup taken /\ closes[a] = 0
        /\ a \in open => closes[a] = 0
    BY CurrentFacts
  <1>2. Current(s)' = a /\ attempt' = attempt
    BY <1>1 DEF CloseRejected, Schedule, Current
  <1> USE <1>1, <1>2 DEF TypeInv, TypeOK, CloseRejected, Schedule, Here, Registered, InWork,
       Kept
  <1>5. FlagInv(a)'
    BY DEF FlagInv, InHand
  <1>6. ManagedInv(a)'
    BY DEF ManagedInv, Ready, Untouched, Places, FlagInv, InHand
  <1>7. KeptInv(a)'
    BY DEF KeptInv, ClosingInv, FlagInv, InHand
  <1>8. ErrorInv(a)'
    BY DEF ErrorInv, FlagInv, InHand
  <1> QED BY <1>5, <1>6, <1>7, <1>8 DEF LifeOf

LEMMA LockStartLife ==
  ASSUME TypeInv, Ownership, ClosingInv, NEW s \in Site, NEW a, a = Current(s), LifeOf(a),
         LockStart(s)
  PROVE  LifeOf(a)'
  <1> USE DEF GoTo, flagVars, threadVars, streamVars, closeVars, observerVars, workerVars
  <1>1. /\ a \in Adapter /\ a[1] = s /\ a[2] = attempt[s] /\ Current(s) = a
        /\ FlagInv(a) /\ ManagedInv(a) /\ KeptInv(a) /\ ErrorInv(a)
        /\ InHand(s) => a \notin open \cup taken /\ closes[a] = 0
        /\ a \in open => closes[a] = 0
    BY CurrentFacts
  <1>2. Current(s)' = a /\ attempt' = attempt
    BY <1>1 DEF LockStart, Current
  <1> USE <1>1, <1>2 DEF TypeInv, TypeOK, LockStart, Here, Registered, InWork, Kept
  <1>5. FlagInv(a)'
    BY DEF FlagInv, InHand
  <1>6. ManagedInv(a)'
    BY DEF ManagedInv, Ready, Untouched, Places, FlagInv, InHand
  <1>7. KeptInv(a)'
    BY DEF KeptInv, ClosingInv, FlagInv, InHand
  <1>8. ErrorInv(a)'
    BY DEF ErrorInv, FlagInv, InHand
  <1> QED BY <1>5, <1>6, <1>7, <1>8 DEF LifeOf

LEMMA SeeNoStopLife ==
  ASSUME TypeInv, Ownership, ClosingInv, NEW s \in Site, NEW a, a = Current(s), LifeOf(a),
         SeeNoStop(s)
  PROVE  LifeOf(a)'
  <1> USE DEF GoTo, flagVars, threadVars, streamVars, closeVars, observerVars, workerVars
  <1>1. /\ a \in Adapter /\ a[1] = s /\ a[2] = attempt[s] /\ Current(s) = a
        /\ FlagInv(a) /\ ManagedInv(a) /\ KeptInv(a) /\ ErrorInv(a)
        /\ InHand(s) => a \notin open \cup taken /\ closes[a] = 0
        /\ a \in open => closes[a] = 0
    BY CurrentFacts
  <1>2. Current(s)' = a /\ attempt' = attempt
    BY <1>1 DEF SeeNoStop, Current
  <1> USE <1>1, <1>2 DEF TypeInv, TypeOK, SeeNoStop, Here, Registered, InWork, Kept
  <1>5. FlagInv(a)'
    BY DEF FlagInv, InHand
  <1>6. ManagedInv(a)'
    BY DEF ManagedInv, Ready, Untouched, Places, FlagInv, InHand
  <1>7. KeptInv(a)'
    BY DEF KeptInv, ClosingInv, FlagInv, InHand
  <1>8. ErrorInv(a)'
    BY DEF ErrorInv, FlagInv, InHand
  <1> QED BY <1>5, <1>6, <1>7, <1>8 DEF LifeOf

\* The operation runs while the worker is between start and mark.
LEMMA StartOperationLife ==
  ASSUME TypeInv, Ownership, ClosingInv, NEW s \in Site, NEW a, a = Current(s), LifeOf(a),
         StartOperation(s)
  PROVE  LifeOf(a)'
  <1> USE DEF GoTo, flagVars, threadVars, streamVars, closeVars, observerVars, workerVars
  <1>1. /\ a \in Adapter /\ a[1] = s /\ a[2] = attempt[s] /\ Current(s) = a
        /\ FlagInv(a) /\ ManagedInv(a) /\ KeptInv(a) /\ ErrorInv(a)
        /\ InHand(s) => a \notin open \cup taken /\ closes[a] = 0
        /\ a \in open => closes[a] = 0
    BY CurrentFacts
  <1>2. Current(s)' = a /\ attempt' = attempt
    BY <1>1 DEF StartOperation, Current
  <1> USE <1>1, <1>2 DEF TypeInv, TypeOK, StartOperation, Here, Registered, InWork, Kept
  <1>5. FlagInv(a)'
    BY DEF FlagInv, InHand
  <1>6. ManagedInv(a)'
    BY DEF ManagedInv, Ready, Untouched, Places, FlagInv, InHand
  <1>7. KeptInv(a)'
    BY DEF KeptInv, ClosingInv, FlagInv, InHand
  <1>8. ErrorInv(a)'
    BY DEF ErrorInv, FlagInv, InHand
  <1> QED BY <1>5, <1>6, <1>7, <1>8 DEF LifeOf

LEMMA MarkStartedLife ==
  ASSUME TypeInv, Ownership, ClosingInv, NEW s \in Site, NEW a, a = Current(s), LifeOf(a),
         MarkStarted(s)
  PROVE  LifeOf(a)'
  <1> USE DEF GoTo, flagVars, threadVars, streamVars, closeVars, observerVars, workerVars
  <1>1. /\ a \in Adapter /\ a[1] = s /\ a[2] = attempt[s] /\ Current(s) = a
        /\ FlagInv(a) /\ ManagedInv(a) /\ KeptInv(a) /\ ErrorInv(a)
        /\ InHand(s) => a \notin open \cup taken /\ closes[a] = 0
        /\ a \in open => closes[a] = 0
    BY CurrentFacts
  <1>2. Current(s)' = a /\ attempt' = attempt
    BY <1>1 DEF MarkStarted, LockAfterStart, Current
  <1> USE <1>1, <1>2 DEF TypeInv, TypeOK, MarkStarted, LockAfterStart, Here, Registered,
       InWork, Kept
  <1>5. FlagInv(a)'
    BY DEF FlagInv, InHand
  <1>6. ManagedInv(a)'
    BY DEF ManagedInv, Ready, Untouched, Places, FlagInv, InHand
  <1>7. KeptInv(a)'
    BY DEF KeptInv, ClosingInv, FlagInv, InHand
  <1>8. ErrorInv(a)'
    BY DEF ErrorInv, FlagInv, InHand
  <1> QED BY <1>5, <1>6, <1>7, <1>8 DEF LifeOf

LEMMA StartRefusedLife ==
  ASSUME TypeInv, Ownership, ClosingInv, NEW s \in Site, NEW a, a = Current(s), LifeOf(a),
         StartRefused(s)
  PROVE  LifeOf(a)'
  <1> USE DEF GoTo, flagVars, threadVars, streamVars, closeVars, observerVars, workerVars
  <1>1. /\ a \in Adapter /\ a[1] = s /\ a[2] = attempt[s] /\ Current(s) = a
        /\ FlagInv(a) /\ ManagedInv(a) /\ KeptInv(a) /\ ErrorInv(a)
        /\ InHand(s) => a \notin open \cup taken /\ closes[a] = 0
        /\ a \in open => closes[a] = 0
    BY CurrentFacts
  <1>2. Current(s)' = a /\ attempt' = attempt
    BY <1>1 DEF StartRefused, EndAttempt, Current
  <1> USE <1>1, <1>2 DEF TypeInv, TypeOK, StartRefused, EndAttempt, Here, Registered, InWork,
       Kept
  <1>5. FlagInv(a)'
    BY DEF FlagInv, InHand
  <1>6. ManagedInv(a)'
    BY DEF ManagedInv, Ready, Untouched, Places, FlagInv, InHand
  <1>7. KeptInv(a)'
    BY DEF KeptInv, ClosingInv, FlagInv, InHand
  <1>8. ErrorInv(a)'
    BY DEF ErrorInv, FlagInv, InHand
  <1> QED BY <1>5, <1>6, <1>7, <1>8 DEF LifeOf

\* An operation whose result was seen does not run.
LEMMA SeeResultLife ==
  ASSUME TypeInv, Ownership, ClosingInv, NEW s \in Site, NEW a, a = Current(s), LifeOf(a),
         SeeResult(s)
  PROVE  LifeOf(a)'
  <1> USE DEF GoTo, flagVars, threadVars, streamVars, closeVars, observerVars, workerVars
  <1>1. /\ a \in Adapter /\ a[1] = s /\ a[2] = attempt[s] /\ Current(s) = a
        /\ FlagInv(a) /\ ManagedInv(a) /\ KeptInv(a) /\ ErrorInv(a)
        /\ InHand(s) => a \notin open \cup taken /\ closes[a] = 0
        /\ a \in open => closes[a] = 0
    BY CurrentFacts
  <1>2. Current(s)' = a /\ attempt' = attempt
    BY <1>1 DEF SeeResult, EndAttempt, HasResult, Current
  <1> USE <1>1, <1>2 DEF TypeInv, TypeOK, SeeResult, EndAttempt, HasResult, Here, Registered,
       InWork, Kept
  <1>5. FlagInv(a)'
    BY DEF FlagInv, InHand
  <1>6. ManagedInv(a)'
    BY DEF ManagedInv, Ready, Untouched, Places, FlagInv, InHand
  <1>7. KeptInv(a)'
    BY DEF KeptInv, ClosingInv, FlagInv, InHand
  <1>8. ErrorInv(a)'
    BY DEF ErrorInv, FlagInv, InHand
  <1> QED BY <1>5, <1>6, <1>7, <1>8 DEF LifeOf

\* An operation is abandoned only when the stream stops.
LEMMA AbandonLife ==
  ASSUME TypeInv, Ownership, ClosingInv, NEW s \in Site, NEW a, a = Current(s), LifeOf(a),
         Abandon(s)
  PROVE  LifeOf(a)'
  <1> USE DEF GoTo, flagVars, threadVars, streamVars, closeVars, observerVars, workerVars
  <1>1. /\ a \in Adapter /\ a[1] = s /\ a[2] = attempt[s] /\ Current(s) = a
        /\ FlagInv(a) /\ ManagedInv(a) /\ KeptInv(a) /\ ErrorInv(a)
        /\ InHand(s) => a \notin open \cup taken /\ closes[a] = 0
        /\ a \in open => closes[a] = 0
    BY CurrentFacts
  <1>2. Current(s)' = a /\ attempt' = attempt
    BY <1>1 DEF Abandon, EndAttempt, Stops, Current
  <1> USE <1>1, <1>2 DEF TypeInv, TypeOK, Abandon, EndAttempt, Stops, Here, Registered,
       InWork, Kept
  <1>5. FlagInv(a)'
    BY DEF FlagInv, InHand
  <1>6. ManagedInv(a)'
    BY DEF ManagedInv, Ready, Untouched, Places, FlagInv, InHand
  <1>7. KeptInv(a)'
    BY DEF KeptInv, ClosingInv, FlagInv, InHand
  <1>8. ErrorInv(a)'
    BY DEF ErrorInv, FlagInv, InHand
  <1> QED BY <1>5, <1>6, <1>7, <1>8 DEF LifeOf

\* What never started is complete; what runs is not.
LEMMA CompleteUnstartedLife ==
  ASSUME TypeInv, Ownership, ClosingInv, NEW s \in Site, NEW a, a = Current(s), LifeOf(a),
         CompleteUnstarted(s)
  PROVE  LifeOf(a)'
  <1> USE DEF GoTo, flagVars, threadVars, streamVars, closeVars, observerVars, workerVars
  <1>1. /\ a \in Adapter /\ a[1] = s /\ a[2] = attempt[s] /\ Current(s) = a
        /\ FlagInv(a) /\ ManagedInv(a) /\ KeptInv(a) /\ ErrorInv(a)
        /\ InHand(s) => a \notin open \cup taken /\ closes[a] = 0
        /\ a \in open => closes[a] = 0
    BY CurrentFacts
  <1>2. Current(s)' = a /\ attempt' = attempt
    BY <1>1 DEF CompleteUnstarted, IsOver, Current
  <1>3. a \in managed /\ ~released[a]
    <2>1. worker[s] = "finally"
      BY DEF CompleteUnstarted
    <2>2. ~released[a]
      BY <1>1, <2>1 DEF FlagInv, Here, Registered
    <2>3. ~Untouched(a)
      BY <1>1, <2>1 DEF Untouched, Here, Places
    <2> QED BY <1>1, <2>2, <2>3 DEF ManagedInv, Ready
  <1>4. complete'[a] <=> (complete[a] \/ ~started[a])
    <2>1. complete' = [complete EXCEPT ![a] = IsOver(a)]
      BY <1>1 DEF CompleteUnstarted
    <2>2. complete \in [Adapter -> BOOLEAN] /\ started \in [Adapter -> BOOLEAN]
      BY DEF TypeInv, TypeOK
    <2> QED BY <1>1, <2>1, <2>2 DEF IsOver
  <1>5. FlagInv(a)'
    <2>1. /\ worker[s] = "finally" /\ worker'[s] = "releasing"
          /\ UNCHANGED <<started, released, cleaned, op, cleanup, closes>>
      BY <1>1 DEF CompleteUnstarted, TypeInv, TypeOK
    <2>2. /\ Here(a, Registered)' /\ Here(a, Registered)
          /\ Here(a, Registered \cup {"creating"})
      BY <1>1, <1>2, <2>1 DEF Here, Registered
    <2>3. op[a] # "none" => started[a]
      BY <1>1, <2>1 DEF FlagInv, Here
    <2>4. complete[a] => complete'[a]
      BY <1>4
    <2>5. started[a] => (complete'[a] <=> complete[a])
      BY <1>4
    <2>6. op[a] = "none" \/ op[a] \in {"running", "completing"} \/ complete[a]
      BY <1>1 DEF FlagInv, TypeInv, TypeOK
    <2>7. ~(a[2] > attempt'[a[1]]) /\ attempt[s] \in Int
      BY <1>1, <1>2, RetriesAssumption DEF TypeInv, TypeOK
    <2> QED BY <1>1, <1>2, <1>3, <1>4, <2>1, <2>2, <2>3, <2>4, <2>5, <2>6, <2>7 DEF FlagInv,
         Here
  <1> USE <1>1, <1>2 DEF TypeInv, TypeOK, CompleteUnstarted, IsOver, Here, Registered, InWork,
       Kept
  <1>6. ManagedInv(a)'
    <2>1. a \in managed'
      BY <1>3
    <2>2. (released[a] \/ Here(a, Registered))'
      OBVIOUS
    <2>3. Ready(a)' => Here(a, {"retiring"})'
      BY <1>3 DEF Ready, FlagInv
    <2> QED BY <2>1, <2>2, <2>3 DEF ManagedInv
  <1>7. KeptInv(a)'
    BY DEF KeptInv, ClosingInv, FlagInv, InHand
  <1>8. ErrorInv(a)'
    BY DEF ErrorInv, FlagInv, InHand
  <1> QED BY <1>5, <1>6, <1>7, <1>8 DEF LifeOf

\* What is given up is complete or runs; if it was open its worker closes it.
LEMMA ReleaseLife ==
  ASSUME TypeInv, Ownership, ClosingInv, NEW s \in Site, NEW a, a = Current(s), LifeOf(a),
         Release(s)
  PROVE  LifeOf(a)'
  <1> USE DEF GoTo, flagVars, threadVars, streamVars, closeVars, observerVars, workerVars
  <1>1. /\ a \in Adapter /\ a[1] = s /\ a[2] = attempt[s] /\ Current(s) = a
        /\ FlagInv(a) /\ ManagedInv(a) /\ KeptInv(a) /\ ErrorInv(a)
        /\ InHand(s) => a \notin open \cup taken /\ closes[a] = 0
        /\ a \in open => closes[a] = 0
    BY CurrentFacts
  <1>2. Current(s)' = a /\ attempt' = attempt
    BY <1>1 DEF Release, Current
  <1>3. a \in managed /\ ~released[a]
    <2>1. worker[s] = "releasing"
      BY DEF Release
    <2>2. ~released[a]
      BY <1>1, <2>1 DEF FlagInv, Here, Registered
    <2>3. ~Untouched(a)
      BY <1>1, <2>1 DEF Untouched, Here, Places
    <2> QED BY <1>1, <2>2, <2>3 DEF ManagedInv, Ready
  <1> USE <1>1, <1>2 DEF TypeInv, TypeOK, Release, Here, Registered, InWork, Kept
  <1>5. FlagInv(a)'
    BY DEF FlagInv, InHand
  <1>6. ManagedInv(a)'
    <2>1. a \in managed'
      BY <1>3
    <2>2. (released[a] \/ Here(a, Registered))'
      OBVIOUS
    <2>3. Ready(a)' => Here(a, {"retiring"})'
      BY <1>3 DEF Ready, FlagInv
    <2> QED BY <2>1, <2>2, <2>3 DEF ManagedInv
  <1>7. KeptInv(a)'
    BY DEF KeptInv, ClosingInv, FlagInv, InHand
  <1>8. ErrorInv(a)'
    BY DEF ErrorInv, FlagInv, InHand
  <1> QED BY <1>5, <1>6, <1>7, <1>8 DEF LifeOf

LEMMA ScheduleCloseLife ==
  ASSUME TypeInv, Ownership, ClosingInv, NEW s \in Site, NEW a, a = Current(s), LifeOf(a),
         ScheduleClose(s)
  PROVE  LifeOf(a)'
  <1> USE DEF GoTo, flagVars, threadVars, streamVars, closeVars, observerVars, workerVars
  <1>1. /\ a \in Adapter /\ a[1] = s /\ a[2] = attempt[s] /\ Current(s) = a
        /\ FlagInv(a) /\ ManagedInv(a) /\ KeptInv(a) /\ ErrorInv(a)
        /\ InHand(s) => a \notin open \cup taken /\ closes[a] = 0
        /\ a \in open => closes[a] = 0
    BY CurrentFacts
  <1>2. Current(s)' = a /\ attempt' = attempt
    BY <1>1 DEF ScheduleClose, Schedule, Current
  <1> USE <1>1, <1>2 DEF TypeInv, TypeOK, ScheduleClose, Schedule, Here, Registered, InWork,
       Kept
  <1>5. FlagInv(a)'
    BY DEF FlagInv, InHand
  <1>6. ManagedInv(a)'
    BY DEF ManagedInv, Ready, Untouched, Places, FlagInv, InHand
  <1>7. KeptInv(a)'
    BY DEF KeptInv, ClosingInv, FlagInv, InHand
  <1>8. ErrorInv(a)'
    BY DEF ErrorInv, FlagInv, InHand
  <1> QED BY <1>5, <1>6, <1>7, <1>8 DEF LifeOf

\* The attempt after the current one was not seen before it begins.
LEMMA NextLife ==
  ASSUME TypeInv, NEW s \in Site, NEW a \in Adapter, a # Current(s), a = Current(s)', LifeOf(a),
         CreateFails(s) \/ RetireReleased(s)
  PROVE  LifeOf(a)'
  <1> USE RetriesAssumption DEF GoTo, flagVars, threadVars, streamVars, closeVars, observerVars,
        workerVars
  <1>1. /\ attempt'[s] = attempt[s] + 1 /\ worker'[s] = "creating"
        /\ a[1] = s /\ a[2] = attempt[s] + 1 /\ attempt[s] \in Int
    BY DEF TypeInv, TypeOK, CreateFails, RetireReleased, Current
  <1>2. /\ UNCHANGED <<open, taken, flagVars, threadVars, closed, cancelled>>
        /\ captured \subseteq captured'
        /\ a \in managed' <=> a \in managed
    <2>1. CASE CreateFails(s)
      BY <2>1 DEF CreateFails
    <2>2. CASE RetireReleased(s)
      BY <2>2 DEF RetireReleased, Retire
    <2> QED BY <2>1, <2>2
  <1>3. /\ FlagInv(a) /\ ManagedInv(a) /\ KeptInv(a) /\ ErrorInv(a)
        /\ a[2] > attempt[a[1]] /\ Current(a[1]) # a
    BY <1>1 DEF LifeOf
  <1>4. op[a] = "none" /\ ~complete[a] /\ ~released[a] /\ ~started[a]
    BY <1>3 DEF FlagInv
  <1>5. a \notin managed /\ Untouched(a)
    BY <1>3, <1>4 DEF ManagedInv, Here, Ready
  <1>6. \A P : Here(a, P)' <=> "creating" \in P
    BY <1>1 DEF Here, Current
  <1>7. FlagInv(a)'
    BY <1>1, <1>2, <1>3, <1>4, <1>6 DEF FlagInv, Registered, InWork, Here
  <1>8. ManagedInv(a)'
    <2>1. a \notin managed' /\ Untouched(a)'
      BY <1>2, <1>5, <1>6 DEF Untouched
    <2> QED BY <2>1 DEF ManagedInv
  <1>9. KeptInv(a)'
    BY <1>1, <1>2, <1>4, <1>5, <1>6 DEF KeptInv, InWork
  <1>10. ErrorInv(a)'
    BY <1>2, <1>3 DEF ErrorInv
  <1> QED BY <1>7, <1>8, <1>9, <1>10 DEF LifeOf

\* No adapter was created.
LEMMA CreateFailsLife ==
  ASSUME TypeInv, NEW s \in Site, CreateFails(s), NEW a, a = Current(s), LifeOf(a)
  PROVE  LifeOf(a)'
  <1> USE RetriesAssumption DEF GoTo, flagVars, threadVars, streamVars, closeVars, observerVars,
        workerVars
  <1>1. /\ a \in Adapter /\ a[1] = s /\ a[2] = attempt[s] /\ attempt[s] \in Int
        /\ worker[s] = "creating" /\ Current(a[1]) = a
    BY CurrentType DEF TypeInv, TypeOK, Current, CreateFails
  <1>2. /\ UNCHANGED <<streamVars, taken, flagVars, threadVars, closed, cancelled>>
        /\ Current(s)' # a \/ worker'[s] = "dead"
        /\ ~(a[2] > attempt'[s])
    BY <1>1 DEF CreateFails, Current, TypeInv, TypeOK
  <1>3. FlagInv(a) /\ ManagedInv(a) /\ KeptInv(a) /\ ErrorInv(a)
    BY DEF LifeOf
  <1>4. op[a] = "none" /\ ~complete[a] /\ ~released[a] /\ ~started[a]
    BY <1>1, <1>3 DEF FlagInv, Here
  <1>5. a \notin managed /\ Untouched(a)
    BY <1>1, <1>3, <1>4 DEF ManagedInv, Here, Ready, Registered, InWork
  <1>6. \A P : Here(a, P)' => "dead" \in P
    BY <1>1, <1>2 DEF Here
  <1>7. FlagInv(a)'
    BY <1>1, <1>2, <1>3, <1>4, <1>6 DEF FlagInv, Registered, InWork, Here
  <1>8. ManagedInv(a)'
    <2>1. a \notin managed' /\ Untouched(a)'
      BY <1>2, <1>5, <1>6 DEF Untouched
    <2> QED BY <2>1 DEF ManagedInv
  <1>9. KeptInv(a)'
    BY <1>1, <1>2, <1>4, <1>5, <1>6 DEF KeptInv, InWork
  <1>10. ErrorInv(a)'
    BY <1>2, <1>3 DEF ErrorInv
  <1> QED BY <1>7, <1>8, <1>9, <1>10 DEF LifeOf

\* Whoever retires an adapter takes it out if nobody needs it any more.
LEMMA RetireManaged ==
  ASSUME NEW a, Retire(a), UNCHANGED <<flagVars, recorded>>, ErrorInv(a)
  PROVE  /\ a \in managed' <=> a \in managed /\ ~Ready(a)
         /\ Ready(a)' <=> Ready(a)
         /\ ErrorInv(a)'
  <1>1. Ready(a)' <=> Ready(a)
    BY DEF Ready, flagVars
  <1>2. CASE Ready(a)
    BY <1>1, <1>2 DEF Retire, ErrorInv
  <1>3. CASE ~Ready(a)
    BY <1>1, <1>3 DEF Retire, ErrorInv
  <1> QED BY <1>2, <1>3

\* The worker leaves it: it is given up.
LEMMA RetireReleasedLife ==
  ASSUME TypeInv, NEW s \in Site, RetireReleased(s), NEW a, a = Current(s), LifeOf(a)
  PROVE  LifeOf(a)'
  <1> USE RetriesAssumption DEF GoTo, flagVars, threadVars, streamVars, closeVars, observerVars,
        workerVars
  <1>1. /\ a \in Adapter /\ a[1] = s /\ a[2] = attempt[s] /\ attempt[s] \in Int
        /\ worker[s] = "retiring" /\ Current(a[1]) = a
    BY CurrentType DEF TypeInv, TypeOK, Current, RetireReleased
  <1>2. /\ UNCHANGED <<open, taken, flagVars, threadVars, closed, cancelled>>
        /\ Current(s)' # a \/ worker'[s] = "dead"
        /\ ~(a[2] > attempt'[s])
    <2>1. attempt'[s] \in {attempt[s], attempt[s] + 1}
      BY DEF RetireReleased, TypeInv, TypeOK
    <2>2. attempt'[s] = attempt[s] => worker'[s] = "dead"
      BY <1>1 DEF RetireReleased, TypeInv, TypeOK
    <2> QED BY <1>1, <2>1, <2>2 DEF RetireReleased, Current
  <1>3. FlagInv(a) /\ ManagedInv(a) /\ KeptInv(a) /\ ErrorInv(a)
    BY DEF LifeOf
  <1>4. /\ a \in managed' <=> a \in managed /\ ~Ready(a)
        /\ Ready(a)' <=> Ready(a)
        /\ ErrorInv(a)'
    BY <1>1, <1>2, <1>3, RetireManaged DEF RetireReleased
  <1>5. \A P : Here(a, P)' => "dead" \in P
    BY <1>1, <1>2 DEF Here
  <1>6. \A P : Here(a, P) <=> "retiring" \in P
    BY <1>1 DEF Here
  <1>7. FlagInv(a)'
    <2>1. /\ ~Here(a, {"releasing"})' /\ ~Here(a, {"started"})' /\ ~Here(a, {"started"})
          /\ ~Here(a, Registered \cup {"creating"})'
          /\ ~Here(a, {"creating", "admitted", "rejected", "starting", "clear"})'
      BY <1>5, <1>6 DEF Registered, InWork
    <2> QED BY <1>1, <1>2, <1>3, <2>1 DEF FlagInv
  <1>8. ManagedInv(a)'
    <2>1. ~Untouched(a) /\ ~Here(a, Registered)
      BY <1>6 DEF Untouched, Places, Registered, InWork
    <2>2. (a \in managed => released[a]) /\ (a \in managed \/ Ready(a))
      BY <1>3, <2>1 DEF ManagedInv
    <2> QED BY <1>2, <1>4, <2>2 DEF ManagedInv
  <1>9. KeptInv(a)'
    <2>1. /\ ~Here(a, {"rejected"})' /\ ~Here(a, InWork)'
          /\ ~Here(a, InWork \cup {"finally", "releasing"})'
          /\ ~Here(a, {"rejected", "scheduling"}) /\ ~Here(a, {"started", "waiting"})
      BY <1>5, <1>6 DEF InWork
    <2>2. Kept(a)' <=> Kept(a)
      BY <1>2 DEF Kept
    <2> QED BY <1>2, <1>3, <1>4, <2>1, <2>2 DEF KeptInv
  <1> QED BY <1>4, <1>7, <1>8, <1>9 DEF LifeOf

\* Every step of a worker, for every adapter.
LEMMA WorkerLife ==
  ASSUME TypeInv, Ownership, LifeInv, NEW s \in Site, WorkerStep(s), NEW a \in Adapter
  PROVE  LifeOf(a)'
  <1>1. LifeOf(a) /\ ClosingInv
    BY DEF LifeInv
  <1>2. CASE a # Current(s) /\ a # Current(s)'
    BY <1>1, <1>2, OthersKept
  <1>3. CASE a = Current(s)
    BY <1>1, <1>3, CreateFailsLife, RegisterLife, CloseRejectedLife, LockStartLife,
         SeeNoStopLife,
       StartOperationLife, MarkStartedLife, StartRefusedLife, SeeResultLife, AbandonLife,
       CompleteUnstartedLife, ReleaseLife, ScheduleCloseLife, RetireReleasedLife, Zenon
    DEF WorkerStep
  <1>4. CASE a # Current(s) /\ a = Current(s)'
    <2>1. CreateFails(s) \/ RetireReleased(s)
      <3>1. attempt' # attempt
        BY <1>4 DEF Current
      <3> QED BY <3>1 DEF WorkerStep, Register, CloseRejected, LockStart, SeeNoStop,
                 StartOperation, MarkStarted, StartRefused, SeeResult, Abandon, EndAttempt,
                 CompleteUnstarted, Release, ScheduleClose
    <2> QED BY <1>1, <1>4, <2>1, NextLife
  <1> QED BY <1>2, <1>3, <1>4

-------------------------------------------------------------------------------
\* The threads of an adapter disturb no other adapter.
LEMMA ThreadsOthers ==
  ASSUME TypeInv, NEW b \in Adapter, OperationStep(b) \/ CleanupStep(b), NEW a \in Adapter,
       a # b,
         LifeOf(a)
  PROVE  LifeOf(a)'
  <1> USE DEF flagVars, threadVars, streamVars, closeVars, observerVars, workerVars
  <1>1. UNCHANGED <<workerVars, closeVars, open>>
    BY DEF OperationStep, CleanupStep, OperationEnds, OperationCompletes,
         OperationRetires, OperationDies, CleanupCloses, CleanupCaptures, CleanupCompletes,
         CleanupRetires
  <1>2. SameFlags(a) /\ SameThreads(a)
    BY DEF SameFlags, SameThreads, TypeInv, TypeOK, Recorded, OperationStep, CleanupStep,
         OperationEnds, OperationCompletes,
         OperationRetires, OperationDies, CleanupCloses, CleanupCaptures, CleanupCompletes,
         CleanupRetires
  <1>3. SameStream(a)
    BY <1>1 DEF SameStream, Retire, OperationStep, CleanupStep, OperationEnds,
         OperationCompletes,
         OperationRetires, OperationDies, CleanupCloses, CleanupCaptures, CleanupCompletes,
         CleanupRetires
  <1>4. Aside(a) /\ Monotone
    BY <1>1 DEF Aside, Current, Monotone
  <1> QED BY <1>2, <1>3, <1>4, SameKeeps

LEMMA OperationEndsLife ==
  ASSUME TypeInv, NEW a \in Adapter, OperationEnds(a), LifeOf(a)
  PROVE  LifeOf(a)'
  <1> USE DEF flagVars, threadVars, streamVars, closeVars, observerVars, workerVars
  <1>1. UNCHANGED <<workerVars, closeVars, open>>
    BY DEF OperationEnds
  <1>2. FlagInv(a) /\ ManagedInv(a) /\ KeptInv(a) /\ ErrorInv(a)
    BY DEF LifeOf
  <1>3. \A P : Here(a, P)' <=> Here(a, P)
    BY <1>1 DEF Here, Current
  <1>4. /\ worker' = worker /\ attempt' = attempt /\ closed' = closed /\ cancelled' = cancelled
        /\ taken' = taken /\ open' = open
    BY <1>1
  <1>5. FlagInv(a)'
    BY <1>2, <1>3, <1>4 DEF TypeInv, TypeOK, FlagInv, OperationEnds, Recorded
  <1>6. Kept(a)' <=> Kept(a)
    BY <1>4 DEF Kept, OperationEnds
  <1>7. managed' = managed
    BY DEF OperationEnds
  <1>8. op[a] # "none" \/ closes[a] # 0
    BY <1>2 DEF FlagInv, OperationEnds
  <1>9. ManagedInv(a)'
    BY <1>2, <1>3, <1>4, <1>7, <1>8 DEF ManagedInv, Untouched, Ready, FlagInv, TypeInv,
         TypeOK, OperationEnds, Recorded
  <1>10. KeptInv(a)'
    BY <1>2, <1>3, <1>4, <1>6, <1>7 DEF KeptInv, TypeInv, TypeOK, OperationEnds, Recorded
  <1>11. ErrorInv(a)'
    BY <1>2, <1>7, <1>8 DEF ErrorInv, ManagedInv, FlagInv, Untouched, Ready, TypeInv, TypeOK,
         OperationEnds, Recorded
  <1> QED BY <1>5, <1>9, <1>10, <1>11 DEF LifeOf

LEMMA OperationCompletesLife ==
  ASSUME TypeInv, NEW a \in Adapter, OperationCompletes(a), LifeOf(a)
  PROVE  LifeOf(a)'
  <1> USE DEF flagVars, threadVars, streamVars, closeVars, observerVars, workerVars
  <1>1. UNCHANGED <<workerVars, closeVars, open>>
    BY DEF OperationCompletes
  <1>2. FlagInv(a) /\ ManagedInv(a) /\ KeptInv(a) /\ ErrorInv(a)
    BY DEF LifeOf
  <1>3. \A P : Here(a, P)' <=> Here(a, P)
    BY <1>1 DEF Here, Current
  <1>4. /\ worker' = worker /\ attempt' = attempt /\ closed' = closed /\ cancelled' = cancelled
        /\ taken' = taken /\ open' = open
    BY <1>1
  <1>5. FlagInv(a)'
    BY <1>2, <1>3, <1>4 DEF TypeInv, TypeOK, FlagInv, OperationCompletes
  <1>6. Kept(a)' <=> Kept(a)
    BY <1>4 DEF Kept, OperationCompletes
  <1>7. managed' = managed
    BY DEF OperationCompletes
  <1>8. op[a] # "none" \/ closes[a] # 0
    BY <1>2 DEF FlagInv, OperationCompletes
  <1>9. ManagedInv(a)'
    BY <1>2, <1>3, <1>4, <1>7, <1>8 DEF ManagedInv, Untouched, Ready, FlagInv, TypeInv,
         TypeOK, OperationCompletes
  <1>10. KeptInv(a)'
    BY <1>2, <1>3, <1>4, <1>6, <1>7 DEF KeptInv, TypeInv, TypeOK, OperationCompletes
  <1>11. ErrorInv(a)'
    BY <1>2, <1>7, <1>8 DEF ErrorInv, ManagedInv, FlagInv, Untouched, Ready, TypeInv, TypeOK,
         OperationCompletes
  <1> QED BY <1>5, <1>9, <1>10, <1>11 DEF LifeOf

LEMMA OperationRetiresLife ==
  ASSUME TypeInv, NEW a \in Adapter, OperationRetires(a), LifeOf(a)
  PROVE  LifeOf(a)'
  <1> USE DEF flagVars, threadVars, streamVars, closeVars, observerVars, workerVars
  <1>1. UNCHANGED <<workerVars, closeVars, open>>
    BY DEF OperationRetires
  <1>2. FlagInv(a) /\ ManagedInv(a) /\ KeptInv(a) /\ ErrorInv(a)
    BY DEF LifeOf
  <1>3. \A P : Here(a, P)' <=> Here(a, P)
    BY <1>1 DEF Here, Current
  <1>4. /\ worker' = worker /\ attempt' = attempt /\ closed' = closed /\ cancelled' = cancelled
        /\ taken' = taken /\ open' = open
    BY <1>1
  <1>5. FlagInv(a)'
    BY <1>2, <1>3, <1>4 DEF TypeInv, TypeOK, FlagInv, OperationRetires
  <1>6. Kept(a)' <=> Kept(a)
    BY <1>4 DEF Kept, OperationRetires
  <1>7. /\ a \in managed' <=> a \in managed /\ ~Ready(a)
        /\ Ready(a)' <=> Ready(a)
        /\ ErrorInv(a)'
    BY <1>2, RetireManaged DEF OperationRetires
  <1>8. op[a] # "none" \/ closes[a] # 0
    BY <1>2 DEF FlagInv, OperationRetires
  <1>9. ManagedInv(a)'
    BY <1>2, <1>3, <1>7, <1>8 DEF ManagedInv, Untouched, OperationRetires
  <1>10. KeptInv(a)'
    BY <1>2, <1>3, <1>4, <1>6, <1>7 DEF KeptInv, TypeInv, TypeOK, OperationRetires
  <1> QED BY <1>5, <1>7, <1>9, <1>10 DEF LifeOf

LEMMA OperationDiesLife ==
  ASSUME TypeInv, NEW a \in Adapter, OperationDies(a), LifeOf(a)
  PROVE  LifeOf(a)'
  <1> USE DEF flagVars, threadVars, streamVars, closeVars, observerVars, workerVars
  <1>1. UNCHANGED <<workerVars, closeVars, open>>
    BY DEF OperationDies
  <1>2. FlagInv(a) /\ ManagedInv(a) /\ KeptInv(a) /\ ErrorInv(a)
    BY DEF LifeOf
  <1>3. \A P : Here(a, P)' <=> Here(a, P)
    BY <1>1 DEF Here, Current
  <1>4. /\ worker' = worker /\ attempt' = attempt /\ closed' = closed /\ cancelled' = cancelled
        /\ taken' = taken /\ open' = open
    BY <1>1
  <1>5. FlagInv(a)'
    BY <1>2, <1>3, <1>4 DEF TypeInv, TypeOK, FlagInv, OperationDies
  <1>6. Kept(a)' <=> Kept(a)
    BY <1>4 DEF Kept, OperationDies
  <1>7. managed' = managed
    BY DEF OperationDies
  <1>8. op[a] # "none" \/ closes[a] # 0
    BY <1>2 DEF FlagInv, OperationDies
  <1>9. ManagedInv(a)'
    BY <1>2, <1>3, <1>4, <1>7, <1>8 DEF ManagedInv, Untouched, Ready, FlagInv, TypeInv,
         TypeOK, OperationDies
  <1>10. KeptInv(a)'
    BY <1>2, <1>3, <1>4, <1>6, <1>7 DEF KeptInv, TypeInv, TypeOK, OperationDies
  <1>11. ErrorInv(a)'
    BY <1>2, <1>7, <1>8 DEF ErrorInv, ManagedInv, FlagInv, Untouched, Ready, TypeInv, TypeOK,
         OperationDies
  <1> QED BY <1>5, <1>9, <1>10, <1>11 DEF LifeOf

LEMMA CleanupClosesLife ==
  ASSUME TypeInv, NEW a \in Adapter, CleanupCloses(a), LifeOf(a)
  PROVE  LifeOf(a)'
  <1> USE DEF flagVars, threadVars, streamVars, closeVars, observerVars, workerVars
  <1>1. UNCHANGED <<workerVars, closeVars, open>>
    BY DEF CleanupCloses
  <1>2. FlagInv(a) /\ ManagedInv(a) /\ KeptInv(a) /\ ErrorInv(a)
    BY DEF LifeOf
  <1>3. \A P : Here(a, P)' <=> Here(a, P)
    BY <1>1 DEF Here, Current
  <1>4. /\ worker' = worker /\ attempt' = attempt /\ closed' = closed /\ cancelled' = cancelled
        /\ taken' = taken /\ open' = open
    BY <1>1
  <1>5. FlagInv(a)'
    BY <1>2, <1>3, <1>4 DEF TypeInv, TypeOK, FlagInv, CleanupCloses, Recorded
  <1>6. Kept(a)' <=> Kept(a)
    BY <1>4 DEF Kept, CleanupCloses
  <1>7. managed' = managed
    BY DEF CleanupCloses
  <1>8. op[a] # "none" \/ closes[a] # 0
    BY <1>2 DEF FlagInv, CleanupCloses
  <1>9. ManagedInv(a)'
    BY <1>2, <1>3, <1>4, <1>7, <1>8 DEF ManagedInv, Untouched, Ready, FlagInv, TypeInv,
         TypeOK, CleanupCloses, Recorded
  <1>10. KeptInv(a)'
    BY <1>2, <1>3, <1>4, <1>6, <1>7 DEF KeptInv, TypeInv, TypeOK, CleanupCloses, Recorded
  <1>11. ErrorInv(a)'
    BY <1>2, <1>7, <1>8 DEF ErrorInv, ManagedInv, FlagInv, Untouched, Ready, TypeInv, TypeOK,
         CleanupCloses, Recorded
  <1> QED BY <1>5, <1>9, <1>10, <1>11 DEF LifeOf

LEMMA CleanupCapturesLife ==
  ASSUME TypeInv, NEW a \in Adapter, CleanupCaptures(a), LifeOf(a)
  PROVE  LifeOf(a)'
  <1> USE DEF flagVars, threadVars, streamVars, closeVars, observerVars, workerVars
  <1>1. UNCHANGED <<workerVars, closeVars, open>>
    BY DEF CleanupCaptures
  <1>2. FlagInv(a) /\ ManagedInv(a) /\ KeptInv(a) /\ ErrorInv(a)
    BY DEF LifeOf
  <1>3. \A P : Here(a, P)' <=> Here(a, P)
    BY <1>1 DEF Here, Current
  <1>4. /\ worker' = worker /\ attempt' = attempt /\ closed' = closed /\ cancelled' = cancelled
        /\ taken' = taken /\ open' = open
    BY <1>1
  <1>5. FlagInv(a)'
    BY <1>2, <1>3, <1>4 DEF TypeInv, TypeOK, FlagInv, CleanupCaptures
  <1>6. Kept(a)' <=> Kept(a)
    BY <1>4 DEF Kept, CleanupCaptures
  <1>7. managed' = managed
    BY DEF CleanupCaptures
  <1>8. op[a] # "none" \/ closes[a] # 0
    BY <1>2 DEF FlagInv, CleanupCaptures
  <1>9. ManagedInv(a)'
    BY <1>2, <1>3, <1>4, <1>7, <1>8 DEF ManagedInv, Untouched, Ready, FlagInv, TypeInv,
         TypeOK, CleanupCaptures
  <1>10. KeptInv(a)'
    BY <1>2, <1>3, <1>4, <1>6, <1>7 DEF KeptInv, TypeInv, TypeOK, CleanupCaptures
  <1>11. ErrorInv(a)'
    BY <1>2, <1>7, <1>8 DEF ErrorInv, ManagedInv, FlagInv, Untouched, Ready, TypeInv, TypeOK,
         CleanupCaptures
  <1> QED BY <1>5, <1>9, <1>10, <1>11 DEF LifeOf

LEMMA CleanupCompletesLife ==
  ASSUME TypeInv, NEW a \in Adapter, CleanupCompletes(a), LifeOf(a)
  PROVE  LifeOf(a)'
  <1> USE DEF flagVars, threadVars, streamVars, closeVars, observerVars, workerVars
  <1>1. UNCHANGED <<workerVars, closeVars, open>>
    BY DEF CleanupCompletes
  <1>2. FlagInv(a) /\ ManagedInv(a) /\ KeptInv(a) /\ ErrorInv(a)
    BY DEF LifeOf
  <1>3. \A P : Here(a, P)' <=> Here(a, P)
    BY <1>1 DEF Here, Current
  <1>4. /\ worker' = worker /\ attempt' = attempt /\ closed' = closed /\ cancelled' = cancelled
        /\ taken' = taken /\ open' = open
    BY <1>1
  <1>5. FlagInv(a)'
    BY <1>2, <1>3, <1>4 DEF TypeInv, TypeOK, FlagInv, CleanupCompletes
  <1>6. Kept(a)' <=> Kept(a)
    BY <1>4 DEF Kept, CleanupCompletes
  <1>7. managed' = managed
    BY DEF CleanupCompletes
  <1>8. op[a] # "none" \/ closes[a] # 0
    BY <1>2 DEF FlagInv, CleanupCompletes
  <1>9. ManagedInv(a)'
    BY <1>2, <1>3, <1>4, <1>7, <1>8 DEF ManagedInv, Untouched, Ready, FlagInv, TypeInv,
         TypeOK, CleanupCompletes
  <1>10. KeptInv(a)'
    BY <1>2, <1>3, <1>4, <1>6, <1>7 DEF KeptInv, TypeInv, TypeOK, CleanupCompletes
  <1>11. ErrorInv(a)'
    BY <1>2, <1>7, <1>8 DEF ErrorInv, ManagedInv, FlagInv, Untouched, Ready, TypeInv, TypeOK,
         CleanupCompletes
  <1> QED BY <1>5, <1>9, <1>10, <1>11 DEF LifeOf

LEMMA CleanupRetiresLife ==
  ASSUME TypeInv, NEW a \in Adapter, CleanupRetires(a), LifeOf(a)
  PROVE  LifeOf(a)'
  <1> USE DEF flagVars, threadVars, streamVars, closeVars, observerVars, workerVars
  <1>1. UNCHANGED <<workerVars, closeVars, open>>
    BY DEF CleanupRetires
  <1>2. FlagInv(a) /\ ManagedInv(a) /\ KeptInv(a) /\ ErrorInv(a)
    BY DEF LifeOf
  <1>3. \A P : Here(a, P)' <=> Here(a, P)
    BY <1>1 DEF Here, Current
  <1>4. /\ worker' = worker /\ attempt' = attempt /\ closed' = closed /\ cancelled' = cancelled
        /\ taken' = taken /\ open' = open
    BY <1>1
  <1>5. FlagInv(a)'
    BY <1>2, <1>3, <1>4 DEF TypeInv, TypeOK, FlagInv, CleanupRetires
  <1>6. Kept(a)' <=> Kept(a)
    BY <1>4 DEF Kept, CleanupRetires
  <1>7. /\ a \in managed' <=> a \in managed /\ ~Ready(a)
        /\ Ready(a)' <=> Ready(a)
        /\ ErrorInv(a)'
    BY <1>2, RetireManaged DEF CleanupRetires
  <1>8. op[a] # "none" \/ closes[a] # 0
    BY <1>2 DEF FlagInv, CleanupRetires
  <1>9. ManagedInv(a)'
    BY <1>2, <1>3, <1>7, <1>8 DEF ManagedInv, Untouched, CleanupRetires
  <1>10. KeptInv(a)'
    BY <1>2, <1>3, <1>4, <1>6, <1>7 DEF KeptInv, TypeInv, TypeOK, CleanupRetires
  <1> QED BY <1>5, <1>7, <1>9, <1>10 DEF LifeOf

\* Every step of a thread of an adapter, for every adapter.
LEMMA ThreadLife ==
  ASSUME TypeInv, LifeInv, NEW b \in Adapter, OperationStep(b) \/ CleanupStep(b),
       NEW a \in Adapter
  PROVE  LifeOf(a)'
  <1>1. LifeOf(a)
    BY DEF LifeInv
  <1>2. CASE a # b
    BY <1>1, <1>2, ThreadsOthers
  <1>3. CASE a = b
    BY <1>1, <1>3, OperationEndsLife, OperationCompletesLife, OperationRetiresLife,
       OperationDiesLife, CleanupClosesLife, CleanupCapturesLife, CleanupCompletesLife,
       CleanupRetiresLife, Zenon DEF OperationStep, CleanupStep
  <1> QED BY <1>2, <1>3

\* close() changes hands: open, taken, closed.
LEMMA CloserLife ==
  ASSUME TypeInv, Ownership, LifeInv, Close \/ CloserStep \/ CallerCancels, NEW a \in Adapter
  PROVE  LifeOf(a)'
  <1> USE DEF flagVars, threadVars, streamVars, closeVars, observerVars, workerVars
  <1>1. LifeOf(a) /\ ClosingInv
    BY DEF LifeInv
  <1>2. Aside(a) /\ SameFlags(a) /\ Monotone
    BY DEF Aside, SameFlags, Current, Monotone, Close, CloserStep, CloseStops, CloseSchedules,
       CloseReturns, CallerCancels
  <1>3. FlagInv(a) /\ ManagedInv(a) /\ KeptInv(a) /\ ErrorInv(a)
    BY <1>1 DEF LifeOf
  <1>4. \A P : Here(a, P)' <=> Here(a, P)
    BY <1>2, AsideHere
  <1>5. CASE CloseStops \/ CloseReturns \/ CallerCancels
    <2>1. SameThreads(a) /\ SameStream(a)
      BY <1>5 DEF SameThreads, SameStream, CloseStops, CloseReturns, CallerCancels
    <2> QED BY <1>1, <1>2, <2>1, SameKeeps
  <1>6. CASE Close
    <2>1. /\ taken' = open /\ open' = {} /\ closed' /\ taken = {}
          /\ UNCHANGED <<workerVars, flagVars, threadVars, managed, captured, cancelled>>
      BY <1>1, <1>6 DEF Close, LeftOpen, ClosingInv
    <2>2. /\ Kept(a)' <=> Kept(a)
          /\ Ready(a)' <=> Ready(a)
          /\ Untouched(a)' <=> Untouched(a)
      BY <1>4, <2>1 DEF Kept, Ready, Untouched
    <2>3. FlagInv(a)'
      BY <1>3, <1>4, <2>1 DEF FlagInv
    <2>4. ManagedInv(a)'
      BY <1>3, <1>4, <2>1, <2>2 DEF ManagedInv
    <2>5. KeptInv(a)'
      BY <1>3, <1>4, <2>1, <2>2 DEF KeptInv
    <2>6. ErrorInv(a)'
      BY <1>3, <2>1 DEF ErrorInv
    <2> QED BY <2>3, <2>4, <2>5, <2>6 DEF LifeOf
  <1>7. CASE CloseSchedules
    <2>1. PICK b \in taken : Schedule(b) /\ taken' = taken \ {b}
      BY <1>7 DEF CloseSchedules
    <2>2. UNCHANGED <<workerVars, flagVars, op, recorded, streamVars, closed, cancelled>>
      BY <1>7 DEF CloseSchedules
    <2>3. CASE a # b
      <3>1. SameThreads(a) /\ SameStream(a)
        BY <2>1, <2>2, <2>3 DEF SameThreads, SameStream, Schedule, TypeInv, TypeOK
      <3> QED BY <1>1, <1>2, <3>1, SameKeeps
    <2>4. CASE a = b
      <3>1. closes[a] = 0 /\ closes'[a] = 1 /\ cleanup'[a] = "closing"
        BY <2>1, <2>4 DEF Schedule, TypeInv, TypeOK, Ownership, TokenInv, Adapter, Attempts
      <3>2. cleanup[a] = "none" /\ ~cleaned[a]
        BY <1>3, <3>1 DEF FlagInv
      <3>3. ~Untouched(a) /\ Kept(a)'
        BY <2>1, <2>4, <3>1 DEF Untouched, Kept
      <3>4. FlagInv(a)'
        BY <1>3, <1>4, <2>2, <3>1, <3>2 DEF FlagInv
      <3>5. ManagedInv(a)'
        BY <1>3, <1>4, <2>2, <3>1, <3>2, <3>3 DEF ManagedInv, Ready
      <3>6. KeptInv(a)'
        BY <1>3, <1>4, <2>2, <3>3 DEF KeptInv
      <3>7. ErrorInv(a)'
        BY <1>3, <2>2 DEF ErrorInv
      <3> QED BY <3>4, <3>5, <3>6, <3>7 DEF LifeOf
    <2> QED BY <2>3, <2>4
  <1> QED BY <1>5, <1>6, <1>7 DEF CloserStep

\* A closed stream has nothing open, and close() takes once.
LEMMA ClosingStep == TypeInv /\ ClosingInv /\ [Next]_vars => ClosingInv'
  <1> SUFFICES ASSUME TypeInv, ClosingInv, [Next]_vars PROVE ClosingInv'
    OBVIOUS
  <1> USE DEF vars, flagVars, threadVars, streamVars, closeVars, observerVars, workerVars,
       ClosingInv
  <1>1. CASE \E s \in Site : WorkerStep(s)
    <2>1. PICK s \in Site : WorkerStep(s)
      BY <1>1
    <2>2. UNCHANGED <<closed, stopped, closer, taken>> /\ (closed => open' \subseteq open)
      BY <2>1 DEF WorkerStep, CreateFails, Register, Admitted, CloseRejected, LockStart,
           SeeNoStop,
               StartOperation, MarkStarted, StartRefused, SeeResult, Abandon, CompleteUnstarted,
               Release, ScheduleClose, RetireReleased, EndAttempt
    <2> QED BY <2>2
  <1>2. CASE \E a \in Adapter : OperationStep(a) \/ CleanupStep(a)
    <2>1. UNCHANGED <<closed, stopped, closer, taken, open>>
      BY <1>2 DEF OperationStep, CleanupStep, OperationEnds, OperationCompletes,
         OperationRetires, OperationDies, CleanupCloses, CleanupCaptures, CleanupCompletes,
         CleanupRetires
    <2> QED BY <2>1
  <1>3. CASE Close \/ CloserStep \/ CallerCancels
    BY <1>3 DEF Close, LeftOpen, CloserStep, CloseStops, CloseSchedules, CloseReturns,
       CallerCancels, TypeInv, TypeOK
  <1>4. CASE ObserverStep \/ Stay \/ UNCHANGED vars
    BY <1>4, ObserverFrame DEF Stay
  <1> QED BY <1>1, <1>2, <1>3, <1>4 DEF Next

LEMMA FrameLife ==
  ASSUME LifeInv, UNCHANGED <<workerVars, flagVars, threadVars, streamVars, closeVars>>,
         NEW a \in Adapter
  PROVE  LifeOf(a)'
  <1>1. Aside(a) /\ SameFlags(a) /\ SameThreads(a) /\ SameStream(a) /\ Monotone
    BY DEF Aside, SameFlags, SameThreads, SameStream, Monotone, Current, workerVars, flagVars,
       threadVars, streamVars, closeVars
  <1> QED BY <1>1, SameKeeps DEF LifeInv

LEMMA LifeStep == TypeInv /\ Ownership /\ LifeInv /\ [Next]_vars => LifeInv'
  <1> SUFFICES ASSUME TypeInv, Ownership, LifeInv, [Next]_vars PROVE LifeInv'
    OBVIOUS
  <1>1. ClosingInv'
    BY ClosingStep DEF LifeInv
  <1>2. ASSUME NEW a \in Adapter PROVE LifeOf(a)'
    <2>1. CASE \E s \in Site : WorkerStep(s)
      BY <2>1, WorkerLife
    <2>2. CASE \E b \in Adapter : OperationStep(b) \/ CleanupStep(b)
      BY <2>2, ThreadLife
    <2>3. CASE Close \/ CloserStep \/ CallerCancels
      BY <2>3, CloserLife
    <2>4. CASE ObserverStep \/ Stay \/ UNCHANGED vars
      <3>1. UNCHANGED <<workerVars, flagVars, threadVars, streamVars, closeVars>>
        BY <2>4, ObserverFrame DEF Stay, vars
      <3> QED BY <3>1, FrameLife
    <2> QED BY <2>1, <2>2, <2>3, <2>4 DEF Next
  <1>3. Adapter' = Adapter
    BY DEF Adapter
  <1> QED BY <1>1, <1>2, <1>3 DEF LifeInv

LEMMA LifeInit == Init => LifeInv
  <1> SUFFICES ASSUME Init PROVE LifeInv
    OBVIOUS
  <1>1. ClosingInv
    BY DEF Init, ClosingInv
  <1>2. ASSUME NEW a \in Adapter PROVE LifeOf(a)
    <2>1. a[1] \in Site
      BY DEF Adapter
    <2>2. \A P : Here(a, P) => "creating" \in P
      BY <2>1 DEF Init, Here
    <2>3. FlagInv(a)
      BY <2>2 DEF Init, FlagInv
    <2>4. ManagedInv(a)
      <3>1. Untouched(a)
        BY <2>2 DEF Init, Untouched
      <3> QED BY <3>1 DEF Init, ManagedInv
    <2>5. KeptInv(a)
      BY <2>2 DEF Init, KeptInv, InWork
    <2>6. ErrorInv(a)
      BY DEF Init, ErrorInv
    <2> QED BY <2>3, <2>4, <2>5, <2>6 DEF LifeOf
  <1> QED BY <1>1, <1>2 DEF LifeInv

-------------------------------------------------------------------------------
\* After close() returned nobody starts a thread any more: what an observer
\* found quiet stays quiet while it reads on.
LEMMA StaysQuiet ==
  ASSUME TypeInv, ClosingInv, closer = "done", [Next]_vars
  PROVE  /\ closer' = "done"
         /\ WorkersQuiet => WorkersQuiet'
         /\ WorkersQuiet /\ OperationsQuiet => OperationsQuiet'
         /\ WorkersQuiet /\ CleanupsQuiet => CleanupsQuiet'
  <1> USE DEF vars, flagVars, threadVars, streamVars, closeVars, observerVars, workerVars
  <1>1. CASE \E s \in Site : WorkerStep(s)
    <2>1. PICK s \in Site : WorkerStep(s)
      BY <1>1
    <2>2. worker[s] # "dead" /\ closer' = closer
      BY <2>1 DEF WorkerStep, CreateFails, Register, CloseRejected, LockStart, SeeNoStop,
         StartOperation, MarkStarted, StartRefused, SeeResult, Abandon, CompleteUnstarted,
         Release, ScheduleClose, RetireReleased
    <2> QED BY <2>2 DEF WorkersQuiet
  <1>2. CASE \E a \in Adapter : OperationStep(a)
    <2>1. PICK a \in Adapter : OperationStep(a)
      BY <1>2
    <2>2. op[a] \notin {"none", "dead"} /\ UNCHANGED <<worker, cleanup, closer>>
      BY <2>1 DEF OperationStep, OperationEnds, OperationCompletes, OperationRetires,
         OperationDies
    <2> QED BY <2>2 DEF WorkersQuiet, OperationsQuiet, CleanupsQuiet
  <1>3. CASE \E a \in Adapter : CleanupStep(a)
    <2>1. PICK a \in Adapter : CleanupStep(a)
      BY <1>3
    <2>2. cleanup[a] \notin {"none", "dead"} /\ UNCHANGED <<worker, op, closer>>
      BY <2>1 DEF CleanupStep, CleanupCloses, CleanupCaptures, CleanupCompletes, CleanupRetires
    <2> QED BY <2>2 DEF WorkersQuiet, OperationsQuiet, CleanupsQuiet
  <1>4. CASE Close \/ CloserStep \/ CallerCancels
    <2>1. CallerCancels
      BY <1>4 DEF Close, CloserStep, CloseStops, CloseSchedules, CloseReturns
    <2> QED BY <2>1 DEF CallerCancels, WorkersQuiet, OperationsQuiet, CleanupsQuiet
  <1>5. CASE ObserverStep \/ Stay \/ UNCHANGED vars
    <2>1. UNCHANGED <<worker, op, cleanup, closer>>
      BY <1>5, ObserverFrame DEF Stay
    <2> QED BY <2>1 DEF WorkersQuiet, OperationsQuiet, CleanupsQuiet
  <1> QED BY <1>1, <1>2, <1>3, <1>4, <1>5 DEF Next

LEMMA ClosedOpen ==
  ASSUME TypeInv, ClosingInv, closer = "done"
  PROVE  open = {} /\ taken = {}
  BY DEF ClosingInv

\* Every read of an observer, after what it read before.
LEMMA ObserverReads ==
  ASSUME TypeInv, ClosingInv, ObserverInv, ObserverStep
  PROVE  ObserverInv'
  <1>1. UNCHANGED <<workerVars, flagVars, threadVars, streamVars, closeVars>>
    BY ObserverFrame
  <1>2. /\ WorkersQuiet' <=> WorkersQuiet
        /\ OperationsQuiet' <=> OperationsQuiet
        /\ CleanupsQuiet' <=> CleanupsQuiet
        /\ Inactive' <=> Inactive
        /\ closer' = closer /\ open' = open
    BY <1>1 DEF WorkersQuiet, OperationsQuiet, CleanupsQuiet, Inactive, workerVars, threadVars,
       streamVars, closeVars
  <1>3. closer = "done" => open = {} /\ taken = {}
    BY ClosedOpen
  <1>4. Inactive => WorkersQuiet /\ OperationsQuiet /\ CleanupsQuiet
    BY DEF Inactive
  <1>5. CASE BeginDiagnostics
    BY <1>2, <1>5 DEF BeginDiagnostics, Looks, Since, ObserverInv
  <1>6. CASE ReadWorkers
    BY <1>2, <1>4, <1>6 DEF ReadWorkers, Reads, Looks, WatchOrder, ObserverInv
  <1>7. CASE ReadOperations
    <2>1. quiet' <=> OperationsQuiet
      BY <1>7, Zenon DEF ReadOperations, Reads, Looks, WatchOrder
    <2> QED BY <1>2, <1>4, <1>7, <2>1 DEF ReadOperations, Reads, Looks, WatchOrder, ObserverInv
  <1>8. CASE ReadCleanups
    <2>1. quiet' <=> CleanupsQuiet
      BY <1>8, Zenon DEF ReadCleanups, Reads, Looks, WatchOrder
    <2> QED BY <1>2, <1>4, <1>8, <2>1 DEF ReadCleanups, Reads, Looks, WatchOrder, ObserverInv
  <1>9. CASE BeginWait
    BY <1>2, <1>9 DEF BeginWait, Looks, WatchOrder, Since, ObserverInv
  <1>10. CASE WaitReadsOperations
    <2>1. quiet' <=> OperationsQuiet
      BY <1>10, Zenon DEF WaitReadsOperations, Reads, Looks, WatchOrder
    <2> QED BY <1>2, <1>4, <1>10, <2>1 DEF WaitReadsOperations, Reads, Looks, WatchOrder,
         ObserverInv
  <1>11. CASE WaitReadsCleanups
    <2>1. quiet' <=> CleanupsQuiet
      BY <1>11, Zenon DEF WaitReadsCleanups, Reads, Looks, WatchOrder
    <2> QED BY <1>2, <1>4, <1>11, <2>1 DEF WaitReadsCleanups, Reads, Looks, WatchOrder,
         ObserverInv
  <1>12. CASE WaitAgain
    BY <1>2, <1>12 DEF WaitAgain, Reads, Looks, WatchOrder, ObserverInv
  <1>13. CASE WaitReadsDiagnostics
    BY <1>2, <1>3, <1>13 DEF WaitReadsDiagnostics, Looks, ObserverInv, Inactive
  <1> QED BY <1>5, <1>6, <1>7, <1>8, <1>9, <1>10, <1>11, <1>12, <1>13 DEF ObserverStep

LEMMA ObserverInvStep == TypeInv /\ LifeInv /\ ObserverInv /\ [Next]_vars => ObserverInv'
  <1> SUFFICES ASSUME TypeInv, LifeInv, ObserverInv, [Next]_vars PROVE ObserverInv'
    OBVIOUS
  <1>1. ClosingInv /\ ClosingInv'
    BY ClosingStep DEF LifeInv
  <1>2. CASE ObserverStep
    BY <1>1, <1>2, ObserverReads
  <1>3. CASE ~ObserverStep
    <2>1. UNCHANGED observerVars
      <3>1. CASE \E s \in Site : WorkerStep(s)
        BY <3>1 DEF WorkerStep, CreateFails, Register, CloseRejected, LockStart, SeeNoStop,
           StartOperation, MarkStarted, StartRefused, SeeResult, Abandon, CompleteUnstarted,
           Release, ScheduleClose, RetireReleased
      <3>2. CASE \E a \in Adapter : OperationStep(a) \/ CleanupStep(a)
        BY <3>2 DEF OperationStep, CleanupStep, OperationEnds, OperationCompletes,
           OperationRetires, OperationDies, CleanupCloses, CleanupCaptures, CleanupCompletes,
           CleanupRetires
      <3>3. CASE Close \/ CloserStep \/ CallerCancels \/ Stay \/ UNCHANGED vars
        BY <3>3 DEF Close, CloserStep, CloseStops, CloseSchedules, CloseReturns, CallerCancels,
           Stay, vars
      <3> QED BY <1>3, <3>1, <3>2, <3>3 DEF Next
    <2>2. watch' = watch /\ quiet' = quiet /\ asked' = asked
      BY <2>1 DEF observerVars
    <2>3. asked # "before" => closer = "done"
      BY DEF ObserverInv
    <2>4. closer = "done" =>
            /\ closer' = "done"
            /\ WorkersQuiet => WorkersQuiet'
            /\ WorkersQuiet /\ OperationsQuiet => OperationsQuiet'
            /\ WorkersQuiet /\ CleanupsQuiet => CleanupsQuiet'
      BY <1>1, StaysQuiet
    <2>5. closer = "done" /\ Inactive => Inactive'
      <3> SUFFICES ASSUME closer = "done", Inactive PROVE Inactive'
        OBVIOUS
      <3>1. WorkersQuiet' /\ OperationsQuiet' /\ CleanupsQuiet' /\ closer' = "done"
        BY <2>4 DEF Inactive
      <3>2. open' = {} /\ taken' = {}
        BY <1>1, <3>1 DEF ClosingInv
      <3> QED BY <3>1, <3>2 DEF Inactive
    <2> QED BY <2>2, <2>3, <2>4, <2>5 DEF ObserverInv
  <1> QED BY <1>2, <1>3

LEMMA ObserverInvInit == Init => ObserverInv
  BY DEF Init, ObserverInv

-------------------------------------------------------------------------------
LifeInvariant == TypeInv /\ Ownership /\ LifeInv

LEMMA LifeCorrect == Spec => []LifeInvariant
  <1>1. Init => LifeInvariant
    BY TypeInit, OwnershipInit, LifeInit DEF LifeInvariant
  <1>2. LifeInvariant /\ [Next]_vars => LifeInvariant'
    BY TypeStep, OwnershipStep, LifeStep DEF LifeInvariant
  <1> QED BY <1>1, <1>2, PTL DEF Spec

\* An adapter that somebody saw is gone from the registry, and was closed once,
\* when nothing runs any more: the last of its threads retired it.
THEOREM NothingIsLeft == Spec => []NothingLeft
  <1>1. LifeInvariant => NothingLeft
    <2> SUFFICES ASSUME LifeInvariant, Inactive
                 PROVE  /\ managed = {}
                        /\ \A a \in Adapter : started[a] => closes[a] = 1
      BY DEF NothingLeft
    <2> USE DEF LifeInvariant
    <2>1. ASSUME NEW a \in Adapter
          PROVE  a \notin managed /\ (started[a] => closes[a] = 1)
      <3>1. FlagInv(a) /\ ManagedInv(a) /\ KeptInv(a)
        BY DEF LifeInv, LifeOf
      <3>2. /\ op[a] \in {"none", "dead"} /\ cleanup[a] \in {"none", "dead"}
            /\ worker[a[1]] = "dead" /\ open = {} /\ taken = {}
        BY DEF Inactive, WorkersQuiet, OperationsQuiet, CleanupsQuiet, Adapter
      <3>3. \A P : Here(a, P) => "dead" \in P
        BY <3>2 DEF Here
      <3>4. closes[a] \in Nat /\ closes[a] <= 1
        BY DEF TypeInv, TypeOK, Ownership, TokenInv, Adapter, Attempts
      <3>5. a \in managed \/ op[a] # "none" => closes[a] = 1
        BY <3>1, <3>2, <3>3, <3>4 DEF KeptInv, Kept
      <3>6. a \in managed => released[a]
        BY <3>1, <3>3 DEF ManagedInv, Registered, InWork
      <3>7. a \in managed => Ready(a)
        BY <3>1, <3>2, <3>5, <3>6 DEF FlagInv, Ready
      <3>8. a \notin managed
        BY <3>1, <3>2, <3>3, <3>7 DEF ManagedInv
      <3> QED BY <3>1, <3>5, <3>8 DEF FlagInv
    <2> QED BY <2>1 DEF TypeInv, TypeOK
  <1> QED BY <1>1, LifeCorrect, PTL

\* An adapter whose operation runs is closed only when the stream stops: while
\* it does not, the worker waits and the adapter is open.
THEOREM ClosedUnderStopOnly == Spec => []NoCloseUnderOperation
  <1>1. LifeInvariant => NoCloseUnderOperation
    <2> SUFFICES ASSUME LifeInvariant, NEW a \in Adapter, op[a] = "running", closes[a] > 0,
                        ~closed, ~cancelled
                 PROVE  FALSE
      BY DEF NoCloseUnderOperation
    <2> USE DEF LifeInvariant
    <2>1. KeptInv(a)
      BY DEF LifeInv, LifeOf
    <2>2. Here(a, InWork)
      BY <2>1 DEF KeptInv, Here, InWork
    <2>3. a \in open
      BY <2>1, <2>2 DEF KeptInv
    <2>4. closes[a] = 0
      BY <2>3 DEF Ownership, TokenInv, Adapter, Attempts
    <2> QED BY <2>4
  <1> QED BY <1>1, LifeCorrect, PTL

\* Once close() returned, an operation that still runs was interrupted by the
\* close of its adapter, or its worker is about to close it.
THEOREM CloseInterrupts == Spec => []OperationsInterrupted
  <1>1. LifeInvariant => OperationsInterrupted
    <2> SUFFICES ASSUME LifeInvariant, closer = "done", NEW a \in Adapter, op[a] = "running"
                 PROVE  closes[a] > 0 \/ (Current(a[1]) = a /\ worker[a[1]] = "scheduling")
      BY DEF OperationsInterrupted
    <2> USE DEF LifeInvariant
    <2>1. KeptInv(a) /\ open = {} /\ taken = {}
      BY ClosedOpen DEF LifeInv, LifeOf
    <2>2. Kept(a) \/ Here(a, {"scheduling"})
      BY <2>1 DEF KeptInv, Here
    <2> QED BY <2>1, <2>2 DEF Kept, Here
  <1> QED BY <1>1, LifeCorrect, PTL

\* What failed to close is never lost: it is read from an adapter that is still
\* managed, or was captured.
THEOREM ErrorsAreVisible == Spec => []ErrorsVisible
  <1>1. LifeInvariant => ErrorsVisible
    BY DEF LifeInvariant, LifeInv, LifeOf, ErrorInv, ErrorsVisible
  <1> QED BY <1>1, LifeCorrect, PTL

\* quiescent, of diagnostics that were asked for after close() returned, is true
\* only when nothing is active, however the threads run between its reads; and
\* wait_closed, when it ends because it found no thread, returns it.
THEOREM QuiescentIsTrueAfterClose == Spec => []QuiescentAfterClose
  <1>1. LifeInvariant /\ ObserverInv => QuiescentAfterClose
    BY ClosedOpen DEF LifeInvariant, LifeInv, ObserverInv, QuiescentAfterClose, Inactive
  <1>2. LifeInvariant /\ ObserverInv /\ [Next]_vars => ObserverInv'
    BY ObserverInvStep DEF LifeInvariant
  <1> QED BY <1>1, <1>2, LifeCorrect, ObserverInvInit, PTL DEF Spec
===============================================================================

-------------------------- MODULE SearchStreamProofs --------------------------
(***************************************************************************)
(* Type correctness of SearchStream and what the application of a stream   *)
(* may rely on, proved for every value of the constants: no job is lost    *)
(* (DeliveryInv), none is delivered twice (FreshInv), the last event comes *)
(* last and a completed site stays completed (EndingInv), pages are turned *)
(* one by one (PlaceInv), a site that does not complete has an error       *)
(* (WhyInv), and all of it together implements JobDelivery.  Each part     *)
(* builds on the invariants before it.                                     *)
(***************************************************************************)
EXTENDS SearchStream, FiniteSetTheorems, TLAPS

-------------------------------------------------------------------------------
\* Types.

\* What type correctness rests on: only a message is put on the queue, and only
\* an event is acknowledged.
OutInv == WorkerTypeOK /\ \A s \in Site : armed[s] => out[s] # Nothing

LastTypeInv ==
  /\ ConsumerTypeOK
  /\ ~lastAcked => last # Nothing
  /\ consumer \in {"acking", "nextAcking"} => ~lastAcked

TypeInv == OutInv /\ SharedTypeOK /\ LastTypeInv /\ DurableTypeOK

LEMMA ReportType ==
  ASSUME NEW s \in Site, NEW n \in Nat, NEW c \in Nat \ {0},
         NEW type \in {"PROGRESS", "WARNING", "ERROR", "SITE_COMPLETE", "WORKER_DONE"}
  PROVE  /\ Message(type, s, NoJob, c, n) \in Messages
         /\ Message(type, s, NoJob, c, n) # Nothing
BY JobAssumption DEF Message, Messages, AdapterTypes, Nothing

LEMMA JobMessageType ==
  ASSUME NEW s \in Site, NEW j \in Job, NEW c \in Nat \ {0}
  PROVE  /\ Message("JOB", s, j, c, 0) \in Messages
         /\ Message("JOB", s, j, c, 0) # Nothing
BY DEF Message, Messages, AdapterTypes, Nothing

LEMMA SeenFinite ==
  ASSUME WorkerTypeOK, NEW s \in Site
  PROVE  IsFiniteSet(seen[s]) /\ Cardinality(seen[s]) \in Nat
BY JobAssumption, FS_Subset, FS_CardinalityType DEF WorkerTypeOK

LEMMA PageType ==
  ASSUME NEW s \in Site, NEW p \in PagesOf(s)
  PROVE  p \in Nat /\ Pages[s][p] \subseteq Job
BY PagesAssumption DEF PagesOf

LEMMA CompleteMessageType ==
  ASSUME WorkerTypeOK, NEW s \in Site
  PROVE  CompleteMessage(s) \in Messages /\ CompleteMessage(s) # Nothing
BY SeenFinite, ReportType DEF CompleteMessage, WorkerTypeOK

LEMMA WorkerReportType ==
  ASSUME WorkerTypeOK, NEW s \in Site,
         NEW type \in {"WARNING", "ERROR", "WORKER_DONE"}
  PROVE  Report(type, s) \in Messages /\ Report(type, s) # Nothing
BY ReportType DEF Report, WorkerTypeOK

LEMMA WorkerTypeStep ==
  ASSUME OutInv, NEW s \in Site, WorkerStep(s) \/ AdapterFails(s)
  PROVE  OutInv'
<1> USE DEF OutInv, WorkerTypeOK, Places, Runs, GoTo, Emit
<1>1. CASE StartWorker(s)
  BY <1>1, CompleteMessageType DEF StartWorker, EmitSiteComplete
<1>2. CASE CreateAdapter(s)
  BY <1>2 DEF CreateAdapter
<1>3. CASE FetchPage(s)
  BY <1>3, PageType DEF FetchPage
<1>4. ASSUME NEW j \in Job, EmitJob(s, j) PROVE OutInv'
  BY <1>4, JobMessageType DEF EmitJob, Looks, JobState
<1>5. ASSUME NEW j \in Job, SkipSeen(s, j) PROVE OutInv'
  BY <1>5 DEF SkipSeen, Looks
<1>6. ASSUME NEW j \in Job, SkipUnreadable(s, j) PROVE OutInv'
  BY <1>6, WorkerReportType DEF SkipUnreadable, Looks
<1>7. CASE FinishPage(s)
  BY <1>7, ReportType DEF FinishPage
<1>8. CASE ScrapeReturns(s)
  BY <1>8, CompleteMessageType DEF ScrapeReturns, EmitSiteComplete
<1>9. CASE Abandon(s)
  BY <1>9 DEF Abandon
<1>10. CASE Retry(s)
  BY <1>10 DEF Retry
<1>11. CASE FinishWorker(s)
  BY <1>11, WorkerReportType DEF FinishWorker
<1>12. CASE PutChecks(s)
  BY <1>12 DEF PutChecks
<1>13. CASE PutSucceeds(s)
  BY <1>13 DEF PutSucceeds
<1>14. CASE PutTimesOut(s)
  BY <1>14 DEF PutTimesOut
<1>15. CASE PutRefused(s)
  BY <1>15 DEF PutRefused
<1>16. ASSUME NEW kind \in FailureKinds, Fail(s, kind) PROVE OutInv'
  <2>1. CASE LimitReached(s)
    BY <1>16, <2>1, CompleteMessageType DEF Fail, InAttempt, EmitSiteComplete
  <2>2. CASE ~LimitReached(s) /\ RetriesLeft(s)
    BY <1>16, <2>2, WorkerReportType, BoundAssumption DEF Fail, InAttempt, RetriesLeft
  <2>3. CASE ~LimitReached(s) /\ ~RetriesLeft(s)
    BY <1>16, <2>3, WorkerReportType DEF Fail, InAttempt
  <2> QED
    BY <2>1, <2>2, <2>3
<1>17. CASE FailAbruptly(s)
  BY <1>17 DEF FailAbruptly, InAttempt, AfterBaseException
<1> QED
  BY <1>1, <1>2, <1>3, <1>4, <1>5, <1>6, <1>7, <1>8, <1>9, <1>10, <1>11, <1>12, <1>13,
     <1>14, <1>15, <1>16, <1>17 DEF WorkerStep, AdapterFails

LEMMA AckedType ==
  ASSUME DurableTypeOK, NEW e \in Messages \cup {SearchComplete}
  PROVE  Acked(e) \in Checkpoints
<1>1. CASE e = SearchComplete
  BY <1>1 DEF Acked, SearchComplete, Message, DurableTypeOK, Checkpoints
<1>2. CASE e \in Messages
  <2>1. /\ e.type # "SEARCH_COMPLETE" /\ e.site \in Site /\ e.cursor \in Nat \ {0}
        /\ e.type = "JOB" => e.job \in Job
    BY <1>2 DEF Messages, AdapterTypes
  <2>2. /\ checkpoint = [cursor |-> checkpoint.cursor, seen |-> checkpoint.seen,
                         completed |-> checkpoint.completed, done |-> checkpoint.done]
        /\ checkpoint.cursor \in [Site -> Nat \ {0}] /\ checkpoint.seen \in [Site -> SUBSET Job]
        /\ checkpoint.completed \in [Site -> BOOLEAN] /\ checkpoint.done \in BOOLEAN
    BY DEF DurableTypeOK, Checkpoints
  <2>3. Acked(e) = [cursor    |-> [checkpoint.cursor EXCEPT ![e.site] = e.cursor],
                    seen      |-> [checkpoint.seen EXCEPT ![e.site] =
                                     IF e.type = "JOB" THEN @ \cup {e.job} ELSE @],
                    completed |-> [checkpoint.completed EXCEPT ![e.site] =
                                     e.type = "SITE_COMPLETE"],
                    done      |-> checkpoint.done]
    BY <2>1, <2>2 DEF Acked
  <2> QED
    BY <2>1, <2>2, <2>3 DEF Checkpoints
<1> QED
  BY <1>1, <1>2

LEMMA PendingCount == Cardinality(Pending(checkpoint)) \in Int
<1>1. IsFiniteSet(Site)
  BY SiteAssumption
<1> QED
  BY <1>1, FS_Subset, FS_CardinalityType DEF Pending

LEMMA EmptyQueue == <<>> \in Seq(Messages \cup {Wake}) /\ Len(<<>>) = 0
OBVIOUS

LEMMA TypeInit == Init => TypeInv
<1> SUFFICES ASSUME Init PROVE TypeInv
  OBVIOUS
<1>1. checkpoint \in Checkpoints
  BY DEF Init, NewCheckpoint, Checkpoints
<1>2. OutInv
  BY <1>1, BoundAssumption DEF Init, NewCheckpoint, OutInv, WorkerTypeOK, Places
<1>3. SharedTypeOK
  <2>1. queue \in Seq(Messages \cup {Wake}) /\ Len(queue) = 0
    BY EmptyQueue DEF Init
  <2>2. /\ source = FALSE /\ latched = FALSE
        /\ stopped = FALSE /\ closed = FALSE /\ closer = "none"
    BY DEF Init
  <2> QED
    <3>1. Len(queue) <= QueueSize
      BY <2>1, BoundAssumption
    <3> QED
      BY <2>1, <2>2, <3>1 DEF SharedTypeOK
<1>4. LastTypeInv
  BY SiteAssumption, FS_CardinalityType DEF Init, LastTypeInv, ConsumerTypeOK, Consumers
<1>5. DurableTypeOK
  BY <1>1, BoundAssumption DEF Init, DurableTypeOK
<1> QED
  BY <1>2, <1>3, <1>4, <1>5 DEF TypeInv

LEMMA HeldMessage ==
  ASSUME ConsumerTypeOK, held.type \in AdapterTypes
  PROVE  held \in Messages /\ held # Nothing
BY DEF ConsumerTypeOK, AdapterTypes, Nothing, Wake, Message

LEMMA LastTypeStep == TypeInv /\ [Next]_vars => LastTypeInv'
<1> SUFFICES ASSUME TypeInv, [Next]_vars PROVE LastTypeInv'
  OBVIOUS
<1> USE DEF LastTypeInv, ConsumerTypeOK, Consumers
<1>0. LastTypeInv /\ SharedTypeOK
  BY DEF TypeInv
<1>1. CASE UNCHANGED consumerVars
  BY <1>0, <1>1 DEF consumerVars
<1>2. CASE AckStep \/ AckFails
  <2>1. CASE CallAck
    BY <1>0, <2>1 DEF CallAck, Unacked
  <2>2. CASE AckSaves
    BY <1>0, <2>2 DEF AckSaves
  <2>3. CASE AckFails
    BY <1>0, <2>3 DEF AckFails, ConsumerGoes
  <2> QED
    BY <1>2, <2>1, <2>2, <2>3 DEF AckStep
<1>3. CASE Get
  BY <1>0, <1>3 DEF Get, SharedTypeOK
<1>4. CASE Deliver \/ CountWorkerDone
  <2>1. CASE Deliver
    <3>1. last' \in Messages /\ last' # Nothing
      BY <1>0, <2>1, HeldMessage DEF Deliver, Holds
    <3>2. errors' \in Nat
      BY <1>0, <2>1 DEF Deliver
    <3>3. held' = Nothing /\ consumer' = "idle" /\ lastAcked' = FALSE
          /\ UNCHANGED <<active, outcome>>
      BY <2>1 DEF Deliver, Holds
    <3> QED
      BY <1>0, <3>1, <3>2, <3>3
  <2>2. CASE CountWorkerDone
    BY <1>0, <2>2 DEF CountWorkerDone, Holds
  <2> QED
    BY <1>4, <2>1, <2>2
<1>5. CASE DeliverSearchComplete
  BY <1>0, <1>5 DEF DeliverSearchComplete, CompletedOutcome, SearchComplete, Nothing, Message
<1>6. CASE DropHeld
  BY <1>0, <1>6 DEF DropHeld
<1>7. CASE CallNext \/ NextEnds \/ NextSeesClosed \/ NextSeesCancel \/ NextRaises
           \/ NextWaits \/ GetTimesOut
  BY <1>0, <1>7 DEF CallNext, NextEnds, NextSeesClosed, NextSeesCancel, NextRaises, NextWaits,
                    GetTimesOut, ConsumerGoes, Unacked
<1>8. CASE Resume
  BY <1>8, PendingCount DEF Resume
<1>9. CASE CloserStep \/ CloseCalled \/ CallerCancels \/ Stay
  BY <1>1, <1>9 DEF CloserStep, CloseStops, CloseWakes, CloseMakesRoom, CloseCalled,
                    CallerCancels, Stay, vars
<1>10. ASSUME NEW s \in Site, WorkerStep(s) \/ AdapterFails(s) PROVE LastTypeInv'
  BY <1>1, <1>10
     DEF WorkerStep, AdapterFails, StartWorker, CreateAdapter, FetchPage, EmitJob, SkipSeen,
         SkipUnreadable, FinishPage, ScrapeReturns, Abandon, Retry, FinishWorker, PutChecks,
         PutSucceeds, PutTimesOut, PutRefused, Fail, FailAbruptly, WorkerUnchanged
<1> QED
  BY <1>1, <1>2, <1>3, <1>4, <1>5, <1>6, <1>7, <1>8, <1>9, <1>10 DEF Next, NextStep, vars

LEMMA DurableTypeStep == TypeInv /\ [Next]_vars => DurableTypeOK'
<1> SUFFICES ASSUME TypeInv, [Next]_vars PROVE DurableTypeOK'
  OBVIOUS
<1> USE DEF DurableTypeOK
<1>0. DurableTypeOK /\ LastTypeInv
  BY DEF TypeInv
<1>1. CASE UNCHANGED durableVars
  BY <1>0, <1>1 DEF durableVars
<1>2. CASE AckSaves
  BY <1>0, <1>2, AckedType DEF AckSaves, LastTypeInv, ConsumerTypeOK
<1>3. CASE Deliver
  BY <1>0, <1>3, HeldMessage DEF Deliver, Holds, LastTypeInv, Messages
<1>4. CASE Resume
  BY <1>0, <1>4, BoundAssumption DEF Resume
<1>5. CASE CallAck \/ AckFails \/ (NextStep /\ ~Deliver)
  BY <1>1, <1>5
     DEF CallAck, AckFails, NextStep, CallNext, NextEnds, NextSeesClosed, NextSeesCancel,
         NextRaises, DeliverSearchComplete, NextWaits, GetTimesOut, Get, DropHeld, CountWorkerDone
<1>6. CASE CloserStep \/ CloseCalled \/ CallerCancels \/ Stay
  BY <1>1, <1>6 DEF CloserStep, CloseStops, CloseWakes, CloseMakesRoom, CloseCalled,
                    CallerCancels, Stay, vars
<1>7. ASSUME NEW s \in Site, WorkerStep(s) \/ AdapterFails(s) PROVE DurableTypeOK'
  BY <1>1, <1>7
     DEF WorkerStep, AdapterFails, StartWorker, CreateAdapter, FetchPage, EmitJob, SkipSeen,
         SkipUnreadable, FinishPage, ScrapeReturns, Abandon, Retry, FinishWorker, PutChecks,
         PutSucceeds, PutTimesOut, PutRefused, Fail, FailAbruptly, WorkerUnchanged
<1> QED
  BY <1>1, <1>2, <1>3, <1>4, <1>5, <1>6, <1>7 DEF Next, AckStep, vars

LEMMA SharedTypeStep == TypeInv /\ [Next]_vars => SharedTypeOK'
<1> SUFFICES ASSUME TypeInv, [Next]_vars PROVE SharedTypeOK'
  OBVIOUS
<1> USE BoundAssumption DEF SharedTypeOK, cancelVars
<1>0. SharedTypeOK /\ OutInv
  BY DEF TypeInv
<1>1. ASSUME NEW s \in Site, PutSucceeds(s) PROVE SharedTypeOK'
  <2>1. out[s] \in Messages
    BY <1>0, <1>1 DEF OutInv, WorkerTypeOK, PutSucceeds
  <2> QED
    BY <1>0, <1>1, <2>1 DEF PutSucceeds
<1>2. ASSUME NEW s \in Site, WorkerStep(s) \/ AdapterFails(s), ~PutSucceeds(s)
      PROVE  SharedTypeOK'
  <2>1. queue' = queue /\ closed' = closed /\ closer' = closer /\ stopped' = stopped
        /\ source' = source /\ latched' \in BOOLEAN
    BY <1>0, <1>2
       DEF WorkerStep, AdapterFails, StartWorker, CreateAdapter, FetchPage, EmitJob, SkipSeen,
           SkipUnreadable, FinishPage, ScrapeReturns, Abandon, Retry, FinishWorker, PutChecks,
           PutTimesOut, PutRefused, Fail, FailAbruptly, WorkerUnchanged, SeesCancel, Latch
  <2> QED
    BY <1>0, <2>1
<1>3. CASE CloserStep
  <2>1. CASE CloseWakes
    BY <1>0, <2>1 DEF CloseWakes
  <2>2. CASE CloseMakesRoom
    BY <1>0, <2>2 DEF CloseMakesRoom
  <2>3. CASE CloseStops
    BY <1>0, <2>3 DEF CloseStops
  <2> QED
    BY <1>3, <2>1, <2>2, <2>3 DEF CloserStep
<1>4. CASE CloseCalled \/ CallerCancels
  BY <1>0, <1>4 DEF CloseCalled, BeginClose, CallerCancels
<1>5. CASE AckStep \/ AckFails
  BY <1>0, <1>5 DEF AckStep, AckFails, CallAck, AckSaves, ConsumerGoes, BeginClose
<1>6. CASE Get
  BY <1>0, <1>6 DEF Get
<1>7. CASE NextStep /\ ~Get
  <2>1. queue' = queue /\ closed' \in BOOLEAN /\ closer' \in {closer, "stop"}
        /\ stopped' = stopped /\ source' = source /\ latched' \in BOOLEAN
    BY <1>0, <1>7
       DEF NextStep, CallNext, NextEnds, NextSeesClosed, NextSeesCancel, NextRaises,
           DeliverSearchComplete, NextWaits, GetTimesOut, DropHeld, CountWorkerDone, Deliver,
           BeginClose, SeesExternalCancel, Latch
  <2> QED
    BY <1>0, <2>1
<1>8. CASE Resume
  <2>1. queue' \in Seq(Messages \cup {Wake}) /\ Len(queue') = 0
    BY <1>8, EmptyQueue DEF Resume
  <2>2. /\ source' = FALSE /\ latched' = FALSE
        /\ stopped' = FALSE /\ closed' = FALSE /\ closer' = "none"
    BY <1>8 DEF Resume
  <2> QED
    <3>1. Len(queue') <= QueueSize
      BY <2>1, BoundAssumption
    <3> QED
      BY <2>1, <2>2, <3>1
<1>9. CASE Stay \/ UNCHANGED vars
  BY <1>0, <1>9 DEF Stay, vars
<1> QED
  BY <1>1, <1>2, <1>3, <1>4, <1>5, <1>6, <1>7, <1>8, <1>9 DEF Next

\* Every step keeps the types and the two facts they rest on.
LEMMA TypeStep == TypeInv /\ [Next]_vars => TypeInv'
<1> SUFFICES ASSUME TypeInv, [Next]_vars PROVE TypeInv'
  OBVIOUS
<1>1. OutInv'
  <2>0. OutInv
    BY DEF TypeInv
  <2>1. CASE UNCHANGED workerVars
    BY <2>0, <2>1 DEF workerVars, OutInv, WorkerTypeOK
  <2>2. ASSUME NEW s \in Site, WorkerStep(s) \/ AdapterFails(s) PROVE OutInv'
    BY <2>0, <2>2, WorkerTypeStep
  <2>3. CASE Resume
    BY <2>3, BoundAssumption DEF Resume, OutInv, WorkerTypeOK, Places, TypeInv, DurableTypeOK,
                                 Checkpoints, ResumedKeys
  <2>4. CASE AckStep \/ AckFails \/ NextStep
    BY <2>1, <2>4
       DEF AckStep, CallAck, AckSaves, AckFails, NextStep, CallNext, NextEnds, NextSeesClosed,
           NextSeesCancel, NextRaises, DeliverSearchComplete, NextWaits, GetTimesOut, Get,
           DropHeld, CountWorkerDone, Deliver
  <2>5. CASE CloserStep \/ CloseCalled \/ CallerCancels \/ Stay
    BY <2>1, <2>5 DEF CloserStep, CloseStops, CloseWakes, CloseMakesRoom, CloseCalled,
                      CallerCancels, Stay, vars
  <2> QED
    BY <2>1, <2>2, <2>3, <2>4, <2>5 DEF Next, vars
<1> QED
  BY <1>1, SharedTypeStep, LastTypeStep, DurableTypeStep DEF TypeInv

\* Every reachable state of every stream is well typed; in particular the queue
\* never holds more than queue_size entries and no worker goes beyond
\* max_retries retries.
THEOREM TypeCorrect == Spec => []TypeOK
<1>1. TypeInv => TypeOK
  BY DEF TypeInv, TypeOK, OutInv, LastTypeInv
<1> QED
  BY TypeInit, TypeStep, <1>1, PTL DEF Spec


-------------------------------------------------------------------------------
\* The key message m carries for site s, as a set.
JobOf(m, s) == IF m.type = "JOB" /\ m.site = s THEN {m.job} ELSE {}

\* What the application has of s once it acknowledges the last event.
Got(s) == checkpoint.seen[s] \cup JobOf(last, s)
GotKeys == [s \in Site |-> Got(s)]

\* What a consumer that holds h and takes the entries of the queue q in turn has
\* dealt with when it comes to entry i.
Earlier(h, q, i) == {h} \cup {q[k] : k \in 1..(i - 1)}

\* The keys an application that has the keys got has then.
Before(got, h, q, i, s) == got[s] \cup UNION {JobOf(m, s) : m \in Earlier(h, q, i)}

\* Message m may be acknowledged by an application that has the keys S of its
\* site: everything listed before the state it carries is among them.
Sound(m, S) ==
  /\ Covers(S, m.site, m.cursor)
  /\ m.type = "SITE_COMPLETE" => CoversAll(S, m.site)

\* Control state of the consumer, and of close().
ConsumerInv ==
  /\ consumer \in {"next", "waiting", "holding"} => lastAcked
  /\ consumer # "holding" => held = Nothing
  /\ closer # "none" => closed
  /\ stopped => closed
  /\ outcome # "none" => /\ last = SearchComplete
                         /\ consumer \notin {"waiting", "holding"}
  /\ outcome = "complete" => \A s \in Site : checkpoint.completed[s]

\* The last event, and the checkpoint when it is acknowledged.
LastInv ==
  /\ lastAcked => \A s \in Site : JobOf(last, s) \subseteq checkpoint.seen[s]
  /\ last \in Messages => Sound(last, Got(last.site))
  /\ \A s \in Site : Got(s) \subseteq delivered[s]

\* Everything that can still be delivered may be acknowledged in its turn.
Deliverable(got, h, q) ==
  /\ h \in Messages => Sound(h, got[h.site])
  /\ \A i \in 1..Len(q) :
       q[i] \in Messages => Sound(q[i], Before(got, h, q, i, q[i].site))

\* Every key of a context is acknowledged, delivered or on its way.
Accounted(got, h, q, keys, sending) ==
  \A s \in Site :
    keys[s] \subseteq Before(got, h, q, Len(q) + 1, s) \cup JobOf(sending[s], s)

\* Once the stream is closed nothing of it is delivered, and the wake-up may
\* have pushed messages out.
QueueInv ==
  ~closed => /\ Deliverable(GotKeys, held, queue)
             /\ Accounted(GotKeys, held, queue, seen, out)

\* The context of a worker: before cancellation its state is covered by its
\* keys, and a message that passed the check of _put_message stays sound.
CursorSound(s) == stopped \/ latched \/ Covers(seen[s], s, cursor[s])

PageSound(s) ==
  \/ stopped \/ latched \/ worker[s] # "page" \/ Limited(seen[s])
  \/ /\ cursor[s] \in PagesOf(s)
     /\ Readable(s, cursor[s]) \subseteq seen[s] \cup todo[s]

OutSound(s) ==
  out[s] # Nothing =>
    /\ out[s].site = s
    /\ armed[s] \/ ~(stopped \/ latched) => Sound(out[s], seen[s] \ JobOf(out[s], s))

WorkerInv == \A s \in Site : CursorSound(s) /\ PageSound(s) /\ OutSound(s)

DeliveryInv ==
  /\ TypeInv /\ ConsumerInv /\ LastInv /\ QueueInv /\ WorkerInv
  /\ NoJobLost /\ CompletedIsExhausted

-------------------------------------------------------------------------------
\* Lemmas about keys and messages.

LEMMA CoversMono ==
  ASSUME NEW T \in SUBSET Job, NEW S \in SUBSET T, NEW s, NEW n
  PROVE  /\ Limited(S) => Limited(T)
         /\ Covers(S, s, n) => Covers(T, s, n)
         /\ CoversAll(S, s) => CoversAll(T, s)
<1>1. IsFiniteSet(T) /\ Cardinality(S) <= Cardinality(T)
  BY JobAssumption, FS_Subset
<1>2. Cardinality(S) \in Nat /\ Cardinality(T) \in Nat
  BY <1>1, FS_Subset, FS_CardinalityType
<1>3. Limited(S) => Limited(T)
  BY <1>1, <1>2, BoundAssumption DEF Limited
<1> QED
  BY <1>3 DEF Covers, CoversAll

LEMMA SoundMono ==
  ASSUME NEW m, NEW T \in SUBSET Job, NEW S \in SUBSET T, Sound(m, S)
  PROVE  Sound(m, T)
BY CoversMono DEF Sound

LEMMA JobOfType ==
  ASSUME NEW m \in Messages \cup {Nothing, Wake, SearchComplete}, NEW s
  PROVE  /\ JobOf(m, s) \subseteq Job
         /\ m.type # "JOB" => JobOf(m, s) = {}
BY DEF JobOf, Messages, Nothing, Wake, SearchComplete, Message

LEMMA NoMessage ==
  /\ Nothing \notin Messages /\ Wake \notin Messages /\ SearchComplete \notin Messages
  /\ \A s : JobOf(Nothing, s) = {} /\ JobOf(Wake, s) = {} /\ JobOf(SearchComplete, s) = {}
BY DEF JobOf, Messages, Nothing, Wake, SearchComplete, Message, AdapterTypes

LEMMA KeysType ==
  ASSUME TypeInv
  PROVE  /\ GotKeys \in [Site -> SUBSET Job]
         /\ \A s \in Site : GotKeys[s] = Got(s) /\ Got(s) \subseteq Job
         /\ \A s \in Site : JobOf(held, s) \subseteq Job
<1>1. \A s \in Site : checkpoint.seen[s] \subseteq Job
  BY DEF TypeInv, DurableTypeOK, Checkpoints
<1>2. \A s \in Site : JobOf(last, s) \subseteq Job /\ JobOf(held, s) \subseteq Job
  BY JobOfType DEF TypeInv, LastTypeInv, ConsumerTypeOK
<1> QED
  BY <1>1, <1>2 DEF Got, GotKeys

LEMMA AckedSeen ==
  ASSUME TypeInv, last # Nothing, NEW s \in Site
  PROVE  /\ Acked(last).seen[s] = Got(s)
         /\ Acked(last).cursor[s] =
              IF last \in Messages /\ last.site = s THEN last.cursor ELSE checkpoint.cursor[s]
         /\ Acked(last).completed[s] =
              IF last \in Messages /\ last.site = s THEN last.type = "SITE_COMPLETE"
              ELSE checkpoint.completed[s]
<1>1. checkpoint \in Checkpoints /\ last \in Messages \cup {SearchComplete}
  BY DEF TypeInv, LastTypeInv, ConsumerTypeOK, DurableTypeOK
<1>2. CASE last = SearchComplete
  BY <1>1, <1>2, NoMessage DEF Acked, SearchComplete, Message, Got
<1>3. CASE last \in Messages
  <2>1. last.type # "SEARCH_COMPLETE" /\ last.site \in Site
    BY <1>3 DEF Messages, AdapterTypes
  <2>2. checkpoint = [cursor |-> checkpoint.cursor, seen |-> checkpoint.seen,
                      completed |-> checkpoint.completed, done |-> checkpoint.done]
        /\ checkpoint.seen \in [Site -> SUBSET Job]
        /\ checkpoint.cursor \in [Site -> Nat \ {0}]
        /\ checkpoint.completed \in [Site -> BOOLEAN]
    BY <1>1 DEF Checkpoints
  <2> QED
    BY <1>3, <2>1, <2>2 DEF Acked, Got, JobOf
<1> QED
  BY <1>1, <1>2, <1>3

-------------------------------------------------------------------------------
\* Control state.

LEMMA ConsumerStep ==
  TypeInv /\ ConsumerInv /\ [Next]_vars => ConsumerInv'
<1> SUFFICES ASSUME TypeInv, ConsumerInv, [Next]_vars PROVE ConsumerInv'
  OBVIOUS
<1> USE DEF ConsumerInv, cancelVars, consumerVars, durableVars
<1>1. ASSUME NEW s \in Site, WorkerStep(s) \/ AdapterFails(s) PROVE ConsumerInv'
  <2>1. UNCHANGED <<consumerVars, durableVars, stopped, closed, closer>>
    BY <1>1
       DEF WorkerStep, AdapterFails, StartWorker, CreateAdapter, FetchPage, EmitJob, SkipSeen,
           SkipUnreadable, FinishPage, ScrapeReturns, Abandon, Retry, FinishWorker, PutChecks,
           PutSucceeds, PutTimesOut, PutRefused, Fail, FailAbruptly, WorkerUnchanged
  <2> QED
    BY <2>1
<1>2. CASE CallAck
  BY <1>2 DEF CallAck
<1>3. CASE AckFails
  BY <1>3 DEF AckFails, ConsumerGoes, BeginClose
<1>4. CASE AckSaves
  <2>1. last # Nothing
    BY <1>4 DEF AckSaves, TypeInv, LastTypeInv
  <2>2. outcome # "none" => \A s \in Site : checkpoint'.completed[s] = checkpoint.completed[s]
    BY <1>4, <2>1, AckedSeen, NoMessage DEF AckSaves
  <2> QED
    BY <1>4, <2>2 DEF AckSaves
<1>5. CASE DeliverSearchComplete
  BY <1>5 DEF DeliverSearchComplete, Continues, CompletedOutcome
<1>6. CASE Deliver \/ CountWorkerDone \/ DropHeld \/ Get
  BY <1>6 DEF Deliver, CountWorkerDone, DropHeld, Get, Holds
<1>7. CASE CallNext \/ NextEnds \/ NextSeesClosed \/ NextSeesCancel \/ NextRaises
           \/ NextWaits \/ GetTimesOut
  BY <1>7 DEF CallNext, NextEnds, NextSeesClosed, NextSeesCancel, NextRaises, NextWaits,
              GetTimesOut, ConsumerGoes, Unacked, Continues, BeginClose
<1>8. CASE CloserStep \/ CloseCalled \/ CallerCancels
  BY <1>8 DEF CloserStep, CloseStops, CloseWakes, CloseMakesRoom, CloseCalled, BeginClose,
              CallerCancels
<1>9. CASE Resume
  BY <1>9 DEF Resume
<1>10. CASE Stay \/ UNCHANGED vars
  BY <1>10 DEF Stay, vars
<1> QED
  BY <1>1, <1>2, <1>3, <1>4, <1>5, <1>6, <1>7, <1>8, <1>9, <1>10 DEF Next, AckStep, NextStep

-------------------------------------------------------------------------------
\* The last event.

LEMMA LastStep ==
  TypeInv /\ ConsumerInv /\ LastInv /\ QueueInv /\ [Next]_vars => LastInv'
<1> SUFFICES ASSUME TypeInv, ConsumerInv, LastInv, QueueInv, [Next]_vars PROVE LastInv'
  OBVIOUS
<1>1. CASE UNCHANGED <<last, lastAcked, checkpoint, delivered>>
  BY <1>1 DEF LastInv, Got
<1>2. CASE AckSaves
  <2>1. last # Nothing /\ last' = last /\ delivered' = delivered /\ checkpoint' = Acked(last)
    BY <1>2 DEF AckSaves, TypeInv, LastTypeInv
  <2>2. \A s \in Site : checkpoint'.seen[s] = Got(s) /\ Got(s)' = Got(s)
    BY <2>1, AckedSeen DEF Got
  <2>3. last \in Messages => last.site \in Site
    BY DEF Messages
  <2> QED
    BY <2>1, <2>2, <2>3 DEF LastInv, Got
<1>3. CASE Deliver
  <2>1. /\ held \in Messages /\ held.site \in Site /\ ~closed /\ lastAcked
        /\ last' = held /\ checkpoint' = checkpoint /\ lastAcked' = FALSE
    BY <1>3, HeldMessage DEF Deliver, Holds, ConsumerInv, TypeInv, LastTypeInv, Messages
  <2>2. \A s \in Site : Got(s) = checkpoint.seen[s]
                        /\ Got(s)' = Got(s) \cup JobOf(held, s)
    BY <2>1 DEF LastInv, Got
  <2>3. Sound(held, Got(held.site))
    BY <2>1, KeysType DEF QueueInv, Deliverable
  <2>4. \A s \in Site : Got(s) \cup JobOf(held, s) \subseteq Job
    BY KeysType
  <2>5. Sound(last', Got(last.site)')
    BY <2>1, <2>2, <2>3, <2>4, SoundMono
  <2>6. \A s \in Site : Got(s)' \subseteq delivered'[s]
    <3>1. delivered \in [Site -> SUBSET Job]
      BY DEF TypeInv, DurableTypeOK
    <3> QED
      BY <1>3, <2>1, <2>2, <3>1 DEF Deliver, LastInv, JobOf
  <2> QED
    BY <2>1, <2>5, <2>6 DEF LastInv
<1>4. CASE DeliverSearchComplete
  <2>1. lastAcked /\ last' = SearchComplete /\ lastAcked' = FALSE
        /\ UNCHANGED <<checkpoint, delivered>>
    BY <1>4 DEF DeliverSearchComplete, Continues, ConsumerInv, durableVars
  <2> QED
    BY <2>1, NoMessage DEF LastInv, Got
<1>5. CASE Resume
  BY <1>5, NoMessage DEF Resume, LastInv, Got
<1>6. ASSUME NEW s \in Site, WorkerStep(s) \/ AdapterFails(s) PROVE LastInv'
  BY <1>1, <1>6
     DEF WorkerStep, AdapterFails, StartWorker, CreateAdapter, FetchPage, EmitJob, SkipSeen,
         SkipUnreadable, FinishPage, ScrapeReturns, Abandon, Retry, FinishWorker, PutChecks,
         PutSucceeds, PutTimesOut, PutRefused, Fail, FailAbruptly, WorkerUnchanged,
         consumerVars, durableVars
<1>7. CASE CallAck \/ AckFails \/ (NextStep /\ ~Deliver /\ ~DeliverSearchComplete)
  BY <1>1, <1>7
     DEF CallAck, AckFails, NextStep, CallNext, NextEnds, NextSeesClosed, NextSeesCancel,
         NextRaises, NextWaits, GetTimesOut, Get, DropHeld, CountWorkerDone, ConsumerGoes,
         durableVars
<1>8. CASE CloserStep \/ CloseCalled \/ CallerCancels \/ Stay \/ UNCHANGED vars
  BY <1>1, <1>8 DEF CloserStep, CloseStops, CloseWakes, CloseMakesRoom, CloseCalled,
                    CallerCancels, Stay, vars, consumerVars, durableVars
<1> QED
  BY <1>2, <1>3, <1>4, <1>5, <1>6, <1>7, <1>8 DEF Next, AckStep

-------------------------------------------------------------------------------
\* The context of a worker.

\* A step that leaves worker s alone and takes back no cancellation keeps its
\* part of the invariant.
LEMMA WorkerFrame ==
  ASSUME NEW s \in Site, CursorSound(s), PageSound(s), OutSound(s),
         worker'[s] = worker[s], cursor'[s] = cursor[s], seen'[s] = seen[s],
         todo'[s] = todo[s], out'[s] = out[s], armed'[s] = armed[s],
         stopped => stopped', latched => latched'
  PROVE  CursorSound(s)' /\ PageSound(s)' /\ OutSound(s)'
BY DEF CursorSound, PageSound, OutSound

\* The messages a worker makes when it sees no cancellation.
LEMMA ReportSound ==
  ASSUME TypeInv, NEW s \in Site, CursorSound(s), SeesNoCancel,
         NEW type \in {"WARNING", "ERROR"}
  PROVE  /\ Sound(Report(type, s), seen[s])
         /\ Report(type, s).site = s
         /\ JobOf(Report(type, s), s) = {}
BY DEF Report, Message, Sound, CursorSound, SeesNoCancel, JobOf

LEMMA CompleteSound ==
  ASSUME TypeInv, NEW s \in Site, CursorSound(s), SeesNoCancel,
         LimitReached(s) \/ cursor[s] \notin PagesOf(s)
  PROVE  /\ Sound(CompleteMessage(s), seen[s])
         /\ CompleteMessage(s).site = s
         /\ JobOf(CompleteMessage(s), s) = {}
<1>1. Covers(seen[s], s, cursor[s])
  BY DEF CursorSound, SeesNoCancel
<1>2. CASE LimitReached(s)
  BY <1>1, <1>2 DEF CompleteMessage, Message, Sound, JobOf, LimitReached, CoversAll
<1>3. CASE cursor[s] \notin PagesOf(s)
  <2>1. \A p \in PagesOf(s) : p < cursor[s]
    BY <1>3, PagesAssumption DEF PagesOf, TypeInv, OutInv, WorkerTypeOK
  <2> QED
    BY <1>1, <2>1 DEF CompleteMessage, Message, Sound, JobOf, Covers, CoversAll
<1> QED
  BY <1>2, <1>3

LEMMA NewMessageSound ==
  ASSUME NEW s \in Site, NEW m, out'[s] = m, seen'[s] = seen[s],
         m.site = s, JobOf(m, s) = {}, Sound(m, seen[s])
  PROVE  OutSound(s)'
<1>1. seen'[s] \ JobOf(m, s) = seen[s]
  OBVIOUS
<1> QED
  BY <1>1 DEF OutSound

\* A worker keeps its own part of the invariant.
LEMMA OwnWorkerStep ==
  ASSUME TypeInv, NEW s \in Site, CursorSound(s), PageSound(s), OutSound(s),
         WorkerStep(s) \/ AdapterFails(s)
  PROVE  CursorSound(s)' /\ PageSound(s)' /\ OutSound(s)'
<1> USE DEF Runs, GoTo, Emit, WorkerUnchanged, cancelVars
<1>0. WorkerTypeOK
  BY DEF TypeInv, OutInv
<1>1. CASE StartWorker(s)
  <2>1. CASE LimitReached(s)
    <3>1. SeesNoCancel /\ out'[s] = CompleteMessage(s) /\ worker'[s] = "finishing"
          /\ UNCHANGED <<seen, cursor, stopped, latched>>
      BY <1>0, <1>1, <2>1 DEF StartWorker, EmitSiteComplete, WorkerTypeOK
    <3>2. OutSound(s)'
      BY <2>1, <3>1, CompleteSound, NewMessageSound
    <3> QED
      BY <3>1, <3>2 DEF CursorSound, PageSound
  <2>2. CASE ~LimitReached(s)
    BY <1>0, <1>1, <2>2 DEF StartWorker, CursorSound, PageSound, OutSound, WorkerTypeOK
  <2> QED
    BY <2>1, <2>2
<1>2. CASE CreateAdapter(s)
  BY <1>0, <1>2 DEF CreateAdapter, CursorSound, PageSound, OutSound, WorkerTypeOK
<1>3. CASE FetchPage(s)
  BY <1>0, <1>3 DEF FetchPage, CursorSound, PageSound, OutSound, WorkerTypeOK, Readable
<1>4. ASSUME NEW j \in Job, EmitJob(s, j)
      PROVE  CursorSound(s)' /\ PageSound(s)' /\ OutSound(s)'
  <2> DEFINE m == Message("JOB", s, j, cursor[s], 0)
  <2>1. /\ seen'[s] = seen[s] \cup {j} /\ j \notin seen[s] /\ seen'[s] \in SUBSET Job
        /\ todo'[s] = todo[s] \ {j} /\ out'[s] = m /\ cursor' = cursor
        /\ worker' = worker /\ worker[s] = "page" /\ SeesNoCancel
        /\ UNCHANGED <<stopped, latched>>
    BY <1>0, <1>4 DEF EmitJob, Looks, JobState, WorkerTypeOK
  <2>2. Covers(seen[s], s, cursor[s])
    BY <2>1 DEF CursorSound, SeesNoCancel
  <2>3. CursorSound(s)'
    BY <2>1, <2>2, CoversMono DEF CursorSound
  <2>4. PageSound(s)'
    <3>1. Limited(seen[s]) => Limited(seen'[s])
      BY <2>1, CoversMono
    <3> QED
      BY <2>1, <3>1 DEF PageSound, SeesNoCancel
  <2>5. m.site = s /\ JobOf(m, s) = {j} /\ Sound(m, seen[s])
    BY <2>2 DEF Message, JobOf, Sound
  <2>6. OutSound(s)'
    <3>1. seen'[s] \ JobOf(m, s) = seen[s]
      BY <2>1, <2>5
    <3> QED
      BY <2>1, <2>5, <3>1 DEF OutSound
  <2> QED
    BY <2>3, <2>4, <2>6
<1>5. ASSUME NEW j \in Job, SkipSeen(s, j)
      PROVE  CursorSound(s)' /\ PageSound(s)' /\ OutSound(s)'
  BY <1>0, <1>5 DEF SkipSeen, Looks, CursorSound, PageSound, OutSound, WorkerTypeOK, SeesNoCancel
<1>6. ASSUME NEW j \in Job, SkipUnreadable(s, j)
      PROVE  CursorSound(s)' /\ PageSound(s)' /\ OutSound(s)'
  <2>1. SeesNoCancel
    BY <1>6 DEF SkipUnreadable, Looks
  <2>2. CursorSound(s)' /\ PageSound(s)'
    BY <1>0, <1>6 DEF SkipUnreadable, Looks, CursorSound, PageSound, WorkerTypeOK, SeesNoCancel,
                      Readable
  <2>3. OutSound(s)'
    <3>1. out'[s] = Report("WARNING", s) /\ seen' = seen
      BY <1>0, <1>6 DEF SkipUnreadable, Looks, WorkerTypeOK
    <3> QED
      BY <2>1, <3>1, ReportSound, NewMessageSound
  <2> QED
    BY <2>2, <2>3
<1>7. CASE FinishPage(s)
  <2> DEFINE m == Message("PROGRESS", s, NoJob, cursor[s] + 1, 0)
  <2>1. /\ seen' = seen /\ cursor'[s] = cursor[s] + 1 /\ worker'[s] = "listing"
        /\ out'[s] = m /\ SeesNoCancel /\ worker[s] = "page"
        /\ todo[s] = {} \/ LimitReached(s)
    BY <1>0, <1>7 DEF FinishPage, PageIsRead, WorkerTypeOK
  <2>2. Covers(seen[s], s, cursor[s] + 1)
    <3>1. CASE Limited(seen[s])
      BY <3>1 DEF Covers
    <3>2. CASE ~Limited(seen[s])
      <4>1. Covers(seen[s], s, cursor[s]) /\ Readable(s, cursor[s]) \subseteq seen[s]
        BY <2>1, <3>2 DEF CursorSound, PageSound, SeesNoCancel, LimitReached
      <4>2. \A p \in PagesOf(s) : p < cursor[s] + 1 => p < cursor[s] \/ p = cursor[s]
        BY <1>0, PageType DEF WorkerTypeOK
      <4> QED
        BY <3>2, <4>1, <4>2 DEF Covers
    <3> QED
      BY <3>1, <3>2
  <2>3. m.site = s /\ JobOf(m, s) = {} /\ Sound(m, seen[s])
    BY <2>2 DEF Message, JobOf, Sound
  <2>4. OutSound(s)'
    BY <2>1, <2>3, NewMessageSound
  <2> QED
    BY <2>1, <2>2, <2>4 DEF CursorSound, PageSound
<1>8. CASE ScrapeReturns(s)
  <2>1. SeesNoCancel /\ out'[s] = CompleteMessage(s) /\ worker'[s] = "finishing"
        /\ UNCHANGED <<seen, cursor, stopped, latched>>
        /\ (LimitReached(s) \/ cursor[s] \notin PagesOf(s))
    BY <1>0, <1>8 DEF ScrapeReturns, EmitSiteComplete, WorkerTypeOK
  <2>2. OutSound(s)'
    BY <2>1, CompleteSound, NewMessageSound
  <2> QED
    BY <2>1, <2>2 DEF CursorSound, PageSound
<1>9. CASE Abandon(s)
  BY <1>0, <1>9 DEF Abandon, SeesCancel, Latch, CursorSound, PageSound, OutSound, WorkerTypeOK
<1>10. CASE Retry(s)
  BY <1>0, <1>10 DEF Retry, CursorSound, PageSound, OutSound, WorkerTypeOK
<1>11. CASE FinishWorker(s)
  <2> DEFINE m == Report("WORKER_DONE", s)
  <2>1. out'[s] = m /\ worker'[s] = "dead" /\ armed' = armed
        /\ UNCHANGED <<seen, cursor, stopped, latched>>
    BY <1>0, <1>11 DEF FinishWorker, WorkerTypeOK
  <2>2. m.site = s /\ JobOf(m, s) = {} /\ m.cursor = cursor[s] /\ m.type # "SITE_COMPLETE"
    BY DEF Report, Message, JobOf
  <2>3. ~armed[s]
    BY <1>11 DEF FinishWorker, TypeInv, OutInv
  <2>4. OutSound(s)'
    <3>1. CASE stopped \/ latched
      BY <2>1, <2>2, <2>3, <3>1 DEF OutSound
    <3>2. CASE ~(stopped \/ latched)
      <4>1. Sound(m, seen[s])
        BY <2>2, <3>2 DEF CursorSound, Sound
      <4> HIDE DEF m
      <4> QED
        BY <2>1, <2>2, <4>1, NewMessageSound
    <3> QED
      BY <3>1, <3>2
  <2> QED
    BY <2>1, <2>4 DEF CursorSound, PageSound
<1>12. CASE PutChecks(s)
  BY <1>0, <1>12 DEF PutChecks, SeesNoCancel, CursorSound, PageSound, OutSound, WorkerTypeOK
<1>13. CASE PutSucceeds(s)
  BY <1>0, <1>13 DEF PutSucceeds, CursorSound, PageSound, OutSound, WorkerTypeOK
<1>14. CASE PutTimesOut(s)
  BY <1>0, <1>14 DEF PutTimesOut, CursorSound, PageSound, OutSound, WorkerTypeOK
<1>15. CASE PutRefused(s)
  BY <1>0, <1>15 DEF PutRefused, SeesCancel, Latch, CursorSound, PageSound, OutSound, WorkerTypeOK
<1>16. ASSUME NEW kind \in FailureKinds, Fail(s, kind)
       PROVE  CursorSound(s)' /\ PageSound(s)' /\ OutSound(s)'
  <2>1. SeesNoCancel /\ seen' = seen /\ cursor' = cursor /\ UNCHANGED <<stopped, latched>>
    BY <1>16 DEF Fail
  <2>2. worker'[s] # "page"
    BY <1>0, <1>16 DEF Fail, EmitSiteComplete, WorkerTypeOK
  <2>3. PICK m : /\ out'[s] = m
                 /\ \/ m = CompleteMessage(s) /\ LimitReached(s)
                    \/ m = Report("WARNING", s) \/ m = Report("ERROR", s)
    BY <1>0, <1>16 DEF Fail, EmitSiteComplete, WorkerTypeOK
  <2>4. m.site = s /\ JobOf(m, s) = {} /\ Sound(m, seen[s])
    <3>1. CASE m = CompleteMessage(s) /\ LimitReached(s)
      BY <2>1, <3>1, CompleteSound
    <3>2. CASE m \in {Report("WARNING", s), Report("ERROR", s)}
      BY <2>1, <3>2, ReportSound
    <3> QED
      BY <2>3, <3>1, <3>2
  <2>5. OutSound(s)'
    BY <2>1, <2>3, <2>4, NewMessageSound
  <2>6. CursorSound(s)' /\ PageSound(s)'
    BY <2>1, <2>2 DEF CursorSound, PageSound
  <2> QED
    BY <2>5, <2>6
<1>17. CASE FailAbruptly(s)
  BY <1>0, <1>17 DEF FailAbruptly, InAttempt, AfterBaseException, CursorSound, PageSound, OutSound,
                     WorkerTypeOK
<1> QED
  BY <1>1, <1>2, <1>3, <1>4, <1>5, <1>6, <1>7, <1>8, <1>9, <1>10, <1>11, <1>12, <1>13,
     <1>14, <1>15, <1>16, <1>17 DEF WorkerStep, AdapterFails

\* What a step of the worker of s leaves alone.
LEMMA WorkerStepFrame ==
  ASSUME TypeInv, NEW s \in Site, WorkerStep(s) \/ AdapterFails(s)
  PROVE  /\ UNCHANGED <<consumerVars, durableVars, source, stopped, closed, closer>>
         /\ latched => latched'
         /\ \A u \in Site \ {s} :
              /\ worker'[u] = worker[u] /\ cursor'[u] = cursor[u] /\ seen'[u] = seen[u]
              /\ todo'[u] = todo[u] /\ out'[u] = out[u] /\ armed'[u] = armed[u]
<1> USE DEF GoTo, Emit, WorkerUnchanged, cancelVars, EmitSiteComplete, Looks, SeesCancel, Latch,
            TypeInv, OutInv, WorkerTypeOK
<1>1. CASE StartWorker(s) \/ CreateAdapter(s) \/ FetchPage(s)
  BY <1>1 DEF StartWorker, CreateAdapter, FetchPage
<1>2. ASSUME NEW j \in Job, EmitJob(s, j) \/ SkipSeen(s, j) \/ SkipUnreadable(s, j)
      PROVE  /\ UNCHANGED <<consumerVars, durableVars, source, stopped, closed, closer, latched>>
             /\ \A u \in Site \ {s} :
                  /\ worker'[u] = worker[u] /\ cursor'[u] = cursor[u] /\ seen'[u] = seen[u]
                  /\ todo'[u] = todo[u] /\ out'[u] = out[u] /\ armed'[u] = armed[u]
  BY <1>2 DEF EmitJob, SkipSeen, SkipUnreadable
<1>3. CASE FinishPage(s) \/ ScrapeReturns(s) \/ Retry(s) \/ FinishWorker(s)
  BY <1>3 DEF FinishPage, ScrapeReturns, Retry, FinishWorker
<1>4. CASE Abandon(s) \/ PutRefused(s)
  <2>1. latched => latched'
    <3>1. SeesCancel
      BY <1>4 DEF Abandon, PutRefused
    <3> QED
      BY <3>1
  <2>2. CASE Abandon(s)
    BY <2>1, <2>2 DEF Abandon
  <2>3. CASE PutRefused(s)
    BY <2>1, <2>3 DEF PutRefused
  <2> QED
    BY <1>4, <2>2, <2>3
<1>5. CASE PutChecks(s) \/ PutSucceeds(s) \/ PutTimesOut(s)
  BY <1>5 DEF PutChecks, PutSucceeds, PutTimesOut
<1>6. CASE FailAbruptly(s)
  BY <1>6 DEF FailAbruptly
<1>7. ASSUME NEW kind \in FailureKinds, Fail(s, kind)
      PROVE  /\ UNCHANGED <<consumerVars, durableVars, source, stopped, closed, closer, latched>>
             /\ \A u \in Site \ {s} :
                  /\ worker'[u] = worker[u] /\ cursor'[u] = cursor[u] /\ seen'[u] = seen[u]
                  /\ todo'[u] = todo[u] /\ out'[u] = out[u] /\ armed'[u] = armed[u]
  BY <1>7 DEF Fail
<1> QED
  BY <1>1, <1>2, <1>3, <1>4, <1>5, <1>6, <1>7 DEF WorkerStep, AdapterFails

LEMMA WorkerInvStep ==
  TypeInv /\ WorkerInv /\ NoJobLost /\ [Next]_vars => WorkerInv'
<1> SUFFICES ASSUME TypeInv, WorkerInv, NoJobLost, [Next]_vars PROVE WorkerInv'
  OBVIOUS
<1>1. ASSUME NEW s \in Site, WorkerStep(s) \/ AdapterFails(s) PROVE WorkerInv'
  <2>1. CursorSound(s)' /\ PageSound(s)' /\ OutSound(s)'
    BY <1>1, OwnWorkerStep DEF WorkerInv
  <2>2. ASSUME NEW u \in Site \ {s}
        PROVE  CursorSound(u)' /\ PageSound(u)' /\ OutSound(u)'
    BY <1>1, WorkerStepFrame, WorkerFrame DEF WorkerInv
  <2> QED
    BY <2>1, <2>2 DEF WorkerInv
<1>2. CASE UNCHANGED workerVars /\ (stopped => stopped') /\ (latched => latched')
  BY <1>2, WorkerFrame DEF workerVars, WorkerInv
<1>3. CASE Resume
  BY <1>3 DEF Resume, WorkerInv, NoJobLost, CursorSound, PageSound, OutSound, ResumedKeys
<1>4. CASE AckStep \/ AckFails \/ NextStep
  BY <1>2, <1>4
     DEF AckStep, CallAck, AckSaves, AckFails, NextStep, CallNext, NextEnds, NextSeesClosed,
         NextSeesCancel, NextRaises, DeliverSearchComplete, NextWaits, GetTimesOut, Get,
         DropHeld, CountWorkerDone, Deliver, SeesExternalCancel, Latch, cancelVars
<1>5. CASE CloserStep \/ CloseCalled \/ CallerCancels \/ Stay \/ UNCHANGED vars
  BY <1>2, <1>5 DEF CloserStep, CloseStops, CloseWakes, CloseMakesRoom, CloseCalled,
                    CallerCancels, Stay, vars, cancelVars
<1> QED
  BY <1>1, <1>3, <1>4, <1>5 DEF Next

-------------------------------------------------------------------------------
\* The queue.

Entries == Messages \cup {Wake}

LEMMA BeforeType ==
  ASSUME NEW got \in [Site -> SUBSET Job], NEW h \in Entries \cup {Nothing},
         NEW q \in Seq(Entries), NEW i \in 1..(Len(q) + 1), NEW s \in Site
  PROVE  Before(got, h, q, i, s) \subseteq Job
<1>1. \A k \in 1..(i - 1) : q[k] \in Entries
  OBVIOUS
<1>2. \A m \in Earlier(h, q, i) : JobOf(m, s) \subseteq Job
  BY <1>1, JobOfType DEF Entries, Earlier
<1> QED
  BY <1>2 DEF Before

\* Putting m at the end of the queue leaves what is earlier than an entry.
LEMMA PutPositions ==
  ASSUME NEW h, NEW q \in Seq(Entries), NEW m \in Entries
  PROVE  /\ \A i \in 1..(Len(q) + 1) : Earlier(h, Append(q, m), i) = Earlier(h, q, i)
         /\ Earlier(h, Append(q, m), Len(q) + 2) = Earlier(h, q, Len(q) + 1) \cup {m}
         /\ Append(q, m) \in Seq(Entries) /\ Len(Append(q, m)) = Len(q) + 1 /\ Len(q) \in Nat
         /\ \A i \in 1..Len(q) : Append(q, m)[i] = q[i]
         /\ Append(q, m)[Len(q) + 1] = m
<1> DEFINE n == Len(q)
           r == Append(q, m)
<1>1. n \in Nat /\ Len(r) = n + 1 /\ r[n + 1] = m /\ (\A i \in 1..n : r[i] = q[i])
      /\ r \in Seq(Entries)
  OBVIOUS
<1> HIDE DEF r
<1>2. \A i \in 1..(n + 1) : \A k \in 1..(i - 1) : r[k] = q[k]
  BY <1>1
<1>3. \A i \in 1..(n + 1) : Earlier(h, r, i) = Earlier(h, q, i)
  BY <1>2 DEF Earlier
<1>4. Earlier(h, r, n + 2) = Earlier(h, r, n + 1) \cup {m}
  <2>1. 1..(n + 2 - 1) = (1..(n + 1 - 1)) \cup {n + 1}
    BY <1>1
  <2> QED
    BY <1>1, <2>1 DEF Earlier
<1> QED
  BY <1>1, <1>3, <1>4 DEF r

\* Taking the head of the queue: what is earlier than the others is what was.
LEMMA GetPositions ==
  ASSUME NEW q \in Seq(Entries), q # <<>>
  PROVE  /\ \A i \in 1..Len(q) :
              Earlier(Head(q), Tail(q), i) \cup {Nothing} = Earlier(Nothing, q, i + 1)
         /\ Earlier(Nothing, q, 1) = {Nothing}
         /\ Len(q) \in Nat /\ Len(q) >= 1 /\ Len(Tail(q)) = Len(q) - 1 /\ Head(q) = q[1]
         /\ \A i \in 1..(Len(q) - 1) : Tail(q)[i] = q[i + 1]
<1> DEFINE n == Len(q)
           r == Tail(q)
           h == Head(q)
<1>1. n \in Nat /\ n >= 1 /\ Len(r) = n - 1 /\ h = q[1] /\ \A i \in 1..(n - 1) : r[i] = q[i + 1]
  OBVIOUS
<1> HIDE DEF r, h
<1>2. ASSUME NEW i \in 1..n
      PROVE  Earlier(h, r, i) \cup {Nothing} = Earlier(Nothing, q, i + 1)
  <2>1. ASSUME NEW k \in 1..i PROVE q[k] \in {h} \cup {r[p] : p \in 1..(i - 1)}
    <3>1. k = 1 \/ (k - 1 \in 1..(i - 1) /\ r[k - 1] = q[k])
      BY <1>1
    <3> QED
      BY <1>1, <3>1
  <2>2. ASSUME NEW k \in 1..(i - 1) PROVE r[k] \in {q[p] : p \in 1..i}
    <3>1. k + 1 \in 1..i /\ r[k] = q[k + 1]
      BY <1>1
    <3> QED
      BY <3>1
  <2>3. {q[k] : k \in 1..i} = {h} \cup {r[k] : k \in 1..(i - 1)}
    <3>1. h \in {q[p] : p \in 1..i}
      BY <1>1
    <3> QED
      BY <2>1, <2>2, <3>1
  <2>4. Earlier(Nothing, q, i + 1) = {Nothing} \cup {q[k] : k \in 1..i}
    BY DEF Earlier
  <2> QED
    BY <2>3, <2>4 DEF Earlier
<1>3. Earlier(Nothing, q, 1) = {Nothing}
  BY DEF Earlier
<1> QED
  BY <1>1, <1>2, <1>3 DEF r, h

\* The same of the keys, which the wake-up and Nothing bring none of.
LEMMA PutBefore ==
  ASSUME NEW got, NEW h, NEW q \in Seq(Entries), NEW m \in Entries
  PROVE  /\ \A i \in 1..(Len(q) + 1) : \A s :
              Before(got, h, Append(q, m), i, s) = Before(got, h, q, i, s)
         /\ \A s : Before(got, h, Append(q, m), Len(q) + 2, s)
                    = Before(got, h, q, Len(q) + 1, s) \cup JobOf(m, s)
<1> DEFINE r == Append(q, m)
<1>1. /\ \A i \in 1..(Len(q) + 1) : Earlier(h, r, i) = Earlier(h, q, i)
      /\ Earlier(h, r, Len(q) + 2) = Earlier(h, q, Len(q) + 1) \cup {m}
  BY PutPositions
<1> HIDE DEF r
<1>2. /\ \A i \in 1..(Len(q) + 1) : \A s : Before(got, h, r, i, s) = Before(got, h, q, i, s)
      /\ \A s : Before(got, h, r, Len(q) + 2, s)
                 = Before(got, h, q, Len(q) + 1, s) \cup JobOf(m, s)
  BY <1>1 DEF Before
<1> QED
  BY <1>2 DEF r

LEMMA GetBefore ==
  ASSUME NEW got, NEW q \in Seq(Entries), q # <<>>
  PROVE  /\ \A i \in 1..Len(q) : \A s :
              Before(got, Head(q), Tail(q), i, s) = Before(got, Nothing, q, i + 1, s)
         /\ \A s : Before(got, Nothing, q, 1, s) = got[s]
<1> DEFINE r == Tail(q)
           h == Head(q)
<1>1. /\ \A i \in 1..Len(q) : Earlier(h, r, i) \cup {Nothing} = Earlier(Nothing, q, i + 1)
      /\ Earlier(Nothing, q, 1) = {Nothing}
  BY GetPositions
<1> HIDE DEF r, h
<1>2. /\ \A i \in 1..Len(q) : \A s : Before(got, h, r, i, s) = Before(got, Nothing, q, i + 1, s)
      /\ \A s : Before(got, Nothing, q, 1, s) = got[s]
  BY <1>1, NoMessage DEF Before
<1> QED
  BY <1>2 DEF r, h

\* Putting a sound message.
LEMMA QueuePut ==
  ASSUME NEW got, NEW h, NEW q \in Seq(Entries), NEW m \in Messages,
         Deliverable(got, h, q), Sound(m, Before(got, h, q, Len(q) + 1, m.site))
  PROVE  /\ Deliverable(got, h, Append(q, m))
         /\ \A s : Before(got, h, Append(q, m), Len(Append(q, m)) + 1, s)
                    = Before(got, h, q, Len(q) + 1, s) \cup JobOf(m, s)
<1> DEFINE r == Append(q, m)
<1>1. /\ \A i \in 1..(Len(q) + 1) : \A s : Before(got, h, r, i, s) = Before(got, h, q, i, s)
      /\ \A s : Before(got, h, r, Len(q) + 2, s)
                 = Before(got, h, q, Len(q) + 1, s) \cup JobOf(m, s)
      /\ Len(r) = Len(q) + 1 /\ Len(q) \in Nat /\ \A i \in 1..Len(q) : r[i] = q[i]
      /\ r[Len(q) + 1] = m
  <2>1. m \in Entries
    BY DEF Entries
  <2> QED
    BY <2>1, PutPositions, PutBefore
<1> HIDE DEF r
<1>2. Deliverable(got, h, r)
  <2> SUFFICES ASSUME NEW i \in 1..Len(r), r[i] \in Messages
               PROVE  Sound(r[i], Before(got, h, r, i, r[i].site))
    BY DEF Deliverable
  <2>1. i = Len(q) + 1 \/ i \in 1..Len(q)
    BY <1>1
  <2> QED
    BY <1>1, <2>1 DEF Deliverable
<1> QED
  BY <1>1, <1>2 DEF r

\* Taking the head of the queue.
LEMMA QueueGet ==
  ASSUME NEW got, NEW q \in Seq(Entries), q # <<>>, Deliverable(got, Nothing, q)
  PROVE  /\ Deliverable(got, Head(q), Tail(q))
         /\ \A s : Before(got, Head(q), Tail(q), Len(Tail(q)) + 1, s)
                    = Before(got, Nothing, q, Len(q) + 1, s)
<1> DEFINE r == Tail(q)
           h == Head(q)
<1>1. /\ \A i \in 1..Len(q) : \A s : Before(got, h, r, i, s) = Before(got, Nothing, q, i + 1, s)
      /\ \A s : Before(got, Nothing, q, 1, s) = got[s]
      /\ Len(q) \in Nat /\ Len(q) >= 1 /\ Len(r) = Len(q) - 1 /\ h = q[1]
      /\ \A i \in 1..(Len(q) - 1) : r[i] = q[i + 1]
  BY GetPositions, GetBefore
<1> HIDE DEF r, h
<1>2. h \in Messages => Sound(h, got[h.site])
  BY <1>1 DEF Deliverable
<1>3. ASSUME NEW i \in 1..Len(r), r[i] \in Messages
      PROVE  Sound(r[i], Before(got, h, r, i, r[i].site))
  <2>1. r[i] = q[i + 1] /\ i + 1 \in 1..Len(q) /\ i \in 1..Len(q)
    BY <1>1
  <2> QED
    BY <1>1, <1>3, <2>1 DEF Deliverable
<1>4. Deliverable(got, h, r)
  BY <1>2, <1>3 DEF Deliverable
<1> QED
  BY <1>1, <1>4 DEF r, h

\* Delivering what is held: its key moves over to what the application has.
LEMMA QueueDeliver ==
  ASSUME NEW got, NEW got2, NEW h, NEW q, Deliverable(got, h, q),
         \A i \in 1..Len(q) : q[i] \in Messages => q[i].site \in Site,
         \A s \in Site : got2[s] = got[s] \cup JobOf(h, s)
  PROVE  /\ Deliverable(got2, Nothing, q)
         /\ \A s \in Site : Before(got2, Nothing, q, Len(q) + 1, s)
                             = Before(got, h, q, Len(q) + 1, s)
<1>1. \A i : \A s \in Site : Before(got2, Nothing, q, i, s) = Before(got, h, q, i, s)
  BY NoMessage DEF Before, Earlier
<1> QED
  BY <1>1, NoMessage DEF Deliverable

\* A worker that puts nothing on the queue keeps its keys accounted for.
LEMMA AccountedFrame ==
  ASSUME NEW got, NEW h, NEW q, NEW keys, NEW sending, NEW keys2, NEW sending2,
         Accounted(got, h, q, keys, sending),
         \A u \in Site : keys2[u] \ JobOf(sending2[u], u) \subseteq keys[u] \ JobOf(sending[u], u)
  PROVE  Accounted(got, h, q, keys2, sending2)
BY DEF Accounted

\* The keys a context has, without the one it is just sending.
Kept(s) == seen[s] \ JobOf(out[s], s)

\* What a step of its own that puts nothing on the queue does to the keys of
\* worker u, and to the message it sends.
KeysKept(u) ==
  /\ Kept(u)' = Kept(u)
  /\ JobOf(out[u], u) \subseteq seen[u] => JobOf(out'[u], u) \subseteq seen'[u]
  /\ out'[u].type = "SITE_COMPLETE" => out'[u] = out[u] \/ out'[u].count = Cardinality(Kept(u))
  /\ Cardinality(seen[u]) <= ResultsWanted => Cardinality(seen'[u]) <= ResultsWanted

LEMMA QuietWorkerStep ==
  ASSUME TypeInv, WorkerInv, NEW s \in Site, WorkerStep(s) \/ AdapterFails(s), ~PutSucceeds(s)
  PROVE  queue' = queue /\ \A u \in Site : KeysKept(u)
<1> USE DEF GoTo, Emit, Runs, WorkerUnchanged, EmitSiteComplete, Looks, TypeInv, OutInv, WorkerTypeOK
<1>1. queue' = queue /\ KeysKept(s)
  <2>1. CASE CreateAdapter(s) \/ FetchPage(s) \/ Retry(s) \/ Abandon(s) \/ FailAbruptly(s)
             \/ PutChecks(s) \/ PutTimesOut(s)
    <3>1. queue' = queue /\ seen' = seen /\ out' = out
      BY <2>1 DEF CreateAdapter, FetchPage, Retry, Abandon, FailAbruptly, PutChecks, PutTimesOut
    <3> QED
      BY <3>1 DEF KeysKept, Kept
  <2>2. ASSUME queue' = queue, seen' = seen, out[s] = Nothing,
               NEW m, out'[s] = m, m.type # "JOB",
               m.type = "SITE_COMPLETE" => m = CompleteMessage(s)
        PROVE  queue' = queue /\ KeysKept(s)
    <3>1. Kept(s) = seen[s] /\ Kept(s)' = seen[s] /\ JobOf(m, s) = {}
      BY <2>2, NoMessage DEF Kept, JobOf
    <3>2. m.type = "SITE_COMPLETE" => m.count = Cardinality(seen[s])
      BY <2>2 DEF CompleteMessage, Message
    <3> QED
      BY <2>2, <3>1, <3>2 DEF KeysKept
  <2>3. CASE StartWorker(s) \/ FinishPage(s) \/ ScrapeReturns(s) \/ FinishWorker(s)
    <3>1. queue' = queue /\ seen' = seen /\ out[s] = Nothing
      BY <2>3 DEF StartWorker, FinishPage, ScrapeReturns, FinishWorker
    <3>2. out'[s].type # "JOB" /\ (out'[s].type = "SITE_COMPLETE" => out'[s] = CompleteMessage(s))
      BY <2>3 DEF StartWorker, FinishPage, ScrapeReturns, FinishWorker, CompleteMessage, Message,
                  Nothing, Report
    <3> QED
      BY <2>2, <3>1, <3>2
  <2>4. ASSUME NEW j \in Job, EmitJob(s, j) PROVE queue' = queue /\ KeysKept(s)
    <3>1. /\ queue' = queue /\ seen'[s] = seen[s] \cup {j} /\ j \notin seen[s] /\ out[s] = Nothing
          /\ out'[s] = Message("JOB", s, j, JobState(s), 0) /\ ~LimitReached(s)
      BY <2>4 DEF EmitJob
    <3>2. JobOf(out'[s], s) = {j} /\ out'[s].type = "JOB"
      BY <3>1 DEF JobOf, Message
    <3>3. Cardinality(seen'[s]) = Cardinality(seen[s]) + 1 /\ Cardinality(seen[s]) \in Nat
      BY <3>1, SeenFinite, FS_AddElement
    <3>4. Cardinality(seen'[s]) <= ResultsWanted
      BY <3>1, <3>3, BoundAssumption DEF LimitReached, Limited
    <3> QED
      BY <3>1, <3>2, <3>4, NoMessage DEF KeysKept, Kept
  <2>5. ASSUME NEW j \in Job, SkipSeen(s, j) \/ SkipUnreadable(s, j)
        PROVE  queue' = queue /\ KeysKept(s)
    <3>1. queue' = queue /\ seen' = seen /\ out[s] = Nothing
          /\ out'[s].type \in {"NOTHING", "WARNING"}
      BY <2>5 DEF SkipSeen, SkipUnreadable, Report, Message, Nothing
    <3> QED
      BY <2>2, <3>1
  <2>6. CASE PutRefused(s)
    <3>1. /\ queue' = queue /\ seen'[s] = seen[s] \ {out[s].job} /\ out'[s] = Nothing
          /\ out[s] \in Messages /\ out[s].site = s /\ seen[s] \subseteq Job
      BY <2>6 DEF PutRefused, WorkerInv, OutSound
    <3>2. seen'[s] = Kept(s)
      BY <3>1, JobAssumption DEF Kept, JobOf, Messages
    <3>3. Cardinality(seen'[s]) <= Cardinality(seen[s])
      BY <3>1, SeenFinite, FS_Subset
    <3>4. Cardinality(seen[s]) \in Nat /\ Cardinality(seen'[s]) \in Nat
      BY <3>1, SeenFinite, FS_Subset, FS_CardinalityType
    <3>5. out'[s].type # "SITE_COMPLETE"
      BY <3>1 DEF Nothing, Message
    <3> QED
      BY <3>1, <3>2, <3>3, <3>4, <3>5, NoMessage, BoundAssumption DEF KeysKept, Kept
  <2>7. ASSUME NEW kind \in FailureKinds, Fail(s, kind) PROVE queue' = queue /\ KeysKept(s)
    <3>1. queue' = queue /\ seen' = seen /\ out[s] = Nothing
      BY <2>7 DEF Fail, InAttempt
    <3>2. out'[s].type # "JOB" /\ (out'[s].type = "SITE_COMPLETE" => out'[s] = CompleteMessage(s))
      BY <2>7 DEF Fail, CompleteMessage, Message, Report
    <3> QED
      BY <2>2, <3>1, <3>2
  <2> QED
    BY <2>1, <2>3, <2>4, <2>5, <2>6, <2>7 DEF WorkerStep, AdapterFails
<1>2. \A u \in Site \ {s} : seen'[u] = seen[u] /\ out'[u] = out[u]
  BY WorkerStepFrame
<1>3. \A u \in Site \ {s} : KeysKept(u)
  BY <1>2 DEF KeysKept, Kept
<1> QED
  BY <1>1, <1>3

LEMMA PutStep ==
  ASSUME TypeInv, WorkerInv, QueueInv, NEW s \in Site, PutSucceeds(s), ~closed
  PROVE  /\ Deliverable(GotKeys, held, queue')
         /\ Accounted(GotKeys, held, queue', seen', out')
<1> DEFINE m == out[s]
           n == Len(queue)
<1>1. /\ m \in Messages /\ m.site = s /\ queue \in Seq(Entries)
      /\ Sound(m, seen[s] \ JobOf(m, s)) /\ queue' = Append(queue, m)
      /\ seen' = seen /\ out'[s] = Nothing /\ \A u \in Site \ {s} : out'[u] = out[u]
  BY DEF TypeInv, OutInv, WorkerTypeOK, SharedTypeOK, WorkerInv, OutSound, PutSucceeds, Entries
<1>2. seen[s] \subseteq Before(GotKeys, held, queue, n + 1, s) \cup JobOf(m, s)
  BY DEF QueueInv, Accounted
<1>3. Before(GotKeys, held, queue, n + 1, s) \subseteq Job
  <2>1. held \in Entries \cup {Nothing}
    BY DEF TypeInv, LastTypeInv, ConsumerTypeOK, Entries
  <2>2. n + 1 \in 1..(Len(queue) + 1)
    BY <1>1
  <2> QED
    BY <1>1, <2>1, <2>2, KeysType, BeforeType
<1>4. Sound(m, Before(GotKeys, held, queue, n + 1, m.site))
  BY <1>1, <1>2, <1>3, SoundMono
<1>5. /\ Deliverable(GotKeys, held, queue')
      /\ \A u : Before(GotKeys, held, queue', Len(queue') + 1, u)
                  = Before(GotKeys, held, queue, n + 1, u) \cup JobOf(m, u)
  BY <1>1, <1>4, QueuePut DEF QueueInv
<1>6. Accounted(GotKeys, held, queue', seen', out')
  BY <1>1, <1>5 DEF QueueInv, Accounted
<1> QED
  BY <1>5, <1>6

LEMMA QueueStep ==
  TypeInv /\ ConsumerInv /\ LastInv /\ WorkerInv /\ QueueInv /\ [Next]_vars => QueueInv'
<1> SUFFICES ASSUME TypeInv, ConsumerInv, LastInv, WorkerInv, QueueInv, [Next]_vars, ~closed'
             PROVE  /\ Deliverable(GotKeys', held', queue')
                    /\ Accounted(GotKeys', held', queue', seen', out')
  BY DEF QueueInv
<1> DEFINE Goal == /\ Deliverable(GotKeys', held', queue')
                   /\ Accounted(GotKeys', held', queue', seen', out')
<1>1. CASE ~closed /\ GotKeys' = GotKeys /\ UNCHANGED <<held, queue, seen, out>>
  BY <1>1 DEF QueueInv
<1>2. ASSUME NEW s \in Site, WorkerStep(s) \/ AdapterFails(s) PROVE Goal
  <2>1. ~closed /\ GotKeys' = GotKeys /\ held' = held
    BY <1>2, WorkerStepFrame DEF consumerVars, durableVars, GotKeys, Got
  <2>2. CASE PutSucceeds(s)
    BY <2>1, <2>2, PutStep
  <2>3. CASE ~PutSucceeds(s)
    <3>1. queue' = queue /\ \A u \in Site : KeysKept(u)
      BY <1>2, <2>3, QuietWorkerStep
    <3>2. \A u \in Site : seen'[u] \ JobOf(out'[u], u) \subseteq seen[u] \ JobOf(out[u], u)
      BY <3>1 DEF KeysKept, Kept
    <3> QED
      BY <2>1, <3>1, <3>2, AccountedFrame DEF QueueInv
  <2> QED
    BY <2>2, <2>3
<1>3. CASE AckSaves
  <2>1. last # Nothing /\ checkpoint' = Acked(last) /\ last' = last
    BY <1>3 DEF AckSaves, TypeInv, LastTypeInv
  <2>2. \A s \in Site : Got(s)' = Got(s)
    BY <2>1, AckedSeen DEF Got
  <2>3. GotKeys' = GotKeys
    BY <2>2 DEF GotKeys
  <2> QED
    BY <1>1, <1>3, <2>3 DEF AckSaves, cancelVars, workerVars
<1>4. CASE Get
  <2>1. /\ held = Nothing /\ queue # <<>> /\ queue' = Tail(queue) /\ held' = Head(queue)
        /\ ~closed /\ GotKeys' = GotKeys /\ seen' = seen /\ out' = out
    BY <1>4 DEF Get, ConsumerInv, cancelVars, durableVars, workerVars, GotKeys, Got
  <2>2. queue \in Seq(Entries)
    BY DEF TypeInv, SharedTypeOK, Entries
  <2> QED
    BY <2>1, <2>2, QueueGet DEF QueueInv, Accounted
<1>5. CASE Deliver \/ DropHeld \/ CountWorkerDone
  <2>1. ~closed /\ held' = Nothing /\ queue' = queue /\ seen' = seen /\ out' = out
    BY <1>5 DEF Deliver, DropHeld, CountWorkerDone, Holds, cancelVars, workerVars
  <2>2. \A i \in 1..Len(queue) : queue[i] \in Messages => queue[i].site \in Site
    BY DEF Messages
  <2>3. \A s \in Site : GotKeys'[s] = GotKeys[s] \cup JobOf(held, s)
    <3>1. CASE Deliver
      <4>1. lastAcked /\ last' = held /\ checkpoint' = checkpoint
        BY <3>1 DEF Deliver, Holds, ConsumerInv
      <4> QED
        BY <4>1 DEF LastInv, GotKeys, Got
    <3>2. CASE DropHeld \/ CountWorkerDone
      <4>1. held = Wake \/ held.type = "WORKER_DONE"
        BY <2>1, <3>2 DEF DropHeld, CountWorkerDone, Holds
      <4>2. \A s \in Site : JobOf(held, s) = {}
        BY <4>1, NoMessage DEF JobOf
      <4>3. GotKeys' = GotKeys
        BY <3>2 DEF DropHeld, CountWorkerDone, durableVars, GotKeys, Got
      <4> QED
        BY <4>2, <4>3
    <3> QED
      BY <1>5, <3>1, <3>2
  <2> QED
    BY <2>1, <2>2, <2>3, QueueDeliver DEF QueueInv, Accounted
<1>6. CASE DeliverSearchComplete
  <2>1. /\ ~closed /\ lastAcked /\ last' = SearchComplete /\ checkpoint' = checkpoint
        /\ UNCHANGED <<held, queue, seen, out>>
    BY <1>6 DEF DeliverSearchComplete, Continues, ConsumerInv, durableVars, workerVars
  <2>2. \A s \in Site : Got(s)' = Got(s)
    BY <2>1, NoMessage DEF LastInv, Got
  <2>3. GotKeys' = GotKeys
    BY <2>2 DEF GotKeys
  <2> QED
    BY <1>1, <2>1, <2>3
<1>7. CASE Resume
  <2>1. /\ queue' = <<>> /\ held' = Nothing /\ last' = Nothing /\ checkpoint' = checkpoint
        /\ \A s \in Site : seen'[s] = checkpoint.seen[s]
    BY <1>7 DEF Resume, ResumedKeys
  <2>2. \A s \in Site : seen'[s] = GotKeys'[s]
    BY <2>1, NoMessage DEF GotKeys, Got
  <2>3. Len(<<>>) = 0
    OBVIOUS
  <2> QED
    BY <2>1, <2>2, <2>3, NoMessage DEF Deliverable, Accounted, Before
<1>8. CASE CallAck \/ AckFails \/ CallNext \/ NextEnds \/ NextSeesClosed \/ NextSeesCancel
           \/ NextRaises \/ NextWaits \/ GetTimesOut
  <2>1. ~closed /\ UNCHANGED <<held, queue, seen, out, last, checkpoint>>
    BY <1>8 DEF CallAck, AckFails, CallNext, NextEnds, NextSeesClosed, NextSeesCancel,
                NextRaises, NextWaits, GetTimesOut, ConsumerGoes, BeginClose, Continues,
                cancelVars, durableVars, workerVars
  <2> QED
    BY <1>1, <2>1 DEF GotKeys, Got
<1>9. CASE CloserStep \/ CloseCalled
  BY <1>9 DEF CloserStep, CloseStops, CloseWakes, CloseMakesRoom, CloseCalled, BeginClose,
              ConsumerInv, cancelVars
<1>10. CASE CallerCancels \/ Stay \/ UNCHANGED vars
  BY <1>1, <1>10 DEF CallerCancels, Stay, vars, cancelVars, consumerVars, durableVars,
                     workerVars, GotKeys, Got
<1> QED
  BY <1>2, <1>3, <1>4, <1>5, <1>6, <1>7, <1>8, <1>9, <1>10 DEF Next, AckStep, NextStep

-------------------------------------------------------------------------------
\* The checkpoint.

LEMMA CheckpointStep ==
  TypeInv /\ LastInv /\ NoJobLost /\ CompletedIsExhausted /\ [Next]_vars
    => NoJobLost' /\ CompletedIsExhausted'
<1> SUFFICES ASSUME TypeInv, LastInv, NoJobLost, CompletedIsExhausted, [Next]_vars
             PROVE  NoJobLost' /\ CompletedIsExhausted'
  OBVIOUS
<1>1. CASE AckSaves
  <2>1. last # Nothing /\ checkpoint' = Acked(last) /\ last \in Messages \cup {SearchComplete}
    BY <1>1 DEF AckSaves, TypeInv, LastTypeInv, ConsumerTypeOK
  <2>2. ASSUME NEW s \in Site
        PROVE  /\ Covers(checkpoint'.seen[s], s, checkpoint'.cursor[s])
               /\ checkpoint'.completed[s] => CoversAll(checkpoint'.seen[s], s)
    <3>1. checkpoint'.seen[s] = Got(s) /\ Got(s) \in SUBSET Job /\ checkpoint.seen[s] \subseteq Got(s)
      BY <2>1, AckedSeen, KeysType DEF Got
    <3>2. CASE last \in Messages /\ last.site = s
      BY <2>1, <3>1, <3>2, AckedSeen DEF LastInv, Sound
    <3>3. CASE ~(last \in Messages /\ last.site = s)
      <4>1. /\ Covers(checkpoint.seen[s], s, checkpoint.cursor[s])
            /\ checkpoint.completed[s] => CoversAll(checkpoint.seen[s], s)
        BY DEF NoJobLost, CompletedIsExhausted
      <4>2. /\ Covers(Got(s), s, checkpoint.cursor[s])
            /\ checkpoint.completed[s] => CoversAll(Got(s), s)
        BY <3>1, <4>1, CoversMono
      <4>3. checkpoint'.cursor[s] = checkpoint.cursor[s]
            /\ checkpoint'.completed[s] = checkpoint.completed[s]
        BY <2>1, <3>3, AckedSeen
      <4> QED
        BY <3>1, <4>2, <4>3
    <3> QED
      BY <3>2, <3>3
  <2> QED
    BY <2>2 DEF NoJobLost, CompletedIsExhausted
<1>2. CASE checkpoint' = checkpoint
  BY <1>2 DEF NoJobLost, CompletedIsExhausted
<1>3. ASSUME NEW s \in Site, WorkerStep(s) \/ AdapterFails(s) PROVE checkpoint' = checkpoint
  BY <1>3, WorkerStepFrame DEF durableVars
<1>4. CASE CallAck \/ AckFails \/ NextStep
  BY <1>2, <1>4 DEF CallAck, AckFails, NextStep, CallNext, NextEnds, NextSeesClosed,
         NextSeesCancel, NextRaises, DeliverSearchComplete, NextWaits, GetTimesOut, Get,
         DropHeld, CountWorkerDone, Deliver, durableVars
<1>5. CASE CloserStep \/ CloseCalled \/ CallerCancels \/ Resume \/ Stay \/ UNCHANGED vars
  BY <1>2, <1>5 DEF CloserStep, CloseStops, CloseWakes, CloseMakesRoom, CloseCalled,
                    CallerCancels, Resume, Stay, vars, durableVars
<1> QED
  BY <1>1, <1>2, <1>3, <1>4, <1>5 DEF Next, AckStep

LEMMA DeliveryInit == Init => DeliveryInv
<1> SUFFICES ASSUME Init PROVE DeliveryInv
  OBVIOUS
<1>1. TypeInv
  BY TypeInit
<1>2. /\ \A s \in Site : checkpoint.seen[s] = {} /\ checkpoint.cursor[s] = 1
                         /\ checkpoint.completed[s] = FALSE
      /\ seen = checkpoint.seen /\ cursor = checkpoint.cursor
      /\ queue = <<>> /\ held = Nothing /\ last = Nothing
      /\ \A s \in Site : out[s] = Nothing /\ worker[s] = "starting"
  BY DEF Init, NewCheckpoint
<1>3. \A s \in Site : Covers(checkpoint.seen[s], s, checkpoint.cursor[s])
  <2>1. \A s \in Site : \A p \in PagesOf(s) : p \in Nat /\ ~(p < 1)
    BY PagesAssumption DEF PagesOf
  <2> QED
    BY <1>2, <2>1 DEF Covers
<1>4. NoJobLost /\ CompletedIsExhausted
  BY <1>2, <1>3 DEF NoJobLost, CompletedIsExhausted
<1>5. ConsumerInv
  BY DEF Init, ConsumerInv
<1>6. LastInv
  BY <1>2, NoMessage DEF Init, LastInv, Got
<1>7. QueueInv
  <2>1. Len(<<>>) = 0
    OBVIOUS
  <2> QED
    BY <1>2, <2>1, NoMessage DEF QueueInv, Deliverable, Accounted
<1>8. WorkerInv
  BY <1>2, <1>3 DEF WorkerInv, CursorSound, PageSound, OutSound
<1> QED
  BY <1>1, <1>4, <1>5, <1>6, <1>7, <1>8 DEF DeliveryInv

LEMMA DeliveryStep == DeliveryInv /\ [Next]_vars => DeliveryInv'
BY TypeStep, ConsumerStep, LastStep, QueueStep, WorkerInvStep, CheckpointStep DEF DeliveryInv

\* DeliveryInv is inductive, so it holds of every reachable state.
THEOREM DeliveryInvariant == Spec => []DeliveryInv
BY DeliveryInit, DeliveryStep, PTL DEF Spec

-------------------------------------------------------------------------------
\* At-least-once delivery: whatever fails, is closed, cancelled, retried or
\* resumed, all that a site lists before the checkpoint's cursor is in the
\* checkpoint, or as many keys as the request wants (ack() in runtime.py).
THEOREM NothingLost == Spec => []NoJobLost
BY DeliveryInvariant, PTL DEF DeliveryInv

\* A site that ack() marks completed, and that no resumed stream asks again, has
\* all its jobs in the checkpoint, or as many as the request wants.
THEOREM CompletedExhausted == Spec => []CompletedIsExhausted
BY DeliveryInvariant, PTL DEF DeliveryInv

OnlyDeliveredIsCommitted ==
  \A s \in Site : checkpoint.seen[s] \subseteq delivered[s]

\* ack() never commits a key the application did not get from next(), although
\* the worker's context reserves keys long before they are delivered.
THEOREM CommittedDelivered == Spec => []OnlyDeliveredIsCommitted
<1>1. DeliveryInv => OnlyDeliveredIsCommitted
  BY DEF DeliveryInv, LastInv, Got, OnlyDeliveredIsCommitted
<1> QED
  BY <1>1, DeliveryInvariant, PTL

\* A SearchCompleteEvent with completed=True: the application was given every
\* job of every site, or as many of the site as the request wants.
THEOREM CompleteDelivered == Spec => []CompleteMeansAllDelivered
<1>1. DeliveryInv => CompleteMeansAllDelivered
  <2> SUFFICES ASSUME DeliveryInv, outcome = "complete", NEW s \in Site
               PROVE  CoversAll(delivered[s], s)
    BY DEF CompleteMeansAllDelivered
  <2>1. CoversAll(checkpoint.seen[s], s)
    BY DEF DeliveryInv, ConsumerInv, CompletedIsExhausted
  <2>2. checkpoint.seen[s] \subseteq delivered[s] /\ delivered[s] \subseteq Job
    BY DEF DeliveryInv, LastInv, Got, TypeInv, DurableTypeOK
  <2> QED
    BY <2>1, <2>2, CoversMono
<1> QED
  BY <1>1, DeliveryInvariant, PTL
-------------------------------------------------------------------------------
\* What is on its way is new: no key is delivered twice, and counts are exact.

\* Message m is taken after the keys S of its site: it brings none of them
\* again, and it counts them all when it completes the site.
Counts(m, S) == m.type = "SITE_COMPLETE" => m.count = Cardinality(S)
Exact(m, S) == JobOf(m, m.site) \cap S = {} /\ Counts(m, S)

\* So does everything that can still be delivered, in its turn.
Line(got, h, q) ==
  /\ h \in Messages => Exact(h, got[h.site])
  /\ \A i \in 1..Len(q) :
       q[i] \in Messages => Exact(q[i], Before(got, h, q, i, q[i].site))

\* The keys acknowledged, delivered or on their way to the consumer are those
\* of the context.
Sent(s) == Before(GotKeys, held, queue, Len(queue) + 1, s)
SentExact(s) == Sent(s) = Kept(s) /\ Counts(out[s], Sent(s))

LineInv == ~closed => Line(GotKeys, held, queue) /\ \A s \in Site : SentExact(s)

\* A key is reserved before its job is sent, and never more than are wanted.
LimitInv ==
  \A s \in Site : /\ Got(s) \subseteq Kept(s)
                  /\ JobOf(out[s], s) \subseteq seen[s]
                  /\ Cardinality(seen[s]) <= ResultsWanted

FreshInv == LineInv /\ LimitInv /\ SiteCompleteCounts

\* Putting an exact message.
LEMMA LinePut ==
  ASSUME NEW got, NEW h, NEW q \in Seq(Entries), NEW m \in Messages,
         Line(got, h, q), Exact(m, Before(got, h, q, Len(q) + 1, m.site))
  PROVE  Line(got, h, Append(q, m))
<1> DEFINE r == Append(q, m)
<1>1. /\ \A i \in 1..(Len(q) + 1) : \A s : Before(got, h, r, i, s) = Before(got, h, q, i, s)
      /\ \A s : Before(got, h, r, Len(q) + 2, s)
                 = Before(got, h, q, Len(q) + 1, s) \cup JobOf(m, s)
      /\ Len(r) = Len(q) + 1 /\ Len(q) \in Nat /\ \A i \in 1..Len(q) : r[i] = q[i]
      /\ r[Len(q) + 1] = m
  <2>1. m \in Entries
    BY DEF Entries
  <2> QED
    BY <2>1, PutPositions, PutBefore
<1> HIDE DEF r
<1>2. Line(got, h, r)
  <2> SUFFICES ASSUME NEW i \in 1..Len(r), r[i] \in Messages
               PROVE  Exact(r[i], Before(got, h, r, i, r[i].site))
    BY DEF Line
  <2>1. i = Len(q) + 1 \/ i \in 1..Len(q)
    BY <1>1
  <2> QED
    BY <1>1, <2>1 DEF Line
<1> QED
  BY <1>2 DEF r

\* Taking the head of the queue.
LEMMA LineGet ==
  ASSUME NEW got, NEW q \in Seq(Entries), q # <<>>, Line(got, Nothing, q)
  PROVE  Line(got, Head(q), Tail(q))
<1> DEFINE r == Tail(q)
           h == Head(q)
<1>1. /\ \A i \in 1..Len(q) : \A s : Before(got, h, r, i, s) = Before(got, Nothing, q, i + 1, s)
      /\ \A s : Before(got, Nothing, q, 1, s) = got[s]
      /\ Len(q) \in Nat /\ Len(q) >= 1 /\ Len(r) = Len(q) - 1 /\ h = q[1]
      /\ \A i \in 1..(Len(q) - 1) : r[i] = q[i + 1]
  BY GetPositions, GetBefore
<1> HIDE DEF r, h
<1>2. h \in Messages => Exact(h, got[h.site])
  BY <1>1 DEF Line
<1>3. ASSUME NEW i \in 1..Len(r), r[i] \in Messages
      PROVE  Exact(r[i], Before(got, h, r, i, r[i].site))
  <2>1. r[i] = q[i + 1] /\ i + 1 \in 1..Len(q) /\ i \in 1..Len(q)
    BY <1>1
  <2> QED
    BY <1>1, <1>3, <2>1 DEF Line
<1>4. Line(got, h, r)
  BY <1>2, <1>3 DEF Line
<1> QED
  BY <1>4 DEF r, h

\* Delivering, or dropping, what is held.
LEMMA LineDeliver ==
  ASSUME NEW got, NEW got2, NEW h, NEW q, Line(got, h, q),
         \A i \in 1..Len(q) : q[i] \in Messages => q[i].site \in Site,
         \A s \in Site : got2[s] = got[s] \cup JobOf(h, s)
  PROVE  /\ Line(got2, Nothing, q)
         /\ \A s \in Site : Before(got2, Nothing, q, Len(q) + 1, s)
                             = Before(got, h, q, Len(q) + 1, s)
<1>1. \A i : \A s \in Site : Before(got2, Nothing, q, i, s) = Before(got, h, q, i, s)
  BY NoMessage DEF Before, Earlier
<1> QED
  BY <1>1, NoMessage DEF Line

\* The keys the application has after an event is delivered, or dropped.
LEMMA GotStep ==
  ASSUME TypeInv, ConsumerInv, LastInv, Deliver \/ DropHeld \/ CountWorkerDone, ~closed
  PROVE  \A s \in Site : GotKeys'[s] = GotKeys[s] \cup JobOf(held, s)
<1>1. CASE Deliver
  <2>1. lastAcked /\ last' = held /\ checkpoint' = checkpoint
    BY <1>1 DEF Deliver, Holds, ConsumerInv
  <2> QED
    BY <2>1 DEF LastInv, GotKeys, Got
<1>2. CASE DropHeld \/ CountWorkerDone
  <2>1. held = Wake \/ held.type = "WORKER_DONE"
    BY <1>2 DEF DropHeld, CountWorkerDone, Holds
  <2>2. \A s \in Site : JobOf(held, s) = {}
    BY <2>1, NoMessage DEF JobOf
  <2>3. GotKeys' = GotKeys
    BY <1>2 DEF DropHeld, CountWorkerDone, durableVars, GotKeys, Got
  <2> QED
    BY <2>2, <2>3
<1> QED
  BY <1>1, <1>2

LEMMA LinePutStep ==
  ASSUME TypeInv, WorkerInv, LineInv, LimitInv, NEW s \in Site, PutSucceeds(s), ~closed
  PROVE  /\ Line(GotKeys, held, queue')
         /\ \A u \in Site : Before(GotKeys, held, queue', Len(queue') + 1, u) = Kept(u)'
         /\ \A u \in Site : Counts(out'[u], Kept(u)')
<1> DEFINE m == out[s]
           n == Len(queue)
<1>1. /\ m \in Messages /\ m.site = s /\ queue \in Seq(Entries)
      /\ queue' = Append(queue, m) /\ m \in Entries
      /\ seen' = seen /\ out'[s] = Nothing /\ \A u \in Site \ {s} : out'[u] = out[u]
  BY DEF TypeInv, OutInv, WorkerTypeOK, SharedTypeOK, WorkerInv, OutSound, PutSucceeds, Entries
<1>2. \A u \in Site : Before(GotKeys, held, queue, n + 1, u) = Kept(u)
                      /\ Counts(out[u], Kept(u))
  BY DEF LineInv, SentExact, Sent
<1>3. Exact(m, Before(GotKeys, held, queue, n + 1, m.site))
  BY <1>1, <1>2 DEF Exact, Kept
<1>4. Line(GotKeys, held, queue')
  BY <1>1, <1>3, LinePut DEF LineInv
<1>5. /\ \A u : Before(GotKeys, held, queue', n + 2, u)
                  = Before(GotKeys, held, queue, n + 1, u) \cup JobOf(m, u)
      /\ Len(queue') + 1 = n + 2
  BY <1>1, PutPositions, PutBefore
<1>6. ASSUME NEW u \in Site
      PROVE  /\ Before(GotKeys, held, queue', n + 2, u) = Kept(u)'
             /\ Counts(out'[u], Kept(u)')
  <2>1. Before(GotKeys, held, queue', n + 2, u) = Kept(u) \cup JobOf(m, u)
    BY <1>2, <1>5
  <2>2. CASE u = s
    <3>1. Kept(s)' = seen[s]
      BY <1>1, NoMessage DEF Kept
    <3>2. JobOf(m, s) \subseteq seen[s]
      BY DEF LimitInv
    <3> QED
      BY <1>1, <2>1, <2>2, <3>1, <3>2 DEF Kept, Counts, Nothing, Message
  <2>3. CASE u # s
    <3>1. JobOf(m, u) = {} /\ Kept(u)' = Kept(u) /\ out'[u] = out[u]
      BY <1>1, <2>3 DEF JobOf, Kept
    <3> QED
      BY <1>2, <2>1, <3>1
  <2> QED
    BY <2>2, <2>3
<1> QED
  BY <1>4, <1>5, <1>6

LEMMA LineStep ==
  TypeInv /\ ConsumerInv /\ LastInv /\ WorkerInv /\ LineInv /\ LimitInv /\ [Next]_vars
    => LineInv'
<1> SUFFICES ASSUME TypeInv, ConsumerInv, LastInv, WorkerInv, LineInv, LimitInv, [Next]_vars,
                    ~closed'
             PROVE  /\ Line(GotKeys', held', queue')
                    /\ \A u \in Site :
                         /\ Before(GotKeys', held', queue', Len(queue') + 1, u) = Kept(u)'
                         /\ Counts(out'[u], Kept(u)')
  BY DEF LineInv, SentExact, Sent
<1> DEFINE Goal == /\ Line(GotKeys', held', queue')
                   /\ \A u \in Site :
                        /\ Before(GotKeys', held', queue', Len(queue') + 1, u) = Kept(u)'
                        /\ Counts(out'[u], Kept(u)')
<1>0. ~closed => /\ Line(GotKeys, held, queue)
                 /\ \A u \in Site : /\ Before(GotKeys, held, queue, Len(queue) + 1, u) = Kept(u)
                                    /\ Counts(out[u], Kept(u))
  BY DEF LineInv, SentExact, Sent
<1>1. CASE ~closed /\ GotKeys' = GotKeys /\ UNCHANGED <<held, queue, seen, out>>
  BY <1>0, <1>1 DEF Kept
<1>2. ASSUME NEW s \in Site, WorkerStep(s) \/ AdapterFails(s) PROVE Goal
  <2>1. ~closed /\ GotKeys' = GotKeys /\ held' = held
    BY <1>2, WorkerStepFrame DEF consumerVars, durableVars, GotKeys, Got
  <2>2. CASE PutSucceeds(s)
    BY <2>1, <2>2, LinePutStep
  <2>3. CASE ~PutSucceeds(s)
    <3>1. queue' = queue /\ \A u \in Site : KeysKept(u)
      BY <1>2, <2>3, QuietWorkerStep
    <3> QED
      BY <1>0, <2>1, <3>1 DEF KeysKept, Counts
  <2> QED
    BY <2>2, <2>3
<1>3. CASE AckSaves
  <2>1. last # Nothing /\ checkpoint' = Acked(last) /\ last' = last
    BY <1>3 DEF AckSaves, TypeInv, LastTypeInv
  <2>2. \A s \in Site : Got(s)' = Got(s)
    BY <2>1, AckedSeen DEF Got
  <2>3. GotKeys' = GotKeys
    BY <2>2 DEF GotKeys
  <2> QED
    BY <1>1, <1>3, <2>3 DEF AckSaves, cancelVars, workerVars
<1>4. CASE Get
  <2>1. /\ held = Nothing /\ queue # <<>> /\ queue' = Tail(queue) /\ held' = Head(queue)
        /\ ~closed /\ GotKeys' = GotKeys /\ seen' = seen /\ out' = out
    BY <1>4 DEF Get, ConsumerInv, cancelVars, durableVars, workerVars, GotKeys, Got
  <2>2. queue \in Seq(Entries)
    BY DEF TypeInv, SharedTypeOK, Entries
  <2>3. \A s : Before(GotKeys, held', queue', Len(queue') + 1, s)
              = Before(GotKeys, held, queue, Len(queue) + 1, s)
    <3>1. Len(queue) \in 1..Len(queue) /\ Len(queue') + 1 = Len(queue)
      BY <2>1, <2>2, GetPositions
    <3>2. \A i \in 1..Len(queue) : \A s :
            Before(GotKeys, held', queue', i, s) = Before(GotKeys, held, queue, i + 1, s)
      <4>1. \A i \in 1..Len(queue) : \A s :
              Before(GotKeys, Head(queue), Tail(queue), i, s)
                = Before(GotKeys, Nothing, queue, i + 1, s)
        BY <2>1, <2>2, GetBefore
      <4> QED
        BY <2>1, <4>1
    <3> QED
      BY <3>1, <3>2
  <2> QED
    BY <1>0, <2>1, <2>2, <2>3, LineGet DEF Kept
<1>5. CASE Deliver \/ DropHeld \/ CountWorkerDone
  <2>1. ~closed /\ held' = Nothing /\ queue' = queue /\ seen' = seen /\ out' = out
    BY <1>5 DEF Deliver, DropHeld, CountWorkerDone, Holds, cancelVars, workerVars
  <2>2. \A i \in 1..Len(queue) : queue[i] \in Messages => queue[i].site \in Site
    BY DEF Messages
  <2>3. \A s \in Site : GotKeys'[s] = GotKeys[s] \cup JobOf(held, s)
    BY <1>5, <2>1, GotStep
  <2>4. \A s \in Site : Kept(s)' = Kept(s)
    BY <2>1 DEF Kept
  <2>5. /\ Line(GotKeys', Nothing, queue)
        /\ \A s \in Site : Before(GotKeys', Nothing, queue, Len(queue) + 1, s)
                            = Before(GotKeys, held, queue, Len(queue) + 1, s)
    BY <1>0, <2>1, <2>2, <2>3, LineDeliver
  <2> QED
    BY <1>0, <2>1, <2>4, <2>5
<1>6. CASE DeliverSearchComplete
  <2>1. /\ ~closed /\ lastAcked /\ last' = SearchComplete /\ checkpoint' = checkpoint
        /\ UNCHANGED <<held, queue, seen, out>>
    BY <1>6 DEF DeliverSearchComplete, Continues, ConsumerInv, durableVars, workerVars
  <2>2. \A s \in Site : Got(s)' = Got(s)
    BY <2>1, NoMessage DEF LastInv, Got
  <2>3. GotKeys' = GotKeys
    BY <2>2 DEF GotKeys
  <2> QED
    BY <1>1, <2>1, <2>3
<1>7. CASE Resume
  <2>1. /\ queue' = <<>> /\ held' = Nothing /\ last' = Nothing /\ checkpoint' = checkpoint
        /\ \A s \in Site : seen'[s] = checkpoint.seen[s] /\ out'[s] = Nothing
    BY <1>7 DEF Resume, ResumedKeys
  <2>2. \A s \in Site : Kept(s)' = GotKeys'[s]
    BY <2>1, NoMessage DEF GotKeys, Got, Kept
  <2>3. Len(<<>>) = 0
    OBVIOUS
  <2>4. \A s \in Site : Before(GotKeys', held', queue', Len(queue') + 1, s) = GotKeys'[s]
    BY <2>1, <2>3, NoMessage DEF Before, Earlier
  <2> QED
    BY <2>1, <2>2, <2>3, <2>4, NoMessage DEF Line, Counts, Nothing, Message
<1>8. CASE CallAck \/ AckFails \/ CallNext \/ NextEnds \/ NextSeesClosed \/ NextSeesCancel
           \/ NextRaises \/ NextWaits \/ GetTimesOut
  <2>1. ~closed /\ UNCHANGED <<held, queue, seen, out, last, checkpoint>>
    BY <1>8 DEF CallAck, AckFails, CallNext, NextEnds, NextSeesClosed, NextSeesCancel,
                NextRaises, NextWaits, GetTimesOut, ConsumerGoes, BeginClose, Continues,
                cancelVars, durableVars, workerVars
  <2> QED
    BY <1>1, <2>1 DEF GotKeys, Got
<1>9. CASE CloserStep \/ CloseCalled
  BY <1>9 DEF CloserStep, CloseStops, CloseWakes, CloseMakesRoom, CloseCalled, BeginClose,
              ConsumerInv, cancelVars
<1>10. CASE CallerCancels \/ Stay \/ UNCHANGED vars
  BY <1>1, <1>10 DEF CallerCancels, Stay, vars, cancelVars, consumerVars, durableVars,
                     workerVars, GotKeys, Got
<1> QED
  BY <1>2, <1>3, <1>4, <1>5, <1>6, <1>7, <1>8, <1>9, <1>10 DEF Next, AckStep, NextStep

LEMMA LimitStep ==
  TypeInv /\ ConsumerInv /\ LastInv /\ WorkerInv /\ LineInv /\ LimitInv /\ [Next]_vars
    => LimitInv'
<1> SUFFICES ASSUME TypeInv, ConsumerInv, LastInv, WorkerInv, LineInv, LimitInv, [Next]_vars
             PROVE  LimitInv'
  OBVIOUS
<1>1. ASSUME \A u \in Site : Got(u)' \subseteq Got(u), UNCHANGED <<seen, out>>
      PROVE  LimitInv'
  BY <1>1 DEF LimitInv, Kept
<1>2. ASSUME NEW s \in Site, WorkerStep(s) \/ AdapterFails(s) PROVE LimitInv'
  <2>1. \A u \in Site : Got(u)' = Got(u)
    BY <1>2, WorkerStepFrame DEF consumerVars, durableVars, Got
  <2>2. CASE PutSucceeds(s)
    <3>1. seen' = seen /\ out'[s] = Nothing /\ \A u \in Site \ {s} : out'[u] = out[u]
      BY <2>2 DEF PutSucceeds, TypeInv, OutInv, WorkerTypeOK
    <3>2. \A u \in Site : Kept(u) \subseteq Kept(u)' /\ JobOf(out'[u], u) \subseteq seen[u]
      BY <3>1, NoMessage DEF Kept, LimitInv
    <3> QED
      BY <2>1, <3>1, <3>2 DEF LimitInv
  <2>3. CASE ~PutSucceeds(s)
    BY <1>2, <2>1, <2>3, QuietWorkerStep DEF KeysKept, LimitInv
  <2> QED
    BY <2>2, <2>3
<1>3. CASE AckSaves
  <2>1. last # Nothing /\ checkpoint' = Acked(last) /\ last' = last
    BY <1>3 DEF AckSaves, TypeInv, LastTypeInv
  <2>2. \A s \in Site : Got(s)' = Got(s)
    BY <2>1, AckedSeen DEF Got
  <2> QED
    BY <1>1, <1>3, <2>2 DEF AckSaves, workerVars
<1>4. CASE Deliver
  <2>1. ~closed /\ last' = held /\ UNCHANGED <<checkpoint, seen, out>>
    BY <1>4 DEF Deliver, Holds, workerVars
  <2>2. \A s \in Site : Got(s)' \subseteq Sent(s)
    BY <2>1, KeysType DEF Got, GotKeys, Sent, Before, Earlier
  <2>3. \A s \in Site : Sent(s) = Kept(s)
    BY <2>1 DEF LineInv, SentExact
  <2> QED
    BY <2>1, <2>2, <2>3 DEF LimitInv, Kept
<1>5. CASE DeliverSearchComplete
  <2>1. last' = SearchComplete /\ UNCHANGED <<checkpoint, seen, out>>
    BY <1>5 DEF DeliverSearchComplete, durableVars, workerVars
  <2> QED
    BY <1>1, <2>1, NoMessage DEF Got
<1>6. CASE Resume
  <2>1. /\ last' = Nothing /\ checkpoint' = checkpoint
        /\ \A s \in Site : seen'[s] = checkpoint.seen[s] /\ out'[s] = Nothing
    BY <1>6 DEF Resume, ResumedKeys
  <2>2. ASSUME NEW s \in Site PROVE Cardinality(seen'[s]) <= ResultsWanted
    <3>1. checkpoint.seen[s] \subseteq seen[s] /\ Cardinality(seen[s]) <= ResultsWanted
      BY DEF LimitInv, Got, Kept
    <3>2. Cardinality(checkpoint.seen[s]) <= Cardinality(seen[s])
      BY <3>1, SeenFinite, FS_Subset DEF TypeInv, OutInv
    <3>3. Cardinality(seen[s]) \in Nat /\ Cardinality(checkpoint.seen[s]) \in Nat
      BY <3>1, SeenFinite, FS_Subset, FS_CardinalityType DEF TypeInv, OutInv
    <3> QED
      BY <2>1, <3>1, <3>2, <3>3, BoundAssumption
  <2> QED
    BY <2>1, <2>2, NoMessage DEF LimitInv, Got, Kept
<1>7. CASE CallAck \/ AckFails \/ (NextStep /\ ~Deliver /\ ~DeliverSearchComplete)
  <2>1. UNCHANGED <<last, checkpoint, seen, out>>
    BY <1>7
       DEF CallAck, AckFails, NextStep, CallNext, NextEnds, NextSeesClosed, NextSeesCancel,
           NextRaises, NextWaits, GetTimesOut, Get, DropHeld, CountWorkerDone, ConsumerGoes,
           durableVars, workerVars
  <2> QED
    BY <1>1, <2>1 DEF Got
<1>8. CASE CloserStep \/ CloseCalled \/ CallerCancels \/ Stay \/ UNCHANGED vars
  <2>1. UNCHANGED <<last, checkpoint, seen, out>>
    BY <1>8 DEF CloserStep, CloseStops, CloseWakes, CloseMakesRoom, CloseCalled,
                CallerCancels, Stay, vars, consumerVars, durableVars, workerVars
  <2> QED
    BY <1>1, <2>1 DEF Got
<1> QED
  BY <1>2, <1>3, <1>4, <1>5, <1>6, <1>7, <1>8 DEF Next, AckStep

LEMMA CountStep ==
  TypeInv /\ ConsumerInv /\ LastInv /\ LineInv /\ SiteCompleteCounts /\ [Next]_vars
    => SiteCompleteCounts'
<1> SUFFICES ASSUME TypeInv, ConsumerInv, LastInv, LineInv, SiteCompleteCounts, [Next]_vars
             PROVE  SiteCompleteCounts'
  OBVIOUS
<1>1. CASE UNCHANGED <<last, checkpoint>>
  BY <1>1 DEF SiteCompleteCounts
<1>2. CASE AckSaves
  <2>1. last # Nothing /\ last' = last /\ checkpoint' = Acked(last)
    BY <1>2 DEF AckSaves, TypeInv, LastTypeInv
  <2>2. CASE last.type = "SITE_COMPLETE"
    <3>1. last \in Messages /\ last.site \in Site
      BY <2>1, <2>2 DEF TypeInv, LastTypeInv, ConsumerTypeOK, SearchComplete, Message, Messages
    <3>2. checkpoint'.seen[last.site] = checkpoint.seen[last.site]
      BY <2>1, <2>2, <3>1, AckedSeen DEF Got, JobOf
    <3> QED
      BY <2>1, <3>2 DEF SiteCompleteCounts
  <2> QED
    BY <2>1, <2>2 DEF SiteCompleteCounts
<1>3. CASE Deliver
  <2>1. /\ held \in Messages /\ held.site \in Site /\ ~closed /\ lastAcked
        /\ last' = held /\ checkpoint' = checkpoint
    BY <1>3, HeldMessage DEF Deliver, Holds, ConsumerInv, TypeInv, LastTypeInv, Messages
  <2>2. GotKeys[held.site] = checkpoint.seen[held.site]
    BY <2>1 DEF LastInv, Got, GotKeys
  <2> QED
    BY <2>1, <2>2 DEF LineInv, Line, Exact, Counts, SiteCompleteCounts
<1>4. CASE DeliverSearchComplete
  BY <1>4 DEF DeliverSearchComplete, SiteCompleteCounts, SearchComplete, Message
<1>5. CASE Resume
  BY <1>5 DEF Resume, SiteCompleteCounts, Nothing, Message
<1>6. ASSUME NEW s \in Site, WorkerStep(s) \/ AdapterFails(s) PROVE SiteCompleteCounts'
  BY <1>1, <1>6, WorkerStepFrame DEF consumerVars, durableVars
<1>7. CASE CallAck \/ AckFails \/ (NextStep /\ ~Deliver /\ ~DeliverSearchComplete)
  BY <1>1, <1>7
     DEF CallAck, AckFails, NextStep, CallNext, NextEnds, NextSeesClosed, NextSeesCancel,
         NextRaises, NextWaits, GetTimesOut, Get, DropHeld, CountWorkerDone, ConsumerGoes,
         durableVars
<1>8. CASE CloserStep \/ CloseCalled \/ CallerCancels \/ Stay \/ UNCHANGED vars
  BY <1>1, <1>8 DEF CloserStep, CloseStops, CloseWakes, CloseMakesRoom, CloseCalled,
                    CallerCancels, Stay, vars, consumerVars, durableVars
<1> QED
  BY <1>2, <1>3, <1>4, <1>5, <1>6, <1>7, <1>8 DEF Next, AckStep

LEMMA FreshInit == Init => FreshInv
<1> SUFFICES ASSUME Init PROVE FreshInv
  OBVIOUS
<1>1. /\ \A s \in Site : checkpoint.seen[s] = {} /\ seen[s] = {} /\ out[s] = Nothing
      /\ queue = <<>> /\ held = Nothing /\ last = Nothing
  BY DEF Init, NewCheckpoint
<1>2. \A s \in Site : Got(s) = {} /\ GotKeys[s] = {} /\ Kept(s) = {}
  BY <1>1, NoMessage DEF Got, GotKeys, Kept
<1>3. Len(<<>>) = 0
  OBVIOUS
<1>4. \A s \in Site : Sent(s) = {}
  BY <1>1, <1>2, <1>3, NoMessage DEF Sent, Before, Earlier
<1>5. LineInv
  <2>1. Line(GotKeys, held, queue)
    BY <1>1, <1>3, NoMessage DEF Line
  <2>2. \A s \in Site : SentExact(s)
    <3>1. \A s \in Site : out[s].type # "SITE_COMPLETE"
      BY <1>1 DEF Nothing, Message
    <3> QED
      BY <1>2, <1>4, <3>1 DEF SentExact, Counts
  <2> QED
    BY <2>1, <2>2 DEF LineInv
<1>6. LimitInv
  <2>1. Cardinality({}) = 0 /\ 0 <= ResultsWanted
    BY FS_EmptySet, BoundAssumption
  <2> QED
    BY <1>1, <1>2, <2>1, NoMessage DEF LimitInv
<1> QED
  BY <1>1, <1>5, <1>6 DEF FreshInv, SiteCompleteCounts, Nothing, Message

LEMMA FreshStep == DeliveryInv /\ FreshInv /\ [Next]_vars => FreshInv'
BY LineStep, LimitStep, CountStep DEF DeliveryInv, FreshInv

\* FreshInv is inductive relative to DeliveryInv.
THEOREM FreshInvariant == Spec => []FreshInv
BY FreshInit, FreshStep, DeliveryInvariant, PTL DEF Spec

\* results_wanted bounds the keys of a site in the checkpoint, over all attempts,
\* retries and restarts: emit_job() reserves no key beyond it, and no key is
\* acknowledged that the context did not reserve.
THEOREM WantedBounds == Spec => []WithinLimit
<1>1. DeliveryInv /\ FreshInv => WithinLimit
  <2> SUFFICES ASSUME DeliveryInv, FreshInv, NEW s \in Site
               PROVE  Cardinality(checkpoint.seen[s]) <= ResultsWanted
    BY DEF WithinLimit
  <2>1. checkpoint.seen[s] \subseteq seen[s] /\ Cardinality(seen[s]) <= ResultsWanted
    BY DEF FreshInv, LimitInv, Got, Kept
  <2>2. WorkerTypeOK
    BY DEF DeliveryInv, TypeInv, OutInv
  <2>3. /\ Cardinality(checkpoint.seen[s]) <= Cardinality(seen[s])
        /\ Cardinality(seen[s]) \in Nat /\ Cardinality(checkpoint.seen[s]) \in Nat
    BY <2>1, <2>2, SeenFinite, FS_Subset, FS_CardinalityType
  <2> QED
    BY <2>1, <2>3, BoundAssumption
<1> QED
  BY <1>1, DeliveryInvariant, FreshInvariant, PTL

\* The count of a SiteCompleteEvent, len(context._seen) when the worker made it,
\* is the number of acknowledged keys of the site when the application gets it.
THEOREM CountsExact == Spec => []SiteCompleteCounts
BY FreshInvariant, PTL DEF FreshInv

\* next() never returns a job the checkpoint already holds: not in this stream,
\* not after a retry, not after a restart.
THEOREM NeverRedelivered == Spec => NoRedelivery
<1>1. DeliveryInv /\ FreshInv /\ [Next]_vars
        => [lastAcked /\ ~lastAcked' /\ last'.type = "JOB"
              => last'.job \notin checkpoint.seen[last'.site]]_vars
  <2> SUFFICES ASSUME DeliveryInv, FreshInv, [Next]_vars,
                      lastAcked, ~lastAcked', last'.type = "JOB"
               PROVE  last'.job \notin checkpoint.seen[last'.site]
    OBVIOUS
  <2>1. CASE Deliver
    <3>1. /\ held \in Messages /\ held.site \in Site /\ ~closed /\ last' = held
      BY <2>1, HeldMessage
         DEF Deliver, Holds, DeliveryInv, TypeInv, LastTypeInv, Messages
    <3>2. JobOf(held, held.site) \cap Got(held.site) = {}
      BY <3>1 DEF FreshInv, LineInv, Line, Exact, GotKeys
    <3> QED
      BY <3>1, <3>2 DEF JobOf, Got
  <2>2. CASE DeliverSearchComplete
    BY <2>2 DEF DeliverSearchComplete, SearchComplete, Message
  <2>3. ASSUME NEW s \in Site, WorkerStep(s) \/ AdapterFails(s) PROVE lastAcked' = lastAcked
    BY <2>3, WorkerStepFrame DEF consumerVars, DeliveryInv
  <2>4. CASE AckStep \/ AckFails \/ (NextStep /\ ~Deliver /\ ~DeliverSearchComplete)
    BY <2>4
       DEF AckStep, CallAck, AckSaves, AckFails, NextStep, CallNext, NextEnds, NextSeesClosed,
           NextSeesCancel, NextRaises, NextWaits, GetTimesOut, Get, DropHeld, CountWorkerDone,
           ConsumerGoes
  <2>5. CASE CloserStep \/ CloseCalled \/ CallerCancels \/ Resume \/ Stay \/ UNCHANGED vars
    BY <2>5 DEF CloserStep, CloseStops, CloseWakes, CloseMakesRoom, CloseCalled,
                CallerCancels, Resume, Stay, vars, consumerVars
  <2> QED
    BY <2>1, <2>2, <2>3, <2>4, <2>5 DEF Next
<1> QED
  BY <1>1, DeliveryInvariant, FreshInvariant, PTL DEF Spec, NoRedelivery
-------------------------------------------------------------------------------
\* The last words of a worker: nothing of its site follows its WORKER_DONE, and
\* only that follows its verdict.

Verdicts == {"SITE_COMPLETE", "ERROR"}

\* Message m is of site s.
Of(m, s) == m \in Messages /\ m.site = s

\* Message n of the site of m comes after it.
Follows(n, m) == m.type # "WORKER_DONE" /\ (m.type \in Verdicts => n.type = "WORKER_DONE")

\* What the consumer holds, and what it will take.
Waiting == Earlier(held, queue, Len(queue) + 1)

Ordered(h, q) ==
  \A s \in Site : \A k \in 1..Len(q) : Of(q[k], s) =>
    /\ Of(h, s) => Follows(q[k], h)
    /\ \A i \in 1..Len(q) : i < k /\ Of(q[i], s) => Follows(q[k], q[i])

\* The application knows that s is complete once it acknowledges the last event.
EndKnown(s) == checkpoint.completed[s] \/ (Of(last, s) /\ last.type = "SITE_COMPLETE")

\* The worker of s has nothing more to say than that it is done, or nothing.
Over(s) == worker[s] \in {"finishing", "dead"} /\ out[s].type \in {"NOTHING", "WORKER_DONE"}
Gone(s) == worker[s] = "dead" /\ out[s] = Nothing

\* Message m of s may be waiting.
Timely(m, s) ==
  /\ EndKnown(s) => m.type = "WORKER_DONE"
  /\ m.type \in Verdicts => Over(s)
  /\ m.type = "WORKER_DONE" => Gone(s)

EndInv == \A s \in Site :
  /\ out[s].type \in Verdicts => worker[s] = "finishing"
  /\ out[s] # Nothing => (worker[s] = "dead" <=> out[s].type = "WORKER_DONE")

OrderInv ==
  ~closed => /\ Ordered(held, queue)
             /\ \A s \in Site : \A m \in Waiting : Of(m, s) => Timely(m, s)
             /\ \A s \in Site : EndKnown(s) => Over(s)

\* What is acknowledged next is not of a completed site.
LastOpen == ~lastAcked /\ last \in Messages => ~checkpoint.completed[last.site]

\* The workers whose last message next() has not counted yet.
Undone == {s \in Site : ~Gone(s) \/ \E m \in Waiting : Of(m, s)}

\* Unless the stream is cancelled, no last message is lost.
CountInv ==
  ~closed /\ ~latched =>
    /\ active = Cardinality(Undone)
    /\ \A s \in Site : Gone(s) /\ (\E m \in Waiting : Of(m, s))
                         => \E m \in Waiting : Of(m, s) /\ m.type = "WORKER_DONE"

LEMMA WaitingType ==
  ASSUME TypeInv
  PROVE  /\ Waiting \subseteq Messages \cup {Nothing, Wake}
         /\ \A s : ~Of(Nothing, s) /\ ~Of(Wake, s) /\ ~Of(SearchComplete, s)
<1>1. queue \in Seq(Messages \cup {Wake}) /\ held \in Messages \cup {Nothing, Wake}
  BY DEF TypeInv, SharedTypeOK, LastTypeInv, ConsumerTypeOK
<1>2. \A k \in 1..Len(queue) : queue[k] \in Messages \cup {Wake}
  BY <1>1
<1> QED
  BY <1>1, <1>2, NoMessage DEF Waiting, Earlier, Of

\* What a step of its own that puts nothing on the queue leaves of worker u's
\* last words.
EndKept(u) ==
  /\ Over(u) => Over(u)'
  /\ Gone(u) => Gone(u)'
  /\ ~stopped /\ ~latched' => (Gone(u)' <=> Gone(u))
  /\ out'[u].type \in Verdicts => worker'[u] = "finishing"
  /\ out'[u] # Nothing => (worker'[u] = "dead" <=> out'[u].type = "WORKER_DONE")

LEMMA QuietEnd ==
  ASSUME TypeInv, EndInv, NEW s \in Site, WorkerStep(s) \/ AdapterFails(s), ~PutSucceeds(s)
  PROVE  \A u \in Site : EndKept(u)
<1> USE DEF GoTo, Emit, Runs, WorkerUnchanged, EmitSiteComplete, Looks, TypeInv, OutInv, WorkerTypeOK,
            Verdicts
<1>0. /\ out[s].type \in Verdicts => worker[s] = "finishing"
      /\ out[s] # Nothing => (worker[s] = "dead" <=> out[s].type = "WORKER_DONE")
      /\ Nothing.type = "NOTHING"
  BY DEF EndInv, Nothing, Message
<1>1. EndKept(s)
  <2>1. ASSUME out[s] = Nothing, out'[s] = Nothing,
               worker[s] \notin {"finishing", "dead"}, worker'[s] # "dead"
        PROVE  EndKept(s)
    BY <1>0, <2>1 DEF EndKept, Over, Gone
  <2>2. ASSUME out[s] = Nothing, worker[s] \notin {"finishing", "dead"},
               out'[s].type \in {"NOTHING", "JOB", "PROGRESS", "WARNING"},
               worker'[s] # "dead"
        PROVE  EndKept(s)
    BY <1>0, <2>2 DEF EndKept, Over, Gone
  <2>3. ASSUME out[s] = Nothing, worker[s] \notin {"finishing", "dead"},
               out'[s].type \in Verdicts, worker'[s] = "finishing"
        PROVE  EndKept(s)
    BY <1>0, <2>3 DEF EndKept, Over, Gone
  <2>4. CASE StartWorker(s)
    BY <2>1, <2>3, <2>4 DEF StartWorker, CompleteMessage, Message
  <2>5. CASE CreateAdapter(s) \/ FetchPage(s) \/ Retry(s) \/ Abandon(s) \/ FailAbruptly(s)
    BY <2>1, <2>5 DEF CreateAdapter, FetchPage, Retry, Abandon, FailAbruptly, InAttempt,
                      AfterBaseException
  <2>6. CASE FinishPage(s) \/ ScrapeReturns(s)
    BY <2>2, <2>3, <2>6 DEF FinishPage, ScrapeReturns, CompleteMessage, Message
  <2>7. ASSUME NEW j \in Job, EmitJob(s, j) \/ SkipSeen(s, j) \/ SkipUnreadable(s, j)
        PROVE  EndKept(s)
    BY <1>0, <2>2, <2>7 DEF EmitJob, SkipSeen, SkipUnreadable, Report, Message
  <2>8. ASSUME NEW kind \in FailureKinds, Fail(s, kind) PROVE EndKept(s)
    BY <2>2, <2>3, <2>8 DEF Fail, InAttempt, Report, CompleteMessage, Message
  <2>9. CASE FinishWorker(s)
    BY <1>0, <2>9 DEF FinishWorker, Report, Message, EndKept, Over, Gone
  <2>10. CASE PutChecks(s) \/ PutTimesOut(s)
    BY <1>0, <2>10 DEF PutChecks, PutTimesOut, EndKept, Over, Gone
  <2>11. CASE PutRefused(s)
    <3>1. stopped \/ latched'
      BY <2>11 DEF PutRefused, SeesCancel, Latch
    <3>2. out'[s] = Nothing /\ worker' = worker
      BY <2>11 DEF PutRefused
    <3> QED
      BY <1>0, <3>1, <3>2 DEF EndKept, Over, Gone
  <2> QED
    BY <2>4, <2>5, <2>6, <2>7, <2>8, <2>9, <2>10, <2>11 DEF WorkerStep, AdapterFails
<1>2. \A u \in Site \ {s} : worker'[u] = worker[u] /\ out'[u] = out[u]
  BY WorkerStepFrame
<1>3. \A u \in Site \ {s} : EndKept(u)
  BY <1>2 DEF EndKept, Over, Gone, EndInv
<1> QED
  BY <1>1, <1>3

\* Putting a message that may follow what is waiting.
LEMMA OrderPut ==
  ASSUME NEW h, NEW q \in Seq(Entries), NEW m \in Entries, Ordered(h, q),
         \A s \in Site : Of(m, s) =>
           /\ Of(h, s) => Follows(m, h)
           /\ \A i \in 1..Len(q) : Of(q[i], s) => Follows(m, q[i])
  PROVE  Ordered(h, Append(q, m))
<1> DEFINE r == Append(q, m)
<1>1. Len(r) = Len(q) + 1 /\ Len(q) \in Nat /\ r[Len(q) + 1] = m
      /\ \A i \in 1..Len(q) : r[i] = q[i]
  OBVIOUS
<1> HIDE DEF r
<1>2. Ordered(h, r)
  <2> SUFFICES ASSUME NEW s \in Site, NEW k \in 1..Len(r), Of(r[k], s)
               PROVE  /\ Of(h, s) => Follows(r[k], h)
                      /\ \A i \in 1..Len(r) : i < k /\ Of(r[i], s) => Follows(r[k], r[i])
    BY DEF Ordered
  <2>1. CASE k = Len(q) + 1
    <3>1. \A i \in 1..Len(r) : i < k => i \in 1..Len(q)
      BY <1>1, <2>1
    <3> QED
      BY <1>1, <2>1, <3>1
  <2>2. CASE k \in 1..Len(q)
    <3>1. \A i \in 1..Len(r) : i < k => i \in 1..Len(q)
      BY <1>1, <2>2
    <3> QED
      BY <1>1, <2>2, <3>1 DEF Ordered
  <2> QED
    BY <1>1, <2>1, <2>2
<1> QED
  BY <1>2 DEF r

\* Taking the head of the queue.
LEMMA OrderGet ==
  ASSUME NEW q \in Seq(Entries), q # <<>>, Ordered(Nothing, q)
  PROVE  Ordered(Head(q), Tail(q))
<1> DEFINE r == Tail(q)
           h == Head(q)
<1>1. Len(q) \in Nat /\ Len(q) >= 1 /\ Len(r) = Len(q) - 1 /\ h = q[1]
      /\ \A i \in 1..(Len(q) - 1) : r[i] = q[i + 1]
  OBVIOUS
<1> HIDE DEF r, h
<1>2. Ordered(h, r)
  <2> SUFFICES ASSUME NEW s \in Site, NEW k \in 1..Len(r), Of(r[k], s)
               PROVE  /\ Of(h, s) => Follows(r[k], h)
                      /\ \A i \in 1..Len(r) : i < k /\ Of(r[i], s) => Follows(r[k], r[i])
    BY DEF Ordered
  <2>1. r[k] = q[k + 1] /\ k + 1 \in 1..Len(q) /\ 1 \in 1..Len(q) /\ 1 < k + 1
    BY <1>1
  <2>2. \A i \in 1..Len(r) : r[i] = q[i + 1] /\ i + 1 \in 1..Len(q) /\ (i < k => i + 1 < k + 1)
    BY <1>1
  <2>3. \A i \in 1..Len(q) : i < k + 1 /\ Of(q[i], s) => Follows(q[k + 1], q[i])
    BY <2>1 DEF Ordered
  <2> QED
    BY <1>1, <2>1, <2>2, <2>3
<1> QED
  BY <1>2 DEF r, h

\* What is waiting after the steps that move messages.
LEMMA WaitingPut ==
  ASSUME TypeInv, NEW m \in Entries, queue' = Append(queue, m), held' = held
  PROVE  Waiting' = Waiting \cup {m}
<1>1. queue \in Seq(Entries)
  BY DEF TypeInv, SharedTypeOK, Entries
<1>2. Len(queue') + 1 = Len(queue) + 2
      /\ Earlier(held, queue', Len(queue) + 2) = Earlier(held, queue, Len(queue) + 1) \cup {m}
  BY <1>1, PutPositions
<1> QED
  BY <1>2 DEF Waiting

LEMMA WaitingGet ==
  ASSUME TypeInv, queue # <<>>, queue' = Tail(queue), held' = Head(queue), held = Nothing
  PROVE  Waiting' \cup {Nothing} = Waiting
<1>1. queue \in Seq(Entries)
  BY DEF TypeInv, SharedTypeOK, Entries
<1>2. /\ \A i \in 1..Len(queue) :
            Earlier(held', queue', i) \cup {Nothing} = Earlier(Nothing, queue, i + 1)
      /\ Len(queue) \in 1..Len(queue) /\ Len(queue') + 1 = Len(queue)
  BY <1>1, GetPositions
<1> QED
  BY <1>2 DEF Waiting

LEMMA WaitingTake ==
  ASSUME queue' = queue, held' = Nothing
  PROVE  Waiting' \cup {held} = Waiting \cup {Nothing}
BY DEF Waiting, Earlier

LEMMA OrderPutStep ==
  ASSUME TypeInv, WorkerInv, EndInv, OrderInv, NEW s \in Site, PutSucceeds(s), ~closed
  PROVE  /\ Ordered(held, queue') /\ EndInv'
         /\ \A u \in Site : \A m \in Waiting' : Of(m, u) => Timely(m, u)'
         /\ \A u \in Site : EndKnown(u)' => Over(u)'
<1> DEFINE n == out[s]
<1>1. /\ n \in Messages /\ n.site = s /\ queue \in Seq(Entries) /\ n \in Entries
      /\ queue' = Append(queue, n) /\ held' = held /\ n # Nothing /\ n.type # "NOTHING"
      /\ worker' = worker /\ out'[s] = Nothing /\ \A u \in Site \ {s} : out'[u] = out[u]
  BY DEF TypeInv, OutInv, WorkerTypeOK, SharedTypeOK, WorkerInv, OutSound, PutSucceeds, Entries,
         consumerVars, Messages, AdapterTypes
<1>2. Nothing.type = "NOTHING"
  BY DEF Nothing, Message
<1>3. Waiting' = Waiting \cup {n}
  BY <1>1, WaitingPut
<1>4. \A u \in Site : /\ EndKnown(u)' <=> EndKnown(u)
                      /\ Over(u) => Over(u)'
                      /\ Gone(u) => Gone(u)'
  <2>1. UNCHANGED <<last, checkpoint>>
    BY DEF PutSucceeds, consumerVars, durableVars
  <2> QED
    BY <1>1, <1>2, <2>1 DEF EndKnown, Over, Gone
<1>5. \A m \in Waiting : Of(m, s) => Follows(n, m)
  <2> SUFFICES ASSUME NEW m \in Waiting, Of(m, s) PROVE Follows(n, m)
    OBVIOUS
  <2>1. Timely(m, s)
    BY DEF OrderInv
  <2> QED
    BY <1>1, <2>1 DEF Timely, Follows, Over, Gone
<1>6. Ordered(held, queue')
  <2>1. held \in Waiting /\ \A i \in 1..Len(queue) : queue[i] \in Waiting
    BY DEF Earlier, Waiting
  <2>2. \A u \in Site : Of(n, u) =>
           /\ Of(held, u) => Follows(n, held)
           /\ \A i \in 1..Len(queue) : Of(queue[i], u) => Follows(n, queue[i])
    BY <1>1, <1>5, <2>1 DEF Of
  <2> QED
    BY <1>1, <2>2, OrderPut DEF OrderInv
<1>7. ASSUME NEW u \in Site, NEW m \in Waiting', Of(m, u) PROVE Timely(m, u)'
  <2>1. CASE m \in Waiting
    BY <1>4, <1>7, <2>1 DEF OrderInv, Timely
  <2>2. CASE m = n
    <3>1. u = s
      BY <1>1, <1>7, <2>2 DEF Of
    <3>2. EndKnown(s) => n.type = "WORKER_DONE"
      BY <1>1 DEF OrderInv, Over
    <3>3. n.type \in Verdicts => Over(s)'
      BY <1>1, <1>2 DEF EndInv, Over
    <3>4. n.type = "WORKER_DONE" => Gone(s)'
      BY <1>1 DEF EndInv, Gone
    <3> QED
      BY <1>4, <2>2, <3>1, <3>2, <3>3, <3>4 DEF Timely
  <2> QED
    BY <1>3, <2>1, <2>2
<1>8. EndInv'
  BY <1>1, <1>2 DEF EndInv, Verdicts
<1> QED
  BY <1>4, <1>6, <1>7, <1>8 DEF OrderInv

LEMMA OrderStep ==
  TypeInv /\ ConsumerInv /\ WorkerInv /\ EndInv /\ OrderInv /\ [Next]_vars => OrderInv'
<1> SUFFICES ASSUME TypeInv, ConsumerInv, WorkerInv, EndInv, OrderInv, [Next]_vars, ~closed'
             PROVE  /\ Ordered(held', queue')
                    /\ \A u \in Site : \A m \in Waiting' : Of(m, u) => Timely(m, u)'
                    /\ \A u \in Site : EndKnown(u)' => Over(u)'
  BY DEF OrderInv
<1> DEFINE Goal == /\ Ordered(held', queue')
                   /\ \A u \in Site : \A m \in Waiting' : Of(m, u) => Timely(m, u)'
                   /\ \A u \in Site : EndKnown(u)' => Over(u)'
<1>1. ASSUME ~closed, UNCHANGED <<held, queue, worker, out>>,
             \A u \in Site : EndKnown(u)' => EndKnown(u)
      PROVE  Goal
  <2>1. Waiting' = Waiting /\ \A u \in Site : (Over(u)' <=> Over(u)) /\ (Gone(u)' <=> Gone(u))
    BY <1>1 DEF Earlier, Waiting, Over, Gone
  <2> QED
    BY <1>1, <2>1 DEF OrderInv, Timely
<1>2. ASSUME NEW s \in Site, WorkerStep(s) \/ AdapterFails(s) PROVE Goal
  <2>1. ~closed /\ UNCHANGED <<held, last, checkpoint>>
    BY <1>2, WorkerStepFrame DEF consumerVars, durableVars
  <2>2. CASE PutSucceeds(s)
    BY <2>1, <2>2, OrderPutStep
  <2>3. CASE ~PutSucceeds(s)
    <3>1. queue' = queue /\ \A u \in Site : EndKept(u)
      BY <1>2, <2>3, QuietWorkerStep, QuietEnd
    <3>2. Waiting' = Waiting /\ \A u \in Site : (EndKnown(u)' <=> EndKnown(u))
      BY <2>1, <3>1 DEF Earlier, Waiting, EndKnown
    <3> QED
      BY <2>1, <3>1, <3>2 DEF OrderInv, Timely, EndKept
  <2> QED
    BY <2>2, <2>3
<1>3. CASE AckSaves
  <2>1. last # Nothing /\ checkpoint' = Acked(last) /\ last' = last
    BY <1>3 DEF AckSaves, TypeInv, LastTypeInv
  <2>2. \A u \in Site : EndKnown(u)' => EndKnown(u)
    BY <2>1, AckedSeen DEF EndKnown, Of
  <2> QED
    BY <1>1, <1>3, <2>2 DEF AckSaves, cancelVars, workerVars
<1>4. CASE Get
  <2>1. /\ held = Nothing /\ queue # <<>> /\ queue' = Tail(queue) /\ held' = Head(queue)
        /\ ~closed /\ UNCHANGED <<worker, out, last, checkpoint>>
    BY <1>4 DEF Get, ConsumerInv, cancelVars, durableVars, workerVars
  <2>2. queue \in Seq(Entries)
    BY DEF TypeInv, SharedTypeOK, Entries
  <2>3. Ordered(held', queue')
    BY <2>1, <2>2, OrderGet DEF OrderInv
  <2>4. Waiting' \subseteq Waiting
    BY <2>1, WaitingGet
  <2>5. \A u \in Site : /\ Over(u)' <=> Over(u)
                        /\ Gone(u)' <=> Gone(u)
                        /\ EndKnown(u)' <=> EndKnown(u)
    BY <2>1 DEF Over, Gone, EndKnown
  <2> QED
    BY <2>1, <2>3, <2>4, <2>5 DEF OrderInv, Timely
<1>5. CASE Deliver \/ DropHeld \/ CountWorkerDone
  <2>1. ~closed /\ held' = Nothing /\ UNCHANGED <<queue, worker, out, checkpoint>>
    BY <1>5 DEF Deliver, DropHeld, CountWorkerDone, Holds, cancelVars, workerVars, durableVars
  <2>2. \A u \in Site :
          EndKnown(u)' => EndKnown(u) \/ (Of(held, u) /\ held.type = "SITE_COMPLETE")
    BY <1>5, <2>1 DEF Deliver, DropHeld, CountWorkerDone, EndKnown
  <2>3. \A u \in Site : (Over(u)' <=> Over(u)) /\ (Gone(u)' <=> Gone(u))
    BY <2>1 DEF Over, Gone
  <2>4. Ordered(held', queue')
    BY <2>1, WaitingType DEF OrderInv, Ordered
  <2>5. ASSUME NEW u \in Site, NEW m \in Waiting', Of(m, u) PROVE Timely(m, u)'
    <3>1. m \in Waiting /\ \E k \in 1..Len(queue) : m = queue[k]
      BY <2>1, <2>5, WaitingType DEF Earlier, Waiting
    <3>2. Timely(m, u) /\ (Of(held, u) => Follows(m, held))
      BY <2>1, <2>5, <3>1 DEF OrderInv, Ordered
    <3> QED
      BY <2>2, <2>3, <3>2 DEF Timely, Follows, Verdicts
  <2>6. \A u \in Site : EndKnown(u)' => Over(u)'
    <3>1. \A u \in Site : Of(held, u) => Timely(held, u)
      BY <2>1 DEF Earlier, OrderInv, Waiting
    <3> QED
      BY <2>1, <2>2, <2>3, <3>1 DEF OrderInv, Timely, Verdicts
  <2> QED
    BY <2>4, <2>5, <2>6
<1>6. CASE DeliverSearchComplete
  <2>1. /\ ~closed /\ last' = SearchComplete /\ checkpoint' = checkpoint
        /\ UNCHANGED <<held, queue, worker, out>>
    BY <1>6 DEF DeliverSearchComplete, Continues, durableVars, workerVars
  <2>2. \A u \in Site : EndKnown(u)' => EndKnown(u)
    BY <2>1, WaitingType DEF EndKnown
  <2> QED
    BY <1>1, <2>1, <2>2
<1>7. CASE Resume
  <2>1. /\ queue' = <<>> /\ held' = Nothing /\ last' = Nothing /\ checkpoint' = checkpoint
        /\ \A s \in Site : out'[s] = Nothing /\ (checkpoint.completed[s] => worker'[s] = "dead")
    BY <1>7 DEF Resume, Pending
  <2>2. Len(<<>>) = 0 /\ Nothing.type = "NOTHING"
    BY DEF Nothing, Message
  <2>3. \A m \in Waiting' : m = Nothing
    BY <2>1, <2>2 DEF Earlier, Waiting
  <2>4. Ordered(held', queue')
    BY <2>1, <2>2 DEF Ordered
  <2>5. \A u \in Site : EndKnown(u)' => Over(u)'
    BY <2>1, <2>2, WaitingType DEF EndKnown, Over
  <2> QED
    BY <2>3, <2>4, <2>5, WaitingType
<1>8. CASE CallAck \/ AckFails \/ CallNext \/ NextEnds \/ NextSeesClosed \/ NextSeesCancel
           \/ NextRaises \/ NextWaits \/ GetTimesOut
  <2>1. ~closed /\ UNCHANGED <<held, queue, worker, out, last, checkpoint>>
    BY <1>8 DEF CallAck, AckFails, CallNext, NextEnds, NextSeesClosed, NextSeesCancel,
                NextRaises, NextWaits, GetTimesOut, ConsumerGoes, BeginClose, Continues,
                cancelVars, durableVars, workerVars
  <2> QED
    BY <1>1, <2>1 DEF EndKnown
<1>9. CASE CloserStep \/ CloseCalled
  BY <1>9 DEF CloserStep, CloseStops, CloseWakes, CloseMakesRoom, CloseCalled, BeginClose,
              ConsumerInv, cancelVars
<1>10. CASE CallerCancels \/ Stay \/ UNCHANGED vars
  <2>1. ~closed /\ UNCHANGED <<held, queue, worker, out, last, checkpoint>>
    BY <1>10 DEF CallerCancels, Stay, vars, cancelVars, consumerVars, durableVars, workerVars
  <2> QED
    BY <1>1, <2>1 DEF EndKnown
<1> QED
  BY <1>2, <1>3, <1>4, <1>5, <1>6, <1>7, <1>8, <1>9, <1>10 DEF Next, AckStep, NextStep

LEMMA EndStep ==
  TypeInv /\ WorkerInv /\ EndInv /\ [Next]_vars => EndInv'
<1> SUFFICES ASSUME TypeInv, WorkerInv, EndInv, [Next]_vars PROVE EndInv'
  OBVIOUS
<1>1. CASE UNCHANGED workerVars
  BY <1>1 DEF workerVars, EndInv
<1>2. ASSUME NEW s \in Site, WorkerStep(s) \/ AdapterFails(s) PROVE EndInv'
  <2>1. CASE PutSucceeds(s)
    <3>1. /\ worker' = worker /\ out'[s] = Nothing /\ \A u \in Site \ {s} : out'[u] = out[u]
          /\ Nothing.type = "NOTHING"
      BY <2>1 DEF PutSucceeds, TypeInv, OutInv, WorkerTypeOK, Nothing, Message
    <3> QED
      BY <3>1 DEF EndInv, Verdicts
  <2>2. CASE ~PutSucceeds(s)
    BY <1>2, <2>2, QuietEnd DEF EndKept, EndInv
  <2> QED
    BY <2>1, <2>2
<1>3. CASE Resume
  BY <1>3 DEF Resume, EndInv, Nothing, Message, Verdicts
<1>4. CASE AckStep \/ AckFails \/ NextStep
  BY <1>1, <1>4
     DEF AckStep, CallAck, AckSaves, AckFails, NextStep, CallNext, NextEnds, NextSeesClosed,
         NextSeesCancel, NextRaises, DeliverSearchComplete, NextWaits, GetTimesOut, Get,
         DropHeld, CountWorkerDone, Deliver
<1>5. CASE CloserStep \/ CloseCalled \/ CallerCancels \/ Stay \/ UNCHANGED vars
  BY <1>1, <1>5 DEF CloserStep, CloseStops, CloseWakes, CloseMakesRoom, CloseCalled,
                    CallerCancels, Stay, vars
<1> QED
  BY <1>2, <1>3, <1>4, <1>5 DEF Next

LEMMA LastOpenStep ==
  TypeInv /\ ConsumerInv /\ OrderInv /\ LastOpen /\ [Next]_vars => LastOpen'
<1> SUFFICES ASSUME TypeInv, ConsumerInv, OrderInv, LastOpen, [Next]_vars PROVE LastOpen'
  OBVIOUS
<1>1. CASE UNCHANGED <<last, lastAcked, checkpoint>>
  BY <1>1 DEF LastOpen
<1>2. CASE AckSaves \/ Resume
  BY <1>2 DEF AckSaves, Resume, LastOpen
<1>3. CASE Deliver
  <2>1. /\ held \in Messages /\ held.site \in Site /\ ~closed
        /\ last' = held /\ checkpoint' = checkpoint /\ held.type # "WORKER_DONE"
    BY <1>3, HeldMessage
       DEF Deliver, Holds, TypeInv, LastTypeInv, Messages, AdapterTypes
  <2>2. Timely(held, held.site)
    BY <2>1 DEF Earlier, OrderInv, Of, Waiting
  <2> QED
    BY <2>1, <2>2 DEF Timely, EndKnown, LastOpen
<1>4. CASE DeliverSearchComplete
  BY <1>4, NoMessage DEF DeliverSearchComplete, LastOpen
<1>5. ASSUME NEW s \in Site, WorkerStep(s) \/ AdapterFails(s) PROVE LastOpen'
  BY <1>1, <1>5, WorkerStepFrame DEF consumerVars, durableVars
<1>6. CASE CallAck \/ AckFails \/ (NextStep /\ ~Deliver /\ ~DeliverSearchComplete)
  BY <1>1, <1>6
     DEF CallAck, AckFails, NextStep, CallNext, NextEnds, NextSeesClosed, NextSeesCancel,
         NextRaises, NextWaits, GetTimesOut, Get, DropHeld, CountWorkerDone, ConsumerGoes,
         durableVars
<1>7. CASE CloserStep \/ CloseCalled \/ CallerCancels \/ Stay \/ UNCHANGED vars
  BY <1>1, <1>7 DEF CloserStep, CloseStops, CloseWakes, CloseMakesRoom, CloseCalled,
                    CallerCancels, Stay, vars, consumerVars, durableVars
<1> QED
  BY <1>2, <1>3, <1>4, <1>5, <1>6, <1>7 DEF Next, AckStep

LEMMA CountPutStep ==
  ASSUME TypeInv, WorkerInv, EndInv, CountInv, NEW s \in Site, PutSucceeds(s), ~closed, ~latched
  PROVE  /\ active' = Cardinality(Undone')
         /\ \A u \in Site : Gone(u)' /\ (\E m \in Waiting' : Of(m, u))
                              => \E m \in Waiting' : Of(m, u) /\ m.type = "WORKER_DONE"
<1> DEFINE n == out[s]
<1>1. /\ n \in Messages /\ n.site = s /\ n # Nothing
      /\ queue' = Append(queue, n) /\ held' = held /\ active' = active
      /\ worker' = worker /\ out'[s] = Nothing /\ \A u \in Site \ {s} : out'[u] = out[u]
  BY DEF TypeInv, OutInv, WorkerTypeOK, WorkerInv, OutSound, PutSucceeds, consumerVars
<1>0. n \in Entries
  BY <1>1 DEF Entries
<1>2. Waiting' = Waiting \cup {n} /\ Of(n, s) /\ \A u \in Site \ {s} : ~Of(n, u)
  BY <1>0, <1>1, WaitingPut DEF Of
<1>3. \A u \in Site \ {s} : Gone(u)' <=> Gone(u)
  BY <1>1 DEF Gone
<1>4. ~Gone(s) /\ (Gone(s)' => n.type = "WORKER_DONE")
  BY <1>1 DEF Gone, EndInv
<1>5. Undone' = Undone
  BY <1>2, <1>3, <1>4 DEF Undone
<1> QED
  BY <1>1, <1>2, <1>3, <1>4, <1>5 DEF CountInv

LEMMA CountedDone ==
  ASSUME TypeInv, OrderInv, CountInv, CountWorkerDone, ~closed, ~latched
  PROVE  /\ active' = Cardinality(Undone')
         /\ \A u \in Site : Gone(u)' /\ (\E m \in Waiting' : Of(m, u))
                              => \E m \in Waiting' : Of(m, u) /\ m.type = "WORKER_DONE"
<1> DEFINE s == held.site
<1>1. /\ held.type = "WORKER_DONE" /\ held' = Nothing /\ active' = active - 1
      /\ UNCHANGED <<queue, worker, out>>
  BY DEF CountWorkerDone, Holds, workerVars
<1>2. held \in Messages /\ s \in Site
  BY <1>1 DEF TypeInv, LastTypeInv, ConsumerTypeOK, Nothing, Wake, Message, Messages
<1>3. /\ held \in Waiting /\ Of(held, s) /\ \A u \in Site \ {s} : ~Of(held, u)
      /\ Waiting' \cup {held} = Waiting \cup {Nothing}
      /\ \A m \in Waiting' : m = Nothing \/ \E k \in 1..Len(queue) : m = queue[k]
  BY <1>1, <1>2, WaitingTake DEF Earlier, Waiting, Of
<1>4. Gone(s) /\ \A u \in Site : Gone(u)' <=> Gone(u)
  BY <1>1, <1>2, <1>3 DEF OrderInv, Timely, Gone
<1>5. \A m \in Waiting' : ~Of(m, s)
  BY <1>1, <1>2, <1>3, WaitingType DEF OrderInv, Ordered, Follows
<1>6. \A u \in Site \ {s} : \A m : Of(m, u) => (m \in Waiting' <=> m \in Waiting)
  BY <1>3, WaitingType
<1>7. Undone' = Undone \ {s} /\ s \in Undone
  BY <1>2, <1>3, <1>4, <1>5, <1>6 DEF Undone
<1>8. Cardinality(Undone') = Cardinality(Undone) - 1
  <2>1. IsFiniteSet(Undone)
    BY SiteAssumption, FS_Subset DEF Undone
  <2> QED
    BY <1>7, <2>1, FS_RemoveElement
<1>9. ASSUME NEW u \in Site, Gone(u)', NEW m \in Waiting', Of(m, u)
      PROVE  \E k \in Waiting' : Of(k, u) /\ k.type = "WORKER_DONE"
  <2>1. u # s /\ m \in Waiting /\ Gone(u)
    BY <1>4, <1>5, <1>6, <1>9
  <2>2. PICK k \in Waiting : Of(k, u) /\ k.type = "WORKER_DONE"
    BY <1>9, <2>1 DEF CountInv
  <2> QED
    BY <1>6, <2>1, <2>2
<1> QED
  BY <1>1, <1>8, <1>9 DEF CountInv

LEMMA CountedStep ==
  TypeInv /\ ConsumerInv /\ WorkerInv /\ EndInv /\ OrderInv /\ CountInv /\ [Next]_vars
    => CountInv'
<1> SUFFICES ASSUME TypeInv, ConsumerInv, WorkerInv, EndInv, OrderInv, CountInv, [Next]_vars,
                    ~closed', ~latched'
             PROVE  /\ active' = Cardinality(Undone')
                    /\ \A u \in Site : Gone(u)' /\ (\E m \in Waiting' : Of(m, u))
                          => \E m \in Waiting' : Of(m, u) /\ m.type = "WORKER_DONE"
  BY DEF CountInv
<1> DEFINE Goal ==
             /\ active' = Cardinality(Undone')
             /\ \A u \in Site : Gone(u)' /\ (\E m \in Waiting' : Of(m, u))
                   => \E m \in Waiting' : Of(m, u) /\ m.type = "WORKER_DONE"
<1>1. ASSUME ~closed, ~latched, active' = active,
             \A u \in Site : /\ Gone(u)' <=> Gone(u)
                             /\ \A m : Of(m, u) => (m \in Waiting' <=> m \in Waiting)
      PROVE  Goal
  <2>1. Undone' = Undone
    BY <1>1 DEF Undone
  <2> QED
    BY <1>1, <2>1 DEF CountInv
<1>2. ASSUME NEW s \in Site, WorkerStep(s) \/ AdapterFails(s) PROVE Goal
  <2>1. ~closed /\ ~latched /\ ~stopped /\ active' = active /\ held' = held
    BY <1>2, WorkerStepFrame DEF consumerVars, ConsumerInv
  <2>2. CASE PutSucceeds(s)
    BY <2>1, <2>2, CountPutStep
  <2>3. CASE ~PutSucceeds(s)
    <3>1. queue' = queue /\ \A u \in Site : EndKept(u)
      BY <1>2, <2>3, QuietWorkerStep, QuietEnd
    <3>2. Waiting' = Waiting /\ \A u \in Site : Gone(u)' <=> Gone(u)
      BY <2>1, <3>1 DEF Earlier, Waiting, EndKept
    <3> QED
      BY <1>1, <2>1, <3>2
  <2> QED
    BY <2>2, <2>3
<1>3. CASE Get
  <2>1. /\ held = Nothing /\ queue # <<>> /\ queue' = Tail(queue) /\ held' = Head(queue)
        /\ ~closed /\ ~latched /\ UNCHANGED <<worker, out, active>>
    BY <1>3 DEF Get, ConsumerInv, cancelVars, workerVars
  <2>2. Waiting' \cup {Nothing} = Waiting /\ \A u : ~Of(Nothing, u)
    BY <2>1, WaitingGet, WaitingType
  <2>3. \A u \in Site : Gone(u)' <=> Gone(u)
    BY <2>1 DEF Gone
  <2> QED
    BY <1>1, <2>1, <2>2, <2>3
<1>4. CASE CountWorkerDone
  BY <1>4, CountedDone DEF CountWorkerDone, cancelVars
<1>5. CASE Deliver
  <2>1. /\ held.type # "WORKER_DONE" /\ held' = Nothing /\ ~closed /\ ~latched
        /\ UNCHANGED <<queue, worker, out, active>>
    BY <1>5 DEF Deliver, Holds, AdapterTypes, workerVars, cancelVars
  <2>2. Waiting' \cup {held} = Waiting \cup {Nothing} /\ \A u : ~Of(Nothing, u)
    BY <2>1, WaitingTake, WaitingType
  <2>3. \A u \in Site : Gone(u)' <=> Gone(u)
    BY <2>1 DEF Gone
  <2>4. ASSUME NEW u \in Site, Gone(u), NEW m \in Waiting, Of(m, u)
        PROVE  \E k \in Waiting' : Of(k, u) /\ k.type = "WORKER_DONE"
    <3>1. PICK k \in Waiting : Of(k, u) /\ k.type = "WORKER_DONE"
      BY <2>1, <2>4 DEF CountInv
    <3> QED
      BY <2>1, <2>2, <3>1
  <2>5. \A u : \A m \in Waiting' : Of(m, u) => m \in Waiting
    BY <2>2
  <2>6. Undone' = Undone
    BY <2>3, <2>4, <2>5 DEF Undone
  <2> QED
    BY <2>1, <2>3, <2>4, <2>5, <2>6 DEF CountInv
<1>6. CASE DropHeld
  <2>1. /\ held = Wake /\ held' = Nothing /\ ~closed /\ ~latched
        /\ UNCHANGED <<queue, worker, out, active>>
    BY <1>6 DEF DropHeld, workerVars, cancelVars
  <2>2. Waiting' \cup {Wake} = Waiting \cup {Nothing} /\ \A u : ~Of(Nothing, u) /\ ~Of(Wake, u)
    BY <2>1, WaitingTake, WaitingType
  <2>3. \A u \in Site : Gone(u)' <=> Gone(u)
    BY <2>1 DEF Gone
  <2> QED
    BY <1>1, <2>1, <2>2, <2>3
<1>7. CASE Resume
  <2>1. /\ queue' = <<>> /\ held' = Nothing /\ active' = Cardinality(Pending(checkpoint))
        /\ \A s \in Site : /\ out'[s] = Nothing
                           /\ worker'[s] = "dead" <=> s \notin Pending(checkpoint)
    BY <1>7 DEF Resume
  <2>2. Len(<<>>) = 0
    OBVIOUS
  <2>3. \A m \in Waiting' : m = Nothing
    BY <2>1, <2>2 DEF Earlier, Waiting
  <2>4. Undone' = Pending(checkpoint)
    BY <2>1, <2>3, WaitingType DEF Undone, Gone, Pending
  <2> QED
    BY <2>1, <2>3, <2>4, WaitingType
<1>8. CASE CallAck \/ AckSaves \/ AckFails \/ CallNext \/ NextEnds \/ NextSeesClosed
           \/ NextSeesCancel \/ NextRaises \/ NextWaits \/ GetTimesOut \/ DeliverSearchComplete
  <2>1. ~closed /\ ~latched /\ UNCHANGED <<held, queue, worker, out, active>>
    BY <1>8 DEF CallAck, AckSaves, AckFails, CallNext, NextEnds, NextSeesClosed, NextSeesCancel,
                NextRaises, NextWaits, GetTimesOut, DeliverSearchComplete, ConsumerGoes,
                BeginClose, Continues, cancelVars, workerVars
  <2> QED
    BY <1>1, <2>1 DEF Earlier, Waiting, Gone
<1>9. CASE CloserStep \/ CloseCalled
  BY <1>9 DEF CloserStep, CloseStops, CloseWakes, CloseMakesRoom, CloseCalled, BeginClose,
              ConsumerInv, cancelVars
<1>10. CASE CallerCancels \/ Stay \/ UNCHANGED vars
  <2>1. ~closed /\ ~latched /\ UNCHANGED <<held, queue, worker, out, active>>
    BY <1>10 DEF CallerCancels, Stay, vars, cancelVars, consumerVars, workerVars
  <2> QED
    BY <1>1, <2>1 DEF Earlier, Waiting, Gone
<1> QED
  BY <1>2, <1>3, <1>4, <1>5, <1>6, <1>7, <1>8, <1>9, <1>10 DEF Next, AckStep, NextStep

LEMMA LastMessageStep ==
  TypeInv /\ ConsumerInv /\ CountInv /\ SearchCompleteIsLast /\ [Next]_vars
    => SearchCompleteIsLast'
<1> SUFFICES ASSUME TypeInv, ConsumerInv, CountInv, SearchCompleteIsLast, [Next]_vars,
                    outcome' # "none"
             PROVE  /\ \A s \in Site : Gone(s)'
                    /\ \A i \in 1..Len(queue') : queue'[i] = Wake
  BY DEF SearchCompleteIsLast, Gone, Runs
<1> DEFINE Goal == /\ \A s \in Site : Gone(s)'
                   /\ \A i \in 1..Len(queue') : queue'[i] = Wake
<1>0. queue \in Seq(Entries)
  BY DEF TypeInv, SharedTypeOK, Entries
<1>1. outcome # "none" => /\ \A s \in Site : Gone(s)
                          /\ \A i \in 1..Len(queue) : queue[i] = Wake
  BY DEF SearchCompleteIsLast, Gone, Runs
<1>2. CASE outcome # "none" /\ UNCHANGED <<queue, worker, out>>
  BY <1>1, <1>2 DEF Gone
<1>3. ASSUME NEW s \in Site, WorkerStep(s) \/ AdapterFails(s) PROVE Goal
  <2>1. outcome' = outcome
    BY <1>3, WorkerStepFrame DEF consumerVars
  <2>2. worker[s] = "dead" /\ out[s] = Nothing /\ ~armed[s]
    BY <1>1, <2>1 DEF Gone, TypeInv, OutInv
  <2> QED
    BY <1>3, <2>2
       DEF WorkerStep, AdapterFails, StartWorker, CreateAdapter, FetchPage, EmitJob, SkipSeen,
           SkipUnreadable, FinishPage, ScrapeReturns, Abandon, Retry, FinishWorker, PutChecks,
           PutSucceeds, PutTimesOut, PutRefused, Fail, FailAbruptly, Looks, InAttempt, Runs
<1>4. CASE DeliverSearchComplete
  <2>1. ~closed /\ ~latched /\ active = 0 /\ UNCHANGED <<queue, worker, out>>
    BY <1>4 DEF DeliverSearchComplete, Continues, AllWorkersDone, workerVars
  <2>2. Undone = {}
    <3>1. IsFiniteSet(Undone) /\ Cardinality(Undone) = 0
      BY <2>1, SiteAssumption, FS_Subset DEF Undone, CountInv
    <3> QED
      BY <3>1, FS_EmptySet
  <2>3. ASSUME NEW i \in 1..Len(queue) PROVE queue[i] = Wake
    <3>1. queue[i] \in Waiting /\ queue[i] \in Messages \cup {Wake}
      BY <1>0 DEF Earlier, Waiting, Entries
    <3>2. queue[i] \in Messages => Of(queue[i], queue[i].site) /\ queue[i].site \in Site
      BY DEF Of, Messages
    <3> QED
      BY <2>2, <3>1, <3>2 DEF Undone
  <2> QED
    BY <2>1, <2>2, <2>3 DEF Undone, Gone
<1>5. CASE CloseWakes
  <2>1. queue' = Append(queue, Wake) /\ UNCHANGED <<outcome, worker, out>>
    BY <1>5 DEF CloseWakes, consumerVars, workerVars
  <2>2. \A i \in 1..Len(queue') : queue'[i] = Wake
    BY <1>0, <1>1, <2>1
  <2> QED
    BY <1>1, <2>1, <2>2 DEF Gone
<1>6. CASE CloseMakesRoom
  <2>1. queue' = Tail(queue) /\ Len(queue) = QueueSize /\ UNCHANGED <<outcome, worker, out>>
    BY <1>6 DEF CloseMakesRoom, consumerVars, workerVars
  <2>2. \A i \in 1..Len(queue') : queue'[i] = Wake
    BY <1>0, <1>1, <2>1, BoundAssumption
  <2> QED
    BY <1>1, <2>1, <2>2 DEF Gone
<1>7. CASE Resume
  BY <1>7 DEF Resume
<1>8. CASE AckStep \/ AckFails \/ (NextStep /\ ~DeliverSearchComplete)
  BY <1>2, <1>8
     DEF AckStep, CallAck, AckSaves, AckFails, NextStep, CallNext, NextEnds, NextSeesClosed,
         NextSeesCancel, NextRaises, NextWaits, GetTimesOut, Get, DropHeld,
         CountWorkerDone, Deliver, ConsumerGoes, workerVars, ConsumerInv
<1>9. CASE CloseStops \/ CloseCalled \/ CallerCancels \/ Stay \/ UNCHANGED vars
  BY <1>2, <1>9 DEF CloseStops, CloseCalled, CallerCancels, Stay, vars, workerVars, consumerVars
<1> QED
  BY <1>3, <1>4, <1>5, <1>6, <1>7, <1>8, <1>9 DEF Next, CloserStep

EndingInv == EndInv /\ OrderInv /\ LastOpen /\ CountInv /\ SearchCompleteIsLast

LEMMA EndingInit == Init => EndingInv
<1> SUFFICES ASSUME Init PROVE EndingInv
  OBVIOUS
<1>1. /\ \A s \in Site : checkpoint.completed[s] = FALSE /\ worker[s] = "starting"
                         /\ out[s] = Nothing
      /\ queue = <<>> /\ held = Nothing /\ last = Nothing /\ lastAcked /\ outcome = "none"
      /\ active = Cardinality(Site)
  BY DEF Init, NewCheckpoint
<1>2. Len(<<>>) = 0 /\ Nothing.type = "NOTHING"
  BY DEF Nothing, Message
<1>3. \A m \in Waiting : m = Nothing
  BY <1>1, <1>2 DEF Earlier, Waiting
<1>4. \A s : ~Of(Nothing, s)
  BY NoMessage DEF Of
<1>5. OrderInv
  BY <1>1, <1>2, <1>3, <1>4 DEF OrderInv, Ordered, EndKnown
<1>6. CountInv
  <2>1. Undone = Site
    BY <1>1 DEF Undone, Gone
  <2> QED
    BY <1>1, <1>3, <1>4, <2>1 DEF CountInv
<1> QED
  BY <1>1, <1>2, <1>5, <1>6 DEF EndingInv, EndInv, LastOpen, SearchCompleteIsLast, Verdicts

LEMMA EndingStep == DeliveryInv /\ EndingInv /\ [Next]_vars => EndingInv'
BY OrderStep, EndStep, LastOpenStep, CountedStep, LastMessageStep DEF DeliveryInv, EndingInv

\* EndingInv is inductive relative to DeliveryInv.
THEOREM EndingInvariant == Spec => []EndingInv
BY EndingInit, EndingStep, DeliveryInvariant, PTL DEF Spec

\* A SearchCompleteEvent is made when next() has counted the last message of
\* every worker: every worker is dead then, and nothing of it is left in the
\* queue nor ever put there again.
THEOREM CompleteIsLast == Spec => []SearchCompleteIsLast
BY EndingInvariant, PTL DEF EndingInv

\* ack() computes the completed flag of a site anew from the type of each event,
\* and never takes it back: nothing follows a SITE_COMPLETE of a site but its
\* WORKER_DONE, and a resumed stream starts no worker for a completed site.
THEOREM CompletedForGood == Spec => CompletedStays
<1>1. DeliveryInv /\ EndingInv /\ [Next]_vars
        => [\A s \in Site : checkpoint.completed[s] => checkpoint'.completed[s]]_vars
  <2> SUFFICES ASSUME DeliveryInv, EndingInv, [Next]_vars, NEW s \in Site, checkpoint.completed[s]
               PROVE  checkpoint'.completed[s]
    OBVIOUS
  <2>1. CASE AckSaves
    <3>1. last # Nothing /\ ~lastAcked /\ checkpoint' = Acked(last)
      BY <2>1 DEF AckSaves, DeliveryInv, TypeInv, LastTypeInv
    <3>2. ~(last \in Messages /\ last.site = s)
      BY <3>1 DEF EndingInv, LastOpen
    <3> QED
      BY <3>1, <3>2, AckedSeen DEF DeliveryInv
  <2>2. ASSUME NEW u \in Site, WorkerStep(u) \/ AdapterFails(u) PROVE checkpoint' = checkpoint
    BY <2>2, WorkerStepFrame DEF durableVars, DeliveryInv
  <2>3. CASE CallAck \/ AckFails \/ NextStep
    BY <2>3 DEF CallAck, AckFails, NextStep, CallNext, NextEnds, NextSeesClosed,
         NextSeesCancel, NextRaises, DeliverSearchComplete, NextWaits, GetTimesOut, Get,
         DropHeld, CountWorkerDone, Deliver, durableVars
  <2>4. CASE CloserStep \/ CloseCalled \/ CallerCancels \/ Resume \/ Stay \/ UNCHANGED vars
    BY <2>4 DEF CloserStep, CloseStops, CloseWakes, CloseMakesRoom, CloseCalled,
                CallerCancels, Resume, Stay, vars, durableVars
  <2> QED
    BY <2>1, <2>2, <2>3, <2>4 DEF Next, AckStep
<1> QED
  BY <1>1, DeliveryInvariant, EndingInvariant, PTL DEF Spec, CompletedStays

-------------------------------------------------------------------------------
\* The pages of a site are turned in order: the state a message carries is where
\* the PROGRESS messages before it have brought the site.

\* The page the checkpoint points at once the application acknowledges the last
\* event.
Place(s) == IF Of(last, s) THEN last.cursor ELSE checkpoint.cursor[s]

\* The page message m turns site s to, as a set.
Turned(m, s) == IF Of(m, s) /\ m.type = "PROGRESS" THEN {m.cursor} ELSE {}

\* The pages reached before entry i, from page n on.
Reached(n, h, q, i, s) == 1..n \cup UNION {Turned(m, s) : m \in Earlier(h, q, i)}

\* The pages reached before m are those its state has behind it.
InPlace(m, S) == S = 1..(IF m.type = "PROGRESS" THEN m.cursor - 1 ELSE m.cursor)

\* The pages reached when everything waiting is delivered.
ReachedAll(s) == Reached(Place(s), held, queue, Len(queue) + 1, s)

WaitingInPlace ==
  \A s \in Site :
    /\ Of(held, s) => InPlace(held, 1..Place(s))
    /\ \A k \in 1..Len(queue) :
         Of(queue[k], s) => InPlace(queue[k], Reached(Place(s), held, queue, k, s))

SentInPlace(s) ==
  /\ out[s] # Nothing /\ (armed[s] \/ ~latched) => InPlace(out[s], ReachedAll(s))
  /\ out[s] = Nothing /\ ~latched => ReachedAll(s) = 1..cursor[s]

LastPlace ==
  \A s \in Site : Of(last, s) =>
    last.cursor = checkpoint.cursor[s] + (IF ~lastAcked /\ last.type = "PROGRESS" THEN 1 ELSE 0)

PlaceInv ==
  /\ \A s \in Site : out[s] # Nothing => out[s].cursor = cursor[s]
  /\ LastPlace
  /\ ~closed => WaitingInPlace /\ \A s \in Site : SentInPlace(s)

LEMMA IntervalEnd ==
  ASSUME NEW n \in Nat, NEW k \in Nat, 1..n = 1..k
  PROVE  n = k
<1>1. n > 0 => n \in 1..k
  OBVIOUS
<1>2. k > 0 => k \in 1..n
  OBVIOUS
<1> QED
  BY <1>1, <1>2

\* Where message m leaves its site, taken in its place.
LEMMA TurnedTo ==
  ASSUME NEW m \in Messages, NEW S, InPlace(m, S)
  PROVE  /\ S \cup Turned(m, m.site) = 1..m.cursor
         /\ \A s : m.site # s => Turned(m, s) = {}
<1>1. m.cursor \in Nat \ {0}
  BY DEF Messages
<1>2. 1..m.cursor = (1..(m.cursor - 1)) \cup {m.cursor}
  BY <1>1
<1> QED
  BY <1>1, <1>2 DEF InPlace, Turned, Of

LEMMA NothingTurned == \A s : Turned(Nothing, s) = {} /\ Turned(Wake, s) = {}
BY NoMessage DEF Turned, Of

LEMMA PlaceType ==
  ASSUME TypeInv, NEW s \in Site
  PROVE  Place(s) \in Nat \ {0} /\ checkpoint.cursor[s] \in Nat \ {0} /\ cursor[s] \in Nat \ {0}
<1>1. checkpoint.cursor[s] \in Nat \ {0} /\ cursor[s] \in Nat \ {0}
  BY DEF TypeInv, DurableTypeOK, Checkpoints, OutInv, WorkerTypeOK
<1>2. Of(last, s) => last.cursor \in Nat \ {0}
  BY DEF Of, Messages
<1> QED
  BY <1>1, <1>2 DEF Place

\* Putting and taking, seen by the pages of each site.
LEMMA ReachedPut ==
  ASSUME NEW h, NEW q \in Seq(Entries), NEW m \in Entries
  PROVE  /\ \A i \in 1..(Len(q) + 1) : \A n, s :
              Reached(n, h, Append(q, m), i, s) = Reached(n, h, q, i, s)
         /\ \A n, s : Reached(n, h, Append(q, m), Len(q) + 2, s)
                    = Reached(n, h, q, Len(q) + 1, s) \cup Turned(m, s)
<1> DEFINE r == Append(q, m)
<1>1. /\ \A i \in 1..(Len(q) + 1) : Earlier(h, r, i) = Earlier(h, q, i)
      /\ Earlier(h, r, Len(q) + 2) = Earlier(h, q, Len(q) + 1) \cup {m}
  BY PutPositions
<1> HIDE DEF r
<1>2. /\ \A i \in 1..(Len(q) + 1) : \A n, s : Reached(n, h, r, i, s) = Reached(n, h, q, i, s)
      /\ \A n, s : Reached(n, h, r, Len(q) + 2, s)
                 = Reached(n, h, q, Len(q) + 1, s) \cup Turned(m, s)
  BY <1>1 DEF Reached
<1> QED
  BY <1>2 DEF r

LEMMA ReachedGet ==
  ASSUME NEW q \in Seq(Entries), q # <<>>
  PROVE  /\ \A i \in 1..Len(q) : \A n, s :
              Reached(n, Head(q), Tail(q), i, s) = Reached(n, Nothing, q, i + 1, s)
         /\ \A n, s : Reached(n, Nothing, q, 1, s) = 1..n
<1> DEFINE r == Tail(q)
           h == Head(q)
<1>1. /\ \A i \in 1..Len(q) : Earlier(h, r, i) \cup {Nothing} = Earlier(Nothing, q, i + 1)
      /\ Earlier(Nothing, q, 1) = {Nothing}
  BY GetPositions
<1> HIDE DEF r, h
<1>2. /\ \A i \in 1..Len(q) : \A n, s : Reached(n, h, r, i, s) = Reached(n, Nothing, q, i + 1, s)
      /\ \A n, s : Reached(n, Nothing, q, 1, s) = 1..n
  BY <1>1, NothingTurned DEF Reached
<1> QED
  BY <1>2 DEF r, h

\* A worker's own step that puts nothing on the queue leaves its message, or the
\* page it stands on, in place.
LEMMA QuietPlace ==
  ASSUME TypeInv, WorkerInv, PlaceInv, NEW s \in Site, WorkerStep(s) \/ AdapterFails(s),
         ~PutSucceeds(s)
  PROVE  /\ out'[s] # Nothing => out'[s].cursor = cursor'[s]
         /\ ~stopped => \A S :
              /\ out[s] # Nothing /\ (armed[s] \/ ~latched) => InPlace(out[s], S)
              /\ out[s] = Nothing /\ ~latched => S = 1..cursor[s]
              => /\ out'[s] # Nothing /\ (armed'[s] \/ ~latched') => InPlace(out'[s], S)
                 /\ out'[s] = Nothing /\ ~latched' => S = 1..cursor'[s]
<1> DEFINE Goal ==
      /\ out'[s] # Nothing => out'[s].cursor = cursor'[s]
      /\ ~stopped => \A S :
           /\ out[s] # Nothing /\ (armed[s] \/ ~latched) => InPlace(out[s], S)
           /\ out[s] = Nothing /\ ~latched => S = 1..cursor[s]
           => /\ out'[s] # Nothing /\ (armed'[s] \/ ~latched') => InPlace(out'[s], S)
              /\ out'[s] = Nothing /\ ~latched' => S = 1..cursor'[s]
<1> USE DEF GoTo, Emit, Runs, WorkerUnchanged, EmitSiteComplete, Looks, TypeInv, OutInv, WorkerTypeOK,
            cancelVars
<1>0. /\ out[s] # Nothing => out[s].cursor = cursor[s]
      /\ armed[s] => out[s] # Nothing
      /\ cursor[s] \in Nat \ {0}
  BY DEF PlaceInv
<1>1. ASSUME out[s] = Nothing, ~latched, cursor'[s] = cursor[s],
             \/ out'[s] = Nothing
             \/ out'[s].cursor = cursor[s] /\ out'[s].type # "PROGRESS"
      PROVE  Goal
  BY <1>1 DEF InPlace
<1>2. CASE StartWorker(s) \/ ScrapeReturns(s)
  BY <1>0, <1>1, <1>2 DEF StartWorker, ScrapeReturns, SeesNoCancel, CompleteMessage, Message
<1>3. CASE CreateAdapter(s) \/ FailAbruptly(s)
  <2>1. out[s] = Nothing /\ out'[s] = Nothing /\ cursor' = cursor /\ latched' = latched
    BY <1>3 DEF CreateAdapter, FailAbruptly, InAttempt
  <2> QED
    BY <2>1
<1>4. CASE FetchPage(s) \/ Retry(s)
  BY <1>1, <1>4 DEF FetchPage, Retry, SeesNoCancel
<1>5. ASSUME NEW j \in Job, EmitJob(s, j) \/ SkipSeen(s, j) \/ SkipUnreadable(s, j) PROVE Goal
  BY <1>1, <1>5 DEF EmitJob, SkipSeen, SkipUnreadable, SeesNoCancel, Report, JobState, Message
<1>6. CASE FinishPage(s)
  <2>1. /\ out[s] = Nothing /\ ~latched /\ cursor'[s] = cursor[s] + 1
        /\ out'[s] = Message("PROGRESS", s, NoJob, cursor[s] + 1, 0) /\ out'[s] # Nothing
    BY <1>6 DEF FinishPage, SeesNoCancel, Nothing, Message
  <2>2. out'[s].cursor = cursor[s] + 1 /\ out'[s].type = "PROGRESS" /\ (cursor[s] + 1) - 1 = cursor[s]
    BY <1>0, <2>1 DEF Message
  <2> QED
    BY <2>1, <2>2 DEF InPlace
<1>7. ASSUME NEW kind \in FailureKinds, Fail(s, kind) PROVE Goal
  BY <1>1, <1>7 DEF Fail, InAttempt, SeesNoCancel, Report, CompleteMessage, Message
<1>8. CASE FinishWorker(s)
  <2>1. /\ out[s] = Nothing /\ cursor' = cursor /\ latched' = latched /\ ~armed'[s]
        /\ out'[s].cursor = cursor[s] /\ out'[s].type = "WORKER_DONE" /\ out'[s] # Nothing
    BY <1>0, <1>8 DEF FinishWorker, Report, Message, Nothing
  <2> QED
    BY <2>1 DEF InPlace
<1>9. CASE PutChecks(s) \/ PutTimesOut(s)
  <2>1. /\ out' = out /\ cursor' = cursor /\ latched' = latched /\ out[s] # Nothing
        /\ armed'[s] => ~latched
    BY <1>0, <1>9 DEF PutChecks, PutTimesOut, SeesNoCancel
  <2> QED
    BY <1>0, <2>1
<1>10. CASE PutRefused(s) \/ Abandon(s)
  <2>1. (stopped \/ latched') /\ out'[s] = Nothing
    BY <1>10 DEF PutRefused, Abandon, SeesCancel, Latch
  <2> QED
    BY <2>1
<1> QED
  BY <1>2, <1>3, <1>4, <1>5, <1>6, <1>7, <1>8, <1>9, <1>10 DEF WorkerStep, AdapterFails

LEMMA PlaceWorkerStep ==
  ASSUME TypeInv, WorkerInv, PlaceInv, NEW s \in Site, WorkerStep(s) \/ AdapterFails(s)
  PROVE  \A u \in Site : out'[u] # Nothing => out'[u].cursor = cursor'[u]
<1>1. \A u \in Site \ {s} : out'[u] = out[u] /\ cursor'[u] = cursor[u]
  BY WorkerStepFrame
<1>2. CASE PutSucceeds(s)
  <2>1. out'[s] = Nothing
    BY <1>2 DEF PutSucceeds, TypeInv, OutInv, WorkerTypeOK
  <2> QED
    BY <1>1, <2>1 DEF PlaceInv
<1>3. CASE ~PutSucceeds(s)
  BY <1>1, <1>3, QuietPlace DEF PlaceInv
<1> QED
  BY <1>2, <1>3

LEMMA PlacePutStep ==
  ASSUME TypeInv, WorkerInv, PlaceInv, NEW s \in Site, PutSucceeds(s), ~closed
  PROVE  WaitingInPlace' /\ \A u \in Site : SentInPlace(u)'
<1> DEFINE m == out[s]
<1>1. /\ m \in Messages /\ m.site = s /\ queue \in Seq(Entries) /\ m # Nothing /\ armed[s]
      /\ queue' = Append(queue, m) /\ m \in Entries
      /\ out'[s] = Nothing /\ \A u \in Site \ {s} : out'[u] = out[u] /\ armed'[u] = armed[u]
      /\ UNCHANGED <<held, last, checkpoint, cursor, latched>>
  BY DEF TypeInv, OutInv, WorkerTypeOK, SharedTypeOK, WorkerInv, OutSound, PutSucceeds, Entries,
         consumerVars, durableVars, cancelVars
<1>2. \A u \in Site : Place(u)' = Place(u)
  BY <1>1 DEF Place
<1>3. m.cursor = cursor[s] /\ InPlace(m, ReachedAll(s))
  BY <1>1 DEF PlaceInv, SentInPlace
<1>4. /\ Len(queue') = Len(queue) + 1 /\ Len(queue) \in Nat /\ queue'[Len(queue) + 1] = m
      /\ \A i \in 1..Len(queue) : queue'[i] = queue[i]
  BY <1>1, PutPositions
<1>5. /\ \A i \in 1..(Len(queue) + 1) : \A n, u :
           Reached(n, held, queue', i, u) = Reached(n, held, queue, i, u)
      /\ \A n, u : Reached(n, held, queue', Len(queue) + 2, u)
                    = Reached(n, held, queue, Len(queue) + 1, u) \cup Turned(m, u)
  BY <1>1, ReachedPut
<1>6. \A u \in Site : ReachedAll(u)' = ReachedAll(u) \cup Turned(m, u)
  BY <1>1, <1>2, <1>4, <1>5 DEF ReachedAll
<1>7. WaitingInPlace'
  <2>1. \A u \in Site : Of(held, u) => InPlace(held', 1..Place(u)')
    BY <1>1, <1>2 DEF PlaceInv, WaitingInPlace
  <2>2. ASSUME NEW u \in Site, NEW k \in 1..Len(queue'), Of(queue'[k], u)
        PROVE  InPlace(queue'[k], Reached(Place(u)', held', queue', k, u))
    <3>1. k = Len(queue) + 1 \/ k \in 1..Len(queue)
      BY <1>4
    <3>2. CASE k \in 1..Len(queue)
      BY <1>1, <1>2, <1>4, <1>5, <2>2, <3>2 DEF PlaceInv, WaitingInPlace
    <3>3. CASE k = Len(queue) + 1
      <4>1. u = s
        BY <1>1, <1>4, <2>2, <3>3 DEF Of
      <4>2. Reached(Place(s)', held', queue', k, s) = ReachedAll(s)
        BY <1>1, <1>2, <1>4, <1>5, <3>3 DEF ReachedAll
      <4> QED
        BY <1>3, <1>4, <3>3, <4>1, <4>2
    <3> QED
      BY <3>1, <3>2, <3>3
  <2> QED
    BY <1>1, <2>1, <2>2 DEF WaitingInPlace
<1>8. ASSUME NEW u \in Site PROVE SentInPlace(u)'
  <2>1. CASE u = s
    <3>1. ReachedAll(s) \cup Turned(m, s) = 1..cursor[s]
      BY <1>1, <1>3, TurnedTo
    <3> QED
      BY <1>1, <1>6, <2>1, <3>1 DEF SentInPlace
  <2>2. CASE u # s
    <3>1. ReachedAll(u)' = ReachedAll(u)
      BY <1>1, <1>3, <1>6, <2>2, TurnedTo
    <3>2. SentInPlace(u) /\ out'[u] = out[u] /\ armed'[u] = armed[u]
      BY <1>1, <2>2 DEF PlaceInv
    <3> QED
      BY <1>1, <3>1, <3>2 DEF SentInPlace
  <2> QED
    BY <2>1, <2>2
<1> QED
  BY <1>7, <1>8

\* The application takes what is held, in its place, or drops what turns nothing.
LEMMA PlaceTakeStep ==
  ASSUME TypeInv, ConsumerInv, PlaceInv, Deliver \/ DropHeld \/ CountWorkerDone, ~closed
  PROVE  /\ WaitingInPlace' /\ \A u \in Site : SentInPlace(u)'
         /\ LastPlace'
<1>1. /\ held' = Nothing /\ UNCHANGED <<queue, checkpoint, cursor, latched, out, armed>>
  BY DEF Deliver, DropHeld, CountWorkerDone, Holds, workerVars, cancelVars, durableVars
<1>2. \A u \in Site : LastPlace' /\ Place(u)' \in Nat
                      /\ 1..Place(u)' = 1..Place(u) \cup Turned(held, u)
  <2>1. CASE Deliver
    <3>1. /\ held \in Messages /\ held.site \in Site /\ lastAcked /\ last' = held /\ ~lastAcked'
      BY <2>1, HeldMessage DEF Deliver, Holds, ConsumerInv, TypeInv, LastTypeInv, Messages
    <3>2. \A u \in Site : Place(u) = checkpoint.cursor[u]
      BY <3>1, PlaceType DEF PlaceInv, LastPlace, Place
    <3>3. InPlace(held, 1..Place(held.site))
      BY <3>1 DEF PlaceInv, WaitingInPlace, Of
    <3>4. /\ 1..Place(held.site) \cup Turned(held, held.site) = 1..held.cursor
          /\ \A u : held.site # u => Turned(held, u) = {}
      BY <3>1, <3>3, TurnedTo
    <3>5. \A u \in Site : Place(u)' = IF held.site = u THEN held.cursor ELSE Place(u)
      BY <1>1, <3>1, <3>2 DEF Place, Of
    <3>6. held.cursor = Place(held.site) + (IF held.type = "PROGRESS" THEN 1 ELSE 0)
      <4>1. held.cursor \in Nat \ {0} /\ Place(held.site) \in Nat \ {0}
        BY <3>1, PlaceType DEF Messages
      <4>2. (IF held.type = "PROGRESS" THEN held.cursor - 1 ELSE held.cursor) = Place(held.site)
        BY <3>3, <4>1, IntervalEnd DEF InPlace
      <4> QED
        BY <4>1, <4>2
    <3>7. LastPlace'
      BY <1>1, <3>1, <3>2, <3>6 DEF LastPlace, Of
    <3>8. \A u \in Site : Place(u)' \in Nat
      BY <3>1, <3>5, PlaceType DEF Messages
    <3> QED
      BY <3>4, <3>5, <3>7, <3>8
  <2>2. CASE DropHeld \/ CountWorkerDone
    <3>1. held = Wake \/ held.type = "WORKER_DONE"
      BY <2>2 DEF DropHeld, CountWorkerDone, Holds
    <3>2. \A u : Turned(held, u) = {}
      BY <3>1, NothingTurned DEF Turned
    <3>3. UNCHANGED <<last, lastAcked>>
      BY <2>2 DEF DropHeld, CountWorkerDone
    <3>4. LastPlace' /\ \A u \in Site : Place(u)' = Place(u)
      BY <1>1, <3>3 DEF PlaceInv, LastPlace, Place
    <3> QED
      BY <3>2, <3>4, PlaceType
  <2> QED
    BY <2>1, <2>2
<1>3. \A i : \A u \in Site :
        Reached(Place(u)', Nothing, queue, i, u) = Reached(Place(u), held, queue, i, u)
  BY <1>2, NothingTurned DEF Reached, Earlier
<1>4. \A u \in Site : ReachedAll(u)' = ReachedAll(u)
  BY <1>1, <1>3 DEF ReachedAll
<1>5. WaitingInPlace'
  BY <1>1, <1>3, NoMessage DEF PlaceInv, WaitingInPlace, Of
<1>6. \A u \in Site : SentInPlace(u)'
  BY <1>1, <1>4 DEF PlaceInv, SentInPlace
<1>7. LastPlace'
  BY <1>2 DEF LastPlace
<1> QED
  BY <1>5, <1>6, <1>7

LEMMA PlaceStep ==
  TypeInv /\ ConsumerInv /\ WorkerInv /\ PlaceInv /\ [Next]_vars => PlaceInv'
<1> SUFFICES ASSUME TypeInv, ConsumerInv, WorkerInv, PlaceInv, [Next]_vars PROVE PlaceInv'
  OBVIOUS
<1>1. ASSUME \A u \in Site : Place(u)' = Place(u), LastPlace', closed => closed',
             UNCHANGED <<held, queue, cursor, out, armed>>, latched => latched'
      PROVE  PlaceInv'
  <2>1. \A u \in Site : ReachedAll(u)' = ReachedAll(u)
    BY <1>1 DEF ReachedAll
  <2>2. ~closed' => WaitingInPlace'
    BY <1>1 DEF PlaceInv, WaitingInPlace
  <2>3. ~closed' => \A u \in Site : SentInPlace(u)'
    BY <1>1, <2>1 DEF PlaceInv, SentInPlace
  <2> QED
    BY <1>1, <2>2, <2>3 DEF PlaceInv
<1>2. ASSUME UNCHANGED <<last, lastAcked, checkpoint>>
      PROVE  LastPlace' /\ \A u \in Site : Place(u)' = Place(u)
  BY <1>2 DEF LastPlace, Place, PlaceInv
<1>3. ASSUME NEW s \in Site, WorkerStep(s) \/ AdapterFails(s) PROVE PlaceInv'
  <2>1. UNCHANGED <<held, last, lastAcked, checkpoint, closed, stopped>>
    BY <1>3, WorkerStepFrame DEF consumerVars, durableVars
  <2>2. \A u \in Site : out'[u] # Nothing => out'[u].cursor = cursor'[u]
    BY <1>3, PlaceWorkerStep
  <2>3. CASE PutSucceeds(s)
    BY <1>2, <2>1, <2>2, <2>3, PlacePutStep DEF PlaceInv
  <2>4. CASE ~PutSucceeds(s) /\ ~closed
    <3>1. queue' = queue /\ ~stopped
      BY <1>3, <2>4, QuietWorkerStep DEF ConsumerInv
    <3>2. LastPlace' /\ \A u \in Site : Place(u)' = Place(u) /\ ReachedAll(u)' = ReachedAll(u)
      BY <1>2, <2>1, <3>1 DEF ReachedAll
    <3>3. WaitingInPlace'
      BY <2>1, <2>4, <3>1, <3>2 DEF PlaceInv, WaitingInPlace
    <3>4. SentInPlace(s)'
      <4>1. SentInPlace(s)
        BY <2>4 DEF PlaceInv
      <4> QED
        BY <1>3, <2>4, <3>1, <3>2, <4>1, QuietPlace DEF SentInPlace
    <3>5. \A u \in Site \ {s} : SentInPlace(u)'
      <4>1. /\ latched => latched'
            /\ \A u \in Site \ {s} : /\ out'[u] = out[u] /\ cursor'[u] = cursor[u]
                                     /\ armed'[u] = armed[u] /\ SentInPlace(u)
        BY <1>3, <2>4, WorkerStepFrame DEF PlaceInv
      <4> QED
        BY <3>2, <4>1 DEF SentInPlace
    <3> QED
      BY <2>2, <3>2, <3>3, <3>4, <3>5 DEF PlaceInv
  <2>5. CASE closed
    BY <1>2, <2>1, <2>2, <2>5 DEF PlaceInv
  <2> QED
    BY <2>3, <2>4, <2>5
<1>4. CASE AckSaves
  <2>1. last # Nothing /\ checkpoint' = Acked(last) /\ last' = last /\ lastAcked'
    BY <1>4 DEF AckSaves, TypeInv, LastTypeInv
  <2>2. \A u \in Site : checkpoint'.cursor[u] = Place(u)
    BY <2>1, AckedSeen DEF Place, Of
  <2>3. LastPlace' /\ \A u \in Site : Place(u)' = Place(u)
    BY <2>1, <2>2, PlaceType DEF LastPlace, Place
  <2> QED
    BY <1>1, <1>4, <2>3 DEF AckSaves, cancelVars, workerVars
<1>5. CASE Get
  <2>1. /\ held = Nothing /\ queue # <<>> /\ queue' = Tail(queue) /\ held' = Head(queue)
        /\ UNCHANGED <<closed, latched, cursor, out, armed, last, lastAcked, checkpoint>>
    BY <1>5 DEF Get, ConsumerInv, cancelVars, durableVars, workerVars
  <2>2. queue \in Seq(Entries)
    BY DEF TypeInv, SharedTypeOK, Entries
  <2>3. LastPlace' /\ \A u \in Site : Place(u)' = Place(u)
    BY <1>2, <2>1
  <2>4. /\ \A i \in 1..Len(queue) : \A n, u :
             Reached(n, held', queue', i, u) = Reached(n, held, queue, i + 1, u)
        /\ \A n, u : Reached(n, held, queue, 1, u) = 1..n
    BY <2>1, <2>2, ReachedGet
  <2>5. /\ Len(queue) \in Nat /\ Len(queue) >= 1 /\ Len(queue') = Len(queue) - 1
        /\ held' = queue[1] /\ \A i \in 1..(Len(queue) - 1) : queue'[i] = queue[i + 1]
    BY <2>1, <2>2, GetPositions
  <2>6. \A u \in Site : ReachedAll(u)' = ReachedAll(u)
    <3>1. Len(queue') + 1 = Len(queue) /\ Len(queue) \in 1..Len(queue)
      BY <2>5
    <3> QED
      BY <2>3, <2>4, <3>1 DEF ReachedAll
  <2>7. ~closed => WaitingInPlace'
    <3> SUFFICES ASSUME ~closed, NEW u \in Site
                 PROVE  /\ Of(held', u) => InPlace(held', 1..Place(u)')
                        /\ \A k \in 1..Len(queue') : Of(queue'[k], u) =>
                             InPlace(queue'[k], Reached(Place(u)', held', queue', k, u))
      BY DEF WaitingInPlace
    <3>1. \A k \in 1..Len(queue) :
            Of(queue[k], u) => InPlace(queue[k], Reached(Place(u), held, queue, k, u))
      BY DEF PlaceInv, WaitingInPlace
    <3>2. Of(held', u) => InPlace(held', 1..Place(u)')
      BY <2>3, <2>4, <2>5, <3>1
    <3>3. ASSUME NEW k \in 1..Len(queue'), Of(queue'[k], u)
          PROVE  InPlace(queue'[k], Reached(Place(u)', held', queue', k, u))
      <4>1. k \in 1..Len(queue) /\ k + 1 \in 1..Len(queue) /\ queue'[k] = queue[k + 1]
        BY <2>5
      <4> QED
        BY <2>3, <2>4, <3>1, <3>3, <4>1
    <3> QED
      BY <3>2, <3>3
  <2>8. ~closed => \A u \in Site : SentInPlace(u)'
    BY <2>1, <2>6 DEF PlaceInv, SentInPlace
  <2> QED
    BY <2>1, <2>3, <2>7, <2>8 DEF PlaceInv
<1>6. CASE Deliver \/ CountWorkerDone
  <2>1. ~closed /\ UNCHANGED <<closed, cursor, out>>
    BY <1>6 DEF Deliver, CountWorkerDone, Holds, cancelVars, workerVars
  <2> QED
    BY <1>6, <2>1, PlaceTakeStep DEF PlaceInv
<1>7. CASE DropHeld
  <2>1. UNCHANGED <<closed, cursor, out, last, lastAcked, checkpoint>>
    BY <1>7 DEF DropHeld, cancelVars, workerVars, durableVars
  <2> QED
    BY <1>2, <1>7, <2>1, PlaceTakeStep DEF PlaceInv
<1>8. CASE DeliverSearchComplete
  <2>1. /\ lastAcked /\ last' = SearchComplete
        /\ UNCHANGED <<checkpoint, held, queue, cursor, out, armed, closed, latched>>
    BY <1>8 DEF DeliverSearchComplete, Continues, ConsumerInv, durableVars, workerVars, cancelVars
  <2>2. LastPlace' /\ \A u \in Site : Place(u)' = Place(u)
    BY <2>1, NoMessage, PlaceType DEF LastPlace, Place, Of, PlaceInv
  <2> QED
    BY <1>1, <2>1, <2>2
<1>9. CASE Resume
  <2>1. /\ queue' = <<>> /\ held' = Nothing /\ last' = Nothing /\ checkpoint' = checkpoint
        /\ cursor' = checkpoint.cursor /\ \A s \in Site : out'[s] = Nothing
    BY <1>9 DEF Resume
  <2>2. Len(<<>>) = 0
    OBVIOUS
  <2>3. \A u \in Site : ReachedAll(u)' = 1..cursor'[u]
    BY <2>1, <2>2, NoMessage, NothingTurned DEF ReachedAll, Reached, Earlier, Place, Of
  <2>4. LastPlace'
    BY <2>1, NoMessage DEF LastPlace, Of
  <2>5. WaitingInPlace'
    BY <2>1, <2>2, NoMessage DEF WaitingInPlace, Of
  <2>6. \A u \in Site : SentInPlace(u)'
    BY <2>1, <2>3 DEF SentInPlace
  <2> QED
    BY <2>1, <2>4, <2>5, <2>6 DEF PlaceInv
<1>10. CASE CallAck \/ AckFails \/ CallNext \/ NextEnds \/ NextSeesClosed \/ NextSeesCancel
           \/ NextRaises \/ NextWaits \/ GetTimesOut
  <2>1. UNCHANGED <<held, queue, cursor, out, armed, last, lastAcked, checkpoint>>
    BY <1>10 DEF CallAck, AckFails, CallNext, NextEnds, NextSeesClosed, NextSeesCancel,
                NextRaises, NextWaits, GetTimesOut, ConsumerGoes,
                cancelVars, durableVars, workerVars
  <2>2. closed => closed'
    BY <1>10 DEF CallAck, AckFails, CallNext, NextEnds, NextSeesClosed, NextSeesCancel,
                NextRaises, NextWaits, GetTimesOut, BeginClose, cancelVars
  <2>3. latched => latched'
    BY <1>10 DEF CallAck, AckFails, CallNext, NextEnds, NextSeesClosed, NextSeesCancel,
                NextRaises, NextWaits, GetTimesOut, SeesExternalCancel, Latch, cancelVars
  <2> QED
    BY <1>1, <1>2, <2>1, <2>2, <2>3
<1>11. CASE CloserStep
  <2>1. closed /\ closed' /\ UNCHANGED <<cursor, out, last, lastAcked, checkpoint>>
    BY <1>11 DEF CloserStep, CloseStops, CloseWakes, CloseMakesRoom, ConsumerInv, cancelVars,
                 consumerVars, durableVars, workerVars
  <2> QED
    BY <1>2, <2>1 DEF PlaceInv
<1>12. CASE CloseCalled \/ CallerCancels \/ Stay \/ UNCHANGED vars
  <2>1. /\ UNCHANGED <<held, queue, cursor, out, armed, last, lastAcked, checkpoint, latched>>
        /\ closed => closed'
    BY <1>12 DEF CloseCalled, BeginClose, CallerCancels, Stay, vars, cancelVars, consumerVars,
                 durableVars, workerVars
  <2> QED
    BY <1>1, <1>2, <2>1
<1> QED
  BY <1>3, <1>4, <1>5, <1>6, <1>7, <1>8, <1>9, <1>10, <1>11, <1>12 DEF Next, AckStep, NextStep

LEMMA PlaceInit == Init => PlaceInv
<1> SUFFICES ASSUME Init PROVE PlaceInv
  OBVIOUS
<1>1. /\ queue = <<>> /\ held = Nothing /\ last = Nothing
      /\ cursor = checkpoint.cursor /\ \A s \in Site : out[s] = Nothing
  BY DEF Init
<1>2. Len(<<>>) = 0
  OBVIOUS
<1>3. \A u \in Site : ReachedAll(u) = 1..cursor[u]
  BY <1>1, <1>2, NoMessage, NothingTurned DEF ReachedAll, Reached, Earlier, Place, Of
<1>4. LastPlace /\ WaitingInPlace
  BY <1>1, <1>2, NoMessage DEF LastPlace, WaitingInPlace, Of
<1>5. \A u \in Site : SentInPlace(u)
  BY <1>1, <1>3 DEF SentInPlace
<1> QED
  BY <1>1, <1>4, <1>5 DEF PlaceInv

\* PlaceInv is inductive relative to DeliveryInv.
THEOREM PlaceInvariant == Spec => []PlaceInv
<1>1. DeliveryInv /\ PlaceInv /\ [Next]_vars => PlaceInv'
  BY PlaceStep DEF DeliveryInv
<1> QED
  BY <1>1, PlaceInit, DeliveryInvariant, PTL DEF Spec

\* The cursor of the checkpoint turns page by page, and only when the progress
\* event of the page it stands on is acknowledged: emit_progress() moves the
\* state of the context, and the events that follow, one page on.
THEOREM CursorTurns == Spec => CursorFollowsProgress
<1>1. DeliveryInv /\ PlaceInv /\ [Next]_vars
        => [\A s \in Site : checkpoint'.cursor[s] # checkpoint.cursor[s] =>
              /\ last.type = "PROGRESS" /\ last.site = s
              /\ checkpoint'.cursor[s] = checkpoint.cursor[s] + 1]_vars
  <2> SUFFICES ASSUME DeliveryInv, PlaceInv, [Next]_vars, NEW s \in Site,
                      checkpoint'.cursor[s] # checkpoint.cursor[s]
               PROVE  /\ last.type = "PROGRESS" /\ last.site = s
                      /\ checkpoint'.cursor[s] = checkpoint.cursor[s] + 1
    OBVIOUS
  <2>1. CASE AckSaves
    <3>1. last # Nothing /\ ~lastAcked /\ checkpoint' = Acked(last)
      BY <2>1 DEF AckSaves, DeliveryInv, TypeInv, LastTypeInv
    <3>2. Of(last, s) /\ checkpoint'.cursor[s] = last.cursor
      BY <3>1, AckedSeen DEF DeliveryInv, Of
    <3>3. checkpoint.cursor[s] \in Nat
      BY PlaceType DEF DeliveryInv
    <3> QED
      BY <3>1, <3>2, <3>3 DEF PlaceInv, LastPlace, Of
  <2>2. ASSUME NEW u \in Site, WorkerStep(u) \/ AdapterFails(u) PROVE checkpoint' = checkpoint
    BY <2>2, WorkerStepFrame DEF durableVars, DeliveryInv
  <2>3. CASE CallAck \/ AckFails \/ NextStep
    BY <2>3 DEF CallAck, AckFails, NextStep, CallNext, NextEnds, NextSeesClosed,
         NextSeesCancel, NextRaises, DeliverSearchComplete, NextWaits, GetTimesOut, Get,
         DropHeld, CountWorkerDone, Deliver, durableVars
  <2>4. CASE CloserStep \/ CloseCalled \/ CallerCancels \/ Resume \/ Stay \/ UNCHANGED vars
    BY <2>4 DEF CloserStep, CloseStops, CloseWakes, CloseMakesRoom, CloseCalled,
                CallerCancels, Resume, Stay, vars, durableVars
  <2> QED
    BY <2>1, <2>2, <2>3, <2>4 DEF Next, AckStep
<1> QED
  BY <1>1, DeliveryInvariant, PlaceInvariant, PTL DEF Spec, CursorFollowsProgress

-------------------------------------------------------------------------------
\* A worker that ended without being cancelled, and without a BaseException, said
\* why.

\* The end of s is on its way, or known, or s is one of the sites F that are known
\* to have failed.
Explained(s, F) ==
  \/ out[s].type \in Verdicts
  \/ \E m \in Waiting : Of(m, s) /\ m.type \in Verdicts
  \/ EndKnown(s) \/ s \in F

WhyInv(F) ==
  ~closed /\ ~latched =>
    \A s \in Site : worker[s] \in {"finishing", "dead"} => Explained(s, F)

\* A site is complete once its SiteCompleteEvent is acknowledged.
CompletedInv ==
  \A s \in Site : lastAcked /\ Of(last, s) /\ last.type = "SITE_COMPLETE"
                    => checkpoint.completed[s]

LEMMA QuietExplained ==
  ASSUME NEW F, TypeInv, WorkerInv, WhyInv(F), "abrupt" \notin Failures,
         ~closed, ~closed', ~latched', ~stopped,
         NEW s \in Site, WorkerStep(s) \/ AdapterFails(s), ~PutSucceeds(s)
  PROVE  \A u \in Site : worker'[u] \in {"finishing", "dead"} => Explained(u, F)'
<1> USE DEF GoTo, Emit, Runs, WorkerUnchanged, EmitSiteComplete, Looks, TypeInv, OutInv, WorkerTypeOK,
            cancelVars
<1>1. /\ UNCHANGED <<held, last, checkpoint, errors, closed>> /\ queue' = queue /\ ~latched
      /\ \A u \in Site \ {s} : worker'[u] = worker[u] /\ out'[u] = out[u]
  BY WorkerStepFrame, QuietWorkerStep DEF consumerVars, durableVars
<1>2. Waiting' = Waiting /\ \A u : EndKnown(u)' <=> EndKnown(u)
  BY <1>1 DEF Waiting, EndKnown
<1>3. ASSUME NEW u \in Site, worker'[u] \in {"finishing", "dead"} => worker[u] \in {"finishing", "dead"},
             out'[u].type \in Verdicts \/ out[u].type \notin Verdicts \/ out'[u] = out[u]
      PROVE  worker'[u] \in {"finishing", "dead"} => Explained(u, F)'
  BY <1>1, <1>2, <1>3 DEF WhyInv, Explained
<1>4. \A u \in Site \ {s} : worker'[u] \in {"finishing", "dead"} => Explained(u, F)'
  BY <1>1, <1>3
<1>5. worker'[s] \in {"finishing", "dead"} => Explained(s, F)'
  <2>0. Nothing.type \notin Verdicts
    BY DEF Nothing, Message, Verdicts
  <2>1. ASSUME out'[s].type \in Verdicts PROVE Explained(s, F)'
    BY <2>1 DEF Explained
  <2>2. CASE StartWorker(s)
    BY <2>1, <2>2 DEF StartWorker, CompleteMessage, Message, Verdicts
  <2>3. CASE CreateAdapter(s)
    BY <2>3 DEF CreateAdapter
  <2>4. CASE FetchPage(s) \/ Retry(s)
    BY <2>4 DEF FetchPage, Retry
  <2>5. ASSUME NEW j \in Job, EmitJob(s, j) \/ SkipSeen(s, j) \/ SkipUnreadable(s, j)
        PROVE  worker'[s] \notin {"finishing", "dead"}
    BY <2>5 DEF EmitJob, SkipSeen, SkipUnreadable
  <2>6. CASE FinishPage(s)
    BY <2>6 DEF FinishPage
  <2>7. CASE ScrapeReturns(s)
    BY <2>1, <2>7 DEF ScrapeReturns, CompleteMessage, Message, Verdicts
  <2>8. CASE Abandon(s)
    BY <2>8 DEF Abandon, SeesCancel, Latch
  <2>9. CASE FinishWorker(s)
    <3>1. worker[s] = "finishing" /\ out[s] = Nothing
      BY <2>9 DEF FinishWorker
    <3> QED
      BY <1>3, <2>0, <3>1
  <2>10. CASE PutChecks(s) \/ PutTimesOut(s)
    <3>1. worker' = worker /\ out' = out
      BY <2>10 DEF PutChecks, PutTimesOut
    <3> QED
      BY <1>3, <3>1
  <2>11. CASE PutRefused(s)
    BY <2>11 DEF PutRefused, SeesCancel, Latch
  <2>12. CASE FailAbruptly(s)
    BY <2>12 DEF FailAbruptly
  <2>13. ASSUME NEW kind \in FailureKinds, Fail(s, kind)
         PROVE  worker'[s] \in {"finishing", "dead"} => out'[s].type \in Verdicts
    BY <2>13 DEF Fail, CompleteMessage, Report, Message, Verdicts
  <2> QED
    BY <2>1, <2>2, <2>3, <2>4, <2>5, <2>6, <2>7, <2>8, <2>9, <2>10, <2>11, <2>12, <2>13
       DEF WorkerStep, AdapterFails
<1> QED
  BY <1>4, <1>5

LEMMA CompletedStep ==
  TypeInv /\ ConsumerInv /\ CompletedInv /\ [Next]_vars => CompletedInv'
<1> SUFFICES ASSUME TypeInv, ConsumerInv, CompletedInv, [Next]_vars PROVE CompletedInv'
  OBVIOUS
<1>1. CASE UNCHANGED <<last, lastAcked, checkpoint>>
  BY <1>1 DEF CompletedInv
<1>2. ASSUME NEW s \in Site, WorkerStep(s) \/ AdapterFails(s) PROVE CompletedInv'
  BY <1>1, <1>2, WorkerStepFrame DEF consumerVars, durableVars
<1>3. CASE AckSaves
  <2>1. last # Nothing /\ checkpoint' = Acked(last) /\ last' = last
    BY <1>3 DEF AckSaves, TypeInv, LastTypeInv
  <2> QED
    BY <2>1, AckedSeen DEF CompletedInv, Of
<1>4. CASE Deliver \/ DeliverSearchComplete
  BY <1>4 DEF Deliver, DeliverSearchComplete, CompletedInv
<1>5. CASE Resume
  BY <1>5, NoMessage DEF Resume, CompletedInv, Of
<1>6. CASE CallAck \/ AckFails \/ (NextStep /\ ~Deliver /\ ~DeliverSearchComplete)
  BY <1>1, <1>6
     DEF CallAck, AckFails, NextStep, CallNext, NextEnds, NextSeesClosed, NextSeesCancel,
         NextRaises, NextWaits, GetTimesOut, Get, DropHeld, CountWorkerDone, ConsumerGoes,
         durableVars
<1>7. CASE CloserStep \/ CloseCalled \/ CallerCancels \/ Stay \/ UNCHANGED vars
  BY <1>1, <1>7 DEF CloserStep, CloseStops, CloseWakes, CloseMakesRoom, CloseCalled,
                    CallerCancels, Stay, vars, consumerVars, durableVars
<1> QED
  BY <1>2, <1>3, <1>4, <1>5, <1>6, <1>7 DEF Next, AckStep

\* The sites known to have failed are those F before the step and G after it: an
\* ErrorEvent adds its site, and only a new stream forgets them.
LEMMA WhyStep ==
  ASSUME "abrupt" \notin Failures, NEW F, NEW G, F \subseteq G \/ Resume,
         Deliver /\ held.type = "ERROR" => held.site \in G
  PROVE  TypeInv /\ ConsumerInv /\ WorkerInv /\ LastOpen /\ CompletedInv /\ WhyInv(F) /\ [Next]_vars
           => WhyInv(G)'
<1> SUFFICES ASSUME TypeInv, ConsumerInv, WorkerInv, LastOpen, CompletedInv, WhyInv(F), [Next]_vars
             PROVE  WhyInv(G)'
  OBVIOUS
<1>9. CASE Resume
  <2>1. /\ last' = Nothing /\ checkpoint' = checkpoint
        /\ \A u \in Site : worker'[u] \in {"finishing", "dead"} => checkpoint.completed[u]
    BY <1>9 DEF Resume, Pending
  <2> QED
    BY <2>1 DEF WhyInv, Explained, EndKnown
<1> SUFFICES ASSUME F \subseteq G PROVE WhyInv(G)'
  BY <1>9
<1> DEFINE Why == \A u \in Site : worker[u] \in {"finishing", "dead"} => Explained(u, F)
<1>0. ~closed /\ ~latched => Why
  BY DEF WhyInv
<1>1. ASSUME ~closed' /\ ~latched' => ~closed /\ ~latched,
             UNCHANGED <<worker, out>>, \A u \in Site : EndKnown(u) => EndKnown(u)',
             \A m : \A u \in Site : Of(m, u) /\ m \in Waiting => m \in Waiting'
      PROVE  WhyInv(G)'
  BY <1>0, <1>1 DEF WhyInv, Explained
<1>2. ASSUME UNCHANGED <<last, checkpoint>>
      PROVE  \A u \in Site : EndKnown(u) => EndKnown(u)'
  BY <1>2 DEF EndKnown
<1>3. ASSUME NEW s \in Site, WorkerStep(s) \/ AdapterFails(s) PROVE WhyInv(G)'
  <2>1. UNCHANGED <<held, last, lastAcked, checkpoint, closed, stopped>>
        /\ (latched => latched')
    BY <1>3, WorkerStepFrame DEF consumerVars, durableVars
  <2>3. CASE PutSucceeds(s)
    <3>1. /\ out[s] \in Entries /\ out[s].site = s /\ out[s] \in Messages
          /\ queue' = Append(queue, out[s]) /\ worker' = worker
          /\ \A u \in Site \ {s} : out'[u] = out[u]
      BY <2>3 DEF PutSucceeds, TypeInv, OutInv, WorkerTypeOK, WorkerInv, OutSound, Entries
    <3>2. Waiting' = Waiting \cup {out[s]} /\ Of(out[s], s)
      BY <2>1, <3>1, WaitingPut DEF Of
    <3>3. \A u \in Site : Explained(u, F) => Explained(u, G)'
      BY <2>1, <3>1, <3>2 DEF Explained, EndKnown
    <3> QED
      BY <1>0, <2>1, <3>1, <3>3 DEF WhyInv
  <2>4. CASE ~PutSucceeds(s) /\ ~closed' /\ ~latched'
    <3>1. \A u \in Site : worker'[u] \in {"finishing", "dead"} => Explained(u, F)'
      BY <1>3, <2>1, <2>4, QuietExplained DEF ConsumerInv
    <3> QED
      BY <3>1 DEF WhyInv, Explained
  <2> QED
    BY <2>3, <2>4 DEF WhyInv
<1>4. CASE AckSaves
  <2>1. last # Nothing /\ checkpoint' = Acked(last) /\ last' = last /\ ~lastAcked
        /\ UNCHANGED <<closed, latched, worker, out, errors, held, queue>>
    BY <1>4 DEF AckSaves, TypeInv, LastTypeInv, cancelVars, workerVars
  <2>3. \A u \in Site : EndKnown(u) => EndKnown(u)'
    BY <2>1, AckedSeen DEF EndKnown, Of, LastOpen
  <2>4. Waiting' = Waiting
    BY <2>1 DEF Waiting
  <2> QED
    BY <1>1, <2>1, <2>3, <2>4
<1>5. CASE Get
  <2>1. /\ held = Nothing /\ queue # <<>> /\ queue' = Tail(queue) /\ held' = Head(queue)
        /\ UNCHANGED <<closed, latched, worker, out, last, checkpoint>>
    BY <1>5 DEF Get, ConsumerInv, cancelVars, durableVars, workerVars
  <2>2. Waiting' \cup {Nothing} = Waiting /\ \A u : ~Of(Nothing, u)
    BY <2>1, WaitingGet, WaitingType
  <2> QED
    BY <1>1, <1>2, <2>1, <2>2
<1>6. CASE Deliver
  <2>1. /\ held \in Messages /\ held.site \in Site /\ lastAcked /\ ~lastAcked' /\ last' = held
        /\ held' = Nothing
        /\ UNCHANGED <<closed, latched, worker, out, queue, checkpoint>>
    BY <1>6, HeldMessage
       DEF Deliver, Holds, ConsumerInv, TypeInv, LastTypeInv, ConsumerTypeOK, Messages,
           workerVars, cancelVars
  <2>2. Waiting' \cup {held} = Waiting \cup {Nothing} /\ \A u : ~Of(Nothing, u)
    BY <2>1, WaitingTake, WaitingType
  <2>3. \A u \in Site : EndKnown(u) => checkpoint.completed[u]
    BY <2>1 DEF EndKnown, CompletedInv
  <2>4. ASSUME NEW u \in Site, Explained(u, F) PROVE Explained(u, G)'
    <3>1. CASE Of(held, u) /\ held.type = "SITE_COMPLETE"
      BY <2>1, <3>1 DEF Explained, EndKnown
    <3>2. CASE Of(held, u) /\ held.type = "ERROR"
      BY <1>6, <3>2 DEF Explained, Of
    <3>3. CASE ~(Of(held, u) /\ held.type \in Verdicts)
      <4>2. EndKnown(u) => EndKnown(u)'
        BY <2>1, <2>3 DEF EndKnown
      <4> QED
        BY <2>1, <2>2, <2>4, <3>3, <4>2 DEF Explained
    <3> QED
      BY <3>1, <3>2, <3>3 DEF Verdicts
  <2> QED
    BY <1>0, <2>1, <2>4 DEF WhyInv
<1>7. CASE CountWorkerDone \/ DropHeld
  <2>1. /\ held' = Nothing /\ (held = Wake \/ held.type = "WORKER_DONE" \/ closed)
        /\ UNCHANGED <<closed, latched, worker, out, queue, last, checkpoint>>
    BY <1>7 DEF CountWorkerDone, DropHeld, Holds, workerVars, cancelVars, durableVars
  <2>2. Waiting' \cup {held} = Waiting \cup {Nothing} /\ \A u : ~Of(Nothing, u) /\ ~Of(Wake, u)
    BY <2>1, WaitingTake, WaitingType
  <2>3. CASE ~closed
    <3>1. \A u \in Site : \A m \in Waiting : Of(m, u) /\ m.type \in Verdicts => m \in Waiting'
      BY <2>1, <2>2, <2>3 DEF Verdicts
    <3>2. \A u \in Site : Explained(u, F) => Explained(u, G)'
      BY <1>2, <2>1, <3>1 DEF Explained
    <3> QED
      BY <1>0, <1>2, <2>1, <3>2 DEF WhyInv
  <2> QED
    BY <1>2, <2>1, <2>3 DEF WhyInv
<1>8. CASE DeliverSearchComplete
  <2>1. /\ lastAcked /\ ~lastAcked' /\ last' = SearchComplete
        /\ UNCHANGED <<checkpoint, held, queue, worker, out, closed, latched>>
    BY <1>8 DEF DeliverSearchComplete, Continues, ConsumerInv, durableVars, workerVars, cancelVars
  <2>2. \A u \in Site : EndKnown(u) => EndKnown(u)'
    BY <2>1 DEF EndKnown, CompletedInv
  <2>3. Waiting' = Waiting
    BY <2>1 DEF Waiting
  <2> QED
    BY <1>1, <2>1, <2>2, <2>3
<1>10. CASE CallAck \/ AckFails \/ CallNext \/ NextEnds \/ NextSeesClosed \/ NextSeesCancel
           \/ NextRaises \/ NextWaits \/ GetTimesOut
  <2>1. UNCHANGED <<held, queue, worker, out, last, checkpoint>>
    BY <1>10 DEF CallAck, AckFails, CallNext, NextEnds, NextSeesClosed, NextSeesCancel,
                NextRaises, NextWaits, GetTimesOut, ConsumerGoes,
                cancelVars, durableVars, workerVars
  <2>2. ~closed' => ~closed
    BY <1>10 DEF CallAck, AckFails, CallNext, NextEnds, NextSeesClosed, NextSeesCancel,
                NextRaises, NextWaits, GetTimesOut, BeginClose, cancelVars
  <2>3. ~latched' => ~latched
    BY <1>10 DEF CallAck, AckFails, CallNext, NextEnds, NextSeesClosed, NextSeesCancel,
                NextRaises, NextWaits, GetTimesOut, SeesExternalCancel, Latch, cancelVars
  <2>4. Waiting' = Waiting
    BY <2>1 DEF Waiting
  <2> QED
    BY <1>1, <1>2, <2>1, <2>2, <2>3, <2>4
<1>11. CASE CloserStep
  BY <1>11 DEF CloserStep, CloseStops, CloseWakes, CloseMakesRoom, ConsumerInv, cancelVars, WhyInv
<1>12. CASE CloseCalled
  BY <1>12 DEF CloseCalled, BeginClose, WhyInv
<1>13. CASE CallerCancels \/ Stay \/ UNCHANGED vars
  <2>1. UNCHANGED <<held, queue, worker, out, last, checkpoint, closed, latched>>
    BY <1>13 DEF CallerCancels, Stay, vars, cancelVars, consumerVars, durableVars, workerVars
  <2>2. Waiting' = Waiting
    BY <2>1 DEF Waiting
  <2> QED
    BY <1>1, <1>2, <2>1, <2>2
<1> QED
  BY <1>3, <1>4, <1>5, <1>6, <1>7, <1>8, <1>9, <1>10, <1>11, <1>12, <1>13
     DEF Next, AckStep, NextStep

\* Only a new stream counts its errors from zero.
LEMMA ErrorsKept ==
  ASSUME TypeInv, [Next]_vars, ~Resume
  PROVE  errors > 0 => errors' > 0
<1>1. CASE Deliver
  BY <1>1 DEF Deliver, TypeInv, LastTypeInv, ConsumerTypeOK
<1>2. ASSUME NEW s \in Site, WorkerStep(s) \/ AdapterFails(s) PROVE errors' = errors
  BY <1>2, WorkerStepFrame DEF consumerVars
<1>3. CASE AckStep \/ AckFails \/ (NextStep /\ ~Deliver)
  BY <1>3
     DEF AckStep, CallAck, AckSaves, AckFails, NextStep, CallNext, NextEnds, NextSeesClosed,
         NextSeesCancel, NextRaises, NextWaits, GetTimesOut, Get, DropHeld, CountWorkerDone,
         DeliverSearchComplete, ConsumerGoes
<1>4. CASE CloserStep \/ CloseCalled \/ CallerCancels \/ Stay \/ UNCHANGED vars
  BY <1>4 DEF CloserStep, CloseStops, CloseWakes, CloseMakesRoom, CloseCalled,
              CallerCancels, Stay, vars, consumerVars
<1> QED
  BY <1>1, <1>2, <1>3, <1>4 DEF Next

\* Every site may be the one that failed, once there is an error.
AnyFailed == IF errors > 0 THEN Site ELSE {}

LEMMA VerdictStep ==
  TypeInv /\ ConsumerInv /\ CountInv /\ CompletedInv /\ WhyInv(AnyFailed)
    /\ IncompleteMeansError /\ [Next]_vars
    => IncompleteMeansError'
<1> SUFFICES ASSUME TypeInv, ConsumerInv, CountInv, CompletedInv, WhyInv(AnyFailed),
                    IncompleteMeansError, [Next]_vars
             PROVE  IncompleteMeansError'
  OBVIOUS
<1>1. CASE UNCHANGED <<outcome, errors>>
  BY <1>1 DEF IncompleteMeansError
<1>2. CASE DeliverSearchComplete
  <2>1. /\ ~closed /\ ~latched /\ active = 0 /\ lastAcked /\ errors' = errors
        /\ outcome' = CompletedOutcome
    BY <1>2 DEF DeliverSearchComplete, Continues, AllWorkersDone, ConsumerInv
  <2>2. Undone = {}
    <3>1. IsFiniteSet(Undone) /\ Cardinality(Undone) = 0
      BY <2>1, SiteAssumption, FS_Subset DEF Undone, CountInv
    <3> QED
      BY <3>1, FS_EmptySet
  <2>3. ASSUME NEW s \in Site, ~checkpoint.completed[s] PROVE errors > 0
    <3>1. worker[s] = "dead" /\ out[s] = Nothing /\ \A m \in Waiting : ~Of(m, s)
      BY <2>2 DEF Undone, Gone
    <3>2. Explained(s, AnyFailed) /\ ~checkpoint.completed[s]
      BY <2>1, <2>3, <3>1 DEF WhyInv
    <3>4. ~EndKnown(s)
      BY <2>1, <2>3 DEF EndKnown, CompletedInv
    <3>3. out[s].type \notin Verdicts
      BY <3>1 DEF Nothing, Message, Verdicts
    <3> QED
      BY <3>1, <3>2, <3>3, <3>4 DEF Explained, AnyFailed
  <2> QED
    BY <2>1, <2>3 DEF CompletedOutcome, IncompleteMeansError
<1>3. CASE Deliver
  <2>1. outcome' = outcome /\ errors \in Nat /\ (errors > 0 => errors' > 0)
    BY <1>3 DEF Deliver, TypeInv, LastTypeInv, ConsumerTypeOK
  <2> QED
    BY <2>1 DEF IncompleteMeansError
<1>4. CASE Resume
  BY <1>4 DEF Resume, IncompleteMeansError
<1>5. ASSUME NEW s \in Site, WorkerStep(s) \/ AdapterFails(s) PROVE IncompleteMeansError'
  BY <1>1, <1>5, WorkerStepFrame DEF consumerVars
<1>6. CASE AckStep \/ AckFails \/ (NextStep /\ ~Deliver /\ ~DeliverSearchComplete)
  BY <1>1, <1>6
     DEF AckStep, CallAck, AckSaves, AckFails, NextStep, CallNext, NextEnds, NextSeesClosed,
         NextSeesCancel, NextRaises, NextWaits, GetTimesOut, Get, DropHeld, CountWorkerDone,
         ConsumerGoes
<1>7. CASE CloserStep \/ CloseCalled \/ CallerCancels \/ Stay \/ UNCHANGED vars
  BY <1>1, <1>7 DEF CloserStep, CloseStops, CloseWakes, CloseMakesRoom, CloseCalled,
                    CallerCancels, Stay, vars, consumerVars
<1> QED
  BY <1>2, <1>3, <1>4, <1>5, <1>6, <1>7 DEF Next

\* completed=False means that at least one site failed and has an ErrorEvent, as
\* long as no BaseException ends a worker: nothing but a verdict and the
\* WORKER_DONE is the end of a worker that is not cancelled.
THEOREM IncompleteFailed ==
  ASSUME "abrupt" \notin Failures
  PROVE  Spec => []IncompleteMeansError
<1>1. Init => CompletedInv /\ WhyInv(AnyFailed) /\ IncompleteMeansError
  <2> SUFFICES ASSUME Init PROVE CompletedInv /\ WhyInv(AnyFailed) /\ IncompleteMeansError
    OBVIOUS
  <2>1. last = Nothing /\ outcome = "none" /\ \A s \in Site : worker[s] = "starting"
    BY DEF Init
  <2> QED
    BY <2>1, NoMessage DEF CompletedInv, WhyInv, IncompleteMeansError, Of
<1>2. DeliveryInv /\ EndingInv /\ CompletedInv /\ WhyInv(AnyFailed) /\ [Next]_vars => WhyInv(AnyFailed)'
  <2> SUFFICES ASSUME DeliveryInv, EndingInv, CompletedInv, WhyInv(AnyFailed), [Next]_vars
               PROVE  WhyInv(AnyFailed)'
    OBVIOUS
  <2>1. PICK F : F = AnyFailed
    OBVIOUS
  <2>2. PICK G : G = AnyFailed'
    OBVIOUS
  <2>3. F \subseteq G \/ Resume
    BY <2>1, <2>2, ErrorsKept DEF DeliveryInv, AnyFailed
  <2>4. Deliver /\ held.type = "ERROR" => held.site \in G
    <3>1. Deliver => errors \in Nat /\ held.site \in Site
      BY HeldMessage DEF Deliver, Holds, DeliveryInv, TypeInv, LastTypeInv, ConsumerTypeOK, Messages
    <3> QED
      BY <2>2, <3>1 DEF AnyFailed, Deliver
  <2>5. WhyInv(F)
    BY <2>1 DEF WhyInv, Explained
  <2>6. WhyInv(G)'
    BY <2>3, <2>4, <2>5, WhyStep DEF DeliveryInv, EndingInv
  <2> QED
    BY <2>2, <2>6 DEF WhyInv, Explained
<1>3. DeliveryInv /\ EndingInv /\ CompletedInv /\ WhyInv(AnyFailed) /\ IncompleteMeansError /\ [Next]_vars
      => CompletedInv' /\ WhyInv(AnyFailed)' /\ IncompleteMeansError'
  BY <1>2, CompletedStep, VerdictStep DEF DeliveryInv, EndingInv
<1> QED
  BY <1>1, <1>3, DeliveryInvariant, EndingInvariant, PTL DEF Spec
-------------------------------------------------------------------------------
\* Steps of the stream, by what its application sees of them.

Unseen == UNCHANGED <<last, lastAcked, checkpoint, errors, outcome, restarts>>

LEMMA StepKinds ==
  ASSUME TypeInv, [Next]_vars
  PROVE  Resume \/ Deliver \/ DeliverSearchComplete \/ AckSaves \/ Unseen
<1>1. ASSUME NEW s \in Site, WorkerStep(s) \/ AdapterFails(s) PROVE Unseen
  BY <1>1, WorkerStepFrame DEF consumerVars, durableVars, Unseen
<1>2. CASE CallAck \/ AckFails
  BY <1>2 DEF CallAck, AckFails, ConsumerGoes, durableVars, Unseen
<1>3. CASE NextStep /\ ~Deliver /\ ~DeliverSearchComplete
  BY <1>3
     DEF NextStep, CallNext, NextEnds, NextSeesClosed, NextSeesCancel, NextRaises, NextWaits,
         GetTimesOut, Get, DropHeld, CountWorkerDone, ConsumerGoes, durableVars, Unseen
<1>4. CASE CloserStep \/ CloseCalled \/ CallerCancels \/ Stay \/ UNCHANGED vars
  BY <1>4 DEF CloserStep, CloseStops, CloseWakes, CloseMakesRoom, CloseCalled,
              CallerCancels, Stay, vars, consumerVars, durableVars, Unseen
<1> QED
  BY <1>1, <1>2, <1>3, <1>4 DEF Next, AckStep

LEMMA DeliverFacts ==
  ASSUME TypeInv, ConsumerInv, Deliver
  PROVE  /\ held \in Messages /\ held.type \in AdapterTypes /\ held.site \in Site
         /\ ~closed /\ lastAcked /\ ~lastAcked' /\ last' = held /\ held' = Nothing
         /\ errors \in Nat /\ errors' = errors + (IF held.type = "ERROR" THEN 1 ELSE 0)
         /\ UNCHANGED <<checkpoint, outcome, restarts, queue, worker, out>>
BY HeldMessage
   DEF Deliver, Holds, ConsumerInv, TypeInv, LastTypeInv, ConsumerTypeOK, Messages, AdapterTypes,
       workerVars

LEMMA TerminalFacts ==
  ASSUME ConsumerInv, DeliverSearchComplete
  PROVE  /\ lastAcked /\ ~lastAcked' /\ last' = SearchComplete /\ outcome = "none"
         /\ outcome' = CompletedOutcome /\ outcome' # "none"
         /\ ~closed /\ ~latched /\ active = 0
         /\ UNCHANGED <<checkpoint, errors, restarts>>
BY DEF DeliverSearchComplete, Continues, AllWorkersDone, ConsumerInv, CompletedOutcome, durableVars

LEMMA AckFacts ==
  ASSUME TypeInv, AckSaves
  PROVE  /\ checkpoint' = Acked(last) /\ last # Nothing /\ ~lastAcked /\ lastAcked'
         /\ UNCHANGED <<last, errors, outcome, restarts>>
BY DEF AckSaves, TypeInv, LastTypeInv

LEMMA ResumeFacts ==
  ASSUME TypeInv, Resume
  PROVE  /\ restarts' # restarts /\ last' = Nothing /\ lastAcked' /\ checkpoint' = checkpoint
         /\ errors' = 0 /\ outcome' = "none"
BY DEF Resume, TypeInv, DurableTypeOK

-------------------------------------------------------------------------------
\* The jobs of a site are those it lists: on its pages, in its messages and so in
\* the hand of the application.

FromPages(s) ==
  /\ todo[s] \ Unreadable[s] \subseteq ListedJobs[s]
  /\ JobOf(out[s], s) \subseteq ListedJobs[s]

ListedInv ==
  /\ \A s \in Site : FromPages(s)
  /\ ~closed => \A s \in Site : \A m \in Waiting : JobOf(m, s) \subseteq ListedJobs[s]

LEMMA PageListed ==
  ASSUME NEW s \in Site, NEW p \in PagesOf(s)
  PROVE  Readable(s, p) \subseteq ListedJobs[s]
BY DEF ListedJobs

LEMMA FromPagesStep ==
  ASSUME TypeInv, NEW s \in Site, WorkerStep(s) \/ AdapterFails(s), FromPages(s)
  PROVE  FromPages(s)'
<1> USE DEF GoTo, Emit, EmitSiteComplete, Looks, TypeInv, OutInv, WorkerTypeOK
<1>0. ASSUME NEW m, m.type # "JOB" PROVE JobOf(m, s) = {}
  BY <1>0 DEF JobOf
<1> DEFINE L == ListedJobs[s]
<1>1. SUFFICES todo'[s] \ Unreadable[s] \subseteq L /\ JobOf(out'[s], s) \subseteq L
  BY DEF FromPages, ListedJobs
<1>2. todo[s] \ Unreadable[s] \subseteq L /\ JobOf(out[s], s) \subseteq L
  BY DEF FromPages
<1>3. CASE FetchPage(s)
  <2>1. /\ cursor[s] \in PagesOf(s) /\ todo'[s] = Pages[s][cursor[s]] /\ out' = out
    BY <1>3 DEF FetchPage
  <2>2. Readable(s, cursor[s]) \subseteq L
    BY <2>1, PageListed
  <2> QED
    BY <1>2, <2>1, <2>2 DEF Readable
<1>4. ASSUME NEW j \in Job, EmitJob(s, j)
      PROVE  todo'[s] \ Unreadable[s] \subseteq L /\ JobOf(out'[s], s) \subseteq L
  <2>1. /\ j \in todo[s] \ Unreadable[s] /\ todo'[s] = todo[s] \ {j}
        /\ out'[s] = Message("JOB", s, j, JobState(s), 0)
    BY <1>4 DEF EmitJob
  <2>2. JobOf(out'[s], s) = {j}
    BY <2>1 DEF JobOf, Message
  <2> QED
    BY <1>2, <2>1, <2>2
<1>5. ASSUME NEW j \in Job, SkipSeen(s, j) \/ SkipUnreadable(s, j)
      PROVE  todo'[s] \ Unreadable[s] \subseteq L /\ JobOf(out'[s], s) \subseteq L
  <2>1. /\ todo'[s] = todo[s] \ {j}
        /\ out' = out \/ out'[s] = Report("WARNING", s)
    BY <1>5 DEF SkipSeen, SkipUnreadable
  <2> QED
    BY <1>0, <1>2, <2>1 DEF Report, Message
<1>6. CASE StartWorker(s) \/ CreateAdapter(s) \/ FinishPage(s) \/ ScrapeReturns(s) \/ Abandon(s)
           \/ Retry(s) \/ FinishWorker(s) \/ PutChecks(s) \/ PutSucceeds(s) \/ PutTimesOut(s)
           \/ PutRefused(s) \/ FailAbruptly(s)
  <2>1. todo' = todo \/ todo'[s] = {}
    BY <1>6 DEF StartWorker, CreateAdapter, FinishPage, ScrapeReturns, Abandon, Retry, FinishWorker,
                PutChecks, PutSucceeds, PutTimesOut, PutRefused, FailAbruptly
  <2>2. out' = out \/ out'[s] = Nothing \/ out'[s] = CompleteMessage(s)
        \/ out'[s] = Message("PROGRESS", s, NoJob, cursor[s] + 1, 0)
        \/ out'[s] = Report("WORKER_DONE", s)
    BY <1>6 DEF StartWorker, CreateAdapter, FinishPage, ScrapeReturns, Abandon, Retry, FinishWorker,
                PutChecks, PutSucceeds, PutTimesOut, PutRefused, FailAbruptly
  <2>3. out' = out \/ out'[s].type # "JOB"
    BY <2>2 DEF Nothing, CompleteMessage, Report, Message
  <2> QED
    BY <1>0, <1>2, <2>1, <2>3
<1>7. ASSUME NEW kind, Fail(s, kind)
      PROVE  todo'[s] \ Unreadable[s] \subseteq L /\ JobOf(out'[s], s) \subseteq L
  <2>1. /\ todo'[s] = {}
        /\ \/ out'[s] = CompleteMessage(s)
           \/ out'[s] = Report("WARNING", s) \/ out'[s] = Report("ERROR", s)
    BY <1>7 DEF Fail
  <2>2. out'[s].type # "JOB"
    BY <2>1 DEF CompleteMessage, Report, Message
  <2> QED
    BY <1>0, <2>1, <2>2
<1> QED
  BY <1>3, <1>4, <1>5, <1>6, <1>7 DEF WorkerStep, AdapterFails

LEMMA ListedStep ==
  ASSUME TypeInv, ConsumerInv, WorkerInv, ListedInv, [Next]_vars
  PROVE  ListedInv'
<1> DEFINE Said(W) == \A u \in Site : \A m \in W : JobOf(m, u) \subseteq ListedJobs[u]
<1>0. SUFFICES (\A u \in Site : FromPages(u)') /\ (~closed' => Said(Waiting'))
  BY DEF ListedInv, ListedJobs
<1>00. (\A u \in Site : FromPages(u)) /\ (~closed => Said(Waiting)) /\ JobOf(Nothing, 0) = {}
  BY NoMessage DEF ListedInv
<1> DEFINE Goal == (\A u \in Site : FromPages(u)') /\ (~closed' => Said(Waiting'))
<1>1. ASSUME UNCHANGED <<todo, out>>, ~closed' => ~closed /\ Waiting' \subseteq Waiting
      PROVE  Goal
  BY <1>00, <1>1 DEF FromPages, ListedJobs
<1>2. ASSUME NEW s \in Site, WorkerStep(s) \/ AdapterFails(s) PROVE Goal
  <2>1. held' = held /\ closed' = closed
        /\ \A u \in Site \ {s} : todo'[u] = todo[u] /\ out'[u] = out[u]
    BY <1>2, WorkerStepFrame DEF consumerVars
  <2>2. ASSUME NEW u \in Site PROVE FromPages(u)'
    BY <1>00, <1>2, <2>1, FromPagesStep DEF FromPages, ListedJobs
  <2>3. CASE PutSucceeds(s)
    <3>1. out[s] \in Entries /\ out[s].site = s /\ queue' = Append(queue, out[s])
      BY <2>3 DEF PutSucceeds, TypeInv, OutInv, WorkerTypeOK, WorkerInv, OutSound, Entries
    <3>2. Waiting' = Waiting \cup {out[s]}
      BY <2>1, <3>1, WaitingPut
    <3>3. \A u \in Site : JobOf(out[s], u) \subseteq ListedJobs[u]
      BY <1>00, <3>1 DEF FromPages, JobOf
    <3> QED
      BY <1>00, <2>1, <2>2, <3>2, <3>3
  <2>4. CASE ~PutSucceeds(s)
    <3>1. Waiting' = Waiting
      BY <1>2, <2>1, <2>4, QuietWorkerStep DEF Waiting
    <3> QED
      BY <1>00, <2>1, <2>2, <3>1
  <2> QED
    BY <2>3, <2>4
<1>3. CASE Get
  <2>1. /\ held = Nothing /\ queue # <<>> /\ queue' = Tail(queue) /\ held' = Head(queue)
        /\ UNCHANGED <<closed, todo, out>>
    BY <1>3 DEF Get, ConsumerInv, cancelVars, workerVars
  <2> QED
    BY <1>1, <2>1, WaitingGet
<1>4. CASE Deliver \/ DropHeld \/ CountWorkerDone
  <2>1. held' = Nothing /\ UNCHANGED <<queue, closed, todo, out>>
    BY <1>4 DEF Deliver, DropHeld, CountWorkerDone, Holds, cancelVars, workerVars
  <2>2. Waiting' \subseteq Waiting \cup {Nothing}
    BY <2>1, WaitingTake
  <2>3. \A u : JobOf(Nothing, u) = {}
    BY NoMessage
  <2> QED
    BY <1>00, <2>1, <2>2, <2>3 DEF FromPages, ListedJobs
<1>5. CASE AckStep \/ AckFails \/ CallNext \/ NextEnds \/ NextSeesClosed \/ NextSeesCancel
           \/ NextRaises \/ NextWaits \/ GetTimesOut \/ DeliverSearchComplete
  <2>1. (~closed' => ~closed) /\ UNCHANGED <<held, queue, todo, out>>
    BY <1>5 DEF AckStep, CallAck, AckSaves, AckFails, CallNext, NextEnds, NextSeesClosed,
                NextSeesCancel, NextRaises, NextWaits, GetTimesOut, DeliverSearchComplete,
                ConsumerGoes, BeginClose, Continues, cancelVars, workerVars
  <2> QED
    BY <1>1, <2>1 DEF Waiting
<1>6. CASE CloserStep \/ CloseCalled
  <2>1. closed' /\ UNCHANGED <<todo, out>>
    BY <1>6 DEF CloserStep, CloseStops, CloseWakes, CloseMakesRoom, CloseCalled, BeginClose,
                ConsumerInv, cancelVars, workerVars
  <2> QED
    BY <1>1, <2>1
<1>7. CASE CallerCancels \/ Stay \/ UNCHANGED vars
  <2>1. UNCHANGED <<closed, held, queue, todo, out>>
    BY <1>7 DEF CallerCancels, Stay, vars, cancelVars, consumerVars, workerVars
  <2> QED
    BY <1>1, <2>1 DEF Waiting
<1>8. CASE Resume
  <2>1. \A u \in Site : todo'[u] = {} /\ out'[u] = Nothing
    BY <1>8 DEF Resume
  <2>2. held' = Nothing /\ queue' = <<>>
    BY <1>8 DEF Resume
  <2>3. Waiting' = {Nothing}
    BY <2>2 DEF Waiting, Earlier
  <2>4. \A u : JobOf(Nothing, u) = {}
    BY NoMessage
  <2> QED
    BY <2>1, <2>3, <2>4 DEF FromPages, ListedJobs
<1> QED
  BY <1>2, <1>3, <1>4, <1>5, <1>6, <1>7, <1>8 DEF Next, NextStep

LEMMA ListedInit == Init => ListedInv
<1> SUFFICES ASSUME Init PROVE ListedInv
  OBVIOUS
<1>1. \A u \in Site : todo[u] = {} /\ out[u] = Nothing
  BY DEF Init
<1>2. Waiting = {Nothing}
  BY DEF Init, Waiting, Earlier
<1>3. \A u : JobOf(Nothing, u) = {}
  BY NoMessage
<1> QED
  BY <1>1, <1>2, <1>3 DEF ListedInv, FromPages

LEMMA ListedInvariant == Spec => []ListedInv
<1>1. DeliveryInv /\ ListedInv /\ [Next]_vars => ListedInv'
  BY ListedStep DEF DeliveryInv
<1> QED
  BY <1>1, ListedInit, DeliveryInvariant, PTL DEF Spec

-------------------------------------------------------------------------------
\* The stream is a JobDelivery.

\* Steps the application does not see.
LEMMA NothingDelivered ==
  ASSUME UNCHANGED <<InHand, outcome, checkpoint>>
  PROVE  UNCHANGED Delivery!vars
BY DEF Delivery!vars

\* Cardinality, as JobDelivery has it.
LEMMA SameCardinality == \A S : Delivery!Cardinality(S) = Cardinality(S)
BY DEF Delivery!Cardinality, Cardinality

LEMMA ReturnsJob ==
  ASSUME DeliveryInv, FreshInv, EndingInv, ListedInv, Deliver, held.type = "JOB"
  PROVE  Delivery!Return(held.site, held.job)
<1> DEFINE s == held.site
           j == held.job
           S == checkpoint.seen[s]
<1>0. TypeInv /\ ConsumerInv
  BY DEF DeliveryInv
<1>1. /\ held \in Messages /\ s \in Site /\ j \in Job /\ held \in Waiting
      /\ ~closed /\ lastAcked /\ ~lastAcked' /\ last' = held
      /\ UNCHANGED <<checkpoint, outcome>>
  BY <1>0, DeliverFacts DEF Messages, Waiting, Earlier
<1>2. InHand = {} /\ InHand' = {<<s, j>>}
  BY <1>1 DEF InHand, Unacked
<1>3. outcome = "none"
  BY <1>0 DEF ConsumerInv, Deliver, Holds
<1>4. ~checkpoint.completed[s]
  BY <1>1 DEF EndingInv, OrderInv, Timely, EndKnown, Of
<1>5. JobOf(held, s) = {j}
  BY DEF JobOf
<1>6. j \in ListedJobs[s]
  BY <1>1, <1>5 DEF ListedInv
<1>7. j \notin Got(s)
  BY <1>1, <1>5 DEF FreshInv, LineInv, Line, Exact, GotKeys
<1>8. Cardinality(S) < ResultsWanted
  <2>1. Got(s) \cup {j} \subseteq seen[s]
    <3>1. Sent(s) = Kept(s)
      BY <1>1 DEF FreshInv, LineInv, SentExact
    <3>2. Got(s) \cup {j} \subseteq Sent(s)
      BY <1>1, <1>5 DEF Sent, Before, GotKeys, Waiting
    <3> QED
      BY <3>1, <3>2 DEF Kept
  <2>2. S \cup {j} \subseteq seen[s] /\ j \notin S
    BY <1>7, <2>1 DEF Got
  <2>3. IsFiniteSet(seen[s])
    BY <1>0, <1>1, SeenFinite DEF TypeInv, OutInv
  <2>4. IsFiniteSet(S) /\ Cardinality(S \cup {j}) = Cardinality(S) + 1
        /\ Cardinality(S \cup {j}) <= Cardinality(seen[s])
    BY <2>2, <2>3, FS_Subset, FS_AddElement
  <2>5. Cardinality(seen[s]) <= ResultsWanted
    BY <1>1 DEF FreshInv, LimitInv
  <2>6. Cardinality(S) \in Nat /\ Cardinality(seen[s]) \in Nat
    BY <2>3, <2>4, FS_CardinalityType
  <2> QED
    BY <2>4, <2>5, <2>6, BoundAssumption
<1>9. j \in ListedJobs[s] \ checkpoint.seen[s]
  BY <1>6, <1>7 DEF Got
<1> QED
  BY <1>1, <1>2, <1>3, <1>4, <1>8, <1>9, SameCardinality DEF Delivery!Return

LEMMA SavesAcknowledgement ==
  ASSUME DeliveryInv, EndingInv, AckSaves
  PROVE  \/ \E s \in Site, j \in Job : Delivery!Acknowledge(s, j)
         \/ \E s \in Site : Delivery!Complete(s)
         \/ UNCHANGED Delivery!vars
<1>0. TypeInv /\ ConsumerInv /\ LastInv /\ LastOpen
  BY DEF DeliveryInv, EndingInv
<1>1. /\ checkpoint' = Acked(last) /\ last # Nothing /\ ~lastAcked /\ lastAcked'
      /\ UNCHANGED <<last, outcome>>
  BY <1>0, AckFacts
<1>2. /\ checkpoint.seen \in [Site -> SUBSET Job] /\ checkpoint.completed \in [Site -> BOOLEAN]
      /\ checkpoint = [cursor |-> checkpoint.cursor, seen |-> checkpoint.seen,
                       completed |-> checkpoint.completed, done |-> checkpoint.done]
      /\ last \in Messages \cup {SearchComplete}
  BY <1>0, <1>1 DEF TypeInv, LastTypeInv, ConsumerTypeOK, DurableTypeOK, Checkpoints
<1>3. InHand' = {}
  BY <1>1 DEF InHand, Unacked
<1>4. CASE last = SearchComplete
  <2>1. InHand = {} /\ checkpoint'.seen = checkpoint.seen
        /\ checkpoint'.completed = checkpoint.completed
    BY <1>1, <1>2, <1>4 DEF InHand, Acked, SearchComplete, Message
  <2> QED
    BY <1>1, <1>3, <2>1 DEF Delivery!vars
<1>5. CASE last \in Messages
  <2> DEFINE s == last.site
  <2>1. /\ s \in Site /\ last.type # "SEARCH_COMPLETE" /\ ~checkpoint.completed[s]
        /\ last.type = "JOB" => last.job \in Job
    BY <1>0, <1>1, <1>5 DEF LastOpen, Messages, AdapterTypes
  <2>2. /\ checkpoint'.seen =
             IF last.type = "JOB" THEN [checkpoint.seen EXCEPT ![s] = @ \cup {last.job}]
             ELSE checkpoint.seen
        /\ checkpoint'.completed = [checkpoint.completed EXCEPT ![s] = last.type = "SITE_COMPLETE"]
    BY <1>1, <1>2, <2>1 DEF Acked
  <2>3. last.type # "SITE_COMPLETE" => checkpoint'.completed = checkpoint.completed
    BY <1>2, <2>1, <2>2
  <2>4. outcome = "none"
    BY <1>0, <1>5, NoMessage DEF ConsumerInv
  <2>5. CASE last.type = "JOB"
    <3>1. InHand = {<<s, last.job>>}
      BY <1>1, <2>5 DEF InHand, Unacked
    <3>2. Delivery!Acknowledge(s, last.job)
      BY <1>1, <1>3, <2>2, <2>3, <2>5, <3>1 DEF Delivery!Acknowledge
    <3> QED
      BY <2>1, <2>5, <3>2
  <2>6. CASE last.type = "SITE_COMPLETE"
    <3>1. InHand = {}
      BY <2>6 DEF InHand
    <3>2. CoversAll(checkpoint.seen[s], s)
      <4>1. Got(s) = checkpoint.seen[s]
        BY <2>6 DEF Got, JobOf
      <4> QED
        BY <1>0, <1>5, <2>6, <4>1 DEF LastInv, Sound
    <3>3. Delivery!Exhausted(s)
      <4>1. Limited(checkpoint.seen[s]) \/ ListedJobs[s] \subseteq checkpoint.seen[s]
        BY <2>1, <3>2 DEF CoversAll, ListedJobs
      <4> QED
        BY <4>1, SameCardinality DEF Delivery!Exhausted, Limited
    <3>4. Delivery!Complete(s)
      BY <1>1, <1>3, <2>2, <2>4, <2>6, <3>1, <3>3 DEF Delivery!Complete
    <3> QED
      BY <2>1, <3>4
  <2>7. CASE last.type \notin {"JOB", "SITE_COMPLETE"}
    BY <1>1, <1>3, <2>2, <2>3, <2>7 DEF Delivery!vars, InHand
  <2> QED
    BY <2>5, <2>6, <2>7
<1> QED
  BY <1>2, <1>4, <1>5

\* A stream and the streams resumed from its checkpoint implement JobDelivery,
\* whatever its workers, retries, cancellation and crashes do: next() returns a
\* listed job that is not acknowledged, to an application that has no other in
\* hand and wants more; ack() commits that job and no key a worker reserved; a
\* site is marked complete when it is exhausted; and the SearchCompleteEvent is
\* the last event and tells whether all sites are (__next__() and ack() in
\* runtime.py).
THEOREM ImplementsDeliveryAlways == Spec => ImplementsDelivery
<1>1. Init => Delivery!Init
  BY DEF Init, NewCheckpoint, Delivery!Init, InHand, Unacked
<1>2. DeliveryInv /\ FreshInv /\ EndingInv /\ ListedInv /\ [Next]_vars
        => [Delivery!Next]_(Delivery!vars)
  <2> SUFFICES ASSUME DeliveryInv, FreshInv, EndingInv, ListedInv, [Next]_vars
               PROVE  Delivery!Next \/ UNCHANGED Delivery!vars
    OBVIOUS
  <2>0. TypeInv /\ ConsumerInv
    BY DEF DeliveryInv
  <2>1. CASE Deliver
    <3>1. CASE held.type = "JOB"
      <4>1. held.site \in Site /\ held.job \in Job
        BY <2>0, <2>1, <3>1, DeliverFacts DEF Messages
      <4> QED
        BY <2>1, <3>1, <4>1, ReturnsJob DEF Delivery!Next
    <3>2. CASE held.type # "JOB"
      <4>1. InHand = {} /\ InHand' = {} /\ UNCHANGED <<checkpoint, outcome>>
        BY <2>0, <2>1, <3>2, DeliverFacts DEF InHand, Unacked
      <4> QED
        BY <4>1, NothingDelivered
    <3> QED
      BY <3>1, <3>2
  <2>2. CASE AckSaves
    BY <2>2, SavesAcknowledgement DEF Delivery!Next
  <2>3. CASE DeliverSearchComplete
    <3>1. InHand = {} /\ InHand' = {}
      BY <2>0, <2>3, TerminalFacts DEF InHand, Unacked, SearchComplete, Message
    <3>2. Delivery!Finish
      BY <2>0, <2>3, <3>1, TerminalFacts DEF Delivery!Finish, CompletedOutcome
    <3> QED
      BY <3>2 DEF Delivery!Next
  <2>4. CASE Resume
    <3>1. Delivery!Restart
      BY <2>0, <2>4, ResumeFacts DEF Delivery!Restart, InHand, Unacked
    <3> QED
      BY <3>1 DEF Delivery!Next
  <2>5. CASE Unseen
    <3>1. InHand' = InHand /\ UNCHANGED <<checkpoint, outcome>>
      BY <2>5 DEF Unseen, InHand, Unacked
    <3> QED
      BY <3>1, NothingDelivered
  <2> QED
    BY <2>0, <2>1, <2>2, <2>3, <2>4, <2>5, StepKinds
<1> QED
  BY <1>1, <1>2, DeliveryInvariant, FreshInvariant, EndingInvariant, ListedInvariant, PTL
     DEF Spec, ImplementsDelivery, Delivery!Spec
===============================================================================

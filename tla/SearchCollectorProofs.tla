------------------------- MODULE SearchCollectorProofs -------------------------
(***************************************************************************)
(* The outcome of collect_jobs, proved for any sites, listings and bounds: *)
(* a search that comes to its end is not refused, and its outcome is what  *)
(* was acknowledged since its stream began.                                *)
(*                                                                         *)
(* What the collector has accepted of a site is what the application has   *)
(* of it: the keys of the checkpoint with the one of the last event, less  *)
(* those the stream began with.  Both move when next() returns an event,   *)
(* and an acknowledgement moves neither.                                   *)
(***************************************************************************)
EXTENDS SearchCollector, SearchStreamProofs

collectedVars == <<vars, collectorVars>>

-------------------------------------------------------------------------------
\* What the collector does follows from what the stream does.
LEMMA CollectKinds ==
  ASSUME TypeInv, ConsumerInv, [Next]_vars, Collect \/ UNCHANGED collectedVars
  PROVE  /\ Resume => CollectAnew
         /\ Deliver => AcceptOfSite
         /\ DeliverSearchComplete => AcceptTerminal
         /\ AckSaves \/ Unseen => UNCHANGED collectorVars
         /\ AcceptTerminal => DeliverSearchComplete
<1>0. Collect \/ (Unseen /\ UNCHANGED collectorVars)
  BY DEF collectedVars, vars, consumerVars, durableVars, Unseen
<1>00. Returned => ~Unseen
  <2>1. Unseen => lastAcked' = lastAcked
    BY DEF Unseen
  <2> QED
    BY <2>1 DEF Returned
<1>1. Resume => CollectAnew
  BY <1>0, ResumeFacts DEF Collect, AcceptOfSite, AcceptTerminal, NothingReturned, Returned, Unseen
<1>2. Deliver => AcceptOfSite
  <2>1. Deliver => Returned /\ restarts' = restarts /\ last'.type # "SEARCH_COMPLETE"
    BY DeliverFacts DEF Returned, AdapterTypes
  <2>2. Returned => ~Unseen
    BY <1>00
  <2> QED
    BY <1>0, <2>1, <2>2 DEF Collect, CollectAnew, AcceptTerminal, NothingReturned
<1>3. DeliverSearchComplete => AcceptTerminal
  <2>1. DeliverSearchComplete
          => Returned /\ restarts' = restarts /\ last'.type = "SEARCH_COMPLETE"
    BY TerminalFacts DEF Returned, SearchComplete, Message
  <2>2. Returned => ~Unseen
    BY <1>00
  <2> QED
    BY <1>0, <2>1, <2>2 DEF Collect, CollectAnew, AcceptOfSite, NothingReturned
<1>4. AckSaves \/ Unseen => UNCHANGED collectorVars
  <2>1. AckSaves \/ Unseen => ~Returned /\ restarts' = restarts
    BY AckFacts DEF Returned, Unseen
  <2> QED
    BY <1>0, <2>1 DEF Collect, CollectAnew, AcceptOfSite, AcceptTerminal, NothingReturned
<1>5. AcceptTerminal => DeliverSearchComplete
  <2>1. SUFFICES ASSUME AcceptTerminal, Deliver PROVE FALSE
    BY StepKinds, ResumeFacts, AckFacts DEF AcceptTerminal, Returned, Unseen
  <2> QED
    BY <2>1, DeliverFacts DEF AcceptTerminal, AdapterTypes
<1> QED
  BY <1>1, <1>2, <1>3, <1>4, <1>5

-------------------------------------------------------------------------------
\* The invariant.

Accounts == [jobs : Seq(Job), failures : Nat, completed : BOOLEAN]

CollectorTypeInv ==
  /\ accepted \in [Site -> Accounts]
  /\ terminal \in BOOLEAN /\ totalJobs \in Nat
  /\ acknowledged \in [Site -> SUBSET Job]

\* The terminal event is accepted when it is returned.
TerminalInv ==
  /\ terminal <=> outcome # "none"
  /\ terminal => (outcome = "complete" <=> \A s \in Site : checkpoint.completed[s])

\* The jobs of a site are those the application got since the stream began.
JobsInv == \A s \in Site :
  /\ IsInjective(accepted[s].jobs)
  /\ ToSet(accepted[s].jobs) = Got(s) \ acknowledged[s]
  /\ acknowledged[s] \subseteq checkpoint.seen[s]

\* The totals of the stream are those of the collector.
TotalsInv == TotalsAgree /\ IsFiniteSet(AllJobs) /\ IsFiniteSet(AllFailures)

\* The collector takes a site for completed when the application knows it is.
AccountsInv == \A s \in Site : accepted[s].completed <=> EndKnown(s)

Failed == {s \in Site : accepted[s].failures > 0}

\* A site of F has failed: its worker only says that it is done.
FailedInv(F) == \A s \in F :
  /\ ~EndKnown(s)
  /\ ~closed => Over(s) /\ \A m \in Waiting : Of(m, s) => m.type = "WORKER_DONE"

CollectorInv ==
  /\ CollectorTypeInv /\ TerminalInv /\ JobsInv /\ TotalsInv /\ AccountsInv /\ CompletedInv
  /\ FailedInv(Failed)

-------------------------------------------------------------------------------
\* The last words of a site that failed.

LEMMA WordsKept ==
  ASSUME TypeInv, ConsumerInv, WorkerInv, EndInv, [Next]_vars, ~Resume, ~closed'
  PROVE  /\ ~closed
         /\ \A u \in Site : Over(u) =>
              /\ Over(u)'
              /\ \A m \in Waiting' : Of(m, u) => m \in Waiting \/ m.type = "WORKER_DONE"
<1> DEFINE Goal == /\ ~closed
                   /\ \A u \in Site : Over(u) =>
                        /\ Over(u)'
                        /\ \A m \in Waiting' : Of(m, u) => m \in Waiting \/ m.type = "WORKER_DONE"
<1>1. ASSUME ~closed, UNCHANGED <<worker, out>>,
             \A u \in Site : \A m \in Waiting' : Of(m, u) => m \in Waiting
      PROVE  Goal
  BY <1>1 DEF Over
<1>2. ASSUME NEW s \in Site, WorkerStep(s) \/ AdapterFails(s) PROVE Goal
  <2>1. ~closed /\ held' = held
    BY <1>2, WorkerStepFrame DEF consumerVars
  <2>2. CASE PutSucceeds(s)
    <3>1. /\ out[s] \in Entries /\ out[s].site = s /\ out[s] \in Messages /\ out[s].type # "NOTHING"
          /\ queue' = Append(queue, out[s]) /\ worker' = worker /\ out'[s] = Nothing
          /\ \A u \in Site \ {s} : out'[u] = out[u]
      BY <2>2 DEF PutSucceeds, TypeInv, OutInv, WorkerTypeOK, WorkerInv, OutSound, Entries,
                  Messages, AdapterTypes
    <3>2. Waiting' = Waiting \cup {out[s]} /\ \A u \in Site : Of(out[s], u) => u = s
      BY <2>1, <3>1, WaitingPut DEF Of
    <3>3. Nothing.type = "NOTHING"
      BY DEF Nothing, Message
    <3> QED
      BY <2>1, <3>1, <3>2, <3>3 DEF Over
  <2>3. CASE ~PutSucceeds(s)
    <3>1. queue' = queue /\ \A u \in Site : EndKept(u)
      BY <1>2, <2>3, QuietWorkerStep, QuietEnd
    <3>2. Waiting' = Waiting
      BY <2>1, <3>1 DEF Waiting
    <3> QED
      BY <2>1, <3>1, <3>2 DEF EndKept
  <2> QED
    BY <2>2, <2>3
<1>3. CASE Get
  <2>1. /\ held = Nothing /\ queue # <<>> /\ queue' = Tail(queue) /\ held' = Head(queue)
        /\ ~closed /\ UNCHANGED <<worker, out>>
    BY <1>3 DEF Get, ConsumerInv, cancelVars, workerVars
  <2> QED
    BY <1>1, <2>1, WaitingGet
<1>4. CASE Deliver \/ DropHeld \/ CountWorkerDone
  <2>1. ~closed /\ held' = Nothing /\ UNCHANGED <<queue, worker, out>>
    BY <1>4 DEF Deliver, DropHeld, CountWorkerDone, Holds, cancelVars, workerVars
  <2> QED
    BY <1>1, <2>1, WaitingTake, WaitingType
<1>5. CASE AckStep \/ AckFails \/ CallNext \/ NextEnds \/ NextSeesClosed \/ NextSeesCancel
           \/ NextRaises \/ NextWaits \/ GetTimesOut \/ DeliverSearchComplete
  <2>1. ~closed /\ UNCHANGED <<held, queue, worker, out>>
    BY <1>5 DEF AckStep, CallAck, AckSaves, AckFails, CallNext, NextEnds, NextSeesClosed,
                NextSeesCancel, NextRaises, NextWaits, GetTimesOut, DeliverSearchComplete,
                ConsumerGoes, BeginClose, Continues, cancelVars, workerVars
  <2> QED
    BY <1>1, <2>1 DEF Waiting
<1>6. CASE CloserStep \/ CloseCalled
  BY <1>6 DEF CloserStep, CloseStops, CloseWakes, CloseMakesRoom, CloseCalled, BeginClose,
              ConsumerInv, cancelVars
<1>7. CASE CallerCancels \/ Stay \/ UNCHANGED vars
  <2>1. ~closed /\ UNCHANGED <<held, queue, worker, out>>
    BY <1>7 DEF CallerCancels, Stay, vars, cancelVars, consumerVars, workerVars
  <2> QED
    BY <1>1, <2>1 DEF Waiting
<1> QED
  BY <1>2, <1>3, <1>4, <1>5, <1>6, <1>7 DEF Next, NextStep

\* F are the sites known to have failed before the step, G those after it.
LEMMA FailedStep ==
  ASSUME NEW F \in SUBSET Site, NEW G \in SUBSET Site, Resume => G = {},
         G \subseteq F \/ (Deliver /\ held.type = "ERROR" /\ G \subseteq F \cup {held.site}),
         TypeInv, ConsumerInv, WorkerInv, EndInv, OrderInv, FailedInv(F), [Next]_vars
  PROVE  FailedInv(G)'
<1>0. CASE Resume
  BY <1>0 DEF FailedInv
<1> SUFFICES ASSUME ~Resume, NEW s \in G
             PROVE  /\ ~EndKnown(s)'
                    /\ ~closed' => /\ Over(s)'
                                   /\ \A m \in Waiting' : Of(m, s) => m.type = "WORKER_DONE"
  BY <1>0 DEF FailedInv
<1>1. CASE s \in F
  <2>1. /\ ~EndKnown(s)
        /\ ~closed => Over(s) /\ \A m \in Waiting : Of(m, s) => m.type = "WORKER_DONE"
    BY <1>1 DEF FailedInv
  <2>2. ~EndKnown(s)'
    <3>1. CASE Deliver
      <4>1. held \in Waiting /\ ~closed /\ last' = held /\ checkpoint' = checkpoint
        BY <3>1, DeliverFacts DEF Waiting, Earlier
      <4> QED
        BY <2>1, <4>1 DEF EndKnown
    <3>2. CASE DeliverSearchComplete
      BY <2>1, <3>2, TerminalFacts, WaitingType DEF EndKnown
    <3>3. CASE AckSaves
      BY <2>1, <3>3, AckFacts, AckedSeen DEF EndKnown, Of
    <3>4. CASE Unseen
      BY <2>1, <3>4 DEF EndKnown, Unseen
    <3> QED
      BY <3>1, <3>2, <3>3, <3>4, StepKinds
  <2> QED
    BY <2>1, <2>2, WordsKept
<1>2. CASE s \notin F
  <2>1. /\ held \in Messages /\ held.site = s /\ held.type = "ERROR" /\ held \in Waiting
        /\ ~closed /\ last' = held /\ held' = Nothing /\ Of(held, s)
        /\ UNCHANGED <<checkpoint, queue, worker, out>>
    BY <1>2, DeliverFacts DEF Waiting, Earlier, Of
  <2>2. ~EndKnown(s) /\ Over(s)
    BY <2>1 DEF OrderInv, Timely, Verdicts
  <2>3. ASSUME NEW m \in Waiting', Of(m, s) PROVE m.type = "WORKER_DONE"
    <3>1. PICK k \in 1..Len(queue) : m = queue[k]
      BY <2>1, <2>3, WaitingType DEF Waiting, Earlier
    <3> QED
      BY <2>1, <2>3, <3>1 DEF OrderInv, Ordered, Follows, Verdicts
  <2> QED
    BY <2>1, <2>2, <2>3 DEF EndKnown, Over
<1> QED
  BY <1>1, <1>2

-------------------------------------------------------------------------------
\* The accounts.

\* A job that is new to a list of jobs.
LEMMA AppendNew ==
  ASSUME NEW q \in Seq(Job), NEW j \in Job
  PROVE  /\ Append(q, j) \in Seq(Job) /\ ToSet(Append(q, j)) = ToSet(q) \cup {j}
         /\ DOMAIN q = 1..Len(q) /\ Len(q) \in Nat
         /\ DOMAIN Append(q, j) = DOMAIN q \cup {Len(q) + 1} /\ Len(q) + 1 \notin DOMAIN q
         /\ IsInjective(q) /\ j \notin ToSet(q) => IsInjective(Append(q, j))
<1> DEFINE r == Append(q, j)
<1>1. /\ r \in Seq(Job) /\ Len(q) \in Nat /\ DOMAIN q = 1..Len(q) /\ DOMAIN r = 1..(Len(q) + 1)
      /\ r[Len(q) + 1] = j /\ \A i \in 1..Len(q) : r[i] = q[i]
  OBVIOUS
<1> HIDE DEF r
<1>2. 1..(Len(q) + 1) = 1..Len(q) \cup {Len(q) + 1} /\ Len(q) + 1 \notin 1..Len(q)
  BY <1>1
<1>3. ToSet(r) = ToSet(q) \cup {j}
  BY <1>1, <1>2 DEF ToSet
<1>4. ASSUME IsInjective(q), j \notin ToSet(q) PROVE IsInjective(r)
  BY <1>1, <1>2, <1>4 DEF IsInjective, ToSet
<1> QED
  BY <1>1, <1>2, <1>3, <1>4 DEF r

\* An account after an event of its site.
LEMMA AfterFacts ==
  ASSUME NEW a \in Accounts, NEW m, m.type \in AdapterTypes, m.type = "JOB" => m.job \in Job
  PROVE  LET e == After(a, m) IN
         /\ e \in Accounts
         /\ e.jobs = IF m.type = "JOB" THEN Append(a.jobs, m.job) ELSE a.jobs
         /\ e.failures = a.failures + (IF m.type = "ERROR" THEN 1 ELSE 0)
         /\ e.completed = IF m.type = "ERROR" THEN FALSE
                          ELSE IF m.type = "SITE_COMPLETE" THEN TRUE ELSE a.completed
<1>1. /\ a = [jobs |-> a.jobs, failures |-> a.failures, completed |-> a.completed]
      /\ a.jobs \in Seq(Job) /\ a.failures \in Nat /\ a.completed \in BOOLEAN
  BY DEF Accounts
<1>2. CASE m.type = "JOB"
  <2>1. After(a, m) = [a EXCEPT !.jobs = Append(@, m.job)]
    BY <1>2 DEF After
  <2>2. Append(a.jobs, m.job) \in Seq(Job)
    BY <1>1, <1>2, AppendNew
  <2>3. After(a, m) = [jobs |-> Append(a.jobs, m.job), failures |-> a.failures,
                       completed |-> a.completed]
    BY <1>1, <2>1
  <2> QED
    BY <1>1, <1>2, <2>2, <2>3 DEF Accounts
<1>3. CASE m.type = "ERROR"
  <2>1. After(a, m) = [a EXCEPT !.completed = FALSE, !.failures = @ + 1]
    BY <1>3 DEF After
  <2>2. After(a, m) = [jobs |-> a.jobs, failures |-> a.failures + 1, completed |-> FALSE]
    BY <1>1, <2>1
  <2> QED
    BY <1>1, <1>3, <2>2 DEF Accounts
<1>4. CASE m.type = "SITE_COMPLETE"
  <2>1. After(a, m) = [a EXCEPT !.completed = TRUE]
    BY <1>4 DEF After
  <2>2. After(a, m) = [jobs |-> a.jobs, failures |-> a.failures, completed |-> TRUE]
    BY <1>1, <2>1
  <2> QED
    BY <1>1, <1>4, <2>2 DEF Accounts
<1>5. CASE m.type \notin {"JOB", "ERROR", "SITE_COMPLETE"}
  <2>1. After(a, m) = a
    BY <1>5 DEF After
  <2>2. a.failures + (IF m.type = "ERROR" THEN 1 ELSE 0) = a.failures
    BY <1>1, <1>5
  <2> QED
    BY <1>5, <2>1, <2>2
<1> QED
  BY <1>2, <1>3, <1>4, <1>5

\* What accepting the event that next() returns leaves in the account of its
\* site.
LEMMA AcceptFacts ==
  ASSUME TypeInv, ConsumerInv, CollectorTypeInv, Deliver, AcceptOfSite
  PROVE  LET s == held.site IN
         /\ accepted' \in [Site -> Accounts]
         /\ accepted'[s].jobs = IF held.type = "JOB" THEN Append(accepted[s].jobs, held.job)
                                                     ELSE accepted[s].jobs
         /\ accepted'[s].failures = accepted[s].failures + (IF held.type = "ERROR" THEN 1 ELSE 0)
         /\ accepted'[s].completed = IF held.type = "ERROR" THEN FALSE
                                     ELSE IF held.type = "SITE_COMPLETE" THEN TRUE
                                     ELSE accepted[s].completed
         /\ \A u \in Site \ {s} : accepted'[u] = accepted[u]
         /\ totalJobs' = totalJobs + (IF held.type = "JOB" THEN 1 ELSE 0)
         /\ UNCHANGED <<terminal, acknowledged>>
<1> DEFINE s == held.site
<1>1. /\ held \in Messages /\ held.type \in AdapterTypes /\ s \in Site /\ last' = held
      /\ held.type = "JOB" => held.job \in Job
  BY DeliverFacts DEF Messages
<1>2. /\ accepted' = [accepted EXCEPT ![s] = After(accepted[s], held)]
      /\ totalJobs' = totalJobs + (IF held.type = "JOB" THEN 1 ELSE 0)
      /\ UNCHANGED <<terminal, acknowledged>>
  BY <1>1 DEF AcceptOfSite
<1>3. accepted \in [Site -> Accounts] /\ accepted[s] \in Accounts
  BY <1>1 DEF CollectorTypeInv
<1> DEFINE e == After(accepted[s], held)
<1>4. /\ e \in Accounts
      /\ e.jobs = IF held.type = "JOB" THEN Append(accepted[s].jobs, held.job)
                                       ELSE accepted[s].jobs
      /\ e.failures = accepted[s].failures + (IF held.type = "ERROR" THEN 1 ELSE 0)
      /\ e.completed = IF held.type = "ERROR" THEN FALSE
                       ELSE IF held.type = "SITE_COMPLETE" THEN TRUE
                       ELSE accepted[s].completed
  BY <1>1, <1>3, AfterFacts
<1> HIDE DEF e
<1>5. /\ accepted' \in [Site -> Accounts] /\ accepted'[s] = e
      /\ \A u \in Site \ {s} : accepted'[u] = accepted[u]
  BY <1>1, <1>2, <1>3, <1>4 DEF e
<1> QED
  BY <1>2, <1>4, <1>5

CollectedStep == [Next]_vars /\ (Collect \/ UNCHANGED collectedVars)

\* A new stream begins with what the checkpoint has.
LEMMA AnewFacts ==
  ASSUME TypeInv, CollectAnew, Resume
  PROVE  /\ accepted' \in [Site -> Accounts] /\ terminal' = FALSE /\ totalJobs' = 0
         /\ acknowledged' = checkpoint.seen /\ acknowledged' \in [Site -> SUBSET Job]
         /\ checkpoint' = checkpoint
         /\ \A s \in Site : /\ accepted'[s].jobs = <<>> /\ accepted'[s].failures = 0
                            /\ accepted'[s].completed = checkpoint.completed[s]
<1>1. checkpoint' = checkpoint /\ checkpoint \in Checkpoints
  BY ResumeFacts DEF TypeInv, DurableTypeOK
<1>2. /\ accepted' = [s \in Site |-> Account(checkpoint.completed[s])]
      /\ terminal' = FALSE /\ totalJobs' = 0 /\ acknowledged' = checkpoint.seen
  BY DEF CollectAnew, InitiallyCompleted
<1>3. \A s \in Site : Account(checkpoint.completed[s]) \in Accounts
  BY <1>1 DEF Account, Accounts, Checkpoints
<1> QED
  BY <1>1, <1>2, <1>3 DEF Account, Checkpoints

LEMMA CollectorTypeStep ==
  TypeInv /\ ConsumerInv /\ CollectorTypeInv /\ CollectedStep => CollectorTypeInv'
<1> SUFFICES ASSUME TypeInv, ConsumerInv, CollectorTypeInv, CollectedStep
             PROVE  CollectorTypeInv'
  OBVIOUS
<1>1. CASE Resume
  <2>1. CollectAnew
    BY <1>1, CollectKinds DEF CollectedStep
  <2>2. /\ accepted' \in [Site -> Accounts] /\ terminal' = FALSE /\ totalJobs' = 0
        /\ acknowledged' \in [Site -> SUBSET Job]
    BY <1>1, <2>1, AnewFacts
  <2> QED
    BY <2>2 DEF CollectorTypeInv
<1>2. CASE Deliver
  <2>1. AcceptOfSite
    BY <1>2, CollectKinds DEF CollectedStep
  <2>2. /\ accepted' \in [Site -> Accounts]
        /\ totalJobs' = totalJobs + (IF held.type = "JOB" THEN 1 ELSE 0)
        /\ terminal' = terminal /\ acknowledged' = acknowledged
    BY <1>2, <2>1, AcceptFacts
  <2>3. terminal \in BOOLEAN /\ totalJobs \in Nat /\ acknowledged \in [Site -> SUBSET Job]
    BY DEF CollectorTypeInv
  <2>4. totalJobs' \in Nat
    BY <2>2, <2>3
  <2> QED
    BY <2>2, <2>3, <2>4 DEF CollectorTypeInv
<1>3. CASE DeliverSearchComplete
  BY <1>3, CollectKinds DEF CollectedStep, AcceptTerminal, CollectorTypeInv
<1>4. CASE AckSaves \/ Unseen
  BY <1>4, CollectKinds DEF CollectedStep, collectorVars, CollectorTypeInv
<1> QED
  BY <1>1, <1>2, <1>3, <1>4, StepKinds DEF CollectedStep

LEMMA TerminalStep ==
  TypeInv /\ ConsumerInv /\ CollectorTypeInv /\ TerminalInv /\ CollectedStep => TerminalInv'
<1> SUFFICES ASSUME TypeInv, ConsumerInv, CollectorTypeInv, TerminalInv, CollectedStep
             PROVE  TerminalInv'
  OBVIOUS
<1>1. CASE Resume
  BY <1>1, CollectKinds, AnewFacts, ResumeFacts DEF CollectedStep, TerminalInv
<1>2. CASE Deliver
  <2>1. terminal' = terminal /\ outcome' = outcome /\ checkpoint' = checkpoint
    BY <1>2, CollectKinds, DeliverFacts DEF CollectedStep, AcceptOfSite
  <2> QED
    BY <2>1 DEF TerminalInv
<1>3. CASE DeliverSearchComplete
  <2>1. terminal' = TRUE
    BY <1>3, CollectKinds DEF CollectedStep, AcceptTerminal
  <2> QED
    BY <1>3, <2>1, TerminalFacts DEF TerminalInv, CompletedOutcome
<1>4. CASE AckSaves
  <2>1. terminal' = terminal /\ outcome' = outcome
    BY <1>4, CollectKinds, AckFacts DEF CollectedStep, collectorVars
  <2>2. terminal => last = SearchComplete
    BY DEF TerminalInv, ConsumerInv
  <2>3. terminal => \A s \in Site : checkpoint'.completed[s] = checkpoint.completed[s]
    BY <1>4, <2>2, AckFacts, AckedSeen, NoMessage
  <2> QED
    BY <2>1, <2>3 DEF TerminalInv
<1>5. CASE Unseen
  BY <1>5, CollectKinds DEF CollectedStep, collectorVars, Unseen, TerminalInv
<1> QED
  BY <1>1, <1>2, <1>3, <1>4, <1>5, StepKinds DEF CollectedStep

LEMMA JobsStep ==
  /\ TypeInv /\ ConsumerInv /\ LastInv /\ LineInv
  /\ CollectorTypeInv /\ JobsInv /\ CollectedStep
  => JobsInv'
<1> SUFFICES ASSUME TypeInv, ConsumerInv, LastInv, LineInv, CollectorTypeInv, JobsInv, CollectedStep
             PROVE  JobsInv'
  OBVIOUS
<1>1. CASE Resume
  <2>1. ToSet(<<>>) = {} /\ IsInjective(<<>>)
    BY DEF ToSet, IsInjective
  <2>2. \A s \in Site : Got(s)' = checkpoint.seen[s]
    BY <1>1, ResumeFacts, NoMessage DEF Got
  <2> QED
    BY <1>1, <2>1, <2>2, CollectKinds, AnewFacts DEF CollectedStep, JobsInv
<1>2. CASE Deliver
  <2>1. AcceptOfSite
    BY <1>2, CollectKinds DEF CollectedStep
  <2> PICK s \in Site : s = held.site
    BY <1>2, DeliverFacts
  <2>2. /\ held \in Messages /\ s \in Site /\ ~closed /\ checkpoint' = checkpoint
        /\ held.type = "JOB" => held.job \in Job
    BY <1>2, DeliverFacts DEF Messages
  <2>3. \A u \in Site : Got(u)' = Got(u) \cup JobOf(held, u)
    BY <1>2, <2>2, GotStep DEF GotKeys
  <2>4. JobOf(held, s) \cap Got(s) = {}
    BY <2>2 DEF LineInv, Line, Exact, GotKeys
  <2>5. acknowledged' = acknowledged
    BY <2>1 DEF AcceptOfSite
  <2>6. ASSUME NEW u \in Site, accepted'[u].jobs = accepted[u].jobs, JobOf(held, u) = {}
        PROVE  /\ IsInjective(accepted'[u].jobs)
               /\ ToSet(accepted'[u].jobs) = Got(u)' \ acknowledged'[u]
               /\ acknowledged'[u] \subseteq checkpoint'.seen[u]
    BY <2>2, <2>3, <2>5, <2>6 DEF JobsInv
  <2>7. CASE held.type = "JOB"
    <3>1. /\ accepted[s].jobs \in Seq(Job)
          /\ accepted'[s].jobs = Append(accepted[s].jobs, held.job)
          /\ \A u \in Site \ {s} : accepted'[u] = accepted[u] /\ JobOf(held, u) = {}
          /\ JobOf(held, s) = {held.job}
      BY <1>2, <2>1, <2>2, <2>7, AcceptFacts DEF CollectorTypeInv, Accounts, JobOf
    <3>2. held.job \notin Got(s) /\ held.job \notin acknowledged[s]
      BY <2>2, <2>4, <3>1 DEF JobsInv, Got
    <3>3. ToSet(accepted'[s].jobs) = ToSet(accepted[s].jobs) \cup {held.job}
          /\ IsInjective(accepted'[s].jobs)
      BY <2>2, <2>7, <3>1, <3>2, AppendNew DEF JobsInv
    <3>5. Got(s)' = Got(s) \cup {held.job}
      BY <2>2, <2>3, <3>1
    <3>6. ToSet(accepted[s].jobs) = Got(s) \ acknowledged[s]
          /\ acknowledged[s] \subseteq checkpoint.seen[s]
      BY <2>2 DEF JobsInv
    <3>4. /\ ToSet(accepted'[s].jobs) = Got(s)' \ acknowledged'[s]
          /\ acknowledged'[s] \subseteq checkpoint'.seen[s]
      <4>1. (Got(s) \cup {held.job}) \ acknowledged[s] = (Got(s) \ acknowledged[s]) \cup {held.job}
        BY <3>2
      <4> QED
        BY <2>2, <2>5, <3>3, <3>5, <3>6, <4>1
    <3>7. ASSUME NEW u \in Site
          PROVE  /\ IsInjective(accepted'[u].jobs)
                 /\ ToSet(accepted'[u].jobs) = Got(u)' \ acknowledged'[u]
                 /\ acknowledged'[u] \subseteq checkpoint'.seen[u]
      <4>1. CASE u = s
        BY <3>3, <3>4, <4>1
      <4>2. CASE u # s
        <5>1. accepted'[u].jobs = accepted[u].jobs /\ JobOf(held, u) = {}
          BY <3>1, <4>2
        <5> QED
          BY <2>6, <5>1
      <4> QED
        BY <4>1, <4>2
    <3> QED
      BY <3>7 DEF JobsInv
  <2>8. CASE held.type # "JOB"
    <3>1. \A u \in Site : accepted'[u].jobs = accepted[u].jobs /\ JobOf(held, u) = {}
      BY <1>2, <2>1, <2>2, <2>8, AcceptFacts DEF JobOf
    <3> QED
      BY <2>6, <3>1 DEF JobsInv
  <2> QED
    BY <2>7, <2>8
<1>3. CASE DeliverSearchComplete
  <2>1. UNCHANGED <<accepted, acknowledged, checkpoint>>
    BY <1>3, CollectKinds, TerminalFacts DEF CollectedStep, AcceptTerminal
  <2>2. \A s \in Site : Got(s)' = Got(s)
    BY <1>3, <2>1, TerminalFacts, NoMessage DEF Got, LastInv
  <2> QED
    BY <2>1, <2>2 DEF JobsInv
<1>4. CASE AckSaves
  <2>1. UNCHANGED <<accepted, acknowledged, last>>
    BY <1>4, CollectKinds, AckFacts DEF CollectedStep, collectorVars
  <2>2. \A s \in Site : checkpoint'.seen[s] = Got(s) /\ Got(s)' = Got(s)
    BY <1>4, <2>1, AckFacts, AckedSeen DEF Got
  <2>3. \A s \in Site : checkpoint.seen[s] \subseteq Got(s)
    BY DEF Got
  <2> QED
    BY <2>1, <2>2, <2>3 DEF JobsInv
<1>5. CASE Unseen
  <2>1. UNCHANGED <<accepted, acknowledged, last, checkpoint>>
    BY <1>5, CollectKinds DEF CollectedStep, collectorVars, Unseen
  <2> QED
    BY <2>1 DEF JobsInv, Got
<1> QED
  BY <1>1, <1>2, <1>3, <1>4, <1>5, StepKinds DEF CollectedStep

\* The jobs and the failures of all accounts, when one account has one more.
LEMMA OneMoreJob ==
  ASSUME CollectorTypeInv, NEW s \in Site, NEW j \in Job,
         accepted'[s].jobs = Append(accepted[s].jobs, j),
         \A u \in Site \ {s} : accepted'[u].jobs = accepted[u].jobs
  PROVE  \E x : x \notin AllJobs /\ AllJobs' = AllJobs \cup {x}
<1> DEFINE n == Len(accepted[s].jobs) + 1
<1>1. accepted[s].jobs \in Seq(Job)
  BY DEF CollectorTypeInv, Accounts
<1>2. /\ DOMAIN accepted'[s].jobs = DOMAIN accepted[s].jobs \cup {n}
      /\ n \notin DOMAIN accepted[s].jobs
  BY <1>1, AppendNew
<1> HIDE DEF n
<1>3. <<s, n>> \notin AllJobs
  BY <1>2 DEF AllJobs
<1>4. AllJobs' = AllJobs \cup {<<s, n>>}
  <2>1. \A u \in Site \ {s} : DOMAIN accepted'[u].jobs = DOMAIN accepted[u].jobs
    OBVIOUS
  <2>2. \A u \in Site : {u} \X DOMAIN accepted'[u].jobs =
                        ({u} \X DOMAIN accepted[u].jobs) \cup (IF u = s THEN {<<s, n>>} ELSE {})
    <3> TAKE u \in Site
    <3>1. CASE u = s
      <4>1. {s} \X (DOMAIN accepted[s].jobs \cup {n})
              = ({s} \X DOMAIN accepted[s].jobs) \cup {<<s, n>>}
        OBVIOUS
      <4> QED
        BY <1>2, <3>1, <4>1
    <3>2. CASE u # s
      BY <2>1, <3>2
    <3> QED
      BY <3>1, <3>2
  <2> QED
    BY <2>2 DEF AllJobs
<1> QED
  BY <1>3, <1>4

LEMMA OneMoreFailure ==
  ASSUME CollectorTypeInv, NEW s \in Site,
         accepted'[s].failures = accepted[s].failures + 1,
         \A u \in Site \ {s} : accepted'[u].failures = accepted[u].failures
  PROVE  \E x : x \notin AllFailures /\ AllFailures' = AllFailures \cup {x}
<1> DEFINE n == accepted[s].failures + 1
<1>1. accepted[s].failures \in Nat
  BY DEF CollectorTypeInv, Accounts
<1>2. 1..n = 1..accepted[s].failures \cup {n} /\ n \notin 1..accepted[s].failures
  BY <1>1
<1>5. accepted'[s].failures = n
  OBVIOUS
<1> HIDE DEF n
<1>3. <<s, n>> \notin AllFailures
  BY <1>2 DEF AllFailures
<1>4. AllFailures' = AllFailures \cup {<<s, n>>}
  BY <1>2, <1>5 DEF AllFailures
<1> QED
  BY <1>3, <1>4

LEMMA TotalsStep ==
  TypeInv /\ ConsumerInv /\ CollectorTypeInv /\ TotalsInv /\ CollectedStep => TotalsInv'
<1> SUFFICES ASSUME TypeInv, ConsumerInv, CollectorTypeInv, TotalsInv, CollectedStep
             PROVE  TotalsInv'
  OBVIOUS
<1>1. CASE Resume
  <2>1. CollectAnew
    BY <1>1, CollectKinds DEF CollectedStep
  <2>2. \A s \in Site : accepted'[s].jobs = <<>> /\ accepted'[s].failures = 0
    BY <1>1, <2>1, AnewFacts
  <2>3. AllJobs' = {} /\ AllFailures' = {}
    BY <2>2 DEF AllJobs, AllFailures
  <2>4. totalJobs' = 0 /\ errors' = 0
    BY <1>1, <2>1, AnewFacts, ResumeFacts
  <2> QED
    BY <2>3, <2>4, FS_EmptySet DEF TotalsInv, TotalsAgree
<1>2. CASE Deliver
  <2>1. AcceptOfSite
    BY <1>2, CollectKinds DEF CollectedStep
  <2> PICK s \in Site : s = held.site
    BY <1>2, DeliverFacts
  <2>2. /\ held.type = "JOB" => held.job \in Job
        /\ errors' = errors + (IF held.type = "ERROR" THEN 1 ELSE 0) /\ errors \in Nat
    BY <1>2, DeliverFacts DEF Messages
  <2>3. /\ accepted'[s].jobs = IF held.type = "JOB" THEN Append(accepted[s].jobs, held.job)
                                                    ELSE accepted[s].jobs
        /\ accepted'[s].failures = accepted[s].failures + (IF held.type = "ERROR" THEN 1 ELSE 0)
        /\ \A u \in Site \ {s} : accepted'[u] = accepted[u]
        /\ totalJobs' = totalJobs + (IF held.type = "JOB" THEN 1 ELSE 0)
    BY <1>2, <2>1, AcceptFacts
  <2>4. /\ totalJobs \in Nat /\ accepted[s].failures \in Nat
        /\ totalJobs = Cardinality(AllJobs) /\ IsFiniteSet(AllJobs)
        /\ errors = Cardinality(AllFailures) /\ IsFiniteSet(AllFailures)
    BY DEF CollectorTypeInv, Accounts, TotalsInv, TotalsAgree
  <2>5. totalJobs' = Cardinality(AllJobs') /\ IsFiniteSet(AllJobs')
    <3>1. CASE held.type = "JOB"
      <4>1. PICK x : x \notin AllJobs /\ AllJobs' = AllJobs \cup {x}
        BY <2>2, <2>3, <3>1, OneMoreJob
      <4> QED
        BY <2>3, <2>4, <3>1, <4>1, FS_AddElement
    <3>2. CASE held.type # "JOB"
      <4>1. \A u \in Site : accepted'[u].jobs = accepted[u].jobs
        BY <2>3, <3>2
      <4>2. AllJobs' = AllJobs
        BY <4>1 DEF AllJobs
      <4> QED
        BY <2>3, <2>4, <3>2, <4>2
    <3> QED
      BY <3>1, <3>2
  <2>6. errors' = Cardinality(AllFailures') /\ IsFiniteSet(AllFailures')
    <3>1. CASE held.type = "ERROR"
      <4>1. PICK x : x \notin AllFailures /\ AllFailures' = AllFailures \cup {x}
        BY <2>3, <3>1, OneMoreFailure
      <4> QED
        BY <2>2, <2>4, <3>1, <4>1, FS_AddElement
    <3>2. CASE held.type # "ERROR"
      <4>1. \A u \in Site : accepted'[u].failures = accepted[u].failures
        BY <2>3, <2>4, <3>2
      <4>2. AllFailures' = AllFailures
        BY <4>1 DEF AllFailures
      <4> QED
        BY <2>2, <2>4, <3>2, <4>2
    <3> QED
      BY <3>1, <3>2
  <2> QED
    BY <2>5, <2>6 DEF TotalsInv, TotalsAgree
<1>3. CASE UNCHANGED <<accepted, totalJobs, errors>>
  BY <1>3 DEF TotalsInv, TotalsAgree, AllJobs, AllFailures
<1>4. CASE DeliverSearchComplete
  BY <1>3, <1>4, CollectKinds, TerminalFacts DEF CollectedStep, AcceptTerminal
<1>5. CASE AckSaves \/ Unseen
  BY <1>3, <1>5, CollectKinds, AckFacts DEF CollectedStep, collectorVars, Unseen
<1> QED
  BY <1>1, <1>2, <1>4, <1>5, StepKinds DEF CollectedStep

LEMMA AccountsStep ==
  /\ TypeInv /\ ConsumerInv /\ OrderInv /\ LastOpen
  /\ CompletedInv /\ CollectorTypeInv /\ AccountsInv /\ CollectedStep
  => AccountsInv'
<1> SUFFICES ASSUME TypeInv, ConsumerInv, OrderInv, LastOpen, CompletedInv, CollectorTypeInv,
                    AccountsInv, CollectedStep, NEW u \in Site
             PROVE  (accepted[u].completed <=> EndKnown(u))'
  BY DEF AccountsInv
<1>0. accepted[u].completed <=> EndKnown(u)
  BY DEF AccountsInv
<1>00. lastAcked => (EndKnown(u) <=> checkpoint.completed[u])
  BY DEF EndKnown, CompletedInv
<1>1. CASE Resume
  <2>1. accepted'[u].completed = checkpoint.completed[u] /\ checkpoint' = checkpoint
        /\ last' = Nothing
    BY <1>1, CollectKinds, AnewFacts, ResumeFacts DEF CollectedStep
  <2> QED
    BY <2>1 DEF EndKnown, Nothing, Message
<1>2. CASE Deliver
  <2>1. AcceptOfSite
    BY <1>2, CollectKinds DEF CollectedStep
  <2> PICK s \in Site : s = held.site
    BY <1>2, DeliverFacts
  <2>2. /\ held \in Messages /\ held.type \in AdapterTypes /\ ~closed /\ lastAcked
        /\ last' = held /\ checkpoint' = checkpoint /\ held \in Waiting
    BY <1>2, DeliverFacts DEF Waiting, Earlier
  <2>3. /\ accepted'[s].completed = IF held.type = "ERROR" THEN FALSE
                                    ELSE IF held.type = "SITE_COMPLETE" THEN TRUE
                                    ELSE accepted[s].completed
        /\ \A z \in Site \ {s} : accepted'[z] = accepted[z]
    BY <1>2, <2>1, AcceptFacts
  <2>4. EndKnown(u)'
          <=> checkpoint.completed[u] \/ (u = s /\ held.type = "SITE_COMPLETE")
    BY <2>2 DEF EndKnown, Of
  <2>5. ~checkpoint.completed[s]
    BY <2>2 DEF OrderInv, Timely, EndKnown, Of, AdapterTypes
  <2> QED
    BY <1>0, <1>00, <2>2, <2>3, <2>4, <2>5
<1>3. CASE DeliverSearchComplete
  <2>1. accepted' = accepted /\ lastAcked /\ last' = SearchComplete /\ checkpoint' = checkpoint
    BY <1>3, CollectKinds, TerminalFacts DEF CollectedStep, AcceptTerminal
  <2> QED
    BY <1>0, <1>00, <2>1 DEF EndKnown, SearchComplete, Message
<1>4. CASE AckSaves
  <2>1. /\ accepted' = accepted /\ last' = last /\ ~lastAcked /\ last # Nothing
        /\ checkpoint' = Acked(last)
    BY <1>4, CollectKinds, AckFacts DEF CollectedStep, collectorVars
  <2>2. checkpoint'.completed[u] = IF last \in Messages /\ last.site = u
                                   THEN last.type = "SITE_COMPLETE"
                                   ELSE checkpoint.completed[u]
    BY <2>1, AckedSeen
  <2>3. last \in Messages /\ last.site = u => ~checkpoint.completed[u]
    BY <2>1 DEF LastOpen
  <2> QED
    BY <1>0, <2>1, <2>2, <2>3 DEF EndKnown, Of
<1>5. CASE Unseen
  <2>1. UNCHANGED <<accepted, last, checkpoint>>
    BY <1>5, CollectKinds DEF CollectedStep, collectorVars, Unseen
  <2> QED
    BY <1>0, <2>1 DEF EndKnown
<1> QED
  BY <1>1, <1>2, <1>3, <1>4, <1>5, StepKinds DEF CollectedStep

\* A failure is accepted when its error is delivered, and every account is fresh
\* in a new stream.
LEMMA FailedGrows ==
  ASSUME TypeInv, ConsumerInv, CollectorTypeInv, CollectedStep
  PROVE  /\ Resume => Failed' = {}
         /\ ~Resume /\ ~(Deliver /\ held.type = "ERROR") => Failed' = Failed
         /\ Deliver /\ held.type = "ERROR" => Failed' = Failed \cup {held.site}
<1>1. CASE Resume
  <2>1. \A s \in Site : accepted'[s].failures = 0
    BY <1>1, CollectKinds, AnewFacts DEF CollectedStep
  <2>2. ~Deliver
    BY <1>1, ResumeFacts, DeliverFacts
  <2> QED
    BY <1>1, <2>1, <2>2 DEF Failed
<1>2. CASE Deliver
  <2>1. AcceptOfSite
    BY <1>2, CollectKinds DEF CollectedStep
  <2> PICK s \in Site : s = held.site
    BY <1>2, DeliverFacts
  <2>2. ~Resume
    BY <1>2, ResumeFacts, DeliverFacts
  <2>3. /\ accepted'[s].failures = accepted[s].failures + (IF held.type = "ERROR" THEN 1 ELSE 0)
        /\ \A u \in Site \ {s} : accepted'[u] = accepted[u]
    BY <1>2, <2>1, AcceptFacts
  <2>4. \A u \in Site : accepted[u].failures \in Nat
    BY DEF CollectorTypeInv, Accounts
  <2>5. CASE held.type = "ERROR"
    <3>1. accepted'[s].failures > 0
      BY <2>3, <2>4, <2>5
    <3> QED
      BY <1>2, <2>2, <2>3, <2>5, <3>1 DEF Failed
  <2>6. CASE held.type # "ERROR"
    <3>1. \A u \in Site : accepted'[u].failures = accepted[u].failures
      BY <2>3, <2>4, <2>6
    <3> QED
      BY <2>2, <2>6, <3>1 DEF Failed
  <2> QED
    BY <2>5, <2>6
<1>3. CASE DeliverSearchComplete \/ AckSaves \/ Unseen
  <2>1. accepted' = accepted
    BY <1>3, CollectKinds DEF CollectedStep, AcceptTerminal, collectorVars
  <2>2. ~Resume
    BY <1>3, ResumeFacts, TerminalFacts, AckFacts DEF Unseen
  <2>3. ~Deliver
    BY <1>3, DeliverFacts, TerminalFacts, AckFacts DEF Unseen, AdapterTypes, SearchComplete, Message
  <2> QED
    BY <2>1, <2>2, <2>3 DEF Failed
<1> QED
  BY <1>1, <1>2, <1>3, StepKinds DEF CollectedStep

LEMMA FailedKnownStep ==
  /\ TypeInv /\ ConsumerInv /\ WorkerInv /\ EndInv /\ OrderInv
  /\ CollectorTypeInv /\ FailedInv(Failed) /\ CollectedStep
  => FailedInv(Failed)'
<1> SUFFICES ASSUME TypeInv, ConsumerInv, WorkerInv, EndInv, OrderInv, CollectorTypeInv,
                    FailedInv(Failed), CollectedStep
             PROVE  FailedInv(Failed)'
  OBVIOUS
<1>1. PICK F \in SUBSET Site : F = Failed
  BY DEF Failed
<1>2. PICK G \in SUBSET Site : G = Failed'
  BY DEF Failed
<1>3. FailedInv(F)
  BY <1>1
<1>4. /\ Resume => G = {}
      /\ G \subseteq F \/ (Deliver /\ held.type = "ERROR" /\ G \subseteq F \cup {held.site})
  <2> HIDE DEF Failed
  <2> QED
    BY <1>1, <1>2, FailedGrows
<1>5. FailedInv(G)'
  BY <1>3, <1>4, FailedStep DEF CollectedStep
<1> QED
  BY <1>2, <1>5 DEF FailedInv

\* Without an abrupt failure every site the end of the search leaves open has
\* failed.
VerdictKnown == terminal => \A s \in Site : checkpoint.completed[s] \/ s \in Failed

LEMMA VerdictKnownStep ==
  /\ TypeInv /\ ConsumerInv /\ CountInv /\ CollectorTypeInv /\ TerminalInv /\ CompletedInv
  /\ WhyInv(Failed) /\ VerdictKnown /\ CollectedStep
  => VerdictKnown'
<1> SUFFICES ASSUME TypeInv, ConsumerInv, CountInv, CollectorTypeInv, TerminalInv, CompletedInv,
                    WhyInv(Failed), VerdictKnown, CollectedStep
             PROVE  VerdictKnown'
  OBVIOUS
<1>1. CASE Resume
  BY <1>1, CollectKinds, AnewFacts DEF CollectedStep, VerdictKnown
<1>2. CASE Deliver
  <2>1. terminal' = terminal /\ checkpoint' = checkpoint /\ Failed \subseteq Failed'
    <3>1. ~Resume
      BY <1>2, ResumeFacts, DeliverFacts
    <3>2. terminal' = terminal /\ checkpoint' = checkpoint
      BY <1>2, CollectKinds, DeliverFacts DEF CollectedStep, AcceptOfSite
    <3> QED
      BY <3>1, <3>2, FailedGrows
  <2> QED
    BY <2>1 DEF VerdictKnown
<1>3. CASE DeliverSearchComplete
  <2>1. /\ ~closed /\ ~latched /\ active = 0 /\ lastAcked
        /\ checkpoint' = checkpoint /\ accepted' = accepted
    BY <1>3, TerminalFacts, CollectKinds DEF CollectedStep, AcceptTerminal
  <2>2. Undone = {}
    <3>1. IsFiniteSet(Undone) /\ Cardinality(Undone) = 0
      BY <2>1, SiteAssumption, FS_Subset DEF Undone, CountInv
    <3> QED
      BY <3>1, FS_EmptySet
  <2>3. ASSUME NEW s \in Site PROVE checkpoint.completed[s] \/ s \in Failed
    <3>1. worker[s] = "dead" /\ out[s] = Nothing /\ \A m \in Waiting : ~Of(m, s)
      BY <2>2 DEF Undone, Gone
    <3>2. Explained(s, Failed)
      BY <2>1, <3>1 DEF WhyInv
    <3>3. out[s].type \notin Verdicts
      BY <3>1 DEF Nothing, Message, Verdicts
    <3>4. EndKnown(s) \/ s \in Failed
      BY <3>1, <3>2, <3>3 DEF Explained
    <3> QED
      BY <2>1, <3>4 DEF EndKnown, CompletedInv
  <2>4. Failed' = Failed
    BY <2>1 DEF Failed
  <2> QED
    BY <2>1, <2>3, <2>4 DEF VerdictKnown
<1>4. CASE AckSaves
  <2>1. terminal' = terminal /\ accepted' = accepted
    BY <1>4, CollectKinds DEF CollectedStep, collectorVars
  <2>2. terminal => last = SearchComplete
    BY DEF TerminalInv, ConsumerInv
  <2>3. terminal => \A s \in Site : checkpoint'.completed[s] = checkpoint.completed[s]
    BY <1>4, <2>2, AckFacts, AckedSeen, NoMessage
  <2>4. Failed' = Failed
    BY <2>1 DEF Failed
  <2> QED
    BY <2>1, <2>3, <2>4 DEF VerdictKnown
<1>5. CASE Unseen
  <2>1. UNCHANGED <<terminal, accepted, checkpoint>>
    BY <1>5, CollectKinds DEF CollectedStep, collectorVars, Unseen
  <2> QED
    BY <2>1 DEF VerdictKnown, Failed
<1> QED
  BY <1>1, <1>2, <1>3, <1>4, <1>5, StepKinds DEF CollectedStep

-------------------------------------------------------------------------------
\* The collector of any stream.

LEMMA CollectedIsStep == [CollectedNext]_collectedVars => CollectedStep
BY DEF CollectedNext, CollectedStep, collectedVars

\* The collector only watches: what is proved of the stream holds with it.
LEMMA CollectedIsStream == CollectedSpec => Spec
<1>1. CollectedInit => Init
  BY DEF CollectedInit
<1>2. [CollectedNext]_collectedVars => [Next]_vars
  BY CollectedIsStep DEF CollectedStep
<1> QED
  BY <1>1, <1>2, PTL DEF CollectedSpec, Spec, collectedVars

LEMMA CollectorInitial == CollectedInit => CollectorInv
<1> SUFFICES ASSUME Init, CollectorInit PROVE CollectorInv
  BY DEF CollectedInit
<1>1. /\ \A s \in Site : checkpoint.seen[s] = {} /\ checkpoint.completed[s] = FALSE
      /\ checkpoint.seen = [s \in Site |-> {}]
      /\ checkpoint.completed = [s \in Site |-> FALSE]
      /\ last = Nothing /\ outcome = "none" /\ errors = 0
  BY DEF Init, NewCheckpoint
<1>2. /\ accepted = [s \in Site |-> Account(checkpoint.completed[s])]
      /\ terminal = FALSE /\ totalJobs = 0 /\ acknowledged = checkpoint.seen
  BY DEF CollectorInit, InitiallyCompleted
<1>3. \A s \in Site : accepted[s] = Account(FALSE) /\ acknowledged[s] = {}
  BY <1>1, <1>2
<1>4. Account(FALSE) \in Accounts
      /\ Account(FALSE).jobs = <<>> /\ Account(FALSE).failures = 0
      /\ Account(FALSE).completed = FALSE
  BY DEF Account, Accounts
<1>5. CollectorTypeInv
  BY <1>1, <1>2, <1>3, <1>4 DEF CollectorTypeInv
<1>6. TerminalInv
  BY <1>1, <1>2 DEF TerminalInv
<1>7. JobsInv
  <2>1. ToSet(<<>>) = {} /\ IsInjective(<<>>)
    BY DEF ToSet, IsInjective
  <2>2. \A s \in Site : Got(s) = {}
    BY <1>1, NoMessage DEF Got
  <2> QED
    BY <1>1, <1>3, <1>4, <2>1, <2>2 DEF JobsInv
<1>8. TotalsInv
  <2>1. AllJobs = {} /\ AllFailures = {}
    <3>1. \A s \in Site : accepted[s].jobs = <<>> /\ accepted[s].failures = 0
      BY <1>3, <1>4
    <3> QED
      BY <3>1 DEF AllJobs, AllFailures
  <2> QED
    BY <1>1, <1>2, <2>1, FS_EmptySet DEF TotalsInv, TotalsAgree
<1>9. AccountsInv /\ CompletedInv
  BY <1>1, <1>3, <1>4 DEF AccountsInv, CompletedInv, EndKnown, Nothing, Message
<1>10. FailedInv(Failed)
  <2>1. \A s \in Site : accepted[s].failures = 0
    BY <1>3, <1>4
  <2>2. Failed = {}
    BY <2>1 DEF Failed
  <2> QED
    BY <2>2 DEF FailedInv
<1> QED
  BY <1>5, <1>6, <1>7, <1>8, <1>9, <1>10 DEF CollectorInv

StreamInv == DeliveryInv /\ FreshInv /\ EndingInv

LEMMA CollectorStep == StreamInv /\ CollectorInv /\ CollectedStep => CollectorInv'
<1> SUFFICES ASSUME StreamInv, CollectorInv, CollectedStep PROVE CollectorInv'
  OBVIOUS
<1>1. /\ TypeInv /\ ConsumerInv /\ LastInv /\ WorkerInv /\ LineInv
      /\ EndInv /\ OrderInv /\ LastOpen
  BY DEF StreamInv, DeliveryInv, FreshInv, EndingInv
<1>2. /\ CollectorTypeInv /\ TerminalInv /\ JobsInv /\ TotalsInv /\ AccountsInv
      /\ CompletedInv /\ FailedInv(Failed)
  BY DEF CollectorInv
<1>3. CompletedInv'
  BY <1>1, <1>2, CompletedStep DEF CollectedStep
<1>4. CollectorTypeInv' /\ TerminalInv'
  BY <1>1, <1>2, CollectorTypeStep, TerminalStep
<1>5. JobsInv' /\ TotalsInv'
  BY <1>1, <1>2, JobsStep, TotalsStep
<1>6. AccountsInv' /\ FailedInv(Failed)'
  BY <1>1, <1>2, AccountsStep, FailedKnownStep
<1> QED
  BY <1>3, <1>4, <1>5, <1>6 DEF CollectorInv

LEMMA StreamInvariant == CollectedSpec => []StreamInv
BY CollectedIsStream, DeliveryInvariant, FreshInvariant, EndingInvariant, PTL DEF StreamInv

\* CollectorInv is inductive relative to the invariants of the stream, so it
\* holds of every reachable state of a stream and its collector: the jobs of the
\* accounts are those the application got since the stream began, the totals are
\* theirs, and a site is completed in the collector when the application knows
\* that it is and never when it failed (accept() in collector.py).
THEOREM CollectorInvariant == CollectedSpec => []CollectorInv
<1>1. CollectedInit => CollectorInv
  BY CollectorInitial
<1>2. StreamInv /\ CollectorInv /\ [CollectedNext]_collectedVars => CollectorInv'
  BY CollectorStep, CollectedIsStep
<1> QED
  BY <1>1, <1>2, StreamInvariant, PTL DEF CollectedSpec, collectedVars

\* After the SearchCompleteEvent the application has acknowledged all it got.
LEMMA NothingOpen ==
  ASSUME StreamInv, CollectorInv, terminal, NEW s \in Site
  PROVE  Got(s) = checkpoint.seen[s] /\ (EndKnown(s) <=> checkpoint.completed[s])
<1>1. last = SearchComplete
  BY DEF StreamInv, DeliveryInv, ConsumerInv, CollectorInv, TerminalInv
<1> QED
  BY <1>1, NoMessage DEF Got, EndKnown, SearchComplete, Message

\* A SearchOutcome holds, of each site and without repetition, the jobs that
\* were acknowledged since its stream began, and no others: collect_jobs accepts
\* an event before it acknowledges it, and a process that dies in between loses
\* the outcome with it (collector.py).
THEOREM OutcomeAcknowledged == CollectedSpec => []OutcomeIsAcknowledged
<1>1. StreamInv /\ CollectorInv => OutcomeIsAcknowledged
  BY NothingOpen DEF OutcomeIsAcknowledged, CollectorInv, JobsInv
<1> QED
  BY <1>1, StreamInvariant, CollectorInvariant, PTL

\* accept() is never called again once it has the SearchCompleteEvent: not with a
\* second one, which it would refuse, and not with an event of a site, which it
\* would add to totals that are final.
THEOREM NothingAfterTerminal ==
  CollectedSpec => [][terminal => ~AcceptTerminal /\ ~AcceptOfSite]_collectedVars
<1>1. StreamInv /\ CollectorInv /\ [CollectedNext]_collectedVars
        => [terminal => ~AcceptTerminal /\ ~AcceptOfSite]_collectedVars
  <2> SUFFICES ASSUME StreamInv, CollectorInv, CollectedStep, terminal
               PROVE  ~AcceptTerminal /\ ~AcceptOfSite
    BY CollectedIsStep
  <2>1. TypeInv /\ ConsumerInv /\ outcome # "none"
    BY DEF StreamInv, DeliveryInv, CollectorInv, TerminalInv
  <2>2. ~DeliverSearchComplete /\ ~Deliver
    BY <2>1 DEF DeliverSearchComplete, Continues, Deliver, Holds, ConsumerInv
  <2>3. ~AcceptTerminal
    BY <2>1, <2>2, CollectKinds DEF CollectedStep
  <2>4. Returned => Resume \/ Deliver \/ DeliverSearchComplete
    <3>1. AckSaves \/ Unseen => ~Returned
      <4>1. Unseen => lastAcked' = lastAcked
        BY DEF Unseen
      <4> QED
        BY <2>1, <4>1, AckFacts DEF Returned
    <3> QED
      BY <2>1, <3>1, StepKinds DEF CollectedStep
  <2>5. Resume => ~Returned
    BY <2>1, ResumeFacts DEF Returned
  <2> QED
    BY <2>2, <2>3, <2>4, <2>5 DEF AcceptOfSite
<1> QED
  BY <1>1, StreamInvariant, CollectorInvariant, PTL DEF CollectedSpec, collectedVars

\* finish() does not refuse what collect_jobs collected, as long as no
\* BaseException ends a worker without an ErrorEvent: the totals of the
\* SearchCompleteEvent are those of the accounts, its completed flag is that of
\* the sites, and a site has failed or completed, never both and never neither
\* (finish() in collector.py, __post_init__ in outcome.py).
THEOREM OutcomeAccepted ==
  ASSUME "abrupt" \notin Failures
  PROVE  CollectedSpec => []FinishAccepts
<1> DEFINE SitesInv == WhyInv(Failed) /\ VerdictKnown
<1>1. CollectedInit => SitesInv
  <2> SUFFICES ASSUME Init, CollectorInit PROVE SitesInv
    BY DEF CollectedInit
  <2>1. terminal = FALSE /\ \A s \in Site : worker[s] = "starting"
    BY DEF Init, CollectorInit
  <2> QED
    BY <2>1 DEF WhyInv, VerdictKnown
<1>2. StreamInv /\ CollectorInv /\ SitesInv /\ [CollectedNext]_collectedVars => SitesInv'
  <2> SUFFICES ASSUME StreamInv, CollectorInv, WhyInv(Failed), VerdictKnown, CollectedStep
               PROVE  WhyInv(Failed)' /\ VerdictKnown'
    BY CollectedIsStep
  <2>1. /\ TypeInv /\ ConsumerInv /\ WorkerInv /\ CountInv /\ LastOpen
        /\ CollectorTypeInv /\ TerminalInv /\ CompletedInv
    BY DEF StreamInv, DeliveryInv, EndingInv, CollectorInv
  <2>2. VerdictKnown'
    BY <2>1, VerdictKnownStep
  <2>3. PICK F : F = Failed
    OBVIOUS
  <2>4. PICK G : G = Failed'
    OBVIOUS
  <2>5. WhyInv(F)
    BY <2>3
  <2>6. /\ F \subseteq G \/ Resume
        /\ Deliver /\ held.type = "ERROR" => held.site \in G
    <3> HIDE DEF Failed
    <3> QED
      BY <2>1, <2>3, <2>4, FailedGrows
  <2>7. WhyInv(G)'
    BY <2>1, <2>5, <2>6, WhyStep DEF CollectedStep
  <2> QED
    BY <2>2, <2>4, <2>7 DEF WhyInv, Explained
<1>3. StreamInv /\ CollectorInv /\ SitesInv => FinishAccepts
  <2> SUFFICES ASSUME StreamInv, CollectorInv, VerdictKnown, terminal
               PROVE  IsSearchOutcome
    BY DEF FinishAccepts
  <2>1. TotalsAgree
    BY DEF CollectorInv, TotalsInv
  <2>2. \A s \in Site : accepted[s].completed <=> checkpoint.completed[s]
    BY NothingOpen DEF CollectorInv, AccountsInv
  <2>3. CompletionAgrees
    BY <2>2 DEF CompletionAgrees, CollectorInv, TerminalInv
  <2>4. ASSUME NEW s \in Site PROVE Summarised(s)
    <3>1. accepted[s].failures \in Nat
      BY DEF CollectorInv, CollectorTypeInv, Accounts
    <3>2. s \in Failed => ~checkpoint.completed[s]
      BY NothingOpen DEF CollectorInv, FailedInv
    <3>3. ~checkpoint.completed[s] => s \in Failed
      BY DEF VerdictKnown
    <3>4. s \in Failed <=> accepted[s].failures # 0
      BY <3>1 DEF Failed
    <3> QED
      BY <2>2, <3>2, <3>3, <3>4 DEF Summarised
  <2> QED
    BY <2>1, <2>3, <2>4 DEF IsSearchOutcome
<1> QED
  BY <1>1, <1>2, <1>3, StreamInvariant, CollectorInvariant, PTL DEF CollectedSpec, collectedVars
===============================================================================

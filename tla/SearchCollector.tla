---------------------------- MODULE SearchCollector ----------------------------
(***************************************************************************)
(* collect_jobs: the application of a SearchStream that adds its events up *)
(* to a typed outcome.                                                     *)
(*                                                                         *)
(* The collector accepts each event next() returns before it acknowledges  *)
(* it.  At the end finish() refuses an outcome whose parts contradict each *)
(* other: the totals the stream counted, what was accepted of each site,   *)
(* and what the checkpoint said when the stream began.                     *)
(***************************************************************************)
EXTENDS SearchStream, SequencesExt

VARIABLES
  accepted,    \* _OutcomeAccumulator._states, with the jobs of each site
  terminal,    \* _OutcomeAccumulator._terminal is there
  totalJobs,   \* the stream's _total_jobs
  acknowledged \* history: the keys the checkpoint held when the stream began

collectorVars == <<accepted, terminal, totalJobs, acknowledged>>

\* A _SiteAccumulator.
Account(completed) == [jobs |-> <<>>, failures |-> 0, completed |-> completed]

\* Mutant: every site is thought to be searched.
InitiallyCompletedMutantNone == [s \in Site |-> FALSE]
InitiallyCompleted == checkpoint.completed

CollectorInit ==
  /\ accepted = [s \in Site |-> Account(InitiallyCompleted[s])]
  /\ terminal = FALSE
  /\ totalJobs = 0
  /\ acknowledged = checkpoint.seen

\* A new stream has a new collector.
CollectAnew ==
  /\ restarts' # restarts
  /\ accepted' = [s \in Site |-> Account(InitiallyCompleted[s])]
  /\ terminal' = FALSE
  /\ totalJobs' = 0
  /\ acknowledged' = checkpoint.seen

\* next() returns an event.
Returned == lastAcked /\ ~lastAcked'

\* Mutant: a site that failed gives up its jobs.
AfterMutantFailureEmpties(account, e) ==
  CASE e.type = "JOB"           -> [account EXCEPT !.jobs = Append(@, e.job)]
    [] e.type = "ERROR"         -> [jobs |-> <<>>, completed |-> FALSE,
                                    failures |-> account.failures + 1]
    [] e.type = "SITE_COMPLETE" -> [account EXCEPT !.completed = TRUE]
    [] OTHER                    -> account

\* A site's account after accept(event).
After(account, e) ==
  CASE e.type = "JOB"           -> [account EXCEPT !.jobs = Append(@, e.job)]
    [] e.type = "ERROR"         -> [account EXCEPT !.completed = FALSE, !.failures = @ + 1]
    [] e.type = "SITE_COMPLETE" -> [account EXCEPT !.completed = TRUE]
    [] OTHER                    -> account

AcceptOfSite ==
  /\ Returned /\ last'.type # "SEARCH_COMPLETE"
  /\ accepted' = [accepted EXCEPT ![last'.site] = After(@, last')]
  /\ totalJobs' = totalJobs + (IF last'.type = "JOB" THEN 1 ELSE 0)
  /\ UNCHANGED <<terminal, acknowledged>>

AcceptTerminal ==
  /\ Returned /\ last'.type = "SEARCH_COMPLETE"
  /\ terminal' = TRUE
  /\ UNCHANGED <<accepted, totalJobs, acknowledged>>

\* The step returned nothing to the application.
NothingReturned ==
  /\ ~Returned /\ restarts' = restarts
  /\ UNCHANGED collectorVars

Collect == CollectAnew \/ AcceptOfSite \/ AcceptTerminal \/ NothingReturned

CollectedInit == Init /\ CollectorInit
CollectedNext == Next /\ Collect
CollectedSpec == CollectedInit /\ [][CollectedNext]_<<vars, collectorVars>>

-------------------------------------------------------------------------------
\* Properties.

\* The jobs and the failures of the accounts, by their site and their number.
AllJobs     == UNION {{s} \X DOMAIN accepted[s].jobs : s \in Site}
AllFailures == UNION {{s} \X (1..accepted[s].failures) : s \in Site}

\* A SiteSearchSummary is made of an account that failed or completed, and not
\* of one that did both.
Summarised(s) == accepted[s].completed <=> accepted[s].failures = 0

\* What finish() compares with the SearchCompleteEvent ...
TotalsAgree ==
  totalJobs = Cardinality(AllJobs) /\ errors = Cardinality(AllFailures)
CompletionAgrees == outcome = "complete" <=> \A s \in Site : accepted[s].completed

\* ... and the SearchOutcome with its summaries, once more.
IsSearchOutcome == TotalsAgree /\ CompletionAgrees /\ \A s \in Site : Summarised(s)

\* finish() accepts what it collected: the totals of the SearchCompleteEvent
\* are those of the delivered events, its completed flag is that of the sites,
\* and a site has failed or completed.  Sites the checkpoint had completed are
\* not searched again and count as completed.
FinishAccepts == terminal => IsSearchOutcome

\* A collector that got to the end has each job that was acknowledged since its
\* stream began, once: none is missing, none comes from an earlier stream.
OutcomeIsAcknowledged ==
  terminal =>
    \A s \in Site :
      /\ IsInjective(accepted[s].jobs)
      /\ ToSet(accepted[s].jobs) = checkpoint.seen[s] \ acknowledged[s]
===============================================================================

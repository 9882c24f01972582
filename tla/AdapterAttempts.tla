---------------------------- MODULE AdapterAttempts ----------------------------
(***************************************************************************)
(* The attempts of runtime._run_adapter: streams that share a registry     *)
(* open with the schema version of a site, create adapters for it, hand    *)
(* them the checkpoint's resume state, and retry what may be retried.      *)
(*                                                                         *)
(* Cancellation, the limit and what is delivered are the subject of        *)
(* SearchStream, the adapter's close that of AdapterLifecycle.             *)
(***************************************************************************)
EXTENDS AdapterRegistry, BoardRequests

CONSTANT MaxRetries   \* max_retries

ASSUME RetriesAssumption == MaxRetries \in Nat

\* The provers know nothing of powers.
ASSUME PowerAssumption == \A n \in 0..MaxRetries : 2^n \in Nat

VARIABLES
  place,     \* where the worker of each stream is
  attempt,   \* the attempt it makes
  schema,    \* the schema version its checkpoint was validated with
  openedAt,  \* history: the epoch in which it was
  given,     \* the contract of the adapter it runs, and the epoch of its create()
  cause,     \* history: whether the failure it waits or ended with may pass by
             \* itself, the time its board asked for, and what got lost of both
  delay,     \* how long it waits
  handed     \* history: the contracts create() handed out, and when

workerVars == <<place, attempt, schema, openedAt, given, cause, delay>>
vars == <<registryVars, createVars, workerVars, handed>>

GoTo(u, where) == place' = [place EXCEPT ![u] = where]

\* _load_checkpoint asks the registry, and refuses a checkpoint of another version.
Open(u) ==
  /\ place[u] = "new"
  /\ schema' = [schema EXCEPT ![u] = CursorSchemaVersion]
  /\ openedAt' = [openedAt EXCEPT ![u] = epoch]
  /\ GoTo(u, "creating")
  /\ UNCHANGED <<attempt, given, cause, delay, registryVars, createVars, handed>>

BeginCreate(u) ==
  /\ place[u] = "creating"
  /\ Find(u)
  /\ UNCHANGED <<workerVars, handed>>

FactoryReturns(u) ==
  /\ place[u] = "creating"
  /\ Make(u)
  /\ UNCHANGED <<workerVars, handed>>

\* create() returns, and scrape() gets a context with the resume state.
StartScrape(u) ==
  /\ place[u] = "creating"
  /\ Accept(u)
  /\ given' = [given EXCEPT ![u] = [contract |-> Effective(produced[u]), epoch |-> epoch]]
  /\ handed' = handed \cup {[contract |-> Effective(produced[u]), epoch |-> epoch]}
  /\ GoTo(u, "scraping")
  /\ UNCHANGED <<attempt, schema, openedAt, cause, delay>>

ScrapeReturns(u) ==
  /\ place[u] = "scraping"
  /\ given' = [given EXCEPT ![u] = Nothing]
  /\ GoTo(u, "complete")
  /\ UNCHANGED <<attempt, schema, openedAt, cause, delay, registryVars, createVars, handed>>

\* The failures that may pass by themselves: those of a connection, any of
\* tls-client, which does not say what failed, and those a board reports with a
\* status or an error that says so.
Passing == {408, 425, 429} \cup (500..599)
MayPass(f) ==
  \/ f.end.end \in {"network", "cut"}
  \/ f.end.end = "config" /\ f.board \in TlsBoards
  \/ f.end.status \in Passing
  \/ f.error.carrier = "message" /\ f.end.says = "rate limit"

\* The time its board asked to wait, whatever became of it.
Asked(f) == IF MayPass(f) THEN f.end.after ELSE {}

\* What does not reach the coordinator: that a connection was lost in the middle
\* of a body (exception.py:248), and the time BDJobs (bdjobs/__init__.py:105) or a
\* GraphQL answer (exception.py:217) came with.
Lost(f) ==
  When(f.end.end = "cut" /\ f.board \notin TlsBoards, "kind")
  \cup When(f.board = "bdjobs" \/ f.error.carrier = "message", "time")

Failure(info, passes, asks, lost) ==
  [info |-> info, passes |-> passes, asks |-> asks, lost |-> lost]
Permanent(e) == Failure(Classify(e), FALSE, {}, {})

\* What the adapters of the package, and others, may raise.
AdapterFailures ==
  {Failure(Classify(f.error), MayPass(f), Asked(f), Lost(f)) : f \in RequestFailures}
  \cup {Permanent(e) : e \in UNION {Unconfigured(b) : b \in Boards}}
  \cup {Failure(Classify([carrier |-> "limit"]), TRUE, {}, {}), Permanent([carrier |-> "other"])}

Retried(u, info) == attempt[u] < MaxRetries /\ info.retryable

\* The except clause: wait and retry, or an ErrorEvent.
Raises(u, f) ==
  /\ given' = [given EXCEPT ![u] = Nothing]
  /\ \/ /\ Retried(u, f.info)
        /\ cause' = [cause EXCEPT ![u] = [passes |-> f.passes, asks |-> f.asks, lost |-> f.lost]]
        /\ delay' = [delay EXCEPT ![u] = Delay(attempt[u], f.info)]
        /\ GoTo(u, "waiting")
     \/ /\ ~Retried(u, f.info)
        /\ cause' = [cause EXCEPT ![u] = [passes |-> f.passes, asks |-> {}, lost |-> f.lost]]
        /\ GoTo(u, "failed")
        /\ UNCHANGED delay
  /\ UNCHANGED <<attempt, schema, openedAt, handed>>

ScrapeRaises(u) ==
  /\ place[u] = "scraping"
  /\ \E f \in AdapterFailures : Raises(u, f)
  /\ UNCHANGED <<registryVars, createVars>>

\* The constructor of the adapter raises.
FactoryRaises(u) ==
  /\ place[u] = "creating" /\ step[u] = "making"
  /\ Leave(u)
  /\ \E f \in AdapterFailures : Raises(u, f)
  /\ UNCHANGED registryVars

CreateRefuses(u) ==
  /\ place[u] = "creating"
  /\ MakeRefused(u) \/ Refuse(u)
  /\ Raises(u, Permanent(ContractError))

Retry(u) ==
  /\ place[u] = "waiting"
  /\ attempt' = [attempt EXCEPT ![u] = @ + 1]
  /\ cause' = [cause EXCEPT ![u] = Nothing]
  /\ delay' = [delay EXCEPT ![u] = 0]
  /\ GoTo(u, "creating")
  /\ UNCHANGED <<schema, openedAt, given, registryVars, createVars, handed>>

Init ==
  /\ RegistryInit
  /\ place = [u \in User |-> "new"]
  /\ attempt = [u \in User |-> 0]
  /\ schema = [u \in User |-> 0]
  /\ openedAt = [u \in User |-> 0]
  /\ given = [u \in User |-> Nothing]
  /\ cause = [u \in User |-> Nothing]
  /\ delay = [u \in User |-> 0]
  /\ handed = {}

AttemptStep(u) ==
  \/ Open(u) \/ BeginCreate(u) \/ FactoryReturns(u) \/ FactoryRaises(u) \/ CreateRefuses(u)
  \/ StartScrape(u) \/ ScrapeReturns(u) \/ ScrapeRaises(u) \/ Retry(u)

Over == \A u \in User : place[u] \in {"complete", "failed"}

Next ==
  \/ \E u \in User : AttemptStep(u)
  \/ Replace /\ UNCHANGED <<workerVars, handed>>
  \/ Over /\ UNCHANGED vars

Spec == Init /\ [][Next]_vars

-------------------------------------------------------------------------------
\* Properties.

\* One registration, one contract: whatever streams use a factory for the first
\* time at once, every adapter create() handed out since the last register() has
\* the contract the registration has now.
OneContract ==
  \A h \in handed :
    h.epoch = epoch => registration.declared /\ h.contract = registration.contract

\* README: "A discovered resume-schema mismatch fails instead of writing an
\* incompatible checkpoint".  An adapter that resumes gets a state of the schema
\* version its checkpoint was validated with, unless the factory was replaced
\* since the stream was opened.
ResumeStateFits ==
  \A u \in User :
    place[u] = "scraping" /\ given[u].epoch = openedAt[u] /\ given[u].contract.resumes
      => given[u].contract.version = schema[u]

\* The stream waits as long as its board asked, up to the cap.
Honoured(u) == \A seconds \in cause[u].asks : delay[u] >= Min({seconds, MaxRetryAfter})

\* README: "Only failures classified as transient_network or rate_limited are
\* retried", and the delay "is the larger of Retry-After and exponential
\* retry_backoff", with Retry-After "capped at five minutes".  And a failure that
\* may pass ends a search only after the last retry.  All this of what reaches the
\* coordinator: RetryAfterHonoured is about the rest.
RetriedInTime ==
  \A u \in User :
    /\ place[u] = "waiting" =>
         /\ cause[u].passes
         /\ delay[u] >= RetryBackoff * 2^attempt[u]
         /\ delay[u] <= Max({MaxRetryAfter, RetryBackoff * 2^attempt[u]})
         /\ "time" \in cause[u].lost \/ Honoured(u)
    /\ place[u] = "failed" =>
         ~cause[u].passes \/ "kind" \in cause[u].lost \/ attempt[u] = MaxRetries

\* README: "Valid Retry-After delta or HTTP-date values on retryable board responses
\* are honored, capped at five minutes", whichever board it is.
RetryAfterHonoured == \A u \in User : place[u] = "waiting" => Honoured(u)
===============================================================================

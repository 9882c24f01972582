-------------------------- MODULE TransportOwnership --------------------------
(***************************************************************************)
(* Who closes the sessions of an adapter: model.Scraper.                   *)
(*                                                                         *)
(* An adapter registers every transport it creates.  The one of its        *)
(* constructor, or those an operation makes outside of scopes (Glassdoor,  *)
(* Google and Bayt: one at the start of each), are to live as long as the  *)
(* adapter.  Those of a page's detail workers live as long as the          *)
(* transport_scope() around the page, inside which the workers' pool is    *)
(* waited for.  close() takes all that are registered, at any moment; a    *)
(* transport that comes later is closed by the thread that made it, and    *)
(* refused.                                                                *)
(*                                                                         *)
(* A search closes its adapter from a cleanup thread.  fetch_job_detail of *)
(* the API closes its own when its one operation is over.  Scopes are made *)
(* for operations that overlap on one adapter.                             *)
(*                                                                         *)
(* A step is what a thread does under one acquisition of _transport_lock,  *)
(* or between two of them.                                                 *)
(***************************************************************************)
EXTENDS Integers, FiniteSets, Sequences

CONSTANTS
  Operation,    \* the threads that run an operation of the adapter
  Helper,       \* the threads of their pools
  Transport,    \* bound: the transports that can be made
  Cleaner,      \* the cleanup thread of the runtime
  MaxDepth,     \* bound: how deep a thread nests its scopes
  Nobody, NoTransport

Thread == Operation \cup Helper \cup {Cleaner}

ASSUME ThreadAssumption ==
  /\ IsFiniteSet(Operation) /\ Operation # {}
  /\ Operation \cap Helper = {} /\ Cleaner \notin Operation \cup Helper
  /\ Nobody \notin Thread
ASSUME TransportAssumption ==
  /\ IsFiniteSet(Transport) /\ NoTransport \notin Transport
  /\ MaxDepth \in Nat \ {0}

VARIABLES
  caller,      \* "search" or "detail": who the operation runs for
  place,       \* where each operation thread is
  raising,     \* the exception on its way out of an operation
  boss,        \* the operation a helper works for
  made,        \* history: the transports that exist
  session,     \* what a thread made and has not registered yet
  returning,   \* what track_transport() registered and has not returned yet
  using,       \* the transports a thread may send requests with
  origin,      \* history: where a transport was registered, "none" before it is
  tracked,     \* _transports
  shut,        \* _transports_closed
  scopeOwner,  \* who holds _transport_scope_lock
  baselines,   \* what was registered when each of the open scopes began
  pending,     \* what a thread took and has to close
  closes,      \* how often close() of a transport was called
  errors       \* _transport_cleanup_errors: which transport, for whom

operationVars == <<caller, place, raising, boss>>
sessionVars   == <<made, session, returning, using>>
adapterVars   == <<origin, tracked, shut>>
scopeVars     == <<scopeOwner, baselines>>
closingVars   == <<pending, closes, errors>>
vars == <<operationVars, sessionVars, adapterVars, scopeVars, closingVars>>

GoTo(o, where) == place' = [place EXCEPT ![o] = where]

\* The thread is not inside of track_transport(), and has none to close.
Settled(th) == session[th] = NoTransport /\ returning[th] = NoTransport /\ pending[th] = {}

-------------------------------------------------------------------------------
\* _close_transports, one at a time: a failure is recorded, the others follow.

CloseNext(th) ==
  /\ \E t \in pending[th] :
       /\ closes' = [closes EXCEPT ![t] = @ + 1]
       /\ pending' = [pending EXCEPT ![th] = @ \ {t}]
       /\ errors' \in {errors, errors \cup {<<t, th>>}}
  /\ UNCHANGED <<operationVars, sessionVars, adapterVars, scopeVars>>

\* Some transport did not close for th.
Erred(th) == \E t \in made : <<t, th>> \in errors

-------------------------------------------------------------------------------
\* track_transport().

\* An operation creates sessions as it likes, inside of a scope or not.
OperationMakes(th) ==
  th \in Operation /\ place[th] \in {"body", "scope"} /\ raising[th] = "none"

\* A helper creates one, for its listings.
HelperMakes(th) == th \in Helper /\ boss[th] # Nobody /\ using[th] = {}

Make(th, t) ==
  /\ OperationMakes(th) \/ HelperMakes(th)
  /\ Settled(th)
  /\ t \in Transport \ made
  /\ made' = made \cup {t}
  /\ session' = [session EXCEPT ![th] = t]
  /\ UNCHANGED <<operationVars, returning, using, adapterVars, scopeVars, closingVars>>

\* In a batch: by the pool of a scope, or by its operation.  Beside one: by an
\* operation outside of scopes, while another has a scope open.
Origin(th) ==
  CASE th \in Helper \/ (th \in Operation /\ place[th] = "scope") -> "batch"
    [] baselines = <<>> -> "lasting"
    [] OTHER            -> "beside"

\* Mutant: the flag is not looked at.
RefusedMutantNever == FALSE
Refused == shut

Register(th) ==
  LET t == session[th] IN
  /\ t # NoTransport /\ ~Refused
  /\ tracked' = tracked \cup {t}
  /\ origin' = [origin EXCEPT ![t] = Origin(th)]
  /\ returning' = [returning EXCEPT ![th] = t]
  /\ session' = [session EXCEPT ![th] = NoTransport]
  /\ UNCHANGED <<operationVars, made, using, shut, scopeVars, closingVars>>

\* The lock is released, and the adapter's code receives its transport.
Return(th) ==
  /\ returning[th] # NoTransport
  /\ using' = [using EXCEPT ![th] = @ \cup {returning[th]}]
  /\ returning' = [returning EXCEPT ![th] = NoTransport]
  /\ UNCHANGED <<operationVars, made, session, adapterVars, scopeVars, closingVars>>

\* RuntimeError once the late transport is closed.  It ends an operation; a
\* helper's listing is skipped with a warning, and its next one tries again.
Refuse(th) ==
  /\ session[th] # NoTransport /\ Refused
  /\ pending' = [pending EXCEPT ![th] = {session[th]}]
  /\ session' = [session EXCEPT ![th] = NoTransport]
  /\ raising' = [o \in Operation |-> IF o = th THEN "body" ELSE raising[o]]
  /\ UNCHANGED <<caller, place, boss, made, returning, using, adapterVars, scopeVars, closes,
                 errors>>

-------------------------------------------------------------------------------
\* An operation: transport_scope() outside, the pool inside.

\* A body of code returns or raises.
BodyEnds(o) ==
  \/ UNCHANGED raising
  \/ raising[o] = "none" /\ raising' = [raising EXCEPT ![o] = "body"]

\* Every helper this operation submitted work to has ended.
\* Mutant: the scope is inside, the pool is waited for afterwards.
PoolIsDoneMutantInside(o) == TRUE
PoolIsDone(o) == \A h \in Helper : boss[h] # o

\* The lock is reentrant.  A scope is not nested under a running pool: its end
\* would take the sessions of that pool.
EnterScope(o) ==
  /\ raising[o] = "none" /\ Settled(o)
  /\ \/ place[o] = "body" /\ scopeOwner = Nobody
     \/ place[o] = "scope" /\ Len(baselines) < MaxDepth /\ PoolIsDone(o)
  /\ scopeOwner' = o
  /\ baselines' = Append(baselines, tracked)
  /\ GoTo(o, "scope")
  /\ UNCHANGED <<caller, raising, boss, sessionVars, adapterVars, closingVars>>

Submit(o, h) ==
  /\ place[o] = "scope" /\ raising[o] = "none"
  /\ boss[h] = Nobody /\ Settled(h)
  /\ boss' = [boss EXCEPT ![h] = o]
  /\ UNCHANGED <<caller, place, raising, sessionVars, adapterVars, scopeVars, closingVars>>

HelperEnds(h) ==
  /\ boss[h] # Nobody /\ Settled(h)
  /\ boss' = [boss EXCEPT ![h] = Nobody]
  /\ using' = [using EXCEPT ![h] = {}]
  /\ UNCHANGED <<caller, place, raising, made, session, returning, adapterVars, scopeVars,
                 closingVars>>

Baseline == baselines[Len(baselines)]

\* Mutant: what the scope closes stays registered.
OutlivesScopeMutantAll == tracked
OutlivesScope == tracked \cap Baseline

\* The body of the scope returns or raises, the pool has ended: the scope takes
\* what was registered meanwhile.
EndScope(o) ==
  /\ place[o] = "scope" /\ Settled(o) /\ PoolIsDone(o)
  /\ BodyEnds(o)
  /\ using' = [using EXCEPT ![o] = @ \ (tracked \ Baseline)]
  /\ pending' = [pending EXCEPT ![o] = tracked \ Baseline]
  /\ tracked' = OutlivesScope
  /\ baselines' = SubSeq(baselines, 1, Len(baselines) - 1)
  /\ GoTo(o, "leaving")
  /\ UNCHANGED <<caller, boss, made, session, returning, origin, shut, scopeOwner, closes, errors>>

\* A failed close is raised if nothing else is.
AfterClosing(o) == IF raising[o] = "none" /\ Erred(o) THEN "cleanup" ELSE raising[o]

LeaveScope(o) ==
  /\ place[o] = "leaving" /\ pending[o] = {}
  /\ raising' = [raising EXCEPT ![o] = AfterClosing(o)]
  /\ scopeOwner' = IF baselines = <<>> THEN Nobody ELSE o
  /\ GoTo(o, IF baselines = <<>> THEN "body" ELSE "scope")
  /\ UNCHANGED <<caller, boss, baselines, sessionVars, adapterVars, closingVars>>

-------------------------------------------------------------------------------
\* close(): only the first call finds the flag down.

Shut(th) ==
  /\ shut' = TRUE
  /\ pending' = [pending EXCEPT ![th] = IF shut THEN {} ELSE tracked]
  /\ tracked' = IF shut THEN tracked ELSE {}

\* The runtime closes the adapter of a search, whatever its threads do.
CleanerCloses ==
  /\ caller = "search" /\ ~shut
  /\ Shut(Cleaner)
  /\ UNCHANGED <<operationVars, sessionVars, origin, scopeVars, closes, errors>>

\* The operation returns or raises.
LeaveOperation(o) ==
  /\ place[o] = "body" /\ Settled(o)
  /\ BodyEnds(o)
  /\ using' = [using EXCEPT ![o] = {}]

ReturnToSearch(o) ==
  /\ caller = "search"
  /\ LeaveOperation(o) /\ GoTo(o, "over")
  /\ UNCHANGED <<caller, boss, made, session, returning, adapterVars, scopeVars, closingVars>>

\* Mutant: only when the body returned.
DetailClosesMutantOnSuccess(o) == raising[o] = "none"
DetailCloses(o) == TRUE

\* fetch_job_detail: its finally closes the adapter ...
ReturnToDetail(o) ==
  /\ caller = "detail"
  /\ LeaveOperation(o) /\ GoTo(o, "closing")
  /\ IF DetailCloses(o) THEN Shut(o) ELSE UNCHANGED <<tracked, shut, pending>>
  /\ UNCHANGED <<caller, boss, made, session, returning, origin, scopeVars, closes, errors>>

\* ... and raises what failed to close unless the body raised.
DetailReturns(o) ==
  /\ place[o] = "closing" /\ pending[o] = {}
  /\ raising' = [raising EXCEPT ![o] = AfterClosing(o)]
  /\ GoTo(o, "over")
  /\ UNCHANGED <<caller, boss, sessionVars, adapterVars, scopeVars, closingVars>>

-------------------------------------------------------------------------------
\* A search may run several operations of one adapter, fetch_job_detail has one.
\* The constructor registers one transport, or none.
Init ==
  /\ caller \in {"search", "detail"}
  /\ \E first \in Operation :
       place = [o \in Operation |->
                  IF caller = "search" \/ o = first THEN "body" ELSE "over"]
  /\ raising = [o \in Operation |-> "none"]
  /\ boss = [h \in Helper |-> Nobody]
  /\ made \in {{}} \cup {{t} : t \in Transport}
  /\ session = [th \in Thread |-> NoTransport]
  /\ returning = [th \in Thread |-> NoTransport]
  /\ using = [th \in Thread |-> IF th \in Operation THEN made ELSE {}]
  /\ origin = [t \in Transport |-> IF t \in made THEN "lasting" ELSE "none"]
  /\ tracked = made /\ shut = FALSE
  /\ scopeOwner = Nobody /\ baselines = <<>>
  /\ pending = [th \in Thread |-> {}]
  /\ closes = [t \in Transport |-> 0]
  /\ errors = {}

Registration(th) ==
  (\E t \in Transport : Make(th, t)) \/ Register(th) \/ Return(th) \/ Refuse(th)

OperationStep(o) ==
  \/ EnterScope(o) \/ EndScope(o) \/ LeaveScope(o)
  \/ ReturnToSearch(o) \/ ReturnToDetail(o) \/ DetailReturns(o)
  \/ \E h \in Helper : Submit(o, h)

\* Everything has ended and the adapter is closed.
Over == shut /\ \A o \in Operation : place[o] = "over" /\ pending[Cleaner] = {}

Next ==
  \/ \E th \in Thread : Registration(th) \/ CloseNext(th)
  \/ \E o \in Operation : OperationStep(o)
  \/ \E h \in Helper : HelperEnds(h)
  \/ CleanerCloses
  \/ Over /\ UNCHANGED vars

Spec == Init /\ [][Next]_vars

-------------------------------------------------------------------------------
\* Properties.

\* "Close every transport registered by the adapter exactly once" (close()):
\* never twice, though scopes, close() and refused registrations all close.
TransportClosedOnce == \A t \in Transport : closes[t] <= 1

\* The end of a scope waits for its pool, and spares what other scopes, the
\* constructor and operations outside of scopes registered: while the adapter is
\* open, nothing is closed under a thread that may use it.  "Preventing one batch
\* from closing transports owned by another", README.md:629 says: of batches.  What
\* an operation registered outside of one, beside the scope of another, is taken
\* by the end of that scope.
NotClosedInUse ==
  \A th \in Thread : \A t \in using[th] : closes[t] > 0 => shut \/ origin[t] = "beside"

\* track_transport(): "so adapter code can never receive a closed client for
\* use".  The transport it returns has not been closed.
NeverReceivesClosed ==
  [][\A th \in Thread : \A t \in using'[th] \ using[th] : closes[t] = 0]_vars

\* README.md:627: a batch is scoped "so its thread-local sessions are released
\* before the next page": none of them is registered when no scope runs.  And
\* "the adapter is always closed before this function returns" (fetch_job_detail),
\* with all it ever made.
NothingKept ==
  /\ scopeOwner = Nobody => \A t \in tracked : origin[t] # "batch"
  /\ caller = "detail" /\ (\A o \in Operation : place[o] = "over")
       => \A t \in made : closes[t] = 1

\* Threads are scheduled while they register and close transports.
Fairness ==
  \A th \in Thread : WF_vars(Register(th) \/ Refuse(th)) /\ WF_vars(CloseNext(th))

FairSpec == Spec /\ Fairness

\* Once the adapter is shut, whatever exists, and whatever its threads still
\* make, is closed, although the closing of others fails.
NothingLeaks == shut ~> \A t \in made : closes[t] = 1
===============================================================================

----------------------------- MODULE AdapterPaging -----------------------------
(***************************************************************************)
(* How the board adapters of jobstreaming walk the pages of a provider,    *)
(* and what they save to be resumed: the scrape() of all eight boards      *)
(* behind context.ScrapeContext.                                           *)
(*                                                                         *)
(* One site is searched.  Its messages go to a bounded queue, and whatever *)
(* is acknowledged is in the checkpoint.  A run may be interrupted at any  *)
(* point and resumed from there; a request may fail and be made again in   *)
(* the same process, from the state of the context.  Threads, cancellation *)
(* and the consumer are the subject of SearchStream, whose adapter is an   *)
(* abstraction of these.                                                   *)
(*                                                                         *)
(* What the boards do differently is in a profile of each; the loop over   *)
(* the pages is the same.  Providers cut what they list into pages of a    *)
(* fixed size, and only the last may be shorter.                           *)
(***************************************************************************)
EXTENDS Integers, Sequences, FiniteSets

CONSTANTS
  Board,          \* the boards looked at
  Job, Bad,       \* what a provider lists: jobs, and listings nobody can read
  Listings,       \* what a provider may list, in its order
  Offsets,        \* request.offset, one of these
  PageSize,       \* jobs_per_page
  ResultsWanted,  \* request.results_wanted
  MaxPages,       \* request.max_pages
  PageCap,        \* the last page LinkedIn (1000 listings) and Glassdoor (30 pages) give
  QueueSize,      \* queue_size
  Turnover,       \* bound: may the provider list something else in the next run
  MaxRestarts,    \* bound: how often the search is interrupted
  NoJob           \* the job of a message that has none

-------------------------------------------------------------------------------
\* The profile of a board.
\*   asks    how it asks for a page: by its "number"; by the "token" of the page
\*           before, the first page without one; or with a "continuation", that
\*           is a token without which there is no page after the first
\*   jumps   its first page depends on the offset
\*   offset  which listings the offset excludes: the first it counts that are
\*           "unseen", the first of "all"; those with an index too small, which
\*           follows from the number of the "page", from the "raw" listings
\*           counted when the page begins, or from those counted less the ones
\*           of this page that were "resumed" over
\*   pool    a pool of threads reads the listings: they come in any order
\*   drops   unreadable listings are dropped before they are counted
\*   reads   it reads a listing before it looks at the offset
\*   ends    when there is no page after this one: it is "empty", in which case
\*           it is not reported either, it listed "nothing", it is "short", or
\*           it came with "no token"

Profile(asks, jumps, offset, pool, drops, reads, ends) ==
  [asks |-> asks, jumps |-> jumps, offset |-> offset, pool |-> pool, drops |-> drops,
   reads |-> reads, ends |-> ends]

Indeed       == Profile("token", FALSE, "unseen", FALSE, TRUE, FALSE, {"empty", "no token"})
ZipRecruiter == Profile("token", FALSE, "all", TRUE, FALSE, FALSE, {"no token"})
LinkedIn     == Profile("number", TRUE, "page", FALSE, FALSE, FALSE, {"empty", "short"})
Glassdoor    == Profile("number", TRUE, "page", TRUE, FALSE, FALSE, {"nothing", "no token"})
Google       == Profile("continuation", FALSE, "resumed", FALSE, TRUE, FALSE,
                        {"nothing", "no token"})
Bayt         == Profile("number", FALSE, "resumed", FALSE, FALSE, TRUE, {"empty"})
Naukri       == Profile("number", TRUE, "resumed", FALSE, FALSE, TRUE, {"empty", "short"})
BDJobs       == Profile("number", FALSE, "raw", TRUE, FALSE, FALSE, {"empty"})

Profiles ==
  [indeed |-> Indeed, zip_recruiter |-> ZipRecruiter, linkedin |-> LinkedIn,
   glassdoor |-> Glassdoor, google |-> Google, bayt |-> Bayt, naukri |-> Naukri,
   bdjobs |-> BDJobs]

ASSUME BoardAssumption   == Board \subseteq DOMAIN Profiles
ASSUME ListingAssumption == /\ IsFiniteSet(Job) /\ Bad \notin Job /\ NoJob \notin Job
                            /\ Listings \subseteq Seq(Job \cup {Bad})
ASSUME RequestAssumption == /\ Offsets \subseteq Nat
                            /\ PageSize \in Nat \ {0} /\ MaxPages \in Nat \ {0}
                            /\ PageCap \in Nat \ {0}
                            \* Google stops at 900 results whatever is wanted.
                            /\ ResultsWanted \in 1..900
ASSUME BoundAssumption   == /\ QueueSize \in Nat \ {0} /\ MaxRestarts \in Nat
                            /\ Turnover \in BOOLEAN

VARIABLES
  \* --- the search
  board, offset,
  listing,     \* what the provider lists now
  \* --- the local variables of scrape()
  place,       \* where it is
  now,         \* cursor, page, skipped, ... as the current page began
  skipped,     \* skipped, as it is now
  todo,        \* the listings of the page it has not handled, by their index
  \* --- its context
  context,     \* _state
  seen,        \* _seen
  \* --- the stream
  outbox,      \* messages that are not acknowledged
  checkpoint,  \* what is
  restarts

searchVars == <<board, offset, listing>>
localVars  == <<place, now, skipped, todo>>
contextVars == <<context, seen>>
streamVars == <<outbox, checkpoint, restarts>>
vars == <<searchVars, localVars, contextVars, streamVars>>

This == Profiles[board]

Smaller(m, n) == IF m < n THEN m ELSE n

-------------------------------------------------------------------------------
\* The provider.

IsReadable(x) == x # Bad

\* Where page p of what is listed begins, and the positions of its listings.
PageStart(p) == (p - 1) * PageSize
PageOf(l, p) == {k \in DOMAIN l : PageStart(p) < k /\ k <= p * PageSize}

\* What it lists on page p, and the token of the next page or 0 for none.
Listed(p) == PageOf(listing, p)
TokenAfter(p) == IF p * PageSize < Len(listing) THEN p + 1 ELSE 0

\* What a page of l may be: one on which something can be read, and one that
\* lists no job twice.
Legible(l) ==
  \A p \in 1..Len(l) : PageOf(l, p) # {} => \E k \in PageOf(l, p) : IsReadable(l[k])
NoRepeats(l) ==
  \A p \in 1..Len(l) : \A i, k \in PageOf(l, p) : l[i] = l[k] /\ IsReadable(l[i]) => i = k

-------------------------------------------------------------------------------
\* Resume states.  A field that a board does not save is the same in all of its
\* states: fetched is page - 1 for those that count pages from 1.

FirstPage == IF This.jumps THEN offset \div PageSize + 1 ELSE 1

\* What the adapter takes an empty resume state for.  Naukri counts the listings
\* before its first page as seen.
InitialState ==
  LET passed == IF board = "naukri" THEN offset ELSE 0 IN
  [page |-> FirstPage, cursor |-> 0, fetched |-> 0, skipped |-> 0,
   skip |-> passed % PageSize, raw |-> passed]

\* The page a request made in state st asks for.
RequestedIn(st) ==
  IF This.asks = "number" THEN st.page
  ELSE IF st.cursor = 0 THEN 1 ELSE st.cursor
Requested == RequestedIn(now)

\* The listings the loop over a page is about, and their index there.
Counted(k) == This.drops => IsReadable(listing[k])
ItemsOf(p) == {k \in Listed(p) : Counted(k)}
Items == ItemsOf(Requested)
Index(k) == Cardinality({i \in Items : i <= k})

\* The index, over all pages, of the first of them, as state st has it.
FirstIn(st) ==
  CASE This.offset = "page"    -> (st.page - 1) * PageSize
    [] This.offset = "raw"     -> st.raw
    [] This.offset = "resumed" -> IF st.raw > st.skip THEN st.raw - st.skip ELSE 0
    [] OTHER                   -> 0
First == FirstIn(now)

\* A job restarts its page; three boards note the listing, too.
\* Mutant: the listing is noted one too low.
JobStateMutantOffByOne(k) ==
  IF This.offset = "resumed"
  THEN [now EXCEPT !.skip = Index(k) - 1, !.raw = First + Index(k)] ELSE now

\* Mutant: a job restarts the next page.
JobStateMutantNextPage(k) == [now EXCEPT !.page = @ + 1]

JobState(k) ==
  IF This.offset = "resumed"
  THEN [now EXCEPT !.skip = Index(k), !.raw = First + Index(k)] ELSE now

RawAfter ==
  IF This.offset = "resumed" THEN First + Cardinality(Items)
  ELSE now.raw + Cardinality(Listed(Requested))

\* The state the progress event of the page carries.
NextState ==
  [page |-> now.page + 1,
   cursor |-> IF This.asks = "number" THEN 0 ELSE TokenAfter(Requested),
   fetched |-> now.fetched + 1, skipped |-> skipped, skip |-> 0, raw |-> RawAfter]

-------------------------------------------------------------------------------
\* Messages and the context.

Message(type, state, job) == [type |-> type, state |-> state, job |-> job]
Report(type) == Message(type, context, NoJob)

Put(m) == Len(outbox) < QueueSize /\ outbox' = Append(outbox, m)

Limited(S) == Cardinality(S) >= ResultsWanted
LimitReached == Limited(seen)

\* ProviderProgress refuses to report more jobs than listings.
CountsValid(state) == Cardinality(seen) <= state.raw

-------------------------------------------------------------------------------
\* scrape().

\* The condition of the loop.
MayAsk ==
  /\ ~LimitReached
  /\ now.fetched < MaxPages
  /\ board \in {"linkedin", "glassdoor"} => now.page <= PageCap
  /\ This.asks = "continuation" /\ now.page > 1 => now.cursor # 0

\* Mutant: a full page is the last one, too.
EndsAfterMutantFullPage ==
  \/ "no token" \in This.ends /\ TokenAfter(Requested) = 0
  \/ "nothing" \in This.ends /\ Items = {}
  \/ "short" \in This.ends /\ Cardinality(Items) <= PageSize

\* The page is the last one.
EndsAfter ==
  \/ "no token" \in This.ends /\ TokenAfter(Requested) = 0
  \/ "nothing" \in This.ends /\ Items = {}
  \/ "short" \in This.ends /\ Cardinality(Items) < PageSize

\* The page is not even reported.
EndsBefore == "empty" \in This.ends /\ Items = {}

FetchPage ==
  /\ place = "asking" /\ MayAsk /\ ~EndsBefore
  /\ place' = "reading"
  /\ IF This.offset = "all"
     THEN /\ todo' = {k \in Items : skipped + Index(k) > offset}
          /\ skipped' = Smaller(skipped + Cardinality(Items), offset)
     ELSE /\ todo' = Items
          /\ UNCHANGED skipped
  /\ UNCHANGED <<searchVars, now, contextVars, streamVars>>

\* The request fails: the worker warns, and another attempt starts from the
\* state of the context; or the site has failed.
FetchFails ==
  /\ place = "asking" /\ MayAsk
  /\ \/ /\ now' = context /\ skipped' = context.skipped
        /\ Put(Report("WARNING")) /\ UNCHANGED place
     \/ /\ Put(Report("ERROR")) /\ place' = "ended"
        /\ UNCHANGED <<now, skipped>>
  /\ UNCHANGED <<searchVars, todo, contextVars, checkpoint, restarts>>

\* Mutant: takes the index to begin with one.
ExcludedMutantFromOne(k) ==
  CASE This.offset = "unseen" -> listing[k] \notin seen /\ skipped < offset
    [] This.offset = "all"    -> FALSE
    [] OTHER                  -> First + Index(k) < offset

\* The offset excludes listing k of the page.
Excluded(k) ==
  CASE This.offset = "unseen" -> listing[k] \notin seen /\ skipped < offset
    [] This.offset = "all"    -> FALSE
    [] OTHER                  -> First + Index(k) - 1 < offset

\* Listing k is the next one the loop handles.
Handles(k) ==
  /\ place = "reading" /\ ~LimitReached
  /\ k \in todo /\ (This.pool \/ \A i \in todo : k <= i)
  /\ todo' = todo \ {k}

SkipExcluded(k) ==
  /\ Handles(k) /\ Excluded(k)
  /\ IsReadable(listing[k]) \/ ~This.reads
  /\ skipped' = IF This.offset = "unseen" THEN skipped + 1 ELSE skipped
  /\ UNCHANGED <<searchVars, place, now, contextVars, streamVars>>

\* Some cost a warning, and some nothing at all.
SkipUnreadable(k) ==
  /\ Handles(k) /\ ~IsReadable(listing[k])
  /\ Excluded(k) => This.reads
  /\ Put(Report("WARNING")) \/ UNCHANGED outbox
  /\ UNCHANGED <<searchVars, place, now, skipped, contextVars, checkpoint, restarts>>

SkipSeen(k) ==
  /\ Handles(k) /\ IsReadable(listing[k]) /\ ~Excluded(k)
  /\ listing[k] \in seen
  /\ UNCHANGED <<searchVars, place, now, skipped, contextVars, streamVars>>

\* emit_job: the state of the context becomes the state of the job.
EmitJob(k) ==
  /\ Handles(k) /\ IsReadable(listing[k]) /\ ~Excluded(k)
  /\ listing[k] \notin seen
  /\ seen' = seen \cup {listing[k]}
  /\ context' = JobState(k)
  /\ Put(Message("JOB", JobState(k), listing[k]))
  /\ UNCHANGED <<searchVars, place, now, skipped, checkpoint, restarts>>

\* emit_progress: the state of the context becomes that of the next page, and
\* only then the counts are validated.  If they are refused, the ValueError is
\* not retried: the site has failed, or is complete with the limit reached.
ReportPage ==
  /\ place = "reading" /\ (todo = {} \/ LimitReached)
  /\ context' = NextState
  /\ todo' = {}
  /\ IF CountsValid(NextState)
     THEN /\ Put(Message("PROGRESS", NextState, NoJob))
          /\ now' = NextState
          /\ place' = IF EndsAfter THEN "returned" ELSE "asking"
     ELSE /\ Put(Message(IF LimitReached THEN "SITE_COMPLETE" ELSE "ERROR", NextState, NoJob))
          /\ place' = "ended"
          /\ UNCHANGED now
  /\ UNCHANGED <<searchVars, skipped, seen, checkpoint, restarts>>

\* scrape() returns, and the worker reports the site complete.
ScrapeReturns ==
  /\ place = "returned" \/ (place = "asking" /\ (~MayAsk \/ EndsBefore))
  /\ Put(Report("SITE_COMPLETE"))
  /\ place' = "ended"
  /\ UNCHANGED <<searchVars, now, skipped, todo, contextVars, checkpoint, restarts>>

-------------------------------------------------------------------------------
\* The stream.

Acknowledge ==
  /\ outbox # <<>>
  /\ LET m == Head(outbox) IN
     checkpoint' = [state |-> m.state, seen |-> checkpoint.seen \cup ({m.job} \ {NoJob}),
                    completed |-> m.type = "SITE_COMPLETE"]
  /\ outbox' = Tail(outbox)
  /\ UNCHANGED <<searchVars, localVars, contextVars, restarts>>

\* The run is interrupted, and the next one begins at the checkpoint.
Resume ==
  /\ restarts < MaxRestarts
  /\ restarts' = restarts + 1
  /\ listing' \in IF Turnover THEN Listings ELSE {listing}
  /\ place' = IF checkpoint.completed THEN "ended" ELSE "asking"
  /\ now' = checkpoint.state /\ skipped' = checkpoint.state.skipped
  /\ todo' = {}
  /\ context' = checkpoint.state /\ seen' = checkpoint.seen
  /\ outbox' = <<>>
  /\ UNCHANGED <<board, offset, checkpoint>>

Init ==
  /\ board \in Board /\ offset \in Offsets /\ listing \in Listings
  /\ place = "asking"
  /\ now = InitialState /\ skipped = 0 /\ todo = {}
  /\ context = InitialState /\ seen = {}
  /\ outbox = <<>>
  /\ checkpoint = [state |-> InitialState, seen |-> {}, completed |-> FALSE]
  /\ restarts = 0

\* The search has ended and everything is acknowledged.
Stay == place = "ended" /\ outbox = <<>> /\ UNCHANGED vars

Next ==
  \/ FetchPage \/ FetchFails
  \/ \E k \in todo : SkipExcluded(k) \/ SkipUnreadable(k) \/ SkipSeen(k) \/ EmitJob(k)
  \/ ReportPage \/ ScrapeReturns
  \/ Acknowledge \/ Resume \/ Stay

Spec == Init /\ [][Next]_vars

-------------------------------------------------------------------------------
\* Properties.

\* There is a page p.
IsPage(p) == PageStart(p) < Len(listing)

\* How many listings the board counts among the first k.
Rank(k) == Cardinality({i \in DOMAIN listing : i <= k /\ Counted(i)})

\* The jobs on page p that the request is about: readable and not excluded by
\* the offset.
EligibleOn(p) == {listing[k] : k \in {i \in ItemsOf(p) : Rank(i) > offset}} \ {Bad}

Budget ==
  {p \in FirstPage..(FirstPage + MaxPages - 1) :
     IsPage(p) /\ (board \in {"linkedin", "glassdoor"} => p <= PageCap)}

Eligible == UNION {EligibleOn(p) : p \in Budget}

\* Wherever a page was interrupted, its listings have the same indices when it
\* is read again: the listings on the pages before it, counted once.
PositionsAgree ==
  place = "reading" /\ This.offset \in {"raw", "resumed"}
    => First = Rank(PageStart(Requested))

\* What is acknowledged before the checkpoint's page is complete: an interrupted
\* page is walked again, and no page is left behind that still has jobs.
NothingBehind ==
  Limited(checkpoint.seen) \/
  \A p \in Budget : p < checkpoint.state.page => EligibleOn(p) \subseteq checkpoint.seen

\* README: SiteCompleteEvent means "one site exhausted its work or reached its
\* result limit".
CompleteIsExhausted ==
  checkpoint.completed => Limited(checkpoint.seen) \/ Eligible \subseteq checkpoint.seen

\* A search that goes on by tokens was interrupted behind its last page.
BehindTheEnd == This.asks = "token" /\ ~IsPage(context.page)

\* However often the search is interrupted, no job is delivered that the offset
\* excludes; until it is resumed behind the last page, see OffsetApplied.
OffsetHonoured == BehindTheEnd \/ seen \subseteq Eligible

\* README: a search filter, which the offset is for all boards, is one "the
\* source genuinely applies".
OffsetApplied == seen \subseteq Eligible

\* README: "Page and cursor state advances only after the corresponding progress
\* event is acknowledged."
PageFollowsProgress ==
  [][checkpoint'.state.page # checkpoint.state.page => Head(outbox).type = "PROGRESS"]_vars
===============================================================================

-------------------------- MODULE AdapterPagingProofs --------------------------
(***************************************************************************)
(* What holds of the pages of every provider, however they are divided,    *)
(* whatever the offset, the limit and the budget, wherever a search is     *)
(* interrupted and whichever requests fail: AdapterPaging proved.          *)
(*                                                                         *)
(* A state that a search can be resumed from is good for the set of keys   *)
(* seen when it is saved: it names the page to ask for, it counts the      *)
(* listings before this page once, no job on a page before it is missing   *)
(* from the set, and the set holds nothing the offset excludes.  The       *)
(* invariant says so of the checkpoint, of every message that waits to be  *)
(* acknowledged with the keys it would leave in the checkpoint, and of the *)
(* context; and it says of a page being read what its loop has done.  A    *)
(* step on the way needs all of it: an interruption at any point goes back *)
(* to one of these states.                                                 *)
(***************************************************************************)
EXTENDS AdapterPaging, FiniteSetTheorems, TLAPS

-------------------------------------------------------------------------------
\* Types.

States == [page : Nat \ {0}, cursor : Nat, fetched : Nat, skipped : Nat, skip : Nat, raw : Nat]
Messages == [type : {"JOB", "PROGRESS", "WARNING", "ERROR", "SITE_COMPLETE"},
             state : States, job : Job \cup {NoJob}]

TypeInv ==
  /\ board \in Board /\ offset \in Offsets /\ listing \in Listings
  /\ place \in {"asking", "reading", "returned", "ended"}
  /\ now \in States /\ skipped \in Nat /\ todo \in SUBSET (DOMAIN listing)
  /\ context \in States /\ seen \in SUBSET Job
  /\ outbox \in Seq(Messages)
  /\ checkpoint \in [state : States, seen : SUBSET Job, completed : BOOLEAN]
  /\ restarts \in Nat

-------------------------------------------------------------------------------
\* What is true of a state, and of the keys S that are seen when it is saved.

\* The pages are turned one by one, and the token is that of the page.
Turned(st) ==
  /\ st.page >= FirstPage /\ st.fetched = st.page - FirstPage
  /\ This.asks = "token" /\ IsPage(st.page) => RequestedIn(st) = st.page
  /\ This.asks = "continuation"
       => st.cursor = (IF st.page > 1 /\ IsPage(st.page) THEN st.page ELSE 0)

\* The listings before the page of the state are counted once.
Positioned(st) ==
  /\ This.offset \in {"raw", "resumed"} /\ PageStart(st.page) <= Len(listing)
       => FirstIn(st) = Rank(PageStart(st.page))
  /\ This.offset = "all" /\ IsPage(st.page)
       => st.skipped = Smaller(offset, Rank(PageStart(st.page)))
  /\ This.offset = "unseen" /\ IsPage(st.page) => st.skipped <= Rank(PageStart(st.page))

\* A board that counts what it has not seen counts right if no page lists a job
\* twice.
Distinct == This.offset = "unseen" => NoRepeats(listing)

Exact(st, S) ==
  This.offset = "unseen" /\ IsPage(st.page) =>
    /\ st.skipped = Smaller(offset, Rank(PageStart(st.page)))
    /\ st.skipped < offset => S \subseteq EligibleOn(st.page)

\* No job is left on the pages before.
Behind(st, S) == \A p \in Budget : p < st.page => EligibleOn(p) \subseteq S

\* None is there that the offset excludes.
Within(st, S) == S \subseteq Eligible \/ (This.asks = "token" /\ ~IsPage(st.page))

Good(st, S) ==
  /\ Turned(st) /\ Within(st, S)
  /\ Limited(S) \/ (Positioned(st) /\ (Distinct => Exact(st, S) /\ Behind(st, S)))

\* Everything is found, if pages can be read.
Readable == This.drops => Legible(listing)
Done(S) == Distinct /\ Readable => Limited(S) \/ Eligible \subseteq S

-------------------------------------------------------------------------------
\* The inductive invariant.

\* The keys the application has once it acknowledges the first i messages.
Sent(i) == checkpoint.seen \cup ({outbox[k].job : k \in 1..i} \ {NoJob})

SavedInv ==
  /\ Good(checkpoint.state, checkpoint.seen)
  /\ checkpoint.completed => Done(checkpoint.seen)

OutboxInv ==
  \A i \in 1..Len(outbox) : /\ Good(outbox[i].state, Sent(i))
                            /\ outbox[i].type = "SITE_COMPLETE" => Done(Sent(i))

ContextInv == seen = Sent(Len(outbox)) /\ Good(context, seen)

\* The page being read is the page of the state, unless a token was lost.
OnPage == This.asks = "token" => IsPage(now.page)

\* What is dealt with, and what of it had to be delivered.
Handled == Items \ todo
HandledInv == \A k \in Handled : IsReadable(listing[k]) /\ Rank(k) > offset => listing[k] \in seen

\* The loop that counts what it skips.
SkippedInv ==
  /\ This.offset = "all" => /\ skipped = Smaller(now.skipped + Cardinality(Items), offset)
                             /\ \A k \in todo : Rank(k) > offset
  /\ This.offset = "unseen" =>
       /\ \A i \in Handled : \A k \in todo : i < k
       /\ skipped <= Rank(PageStart(now.page)) + Cardinality(Handled)
       /\ Distinct /\ ~LimitReached
            => skipped = Smaller(offset, Rank(PageStart(now.page)) + Cardinality(Handled))

ReadingInv ==
  /\ Turned(now) /\ Positioned(now)
  /\ now.fetched < MaxPages /\ (board \in {"linkedin", "glassdoor"} => now.page <= PageCap)
  /\ ~EndsBefore /\ (This.asks = "continuation" => Requested = now.page)
  /\ context = [now EXCEPT !.skip = context.skip, !.raw = context.raw]
  /\ This.offset # "resumed" => context = now
  /\ todo \subseteq Items
  /\ OnPage => SkippedInv /\ (Distinct => HandledInv)

LocalInv ==
  /\ place = "asking" => now = context /\ skipped = now.skipped
  /\ place = "reading" => ReadingInv
  /\ place = "returned" => Done(seen)

PagingInv == TypeInv /\ SavedInv /\ OutboxInv /\ ContextInv /\ LocalInv
-------------------------------------------------------------------------------
\* Pages.

LEMMA Constants ==
  /\ PageSize \in Nat \ {0} /\ MaxPages \in Nat \ {0} /\ PageCap \in Nat \ {0}
  /\ ResultsWanted \in Nat \ {0} /\ Offsets \subseteq Nat /\ QueueSize \in Nat \ {0}
  /\ MaxRestarts \in Nat /\ Turnover \in BOOLEAN
  /\ IsFiniteSet(Job) /\ Bad \notin Job /\ NoJob \notin Job
BY RequestAssumption, ListingAssumption, BoundAssumption

LEMMA ListingType ==
  ASSUME listing \in Listings
  PROVE  /\ listing \in Seq(Job \cup {Bad}) /\ Len(listing) \in Nat
         /\ DOMAIN listing = 1..Len(listing)
         /\ \A k \in DOMAIN listing : listing[k] \in Job \cup {Bad}
BY ListingAssumption

LEMMA NextStart ==
  ASSUME NEW p \in Nat \ {0}
  PROVE  /\ PageStart(p) \in Nat /\ PageStart(p + 1) = p * PageSize
         /\ PageStart(p + 1) = PageStart(p) + PageSize
<1>1. PageSize \in Nat \ {0}
  BY Constants
<1>2. p * PageSize = (p - 1) * PageSize + PageSize
  BY <1>1
<1>3. (p - 1) * PageSize \in Nat
  BY <1>1
<1> QED
  BY <1>1, <1>2, <1>3 DEF PageStart

LEMMA StartsInOrder ==
  ASSUME NEW p \in Nat \ {0}, NEW q \in Nat \ {0}, p <= q
  PROVE  PageStart(p) <= PageStart(q)
<1>1. PageSize \in Nat \ {0} /\ q - p \in Nat
  BY Constants
<1>2. (q - p) * PageSize \in Nat
  BY <1>1
<1>3. (q - 1) * PageSize = (p - 1) * PageSize + (q - p) * PageSize
  BY <1>1
<1>4. (p - 1) * PageSize \in Nat /\ (q - 1) * PageSize \in Nat
  BY <1>1
<1> QED
  BY <1>2, <1>3, <1>4 DEF PageStart

LEMMA PositionsBetween ==
  ASSUME NEW a \in Nat, NEW b \in Nat, NEW n \in Nat, a <= b
  PROVE  /\ IsFiniteSet({k \in 1..n : a < k /\ k <= b})
         /\ Cardinality({k \in 1..n : a < k /\ k <= b}) \in Nat
         /\ {k \in 1..n : a < k /\ k <= b} # {} <=> a < b /\ a < n
         /\ b <= n => Cardinality({k \in 1..n : a < k /\ k <= b}) = b - a
<1> DEFINE S == {k \in 1..n : a < k /\ k <= b}
<1>1. IsFiniteSet(S)
  <2>1. IsFiniteSet(1..n) /\ S \in SUBSET (1..n)
    BY FS_Interval
  <2> QED
    BY <2>1, FS_Subset
<1>2. S # {} <=> a < b /\ a < n
  <2>1. ASSUME a < b, a < n PROVE a + 1 \in S
    BY <2>1
  <2>2. ASSUME NEW k \in S PROVE a < b /\ a < n
    OBVIOUS
  <2> QED
    BY <2>1, <2>2
<1>3. ASSUME b <= n PROVE Cardinality(S) = b - a
  <2>1. S = (a + 1)..b
    BY <1>3
  <2>2. Cardinality((a + 1)..b) = IF a + 1 > b THEN 0 ELSE b - (a + 1) + 1
    BY FS_Interval
  <2>3. (IF a + 1 > b THEN 0 ELSE b - (a + 1) + 1) = b - a
    OBVIOUS
  <2> QED
    BY <2>1, <2>2, <2>3, Zenon
<1> HIDE DEF S
<1>4. Cardinality(S) \in Nat
  BY <1>1, FS_CardinalityType
<1> QED
  BY <1>1, <1>2, <1>3, <1>4 DEF S

\* The listings of a page.
LEMMA ListedFacts ==
  ASSUME listing \in Listings, NEW p \in Nat \ {0}
  PROVE  /\ Listed(p) \in SUBSET (DOMAIN listing)
         /\ IsFiniteSet(Listed(p)) /\ Cardinality(Listed(p)) \in Nat
         /\ Listed(p) # {} <=> IsPage(p)
         /\ IsPage(p + 1) => Cardinality(Listed(p)) = PageSize
<1> DEFINE a == PageStart(p)
           b == PageStart(p + 1)
           n == Len(listing)
<1>1. /\ a \in Nat /\ b = a + PageSize /\ b = p * PageSize
      /\ PageSize \in Nat \ {0}
      /\ n \in Nat /\ DOMAIN listing = 1..n
  <2>1. a \in Nat /\ b = a + PageSize /\ b = p * PageSize
    BY NextStart
  <2> QED
    BY <2>1, ListingType, Constants
<1>2. Listed(p) = {k \in 1..n : a < k /\ k <= b}
  BY <1>1 DEF Listed, PageOf
<1>3. (IsPage(p) <=> a < n) /\ (IsPage(p + 1) <=> b < n)
  BY DEF IsPage
<1> HIDE DEF a, b, n
<1>4. b \in Nat /\ a < b /\ a <= b /\ b - a = PageSize
  BY <1>1
<1>5. /\ IsFiniteSet(Listed(p)) /\ Cardinality(Listed(p)) \in Nat
      /\ Listed(p) # {} <=> a < b /\ a < n
      /\ b <= n => Cardinality(Listed(p)) = b - a
  BY <1>1, <1>2, <1>4, PositionsBetween, Zenon
<1>6. Listed(p) \in SUBSET (DOMAIN listing)
  BY <1>1, <1>2
<1>7. b < n => b <= n
  BY <1>1, <1>4
<1> QED
  BY <1>3, <1>4, <1>5, <1>6, <1>7

LEMMA PagesInOrder ==
  ASSUME listing \in Listings, NEW p \in Nat \ {0}, NEW q \in Nat \ {0}, p <= q, IsPage(q)
  PROVE  IsPage(p)
<1>1. PageStart(p) <= PageStart(q) /\ PageStart(p) \in Nat /\ PageStart(q) \in Nat
      /\ Len(listing) \in Nat
  BY StartsInOrder, NextStart, ListingType
<1> QED
  BY <1>1 DEF IsPage

-------------------------------------------------------------------------------
\* Ranks.

LEMMA RankSplit ==
  ASSUME listing \in Listings, NEW a \in Int, NEW b \in Int, a <= b
  PROVE  /\ Rank(a) \in Nat /\ Rank(b) \in Nat
         /\ IsFiniteSet({i \in DOMAIN listing : a < i /\ i <= b /\ Counted(i)})
         /\ Rank(b) = Rank(a)
                      + Cardinality({i \in DOMAIN listing : a < i /\ i <= b /\ Counted(i)})
<1> DEFINE A == {i \in DOMAIN listing : i <= a /\ Counted(i)}
           B == {i \in DOMAIN listing : i <= b /\ Counted(i)}
           M == {i \in DOMAIN listing : a < i /\ i <= b /\ Counted(i)}
<1>1. IsFiniteSet(DOMAIN listing) /\ DOMAIN listing \subseteq Int
  BY ListingType, FS_Interval
<1>2. IsFiniteSet(A) /\ IsFiniteSet(M) /\ IsFiniteSet(B)
  <2>1. A \in SUBSET (DOMAIN listing) /\ M \in SUBSET (DOMAIN listing) /\ B \in SUBSET (DOMAIN listing)
    OBVIOUS
  <2> QED
    BY <1>1, <2>1, FS_Subset
<1>3. B = A \cup M /\ A \cap M = {}
  BY <1>1
<1> HIDE DEF A, B, M
<1>4. Cardinality(A) \in Nat /\ Cardinality(M) \in Nat /\ Cardinality(B) \in Nat
  BY <1>2, FS_CardinalityType
<1>5. Cardinality(B) = Cardinality(A) + Cardinality(M)
  <2>1. Cardinality(A \cup M) = Cardinality(A) + Cardinality(M) - Cardinality(A \cap M)
    BY <1>2, FS_Union
  <2>2. Cardinality(A \cap M) = 0
    BY <1>3, FS_EmptySet
  <2> QED
    BY <1>3, <1>4, <2>1, <2>2
<1>6. Rank(a) = Cardinality(A) /\ Rank(b) = Cardinality(B)
  BY DEF Rank, A, B
<1> QED
  BY <1>2, <1>4, <1>5, <1>6 DEF M

LEMMA RankOfPage ==
  ASSUME listing \in Listings, NEW p \in Nat \ {0}
  PROVE  /\ IsFiniteSet(ItemsOf(p)) /\ Cardinality(ItemsOf(p)) \in Nat
         /\ Rank(PageStart(p)) \in Nat
         /\ Rank(PageStart(p + 1)) = Rank(PageStart(p)) + Cardinality(ItemsOf(p))
<1>1. PageStart(p) \in Nat /\ PageStart(p + 1) \in Nat /\ PageStart(p) <= PageStart(p + 1)
      /\ PageStart(p + 1) = p * PageSize
  BY NextStart, Constants
<1>2. ItemsOf(p) = {i \in DOMAIN listing : PageStart(p) < i /\ i <= PageStart(p + 1) /\ Counted(i)}
  BY <1>1 DEF ItemsOf, Listed, PageOf
<1>3. /\ IsFiniteSet(ItemsOf(p)) /\ Rank(PageStart(p)) \in Nat
      /\ Rank(PageStart(p + 1)) = Rank(PageStart(p)) + Cardinality(ItemsOf(p))
  BY <1>1, <1>2, RankSplit
<1> QED
  BY <1>3, FS_CardinalityType

LEMMA RankOfItem ==
  ASSUME listing \in Listings, NEW p \in Nat \ {0}, NEW k \in ItemsOf(p)
  PROVE  /\ Cardinality({i \in ItemsOf(p) : i <= k}) \in Nat \ {0}
         /\ Rank(k) = Rank(PageStart(p)) + Cardinality({i \in ItemsOf(p) : i <= k})
         /\ Rank(k) <= Rank(PageStart(p + 1))
<1>1. PageStart(p) \in Nat /\ PageStart(p + 1) \in Nat /\ PageStart(p + 1) = p * PageSize
      /\ DOMAIN listing = 1..Len(listing)
  BY NextStart, ListingType
<1>2. k \in DOMAIN listing /\ PageStart(p) < k /\ k <= PageStart(p + 1)
  BY <1>1 DEF ItemsOf, Listed, PageOf
<1>3. k \in Int
  BY <1>1, <1>2
<1> DEFINE M == {i \in ItemsOf(p) : i <= k}
           L == {i \in DOMAIN listing : k < i /\ i <= PageStart(p + 1) /\ Counted(i)}
<1>4. M = {i \in DOMAIN listing : PageStart(p) < i /\ i <= k /\ Counted(i)}
  BY <1>1, <1>2, <1>3 DEF ItemsOf, Listed, PageOf
<1>5. PageStart(p) \in Int /\ PageStart(p + 1) \in Int /\ PageStart(p) <= k /\ k <= PageStart(p + 1)
  BY <1>1, <1>2, <1>3
<1>6. /\ Rank(PageStart(p)) \in Nat /\ Rank(k) \in Nat /\ IsFiniteSet(M)
      /\ Rank(k) = Rank(PageStart(p)) + Cardinality(M)
  BY <1>3, <1>4, <1>5, RankSplit
<1>7. /\ Rank(PageStart(p + 1)) \in Nat /\ IsFiniteSet(L)
      /\ Rank(PageStart(p + 1)) = Rank(k) + Cardinality(L)
  BY <1>3, <1>5, RankSplit
<1>8. M # {}
  BY <1>3
<1> HIDE DEF M, L
<1>9. Cardinality(M) \in Nat \ {0} /\ Cardinality(L) \in Nat
  BY <1>6, <1>7, <1>8, FS_CardinalityType, FS_EmptySet
<1> QED
  BY <1>6, <1>7, <1>9 DEF M

\* A board that drops nothing ranks a listing by its position.
LEMMA RankIsPosition ==
  ASSUME listing \in Listings, ~This.drops, NEW k \in Nat, k <= Len(listing)
  PROVE  Rank(k) = k
<1>1. {i \in DOMAIN listing : i <= k /\ Counted(i)} = 1..k
  BY ListingType DEF Counted
<1>2. Cardinality(1..k) = IF 1 > k THEN 0 ELSE k - 1 + 1
  BY FS_Interval
<1> QED
  BY <1>1, <1>2 DEF Rank

LEMMA Division ==
  ASSUME NEW o \in Nat, NEW n \in Nat \ {0}, NEW q, NEW r, q = o \div n, r = o % n
  PROVE  q \in Nat /\ r \in Nat /\ r <= o /\ o - r = q * n
<1>1. o \div n \in Nat
  OBVIOUS
<1>2. o % n \in 0..(n - 1)
  OBVIOUS
<1>3. o = n * (o \div n) + (o % n)
  OBVIOUS
<1>4. o % n <= o
  OBVIOUS
<1>5. q \in Nat /\ r \in Nat /\ o = n * q + r /\ r <= o
  BY <1>1, <1>2, <1>3, <1>4
<1>6. o - r = q * n
  BY <1>5
<1> QED
  BY <1>5, <1>6

LEMMA FirstPageFacts ==
  ASSUME offset \in Nat, NEW r, r = offset % PageSize
  PROVE  /\ FirstPage \in Nat \ {0}
         /\ This.jumps => offset - r = PageStart(FirstPage)
         /\ r \in Nat /\ r <= offset
<1> DEFINE q == offset \div PageSize
<1>1. FirstPage = IF This.jumps THEN q + 1 ELSE 1
  BY DEF FirstPage
<1>2. q \in Nat /\ r \in Nat /\ r <= offset /\ offset - r = q * PageSize
  <2>1. PageSize \in Nat \ {0}
    BY Constants
  <2> QED
    BY <2>1, Division
<1> HIDE DEF q
<1>3. FirstPage \in Nat \ {0} /\ (This.jumps => FirstPage - 1 = q)
  BY <1>1, <1>2
<1>4. This.jumps => PageStart(FirstPage) = q * PageSize
  BY <1>3 DEF PageStart
<1> QED
  BY <1>2, <1>3, <1>4
-------------------------------------------------------------------------------
\* Boards.

LEMMA ProfileFacts ==
  ASSUME board \in Board
  PROVE  /\ This.asks \in {"number", "token", "continuation"}
         /\ This.offset \in {"unseen", "all", "page", "raw", "resumed"}
         /\ This.asks = "token" <=> This.offset \in {"unseen", "all"}
         /\ This.asks = "continuation" => This.offset = "resumed" /\ "empty" \notin This.ends
         /\ This.drops => This.asks # "number"
         /\ This.drops => This.ends \in {{"empty", "no token"}, {"nothing", "no token"}}
         /\ This.reads => This.offset = "resumed"
         /\ This.offset = "unseen" => This.drops /\ ~This.pool
         /\ This.offset \in {"all", "page", "raw"} => ~This.drops
         /\ This.jumps => This.asks = "number" /\ This.offset \in {"page", "resumed"}
         /\ This.jumps /\ This.offset = "resumed" <=> board = "naukri"
         /\ "short" \in This.ends => This.asks = "number"
         /\ board \in {"linkedin", "glassdoor"} => This.asks = "number"
         /\ This.offset = "unseen" => board = "indeed"
         /\ This.drops => board \in {"indeed", "google"}
         /\ This.offset \in {"raw", "resumed"} /\ This.asks # "continuation" => "empty" \in This.ends
<1>1. board \in {"indeed", "zip_recruiter", "linkedin", "glassdoor", "google", "bayt", "naukri",
                 "bdjobs"}
  BY BoardAssumption DEF Profiles
<1>2. This = Profiles[board]
  BY DEF This
<1>3. CASE board = "indeed"
  <2>1. This = Indeed
    BY <1>2, <1>3 DEF Profiles
  <2> QED
    BY <1>3, <2>1 DEF Indeed, Profile
<1>4. CASE board = "zip_recruiter"
  <2>1. This = ZipRecruiter
    BY <1>2, <1>4 DEF Profiles
  <2> QED
    BY <1>4, <2>1 DEF ZipRecruiter, Profile
<1>5. CASE board = "linkedin"
  <2>1. This = LinkedIn
    BY <1>2, <1>5 DEF Profiles
  <2> QED
    BY <1>5, <2>1 DEF LinkedIn, Profile
<1>6. CASE board = "glassdoor"
  <2>1. This = Glassdoor
    BY <1>2, <1>6 DEF Profiles
  <2> QED
    BY <1>6, <2>1 DEF Glassdoor, Profile
<1>7. CASE board = "google"
  <2>1. This = Google
    BY <1>2, <1>7 DEF Profiles
  <2> QED
    BY <1>7, <2>1 DEF Google, Profile
<1>8. CASE board = "bayt"
  <2>1. This = Bayt
    BY <1>2, <1>8 DEF Profiles
  <2> QED
    BY <1>8, <2>1 DEF Bayt, Profile
<1>9. CASE board = "naukri"
  <2>1. This = Naukri
    BY <1>2, <1>9 DEF Profiles
  <2> QED
    BY <1>9, <2>1 DEF Naukri, Profile
<1>10. CASE board = "bdjobs"
  <2>1. This = BDJobs
    BY <1>2, <1>10 DEF Profiles
  <2> QED
    BY <1>10, <2>1 DEF BDJobs, Profile
<1> QED
  BY <1>1, <1>3, <1>4, <1>5, <1>6, <1>7, <1>8, <1>9, <1>10

-------------------------------------------------------------------------------
\* Types.

LEMMA SearchType ==
  ASSUME TypeInv
  PROVE  /\ offset \in Nat /\ board \in Board /\ listing \in Listings
         /\ Requested \in Nat \ {0} /\ First \in Nat
         /\ IsFiniteSet(Items) /\ Cardinality(Items) \in Nat
         /\ IsFiniteSet(Listed(Requested)) /\ Cardinality(Listed(Requested)) \in Nat
         /\ Items \subseteq DOMAIN listing
         /\ \A k \in Int : Index(k) \in Nat
         /\ \A k \in Items : Index(k) \in Nat \ {0}
<1>1. offset \in Nat /\ board \in Board /\ listing \in Listings
  BY Constants DEF TypeInv
<1>2. Requested \in Nat \ {0}
  BY DEF TypeInv, States, Requested, RequestedIn
<1>3. First \in Nat
  <2>1. now.page \in Nat \ {0} /\ now.raw \in Nat /\ now.skip \in Nat
    BY DEF TypeInv, States
  <2>2. (now.page - 1) * PageSize \in Nat
    BY <2>1, NextStart DEF PageStart
  <2> QED
    BY <2>1, <2>2 DEF First, FirstIn
<1>4. Items \subseteq DOMAIN listing
  BY DEF Items, ItemsOf, Listed, PageOf
<1>5. \A k \in Items : Index(k) \in Nat \ {0}
  BY <1>1, <1>2, RankOfItem DEF Index, Items
<1>6. IsFiniteSet(Items)
  BY <1>1, <1>2, RankOfPage DEF Items
<1>7. \A k \in Int : Index(k) \in Nat
  <2> SUFFICES ASSUME NEW k \in Int PROVE Index(k) \in Nat
    OBVIOUS
  <2>1. {i \in Items : i <= k} \in SUBSET Items
    OBVIOUS
  <2> QED
    BY <1>6, <2>1, FS_Subset, FS_CardinalityType DEF Index
<1> QED
  BY <1>1, <1>2, <1>3, <1>4, <1>5, <1>7, RankOfPage, ListedFacts DEF Items

LEMMA NewStates ==
  ASSUME TypeInv
  PROVE  NextState \in States /\ \A k \in Int : JobState(k) \in States
<1>1. now \in States /\ skipped \in Nat
  BY DEF TypeInv
<1>2. TokenAfter(Requested) \in Nat
  <2>1. Requested \in Nat \ {0}
    BY SearchType
  <2> QED
    BY <2>1 DEF TokenAfter
<1>3. RawAfter \in Nat
  BY <1>1, SearchType DEF RawAfter, States
<1>4. NextState \in States
  BY <1>1, <1>2, <1>3 DEF NextState, States
<1>5. \A k \in Int : JobState(k) \in States
  <2> SUFFICES ASSUME NEW k \in Int PROVE JobState(k) \in States
    OBVIOUS
  <2>1. Index(k) \in Nat /\ First + Index(k) \in Nat
    BY SearchType
  <2> DEFINE n == Index(k)
             r == First + Index(k)
  <2>2. [now EXCEPT !.skip = n, !.raw = r] \in States
    <3> HIDE DEF n, r
    <3> QED
      BY <1>1, <2>1 DEF States, n, r
  <2> QED
    BY <1>1, <2>2 DEF JobState
<1> QED
  BY <1>4, <1>5

LEMMA InitialType == TypeInv \/ offset \in Nat => InitialState \in States
<1> SUFFICES ASSUME offset \in Nat PROVE InitialState \in States
  BY SearchType
<1>1. FirstPage \in Nat \ {0}
  BY FirstPageFacts
<1> DEFINE passed == IF board = "naukri" THEN offset ELSE 0
<1>2. passed \in Nat
  OBVIOUS
<1> HIDE DEF passed
<1>3. passed % PageSize \in Nat
  BY <1>2, Constants, Division
<1>4. InitialState = [page |-> FirstPage, cursor |-> 0, fetched |-> 0, skipped |-> 0,
                      skip |-> passed % PageSize, raw |-> passed]
  BY DEF InitialState, passed
<1> QED
  BY <1>1, <1>2, <1>3, <1>4 DEF States

LEMMA PutType ==
  ASSUME outbox \in Seq(Messages), NEW m \in Messages, Put(m)
  PROVE  outbox' \in Seq(Messages)
BY DEF Put

LEMMA TypeInit == Init => TypeInv
<1> SUFFICES ASSUME Init PROVE TypeInv
  OBVIOUS
<1>1. offset \in Nat
  BY Constants DEF Init
<1>2. InitialState \in States
  BY <1>1, InitialType
<1> QED
  BY <1>1, <1>2 DEF Init, TypeInv

LEMMA TypeStep == TypeInv /\ [Next]_vars => TypeInv'
<1> SUFFICES ASSUME TypeInv, [Next]_vars PROVE TypeInv'
  OBVIOUS
<1> USE DEF TypeInv, searchVars, localVars, contextVars, streamVars, vars
<1>1. ASSUME NEW type \in {"WARNING", "ERROR", "SITE_COMPLETE"}
      PROVE  Report(type) \in Messages
  BY <1>1 DEF Report, Message, Messages
<1>2. CASE UNCHANGED vars
  BY <1>2
<1>3. CASE FetchPage
  <2>1. \A k \in Items : Index(k) \in Nat
    BY SearchType
  <2>2. skipped' \in Nat
    <3>1. Cardinality(Items) \in Nat /\ offset \in Nat
      BY SearchType
    <3>2. Smaller(skipped + Cardinality(Items), offset) \in Nat
      BY <3>1 DEF Smaller
    <3> QED
      BY <1>3, <3>2 DEF FetchPage
  <2>3. todo' \in SUBSET (DOMAIN listing)
    BY <1>3, SearchType DEF FetchPage
  <2> QED
    BY <1>3, <2>2, <2>3 DEF FetchPage
<1>4. CASE FetchFails
  <2>1. outbox' \in Seq(Messages)
    BY <1>1, <1>4, PutType DEF FetchFails
  <2> QED
    BY <1>4, <2>1 DEF FetchFails, States
<1>5. ASSUME NEW k \in todo, SkipExcluded(k) PROVE TypeInv'
  BY <1>5 DEF SkipExcluded, Handles
<1>6. ASSUME NEW k \in todo, SkipUnreadable(k) PROVE TypeInv'
  <2>1. outbox' \in Seq(Messages)
    BY <1>1, <1>6, PutType DEF SkipUnreadable
  <2> QED
    BY <1>6, <2>1 DEF SkipUnreadable, Handles
<1>7. ASSUME NEW k \in todo, SkipSeen(k) PROVE TypeInv'
  BY <1>7 DEF SkipSeen, Handles
<1>8. ASSUME NEW k \in todo, EmitJob(k) PROVE TypeInv'
  <2>1. listing[k] \in Job
    BY <1>8, ListingType DEF EmitJob, IsReadable
  <2>2. JobState(k) \in States
    BY NewStates, ListingType
  <2>3. Message("JOB", JobState(k), listing[k]) \in Messages
    BY <2>1, <2>2 DEF Message, Messages
  <2>4. outbox' \in Seq(Messages)
    BY <1>8, <2>3, PutType DEF EmitJob
  <2> QED
    BY <1>8, <2>1, <2>2, <2>4 DEF EmitJob, Handles
<1>9. CASE ReportPage
  <2>1. NextState \in States
    BY NewStates
  <2>2. outbox' \in Seq(Messages)
    <3>1. \A type \in {"PROGRESS", "ERROR", "SITE_COMPLETE"} : Message(type, NextState, NoJob) \in Messages
      BY <2>1 DEF Message, Messages
    <3> QED
      BY <1>9, <3>1, PutType DEF ReportPage
  <2> QED
    BY <1>9, <2>1, <2>2 DEF ReportPage
<1>10. CASE ScrapeReturns
  <2>1. outbox' \in Seq(Messages)
    BY <1>1, <1>10, PutType DEF ScrapeReturns
  <2> QED
    BY <1>10, <2>1 DEF ScrapeReturns
<1>11. CASE Acknowledge
  <2>1. Head(outbox) \in Messages /\ outbox' \in Seq(Messages)
    BY <1>11 DEF Acknowledge
  <2>2. checkpoint' \in [state : States, seen : SUBSET Job, completed : BOOLEAN]
    BY <1>11, <2>1 DEF Acknowledge, Messages
  <2> QED
    BY <1>11, <2>1, <2>2 DEF Acknowledge
<1>12. CASE Resume
  <2>1. listing' \in Listings /\ todo' \in SUBSET (DOMAIN listing')
    BY <1>12 DEF Resume
  <2>2. checkpoint.state \in States /\ checkpoint.state.skipped \in Nat /\ checkpoint.seen \in SUBSET Job
    BY DEF States
  <2>3. place' \in {"asking", "ended"} /\ outbox' = <<>> /\ restarts' \in Nat
        /\ now' = checkpoint.state /\ context' = checkpoint.state /\ seen' = checkpoint.seen
        /\ skipped' = checkpoint.state.skipped
        /\ UNCHANGED <<board, offset, checkpoint>>
    BY <1>12 DEF Resume
  <2> QED
    BY <2>1, <2>2, <2>3
<1>13. CASE Stay
  BY <1>13 DEF Stay
<1> QED
  BY <1>2, <1>3, <1>4, <1>5, <1>6, <1>7, <1>8, <1>9, <1>10, <1>11, <1>12, <1>13 DEF Next
-------------------------------------------------------------------------------
\* Being on a page.

\* A request made on a page of the provider gets this page.
LEMMA Asked ==
  ASSUME TypeInv, Turned(now), OnPage, This.asks = "continuation" => Requested = now.page
  PROVE  Requested = now.page
<1>1. This.asks = "token" => Requested = now.page
  BY DEF Turned, OnPage, Requested
<1>2. This.asks = "number" => Requested = now.page
  BY DEF Requested, RequestedIn
<1> QED
  BY <1>1, <1>2, ProfileFacts DEF TypeInv

LEMMA NowType ==
  ASSUME TypeInv
  PROVE  now.page \in Nat \ {0} /\ now.fetched \in Nat /\ now.skipped \in Nat /\ now.raw \in Nat
         /\ now.skip \in Nat /\ now.cursor \in Nat /\ context.page \in Nat \ {0}
         /\ PageStart(now.page) \in Nat /\ Len(listing) \in Nat
<1>1. now.page \in Nat \ {0} /\ now.fetched \in Nat /\ now.skipped \in Nat /\ now.raw \in Nat
      /\ now.skip \in Nat /\ now.cursor \in Nat /\ context.page \in Nat \ {0}
  BY DEF TypeInv, States
<1> QED
  BY <1>1, NextStart, ListingType DEF TypeInv

\* The listings of the page, and what First is for them.
LEMMA OnItem ==
  ASSUME TypeInv, Turned(now), Positioned(now), OnPage,
         This.asks = "continuation" => Requested = now.page, NEW k \in Items
  PROVE  /\ Requested = now.page /\ Items = ItemsOf(now.page) /\ IsPage(now.page)
         /\ Rank(PageStart(now.page)) \in Nat /\ Index(k) \in Nat \ {0}
         /\ Rank(k) = Rank(PageStart(now.page)) + Index(k)
         /\ This.offset \in {"page", "raw", "resumed"} => First = Rank(PageStart(now.page))
<1>1. Requested = now.page /\ Items = ItemsOf(now.page)
  BY Asked DEF Items
<1>2. listing \in Listings /\ now.page \in Nat \ {0} /\ board \in Board
  BY NowType DEF TypeInv
<1>3. IsPage(now.page)
  <2>1. k \in Listed(now.page)
    BY <1>1 DEF ItemsOf
  <2> QED
    BY <1>2, <2>1, ListedFacts
<1>4. PageStart(now.page) \in Nat /\ Len(listing) \in Nat /\ PageStart(now.page) < Len(listing)
  BY <1>3, NowType DEF IsPage
<1>5. /\ Cardinality({i \in ItemsOf(now.page) : i <= k}) \in Nat \ {0}
      /\ Rank(k) = Rank(PageStart(now.page)) + Cardinality({i \in ItemsOf(now.page) : i <= k})
      /\ Rank(PageStart(now.page)) \in Nat
  <2>1. k \in ItemsOf(now.page)
    BY <1>1
  <2> QED
    BY <1>2, <2>1, RankOfItem, RankOfPage
<1>6. ASSUME This.offset = "page" PROVE First = Rank(PageStart(now.page))
  <2>1. ~This.drops
    BY <1>2, <1>6, ProfileFacts
  <2>2. Rank(PageStart(now.page)) = PageStart(now.page)
    BY <1>2, <1>4, <2>1, RankIsPosition
  <2> QED
    BY <1>6, <2>2 DEF First, FirstIn, PageStart
<1>7. ASSUME This.offset \in {"raw", "resumed"} PROVE First = Rank(PageStart(now.page))
  BY <1>4, <1>7 DEF Positioned, First
<1> QED
  BY <1>1, <1>3, <1>5, <1>6, <1>7 DEF Index

\* The page is one that the request is about.
LEMMA InBudget ==
  ASSUME TypeInv, ReadingInv, IsPage(now.page)
  PROVE  now.page \in Budget
<1>1. FirstPage \in Nat \ {0} /\ now.page \in Nat \ {0} /\ MaxPages \in Nat
  BY SearchType, FirstPageFacts, NowType, Constants
<1>2. now.page >= FirstPage /\ now.page - FirstPage < MaxPages
  BY DEF ReadingInv, Turned
<1>3. now.page \in FirstPage..(FirstPage + MaxPages - 1)
  BY <1>1, <1>2
<1> QED
  BY <1>3 DEF Budget, ReadingInv

LEMMA LimitedGrows ==
  ASSUME NEW S \in SUBSET Job, NEW x \in Job, Limited(S)
  PROVE  Limited(S \cup {x})
<1>1. IsFiniteSet(S) /\ Cardinality(S) \in Nat
  BY Constants, FS_Subset, FS_CardinalityType
<1>2. Cardinality(S \cup {x}) = IF x \in S THEN Cardinality(S) ELSE Cardinality(S) + 1
  BY <1>1, FS_AddElement
<1> QED
  BY <1>1, <1>2, Constants DEF Limited

-------------------------------------------------------------------------------
\* The state a job carries.

\* A listing that is not excluded has a rank above the offset.
LEMMA RankAbove ==
  ASSUME TypeInv, ReadingInv, OnPage, NEW k \in todo, ~Excluded(k), listing[k] \notin seen
  PROVE  Rank(k) > offset
<1> DEFINE R == Rank(PageStart(now.page))
<1>1. k \in Items /\ Turned(now) /\ Positioned(now) /\ SkippedInv
      /\ (This.asks = "continuation" => Requested = now.page)
  BY DEF ReadingInv
<1>2. R \in Nat /\ Index(k) \in Nat \ {0} /\ Rank(k) = R + Index(k)
      /\ (This.offset \in {"page", "raw", "resumed"} => First = R)
  BY <1>1, OnItem
<1>3. offset \in Nat /\ skipped \in Nat /\ Items \subseteq Int /\ IsFiniteSet(Items)
  BY SearchType, ListingType DEF TypeInv
<1>4. CASE This.offset = "all"
  BY <1>1, <1>4 DEF SkippedInv
<1>5. CASE This.offset = "unseen"
  <2>1. skipped >= offset
    BY <1>3, <1>5 DEF Excluded
  <2>2. Handled \cup {k} \in SUBSET {i \in Items : i <= k}
    BY <1>1, <1>3, <1>5 DEF SkippedInv, Handled
  <2>3. IsFiniteSet({i \in Items : i <= k})
    <3>1. {i \in Items : i <= k} \in SUBSET Items
      OBVIOUS
    <3> QED
      BY <1>3, <3>1, FS_Subset
  <2>4. Cardinality(Handled \cup {k}) <= Index(k)
    BY <2>2, <2>3, FS_Subset DEF Index
  <2>5. IsFiniteSet(Handled) /\ Cardinality(Handled) \in Nat
    <3>1. Handled \in SUBSET Items
      BY DEF Handled
    <3> QED
      BY <1>3, <3>1, FS_Subset, FS_CardinalityType
  <2>6. Cardinality(Handled \cup {k}) = Cardinality(Handled) + 1
    <3>1. k \notin Handled
      BY DEF Handled
    <3> QED
      BY <2>5, <3>1, FS_AddElement
  <2>7. skipped <= R + Cardinality(Handled)
    BY <1>1, <1>5 DEF SkippedInv
  <2> HIDE DEF R
  <2> QED
    BY <1>2, <1>3, <2>1, <2>4, <2>5, <2>6, <2>7
<1>6. CASE This.offset \notin {"all", "unseen"}
  <2>1. This.offset \in {"page", "raw", "resumed"}
    BY <1>6, ProfileFacts DEF TypeInv
  <2>2. ~(First + Index(k) - 1 < offset)
    BY <1>6, <2>1 DEF Excluded
  <2> HIDE DEF R
  <2> QED
    BY <1>2, <1>3, <2>1, <2>2
<1> QED
  BY <1>4, <1>5, <1>6

LEMMA JobStateGood ==
  ASSUME TypeInv, ReadingInv, Good(context, seen), ~LimitReached,
         NEW k \in todo, IsReadable(listing[k]), ~Excluded(k), listing[k] \notin seen
  PROVE  Good(JobState(k), seen \cup {listing[k]})
<1> DEFINE st == JobState(k)
           S == seen \cup {listing[k]}
<1>1. /\ st.page = now.page /\ st.fetched = now.fetched /\ st.cursor = now.cursor
      /\ st.skipped = now.skipped
      /\ This.offset # "resumed" => st = now
      /\ This.offset = "resumed" => st.skip = Index(k) /\ st.raw = First + Index(k)
  BY DEF JobState, TypeInv, States
<1>2. context.page = now.page /\ (This.offset # "resumed" => context = now)
  BY DEF ReadingInv, TypeInv, States
<1>3. k \in Items /\ Turned(now) /\ Positioned(now)
      /\ (This.asks = "continuation" => Requested = now.page)
  BY DEF ReadingInv
<1>4. Index(k) \in Nat \ {0} /\ First \in Nat /\ board \in Board
  BY <1>3, SearchType
<1>5. Turned(st)
  BY <1>1, <1>3 DEF Turned, RequestedIn
<1>6. ASSUME OnPage PROVE listing[k] \in EligibleOn(now.page) /\ now.page \in Budget
  <2>1. Items = ItemsOf(now.page) /\ IsPage(now.page)
    BY <1>3, <1>6, OnItem
  <2>2. Rank(k) > offset
    BY <1>6, RankAbove
  <2>3. now.page \in Budget
    BY <2>1, InBudget
  <2> QED
    BY <1>3, <2>1, <2>2, <2>3 DEF EligibleOn, IsReadable
<1>7. Within(st, S)
  <2>1. CASE OnPage
    <3>1. seen \subseteq Eligible
      BY <1>2, <2>1 DEF Good, Within, OnPage
    <3>2. listing[k] \in Eligible
      BY <1>6, <2>1 DEF Eligible
    <3> QED
      BY <3>1, <3>2 DEF Within
  <2>2. CASE ~OnPage
    BY <1>1, <2>2 DEF Within, OnPage
  <2> QED
    BY <2>1, <2>2
<1>8. Positioned(context) /\ (Distinct => Exact(context, seen) /\ Behind(context, seen))
  BY DEF Good, LimitReached
<1>9. Positioned(st)
  <2>1. CASE This.offset # "resumed"
    BY <1>1, <1>3, <2>1
  <2>2. CASE This.offset = "resumed"
    <3>1. st.skip = Index(k) /\ st.raw = First + Index(k)
      BY <1>1, <2>2
    <3> HIDE DEF st
    <3>2. FirstIn(st) = IF st.raw > st.skip THEN st.raw - st.skip ELSE 0
      BY <2>2 DEF FirstIn
    <3>3. FirstIn(st) = First
      BY <1>4, <3>1, <3>2
    <3> QED
      BY <1>1, <1>3, <2>2, <3>3 DEF Positioned, First
  <2> QED
    BY <2>1, <2>2
<1>10. ASSUME Distinct PROVE Exact(st, S) /\ Behind(st, S)
  <2>1. Behind(st, S)
    BY <1>1, <1>2, <1>8, <1>10 DEF Behind
  <2>2. Exact(st, S)
    <3> SUFFICES ASSUME This.offset = "unseen", IsPage(st.page) PROVE Exact(st, S)
      BY DEF Exact
    <3>1. st = now /\ context = now /\ OnPage
      BY <1>1, <1>2 DEF OnPage
    <3> QED
      BY <1>6, <1>8, <1>10, <3>1 DEF Exact
  <2> QED
    BY <2>1, <2>2
<1> QED
  BY <1>5, <1>7, <1>9, <1>10 DEF Good

-------------------------------------------------------------------------------
\* The state a progress event carries.

LEMMA SkippedType ==
  ASSUME TypeInv, ReadingInv
  PROVE  IsFiniteSet(Handled) /\ Cardinality(Handled) \in Nat
<1>1. IsFiniteSet(Items) /\ Handled \in SUBSET Items
  BY SearchType DEF Handled
<1> QED
  BY <1>1, FS_Subset, FS_CardinalityType

\* Behind a page on which nothing is eligible after it was read to its end.
LEMMA PageIsDone ==
  ASSUME TypeInv, ReadingInv, todo = {}, Distinct, IsPage(now.page), OnPage
  PROVE  EligibleOn(now.page) \subseteq seen
<1>1. Items = ItemsOf(now.page) /\ Handled = Items
  BY Asked DEF ReadingInv, Items, Handled
<1>2. HandledInv
  BY DEF ReadingInv
<1> QED
  BY <1>1, <1>2 DEF HandledInv, EligibleOn, IsReadable

LEMMA TurnedOver ==
  ASSUME TypeInv, ReadingInv
  PROVE  Turned(NextState)
<1> DEFINE n == NextState
           p == now.page
<1>1. n.page = p + 1 /\ n.fetched = now.fetched + 1
      /\ n.cursor = (IF This.asks = "number" THEN 0 ELSE TokenAfter(Requested))
  BY DEF NextState
<1>2. p \in Nat \ {0} /\ now.fetched \in Nat /\ FirstPage \in Nat \ {0} /\ listing \in Listings
      /\ board \in Board /\ Len(listing) \in Nat
  BY NowType, FirstPageFacts, SearchType
<1>3. Turned(now) /\ (This.asks = "continuation" => Requested = p)
  BY DEF ReadingInv
<1>4. n.page >= FirstPage /\ n.fetched = n.page - FirstPage
  BY <1>1, <1>2, <1>3 DEF Turned
<1>5. ASSUME This.asks = "token", IsPage(p + 1) PROVE Requested = p
  <2>1. p \in Nat \ {0} /\ p + 1 \in Nat \ {0} /\ p <= p + 1
    BY <1>2
  <2>2. IsPage(p)
    BY <1>2, <1>5, <2>1, PagesInOrder
  <2> QED
    BY <1>3, <1>5, <2>2 DEF Turned, Requested
<1>6. TokenAfter(p) = IF IsPage(p + 1) THEN p + 1 ELSE 0
  BY <1>2, NextStart DEF TokenAfter, IsPage
<1>7. This.asks = "token" /\ IsPage(p + 1) => n.cursor = p + 1
  BY <1>1, <1>5, <1>6
<1>8. This.asks = "continuation" => n.cursor = IF IsPage(p + 1) THEN p + 1 ELSE 0
  BY <1>1, <1>3, <1>6
<1> HIDE DEF n, p
<1>9. This.asks = "token" /\ IsPage(n.page) => RequestedIn(n) = n.page
  BY <1>1, <1>2, <1>7 DEF RequestedIn
<1>10. This.asks = "continuation" => n.cursor = (IF n.page > 1 /\ IsPage(n.page) THEN n.page ELSE 0)
  BY <1>1, <1>2, <1>8
<1> QED
  BY <1>4, <1>9, <1>10 DEF Turned, n

LEMMA PositionedOver ==
  ASSUME TypeInv, ReadingInv, todo = {}
  PROVE  /\ Positioned(NextState)
         /\ Distinct /\ ~LimitReached /\ This.offset = "unseen" /\ IsPage(now.page + 1)
              => NextState.skipped = Smaller(offset, Rank(PageStart(now.page + 1)))
<1> DEFINE n == NextState
           p == now.page
           R == Rank(PageStart(p))
           C == Cardinality(Items)
<1>1. n.page = p + 1 /\ n.skip = 0 /\ n.raw = RawAfter /\ n.skipped = skipped
  BY DEF NextState
<1>2. p \in Nat \ {0} /\ now.skipped \in Nat /\ now.raw \in Nat /\ listing \in Listings
      /\ board \in Board /\ Len(listing) \in Nat /\ PageStart(p) \in Nat /\ offset \in Nat
      /\ skipped \in Nat /\ C \in Nat /\ First \in Nat
      /\ PageStart(p + 1) \in Nat /\ PageStart(p) <= PageStart(p + 1)
  <2>1. p \in Nat \ {0} /\ now.skipped \in Nat /\ now.raw \in Nat /\ PageStart(p) \in Nat
        /\ Len(listing) \in Nat
    BY NowType
  <2>2. listing \in Listings /\ board \in Board /\ offset \in Nat /\ C \in Nat /\ First \in Nat
    BY SearchType
  <2>3. skipped \in Nat
    BY DEF TypeInv
  <2>4. PageStart(p + 1) \in Nat /\ PageStart(p) <= PageStart(p + 1)
    <3> HIDE DEF p
    <3>1. PageStart(p + 1) = PageStart(p) + PageSize /\ PageSize \in Nat
      BY <2>1, NextStart, Constants
    <3> QED
      BY <2>1, <3>1
  <2> QED
    BY <2>1, <2>2, <2>3, <2>4
<1>3. /\ Turned(now) /\ Positioned(now) /\ (This.asks = "continuation" => Requested = p)
      /\ (OnPage => SkippedInv)
  BY DEF ReadingInv
<1>4. ASSUME OnPage
      PROVE  /\ R \in Nat /\ Rank(PageStart(p + 1)) = R + C
             /\ ~This.drops => Items = Listed(Requested)
  <2>1. Requested = p
    BY <1>3, <1>4, Asked
  <2>2. ~This.drops => Items = Listed(Requested)
    BY DEF Items, ItemsOf, Counted
  <2> QED
    BY <1>2, <2>1, <2>2, RankOfPage DEF Items
<1>5. IsPage(p + 1) => IsPage(p)
  BY <1>2 DEF IsPage
<1>6. Handled = Items
  BY DEF Handled
<1> HIDE DEF n, p, R, C
<1>7. ASSUME This.offset \in {"raw", "resumed"}, PageStart(n.page) <= Len(listing)
      PROVE  FirstIn(n) = Rank(PageStart(n.page))
  <2>1. OnPage
    BY <1>2, <1>7, ProfileFacts DEF OnPage
  <2>2. FirstIn(now) = R
    BY <1>1, <1>2, <1>3, <1>7 DEF Positioned, p, R
  <2>3. RawAfter = R + C
    <3>1. CASE This.offset = "resumed"
      BY <2>2, <3>1 DEF RawAfter, First, C
    <3>2. CASE This.offset = "raw"
      <4>1. Items = Listed(Requested)
        BY <1>2, <1>4, <2>1, <3>2, ProfileFacts
      <4>2. now.raw = R
        BY <2>2, <3>2 DEF FirstIn
      <4> QED
        BY <3>2, <4>1, <4>2 DEF RawAfter, C
    <3> QED
      BY <1>7, <3>1, <3>2
  <2>4. FirstIn(n) = RawAfter
    <3>1. RawAfter \in Nat
      BY <1>2, <1>4, <2>1, <2>3
    <3>2. CASE This.offset = "resumed"
      <4>1. FirstIn(n) = IF n.raw > n.skip THEN n.raw - n.skip ELSE 0
        BY <3>2 DEF FirstIn
      <4> QED
        BY <1>1, <3>1, <4>1
    <3>3. CASE This.offset = "raw"
      BY <1>1, <3>3 DEF FirstIn
    <3> QED
      BY <1>7, <3>2, <3>3
  <2> QED
    BY <1>1, <1>4, <2>1, <2>3, <2>4
<1>8. ASSUME This.offset = "all", IsPage(n.page)
      PROVE  n.skipped = Smaller(offset, Rank(PageStart(n.page)))
  <2>1. IsPage(p) /\ OnPage
    BY <1>1, <1>5, <1>8 DEF OnPage, p
  <2>2. now.skipped = Smaller(offset, R) /\ skipped = Smaller(now.skipped + C, offset)
    BY <1>3, <1>8, <2>1 DEF Positioned, SkippedInv, R, C, p
  <2>3. skipped = Smaller(offset, R + C)
    BY <1>2, <1>4, <2>1, <2>2 DEF Smaller
  <2> QED
    BY <1>1, <1>4, <2>1, <2>3
<1>9. ASSUME This.offset = "unseen", IsPage(n.page)
      PROVE  /\ n.skipped <= Rank(PageStart(n.page))
             /\ Distinct /\ ~LimitReached => n.skipped = Smaller(offset, Rank(PageStart(n.page)))
  <2>1. IsPage(p) /\ OnPage
    BY <1>1, <1>5, <1>9 DEF OnPage, p
  <2>2. skipped <= R + C /\ (Distinct /\ ~LimitReached => skipped = Smaller(offset, R + C))
    BY <1>3, <1>6, <1>9, <2>1 DEF SkippedInv, R, C, p
  <2> QED
    BY <1>1, <1>4, <2>1, <2>2
<1> QED
  BY <1>1, <1>7, <1>8, <1>9 DEF Positioned, n, p

LEMMA NextStateGood ==
  ASSUME TypeInv, ReadingInv, Good(context, seen), todo = {} \/ LimitReached
  PROVE  Good(NextState, seen)
<1> DEFINE n == NextState
           p == now.page
<1>1. n.page = p + 1 /\ context.page = p /\ (This.offset = "unseen" => context = now)
      /\ n.skipped = skipped
  BY DEF NextState, ReadingInv, TypeInv, States
<1>2. p \in Nat \ {0} /\ p + 1 \in Nat \ {0} /\ p <= p + 1 /\ listing \in Listings /\ offset \in Nat
      /\ \A q \in Budget : q \in Int
  <2>1. p \in Nat \ {0} /\ listing \in Listings /\ offset \in Nat
    BY NowType, SearchType
  <2>2. FirstPage \in Nat \ {0}
    BY <2>1, FirstPageFacts
  <2>3. \A q \in Budget : q \in Int
    BY <2>2, Constants DEF Budget
  <2> QED
    BY <2>1, <2>3
<1>3. IsPage(p + 1) => IsPage(p)
  BY <1>2, PagesInOrder
<1>4. Turned(n)
  BY TurnedOver
<1>5. Within(n, seen)
  BY <1>1, <1>3 DEF Good, Within
<1>6. ASSUME ~Limited(seen)
      PROVE  Positioned(n) /\ (Distinct => Exact(n, seen) /\ Behind(n, seen))
  <2>1. todo = {} /\ ~LimitReached
    BY <1>6 DEF LimitReached
  <2>2. Positioned(n)
    BY <2>1, PositionedOver
  <2>3. Distinct => Exact(context, seen) /\ Behind(context, seen)
    BY <1>6 DEF Good
  <2>4. ASSUME Distinct PROVE Behind(n, seen)
    <3> SUFFICES ASSUME NEW q \in Budget, q < n.page PROVE EligibleOn(q) \subseteq seen
      BY DEF Behind
    <3>1. q < p \/ q = p
      BY <1>1, <1>2
    <3>2. CASE q < p
      BY <1>1, <2>3, <2>4, <3>2 DEF Behind
    <3>3. CASE q = p
      <4>1. IsPage(p) /\ OnPage
        BY <3>3 DEF Budget, OnPage
      <4> QED
        BY <2>1, <2>4, <3>3, <4>1, PageIsDone
    <3> QED
      BY <3>1, <3>2, <3>3
  <2>5. ASSUME Distinct PROVE Exact(n, seen)
    <3> SUFFICES ASSUME This.offset = "unseen", IsPage(n.page) PROVE Exact(n, seen)
      BY DEF Exact
    <3>1. n.skipped = Smaller(offset, Rank(PageStart(n.page)))
      BY <1>1, <2>1, <2>5, PositionedOver
    <3>2. ASSUME n.skipped < offset PROVE seen = {}
      <4>1. IsPage(p) /\ Rank(PageStart(p + 1)) = Rank(PageStart(p)) + Cardinality(ItemsOf(p))
            /\ Rank(PageStart(p)) \in Nat /\ Cardinality(ItemsOf(p)) \in Nat
        BY <1>1, <1>2, <1>3, RankOfPage
      <4>2. now.skipped = Smaller(offset, Rank(PageStart(p)))
            /\ (now.skipped < offset => seen \subseteq EligibleOn(p))
        BY <1>1, <2>3, <2>5, <4>1 DEF Exact
      <4>3. Rank(PageStart(p + 1)) < offset /\ now.skipped < offset
        BY <1>1, <1>2, <3>1, <3>2, <4>1, <4>2 DEF Smaller
      <4>4. \A k \in ItemsOf(p) : ~(Rank(k) > offset)
        <5> SUFFICES ASSUME NEW k \in ItemsOf(p) PROVE ~(Rank(k) > offset)
          OBVIOUS
        <5>1. /\ Cardinality({i \in ItemsOf(p) : i <= k}) \in Nat \ {0}
              /\ Rank(k) = Rank(PageStart(p)) + Cardinality({i \in ItemsOf(p) : i <= k})
              /\ Rank(k) <= Rank(PageStart(p + 1))
          BY <1>2, RankOfItem
        <5> QED
          BY <1>2, <4>1, <4>3, <5>1
      <4>5. EligibleOn(p) = {}
        BY <4>4 DEF EligibleOn
      <4> QED
        BY <4>2, <4>3, <4>5
    <3> QED
      BY <3>1, <3>2 DEF Exact
  <2> QED
    BY <2>2, <2>4, <2>5
<1> QED
  BY <1>4, <1>5, <1>6 DEF Good

-------------------------------------------------------------------------------
\* The end of a search.

LEMMA BeforeFirst ==
  ASSUME listing \in Listings
  PROVE  PageStart(1) = 0 /\ Rank(0) = 0
<1>1. PageStart(1) = 0
  BY Constants DEF PageStart
<1>2. {i \in DOMAIN listing : i <= 0 /\ Counted(i)} = {}
  BY ListingType
<1>3. Rank(0) = 0
  BY <1>2, FS_EmptySet DEF Rank
<1> QED
  BY <1>1, <1>3

LEMMA InitialPosition ==
  ASSUME board \in Board, offset \in Nat, listing \in Listings,
         This.offset \in {"raw", "resumed"}, PageStart(FirstPage) <= Len(listing)
  PROVE  FirstIn(InitialState) = Rank(PageStart(FirstPage))
<1> DEFINE r == offset % PageSize
<1>1. FirstPage \in Nat \ {0} /\ r \in Nat /\ r <= offset
      /\ (This.jumps => offset - r = PageStart(FirstPage))
  BY FirstPageFacts
<1>2. InitialState.skip = (IF board = "naukri" THEN r ELSE 0 % PageSize)
      /\ InitialState.raw = (IF board = "naukri" THEN offset ELSE 0)
  BY DEF InitialState
<1> HIDE DEF r
<1>3. CASE board = "naukri"
  <2>1. This.offset = "resumed" /\ This.jumps /\ ~This.drops
    BY <1>3, ProfileFacts
  <2>2. FirstIn(InitialState) = IF offset > r THEN offset - r ELSE 0
    BY <1>2, <1>3, <2>1 DEF FirstIn
  <2>3. FirstIn(InitialState) = PageStart(FirstPage)
    BY <1>1, <2>1, <2>2
  <2>4. PageStart(FirstPage) \in Nat
    BY <1>1, NextStart
  <2> QED
    BY <2>1, <2>3, <2>4, RankIsPosition
<1>4. CASE board # "naukri"
  <2>1. ~This.jumps
    BY <1>4, ProfileFacts
  <2>2. FirstPage = 1
    BY <2>1 DEF FirstPage
  <2>3. 0 % PageSize = 0
    <3>1. PageSize \in Nat \ {0}
      BY Constants
    <3>2. 0 \in Nat
      OBVIOUS
    <3>3. 0 % PageSize \in Nat /\ 0 % PageSize <= 0
      BY <3>1, <3>2, Division
    <3> QED
      BY <3>3
  <2>4. FirstIn(InitialState) = 0
    BY <1>2, <1>4, <2>3 DEF FirstIn
  <2> QED
    BY <2>2, <2>4, BeforeFirst
<1> QED
  BY <1>3, <1>4

LEMMA InitialGood ==
  ASSUME board \in Board, offset \in Nat, listing \in Listings
  PROVE  Good(InitialState, {})
<1> DEFINE st == InitialState
<1>1. st.page = FirstPage /\ st.cursor = 0 /\ st.fetched = 0 /\ st.skipped = 0
  BY DEF InitialState
<1>2. FirstPage \in Nat \ {0}
  BY FirstPageFacts
<1> HIDE DEF st
<1>3. ASSUME This.asks # "number" PROVE FirstPage = 1
  BY <1>3, ProfileFacts DEF FirstPage
<1>4. Turned(st)
  BY <1>1, <1>2, <1>3 DEF Turned, RequestedIn
<1>5. This.offset \in {"all", "unseen"} => This.asks # "number"
  BY ProfileFacts
<1>6. Smaller(offset, 0) = 0
  BY DEF Smaller
<1>7. Positioned(st)
  BY <1>1, <1>3, <1>5, <1>6, BeforeFirst, InitialPosition DEF Positioned, st
<1>8. Exact(st, {})
  BY <1>1, <1>3, <1>5, <1>6, BeforeFirst DEF Exact
<1>9. Behind(st, {})
  <2> SUFFICES ASSUME NEW p \in Budget PROVE ~(p < st.page)
    BY DEF Behind
  <2> QED
    BY <1>1, <1>2, Constants DEF Budget
<1>10. Within(st, {})
  BY DEF Within
<1> QED
  BY <1>4, <1>7, <1>8, <1>9, <1>10 DEF Good, st

LEMMA PageInRange ==
  ASSUME listing \in Listings, NEW p \in Nat \ {0}, IsPage(p)
  PROVE  p \in 1..Len(listing)
<1>1. Len(listing) \in Nat /\ PageSize \in Nat \ {0}
  BY ListingType, Constants
<1>2. (p - 1) * PageSize = (p - 1) + (p - 1) * (PageSize - 1)
  BY <1>1
<1>3. p - 1 \in Nat /\ PageSize - 1 \in Nat
  BY <1>1
<1>4. (p - 1) * (PageSize - 1) \in Nat
  BY <1>3
<1>5. (p - 1) * PageSize < Len(listing)
  BY DEF IsPage, PageStart
<1>6. p - 1 < Len(listing)
  BY <1>1, <1>2, <1>3, <1>4, <1>5
<1> QED
  BY <1>1, <1>6

\* A page on which nothing is counted is none.
LEMMA EmptyPage ==
  ASSUME listing \in Listings, Readable, NEW p \in Nat \ {0}, ItemsOf(p) = {}
  PROVE  ~IsPage(p)
<1> SUFFICES ASSUME IsPage(p) PROVE FALSE
  OBVIOUS
<1>1. Listed(p) # {}
  BY ListedFacts
<1>2. CASE ~This.drops
  BY <1>1, <1>2 DEF ItemsOf, Counted
<1>3. CASE This.drops
  <2>1. p \in 1..Len(listing)
    BY PageInRange
  <2>2. Legible(listing)
    BY <1>3 DEF Readable
  <2>3. PICK k \in Listed(p) : IsReadable(listing[k])
    BY <1>1, <2>1, <2>2 DEF Legible, Listed
  <2> QED
    BY <2>3 DEF ItemsOf, Counted
<1> QED
  BY <1>2, <1>3

LEMMA NoPageAhead ==
  ASSUME listing \in Listings, offset \in Nat, NEW st, NEW S, st.page \in Nat \ {0}, Behind(st, S),
         \/ ~IsPage(st.page)
         \/ st.page >= FirstPage + MaxPages
         \/ board \in {"linkedin", "glassdoor"} /\ st.page > PageCap
  PROVE  Eligible \subseteq S
<1>1. FirstPage \in Nat \ {0} /\ MaxPages \in Nat \ {0} /\ PageCap \in Nat
  BY FirstPageFacts, Constants
<1>2. \A p \in Budget : p < st.page
  <2> SUFFICES ASSUME NEW p \in Budget, ~(p < st.page) PROVE FALSE
    OBVIOUS
  <2>1. p \in Nat \ {0} /\ p < FirstPage + MaxPages /\ IsPage(p)
        /\ (board \in {"linkedin", "glassdoor"} => p <= PageCap)
    BY <1>1 DEF Budget
  <2>2. st.page <= p
    BY <2>1
  <2>3. IsPage(st.page)
    BY <2>1, <2>2, PagesInOrder
  <2> QED
    BY <1>1, <2>1, <2>2, <2>3
<1> QED
  BY <1>2 DEF Behind, Eligible

\* A search that asks for no page has found everything.
LEMMA NothingToAsk ==
  ASSUME TypeInv, Good(context, seen), now = context, ~MayAsk \/ EndsBefore
  PROVE  Done(seen)
<1> SUFFICES ASSUME Distinct, Readable, ~Limited(seen) PROVE Eligible \subseteq seen
  BY DEF Done
<1> DEFINE p == now.page
<1>1. p \in Nat \ {0} /\ listing \in Listings /\ offset \in Nat /\ FirstPage \in Nat \ {0}
      /\ board \in Board /\ now.fetched \in Nat /\ MaxPages \in Nat /\ PageCap \in Nat
  BY NowType, SearchType, FirstPageFacts, Constants
<1>2. Turned(now) /\ Behind(now, seen)
  BY DEF Good
<1>3. now.fetched >= MaxPages => p >= FirstPage + MaxPages
  BY <1>1, <1>2 DEF Turned
<1>4. ASSUME This.asks = "continuation", p > 1, now.cursor = 0 PROVE ~IsPage(p)
  BY <1>1, <1>2, <1>4 DEF Turned
<1>5. ASSUME EndsBefore PROVE ~IsPage(p)
  <2>1. This.asks # "continuation" /\ Items = {}
    BY <1>1, <1>5, ProfileFacts DEF EndsBefore
  <2>2. OnPage => Requested = p
    BY <1>2, <2>1, Asked
  <2>3. ~OnPage => ~IsPage(p)
    BY DEF OnPage
  <2> QED
    BY <1>1, <2>1, <2>2, <2>3, EmptyPage DEF Items
<1>6. \/ ~IsPage(p)
      \/ p >= FirstPage + MaxPages
      \/ board \in {"linkedin", "glassdoor"} /\ p > PageCap
  <2>1. CASE ~MayAsk
    <3>1. ~LimitReached
      BY DEF LimitReached
    <3>2. \/ now.fetched >= MaxPages
          \/ board \in {"linkedin", "glassdoor"} /\ p > PageCap
          \/ This.asks = "continuation" /\ p > 1 /\ now.cursor = 0
      BY <1>1, <2>1, <3>1 DEF MayAsk
    <3> QED
      BY <1>3, <1>4, <3>2
  <2> QED
    BY <1>5, <2>1
<1> QED
  BY <1>1, <1>2, <1>6, NoPageAhead

\* So has one that ends after a page.
LEMMA LastPage ==
  ASSUME TypeInv, ReadingInv, Good(context, seen), todo = {} \/ LimitReached, EndsAfter
  PROVE  Done(seen)
<1> SUFFICES ASSUME Distinct, Readable, ~Limited(seen) PROVE Eligible \subseteq seen
  BY DEF Done
<1> DEFINE p == now.page
<1>1. p \in Nat \ {0} /\ p + 1 \in Nat \ {0} /\ p <= p + 1 /\ listing \in Listings /\ offset \in Nat
      /\ board \in Board /\ Len(listing) \in Nat /\ PageSize \in Nat \ {0}
  <2>1. p \in Nat \ {0} /\ Len(listing) \in Nat
    BY NowType
  <2>2. listing \in Listings /\ offset \in Nat /\ board \in Board
    BY SearchType
  <2> QED
    BY <2>1, <2>2, Constants
<1>2. NextState.page = p + 1
  BY DEF NextState
<1>3. Behind(NextState, seen)
  BY NextStateGood DEF Good
<1>4. IsPage(p + 1) => IsPage(p)
  BY <1>1, PagesInOrder
<1>5. ASSUME IsPage(p + 1) PROVE FALSE
  <2>1. Requested = p
    BY <1>4, <1>5, Asked DEF ReadingInv, OnPage
  <2>2. TokenAfter(p) # 0
    <3>1. PageStart(p + 1) = p * PageSize
      BY <1>1, NextStart
    <3> QED
      BY <1>1, <1>5, <3>1 DEF TokenAfter, IsPage
  <2>3. ItemsOf(p) # {}
    BY <1>1, <1>4, <1>5, EmptyPage
  <2>4. "short" \in This.ends => Cardinality(ItemsOf(p)) = PageSize
    <3> SUFFICES ASSUME "short" \in This.ends PROVE Cardinality(ItemsOf(p)) = PageSize
      OBVIOUS
    <3>1. ~This.drops
      BY <1>1, ProfileFacts
    <3>2. ItemsOf(p) = Listed(p)
      BY <3>1 DEF ItemsOf, Counted
    <3> QED
      BY <1>1, <1>5, <3>2, ListedFacts
  <2>5. Items = ItemsOf(p)
    BY <2>1 DEF Items
  <2>6. TokenAfter(Requested) # 0 /\ Items # {} /\ ("short" \in This.ends => Cardinality(Items) = PageSize)
    BY <2>1, <2>2, <2>3, <2>4, <2>5
  <2>7. ~(PageSize < PageSize)
    BY <1>1
  <2> QED
    BY <2>6, <2>7 DEF EndsAfter
<1> QED
  BY <1>1, <1>2, <1>3, <1>5, NoPageAhead

-------------------------------------------------------------------------------
\* What only the search decides, another step does not change.

LEMMA PagesFrame ==
  ASSUME UNCHANGED searchVars
  PROVE  /\ This' = This /\ FirstPage' = FirstPage
         /\ \A k : Counted(k)' <=> Counted(k)
         /\ \A p : (IsPage(p)' <=> IsPage(p)) /\ ItemsOf(p)' = ItemsOf(p) /\ Listed(p)' = Listed(p)
         /\ \A k : Rank(k)' = Rank(k)
         /\ \A st : FirstIn(st)' = FirstIn(st) /\ RequestedIn(st)' = RequestedIn(st)
<1>1. board' = board /\ offset' = offset /\ listing' = listing
  BY DEF searchVars
<1>2. This' = This
  BY <1>1 DEF This
<1>3. FirstPage' = FirstPage
  BY <1>1, <1>2 DEF FirstPage
<1>4. \A k : Counted(k)' <=> Counted(k)
  BY <1>1, <1>2 DEF Counted
<1>5. \A p : (IsPage(p)' <=> IsPage(p)) /\ Listed(p)' = Listed(p)
  BY <1>1 DEF IsPage, Listed
<1>6. \A p : ItemsOf(p)' = ItemsOf(p)
  BY <1>4, <1>5 DEF ItemsOf
<1>7. \A k : Rank(k)' = Rank(k)
  BY <1>1, <1>4 DEF Rank
<1>8. \A st : FirstIn(st)' = FirstIn(st) /\ RequestedIn(st)' = RequestedIn(st)
  BY <1>2 DEF FirstIn, RequestedIn
<1> QED
  BY <1>2, <1>3, <1>4, <1>5, <1>6, <1>7, <1>8

LEMMA GoodFrame ==
  ASSUME UNCHANGED searchVars
  PROVE  /\ \A st : (Turned(st)' <=> Turned(st)) /\ (Positioned(st)' <=> Positioned(st))
         /\ \A st, S : Good(st, S)' <=> Good(st, S)
         /\ \A S : Done(S)' <=> Done(S)
         /\ Distinct' <=> Distinct
<1>1. board' = board /\ offset' = offset /\ listing' = listing
  BY DEF searchVars
<1>2. \A st : Turned(st)' <=> Turned(st)
  BY PagesFrame DEF Turned
<1>3. \A st : Positioned(st)' <=> Positioned(st)
  BY <1>1, PagesFrame DEF Positioned
<1>4. Distinct' <=> Distinct
  BY <1>1, PagesFrame DEF Distinct
<1>5. \A p : EligibleOn(p)' = EligibleOn(p)
  BY <1>1, PagesFrame DEF EligibleOn
<1>6. Budget' = Budget
  BY <1>1, PagesFrame DEF Budget
<1>7. Eligible' = Eligible
  BY <1>5, <1>6 DEF Eligible
<1>8. \A st, S : Exact(st, S)' <=> Exact(st, S)
  BY <1>1, <1>5, PagesFrame DEF Exact
<1>9. \A st, S : Behind(st, S)' <=> Behind(st, S)
  BY <1>5, <1>6 DEF Behind
<1>10. \A st, S : Within(st, S)' <=> Within(st, S)
  BY <1>7, PagesFrame DEF Within
<1>11. \A S : Done(S)' <=> Done(S)
  BY <1>1, <1>4, <1>7, PagesFrame DEF Done, Readable
<1> QED
  BY <1>2, <1>3, <1>4, <1>8, <1>9, <1>10, <1>11 DEF Good

\* A step that keeps the page keeps what is listed on it.
LEMMA ReadingFrame ==
  ASSUME UNCHANGED searchVars, UNCHANGED now
  PROVE  /\ Items' = Items /\ Requested' = Requested /\ (EndsBefore' <=> EndsBefore)
         /\ (Turned(now)' <=> Turned(now)) /\ (Positioned(now)' <=> Positioned(now))
         /\ (OnPage' <=> OnPage)
<1>1. Requested' = Requested
  BY PagesFrame DEF Requested
<1>2. Items' = Items
  BY <1>1, PagesFrame DEF Items
<1>3. EndsBefore' <=> EndsBefore
  BY <1>2, PagesFrame DEF EndsBefore
<1>4. OnPage' <=> OnPage
  BY PagesFrame DEF OnPage
<1>5. (Turned(now)' <=> Turned(now)) /\ (Positioned(now)' <=> Positioned(now))
  BY GoodFrame
<1> QED
  BY <1>1, <1>2, <1>3, <1>4, <1>5

-------------------------------------------------------------------------------
\* The loop over a page.

LEMMA FetchKeeps ==
  ASSUME PagingInv, FetchPage
  PROVE  ReadingInv'
<1> DEFINE R == Rank(PageStart(now.page))
<1>1. /\ UNCHANGED searchVars /\ now' = now /\ context' = context /\ seen' = seen
      /\ MayAsk /\ ~EndsBefore /\ now = context /\ skipped = now.skipped
      /\ todo' = (IF This.offset = "all" THEN {k \in Items : skipped + Index(k) > offset} ELSE Items)
      /\ skipped' = (IF This.offset = "all" THEN Smaller(skipped + Cardinality(Items), offset)
                     ELSE skipped)
  BY DEF FetchPage, PagingInv, LocalInv, contextVars
<1>2. TypeInv /\ Good(now, seen) /\ ~Limited(seen)
  BY <1>1 DEF PagingInv, ContextInv, MayAsk, LimitReached
<1>3. Turned(now) /\ Positioned(now) /\ (Distinct => Exact(now, seen))
  BY <1>2 DEF Good
<1>4. /\ offset \in Nat /\ board \in Board /\ now.page \in Nat \ {0} /\ now.skipped \in Nat
      /\ Cardinality(Items) \in Nat /\ listing \in Listings /\ now.cursor \in Nat
  BY <1>2, SearchType, NowType
<1>5. This.asks = "continuation" => Requested = now.page
  BY <1>1, <1>3, <1>4 DEF MayAsk, Turned, Requested, RequestedIn
<1>6. This' = This /\ offset' = offset /\ listing' = listing /\ board' = board /\ Items' = Items
      /\ (OnPage' <=> OnPage) /\ (Distinct' <=> Distinct) /\ (LimitReached' <=> LimitReached)
      /\ Rank(PageStart(now.page))' = R /\ (\A k : Rank(k)' = Rank(k)) /\ Requested' = Requested
      /\ Turned(now)' /\ Positioned(now)' /\ ~EndsBefore'
  BY <1>1, <1>3, PagesFrame, GoodFrame, ReadingFrame DEF searchVars, LimitReached
<1>7. ASSUME OnPage
      PROVE  /\ R \in Nat
             /\ \A k \in Items : Index(k) \in Nat \ {0} /\ Rank(k) = R + Index(k)
             /\ This.offset \in {"all", "unseen"} => IsPage(now.page)
  <2>1. R \in Nat
    BY <1>4, RankOfPage
  <2>2. \A k \in Items : Index(k) \in Nat \ {0} /\ Rank(k) = R + Index(k)
    BY <1>2, <1>3, <1>5, <1>7, OnItem
  <2>3. This.offset \in {"all", "unseen"} => This.asks = "token"
    BY <1>4, ProfileFacts
  <2> QED
    BY <1>7, <2>1, <2>2, <2>3 DEF OnPage
<1> HIDE DEF R
<1>8. ASSUME OnPage PROVE SkippedInv'
  <2>1. ASSUME This.offset = "all"
        PROVE  /\ skipped' = Smaller(now.skipped + Cardinality(Items), offset)
               /\ \A k \in todo' : Rank(k) > offset
    <3>1. now.skipped = Smaller(offset, R)
      BY <1>3, <1>7, <1>8, <2>1 DEF Positioned, R
    <3>2. ASSUME NEW k \in todo' PROVE Rank(k) > offset
      <4>1. k \in Items /\ now.skipped + Index(k) > offset
        BY <1>1, <2>1, <3>2
      <4> QED
        BY <1>4, <1>7, <1>8, <3>1, <4>1 DEF Smaller
    <3> QED
      BY <1>1, <2>1, <3>2
  <2>2. ASSUME This.offset = "unseen"
        PROVE  /\ Handled' = {} /\ skipped' = now.skipped /\ now.skipped <= R
               /\ Distinct => now.skipped = Smaller(offset, R)
    <3>1. Handled' = {}
      BY <1>1, <1>6, <2>2 DEF Handled
    <3>2. now.skipped <= R /\ (Distinct => now.skipped = Smaller(offset, R))
      BY <1>3, <1>7, <1>8, <2>2 DEF Positioned, Exact, R
    <3> QED
      BY <1>1, <2>2, <3>1, <3>2
  <2>3. Cardinality({}) = 0
    BY FS_EmptySet
  <2>4. ASSUME This.offset = "unseen"
        PROVE  /\ \A i \in Handled' : \A k \in todo' : i < k
               /\ skipped' <= R + Cardinality(Handled')
               /\ Distinct => skipped' = Smaller(offset, R + Cardinality(Handled'))
    <3>1. R + Cardinality(Handled') = R
      BY <1>7, <1>8, <2>2, <2>3, <2>4
    <3> QED
      BY <2>2, <2>4, <3>1
  <2> QED
    BY <1>1, <1>6, <2>1, <2>4 DEF SkippedInv
<1>9. ASSUME OnPage PROVE HandledInv'
  <2>1. ASSUME NEW k \in Handled', Rank(k) > offset PROVE FALSE
    <3>1. k \in Items /\ k \notin todo'
      BY <1>6, <2>1 DEF Handled
    <3>2. This.offset = "all" /\ ~(now.skipped + Index(k) > offset)
      BY <1>1, <3>1
    <3>3. now.skipped = Smaller(offset, R)
      BY <1>3, <1>7, <1>9, <3>2 DEF Positioned, R
    <3>4. Index(k) \in Nat \ {0} /\ Rank(k) = R + Index(k) /\ R \in Nat
      BY <1>7, <1>9, <3>1
    <3> QED
      BY <1>4, <2>1, <3>2, <3>3, <3>4 DEF Smaller
  <2> QED
    BY <1>6, <2>1 DEF HandledInv
<1>10. now.fetched < MaxPages /\ (board \in {"linkedin", "glassdoor"} => now.page <= PageCap)
  BY <1>1 DEF MayAsk
<1>11. context' = [now' EXCEPT !.skip = context'.skip, !.raw = context'.raw]
  BY <1>1 DEF PagingInv, TypeInv, States
<1>12. todo' \subseteq Items
  BY <1>1
<1>13. (This.asks = "continuation" => Requested' = now'.page)
       /\ (OnPage' => SkippedInv' /\ (Distinct' => HandledInv'))
  BY <1>1, <1>5, <1>6, <1>8, <1>9
<1> QED
  BY <1>1, <1>6, <1>10, <1>11, <1>12, <1>13 DEF ReadingInv

\* One listing is dealt with.
LEMMA StepKeeps ==
  ASSUME TypeInv, ReadingInv, UNCHANGED searchVars, UNCHANGED now,
         NEW k \in todo, todo' = todo \ {k}, seen \subseteq seen',
         context' = [now EXCEPT !.skip = context'.skip, !.raw = context'.raw],
         This.offset # "resumed" => context' = now,
         This.offset # "unseen" => skipped' = skipped,
         This.offset = "unseen" => (\A i \in todo : k <= i) /\ skipped' \in {skipped, skipped + 1},
         This.offset = "unseen" /\ Distinct /\ OnPage /\ ~Limited(seen')
           => skipped' = (IF skipped < offset THEN skipped + 1 ELSE skipped) /\ ~Limited(seen),
         Distinct /\ OnPage /\ IsReadable(listing[k]) /\ Rank(k) > offset => listing[k] \in seen'
  PROVE  ReadingInv'
<1> DEFINE R == Rank(PageStart(now.page))
<1>1. This' = This /\ offset' = offset /\ listing' = listing /\ board' = board /\ Items' = Items
      /\ (OnPage' <=> OnPage) /\ (Distinct' <=> Distinct) /\ now' = now
      /\ Rank(PageStart(now.page))' = R /\ (\A i : Rank(i)' = Rank(i)) /\ Requested' = Requested
      /\ (Turned(now)' <=> Turned(now)) /\ (Positioned(now)' <=> Positioned(now))
      /\ (EndsBefore' <=> EndsBefore)
  BY PagesFrame, GoodFrame, ReadingFrame DEF searchVars
<1>2. /\ Turned(now) /\ Positioned(now) /\ todo \subseteq Items /\ ~EndsBefore
      /\ (This.asks = "continuation" => Requested = now.page)
      /\ now.fetched < MaxPages /\ (board \in {"linkedin", "glassdoor"} => now.page <= PageCap)
      /\ (OnPage => SkippedInv /\ (Distinct => HandledInv))
  BY DEF ReadingInv
<1>3. k \in Items /\ Handled' = Handled \cup {k} /\ k \notin Handled
  BY <1>1, <1>2 DEF Handled
<1>4. IsFiniteSet(Handled) /\ Cardinality(Handled) \in Nat
      /\ Cardinality(Handled') = Cardinality(Handled) + 1
  BY <1>3, SkippedType, FS_AddElement
<1>5. offset \in Nat /\ skipped \in Nat /\ Items \subseteq Int /\ listing \in Listings
      /\ now.page \in Nat \ {0} /\ R \in Nat
  <2>1. offset \in Nat /\ Items \subseteq DOMAIN listing /\ listing \in Listings
    BY SearchType
  <2>2. now.page \in Nat \ {0} /\ skipped \in Nat
    BY NowType DEF TypeInv
  <2>3. R \in Nat
    BY <2>1, <2>2, RankOfPage
  <2> QED
    BY <2>1, <2>2, <2>3, ListingType
<1> HIDE DEF R
<1>6. ASSUME OnPage PROVE SkippedInv'
  <2>1. This.offset = "all" => /\ skipped' = Smaller(now.skipped + Cardinality(Items), offset)
                               /\ \A i \in todo' : Rank(i) > offset
    BY <1>2, <1>6 DEF SkippedInv
  <2>2. ASSUME This.offset = "unseen"
        PROVE  /\ \A i \in Handled' : \A j \in todo' : i < j
               /\ skipped' <= R + Cardinality(Handled')
               /\ Distinct /\ ~Limited(seen')
                    => skipped' = Smaller(offset, R + Cardinality(Handled'))
    <3>1. /\ \A i \in Handled : \A j \in todo : i < j
          /\ skipped <= R + Cardinality(Handled)
          /\ Distinct /\ ~LimitReached => skipped = Smaller(offset, R + Cardinality(Handled))
      BY <1>2, <1>6, <2>2 DEF SkippedInv, R
    <3>2. \A i \in Handled' : \A j \in todo' : i < j
      <4> SUFFICES ASSUME NEW i \in Handled', NEW j \in todo' PROVE i < j
        OBVIOUS
      <4>1. j \in todo /\ j # k /\ j \in Int /\ k \in Int
        BY <1>2, <1>5
      <4>2. k <= j
        BY <2>2, <4>1
      <4> QED
        BY <1>3, <3>1, <4>1, <4>2
    <3>3. skipped' <= R + Cardinality(Handled')
      BY <1>4, <1>5, <2>2, <3>1
    <3>4. ASSUME Distinct, ~Limited(seen') PROVE skipped' = Smaller(offset, R + Cardinality(Handled'))
      <4>1. skipped' = (IF skipped < offset THEN skipped + 1 ELSE skipped) /\ ~LimitReached
        BY <1>6, <2>2, <3>4 DEF LimitReached
      <4> QED
        BY <1>4, <1>5, <3>1, <3>4, <4>1 DEF Smaller
    <3> QED
      BY <3>2, <3>3, <3>4
  <2>3. (LimitReached' <=> Limited(seen'))
    BY DEF LimitReached, Limited
  <2> QED
    BY <1>1, <2>1, <2>2, <2>3 DEF SkippedInv, R
<1>7. ASSUME OnPage, Distinct PROVE HandledInv'
  <2>1. HandledInv
    BY <1>2, <1>7
  <2>2. ASSUME NEW i \in Handled', IsReadable(listing[i]), Rank(i) > offset PROVE listing[i] \in seen'
    BY <1>3, <1>7, <2>1, <2>2 DEF HandledInv
  <2> QED
    BY <1>1, <2>2 DEF HandledInv
<1>8. todo' \subseteq Items
  BY <1>2
<1>9. OnPage' => SkippedInv' /\ (Distinct' => HandledInv')
  BY <1>1, <1>6, <1>7
<1> QED
  BY <1>1, <1>2, <1>8, <1>9 DEF ReadingInv

\* The next listing of a board that reads them in order is the one after those
\* it has dealt with.
LEMMA NextIndex ==
  ASSUME TypeInv, ReadingInv, OnPage, This.offset = "unseen", NEW k \in todo,
         \A i \in todo : k <= i
  PROVE  /\ Index(k) = Cardinality(Handled) + 1
         /\ Rank(k) = Rank(PageStart(now.page)) + Cardinality(Handled) + 1
         /\ Cardinality(Handled) \in Nat /\ Rank(PageStart(now.page)) \in Nat
<1>1. k \in Items /\ k \notin Handled /\ Items \subseteq Int
  BY SearchType, ListingType DEF ReadingInv, Handled
<1>2. \A i \in Handled : \A j \in todo : i < j
  BY DEF ReadingInv, SkippedInv
<1>3. {i \in Items : i <= k} = Handled \cup {k}
  <2>1. ASSUME NEW i \in Items PROVE i <= k <=> i \in Handled \cup {k}
    <3>1. i \in Int /\ k \in Int
      BY <1>1
    <3>2. i \in Handled => i < k
      BY <1>2
    <3>3. i \notin Handled => k <= i
      BY DEF Handled
    <3> QED
      BY <3>1, <3>2, <3>3
  <2>2. Handled \cup {k} \subseteq Items
    BY <1>1 DEF Handled
  <2> QED
    BY <2>1, <2>2
<1>4. IsFiniteSet(Handled) /\ Cardinality(Handled) \in Nat
  BY SkippedType
<1>5. Cardinality(Handled \cup {k}) = Cardinality(Handled) + 1
  BY <1>1, <1>4, FS_AddElement
<1>6. Index(k) = Cardinality(Handled) + 1
  BY <1>3, <1>5 DEF Index
<1>7. Rank(k) = Rank(PageStart(now.page)) + Index(k) /\ Rank(PageStart(now.page)) \in Nat
  BY <1>1, OnItem DEF ReadingInv
<1> QED
  BY <1>4, <1>6, <1>7

LEMMA ExcludedKeeps ==
  ASSUME PagingInv, NEW k \in todo, SkipExcluded(k)
  PROVE  ReadingInv'
<1> DEFINE R == Rank(PageStart(now.page))
<1>1. /\ TypeInv /\ ReadingInv /\ ~LimitReached /\ UNCHANGED searchVars /\ now' = now
      /\ context' = context /\ seen' = seen
      /\ todo' = todo \ {k} /\ (This.pool \/ \A i \in todo : k <= i) /\ Excluded(k)
      /\ skipped' = IF This.offset = "unseen" THEN skipped + 1 ELSE skipped
  BY DEF SkipExcluded, Handles, PagingInv, LocalInv, contextVars
<1>2. offset \in Nat /\ board \in Board /\ skipped \in Nat
  BY <1>1, SearchType DEF TypeInv
<1>3. This.offset = "unseen" => (\A i \in todo : k <= i) /\ skipped < offset
  BY <1>1, <1>2, ProfileFacts DEF Excluded
<1>4. context' = [now EXCEPT !.skip = context'.skip, !.raw = context'.raw]
      /\ (This.offset # "resumed" => context' = now)
  BY <1>1 DEF ReadingInv
<1>5. ASSUME Distinct, OnPage, Rank(k) > offset PROVE FALSE
  <2>1. CASE This.offset = "unseen"
    <3>1. Rank(k) = R + Cardinality(Handled) + 1 /\ Cardinality(Handled) \in Nat /\ R \in Nat
      BY <1>1, <1>3, <1>5, <2>1, NextIndex
    <3>2. skipped = Smaller(offset, R + Cardinality(Handled))
      BY <1>1, <1>5, <2>1 DEF ReadingInv, SkippedInv
    <3> HIDE DEF R
    <3> QED
      BY <1>2, <1>3, <1>5, <2>1, <3>1, <3>2 DEF Smaller
  <2>2. CASE This.offset # "unseen"
    <3>1. This.offset \in {"page", "raw", "resumed"} /\ First + Index(k) - 1 < offset
      BY <1>1, <1>2, <2>2, ProfileFacts DEF Excluded
    <3>2. k \in Items
      BY <1>1 DEF ReadingInv
    <3>3. R \in Nat /\ Index(k) \in Nat \ {0} /\ Rank(k) = R + Index(k) /\ First = R
      BY <1>1, <1>5, <3>1, <3>2, OnItem DEF ReadingInv
    <3> HIDE DEF R
    <3> QED
      BY <1>2, <1>5, <3>1, <3>3
  <2> QED
    BY <2>1, <2>2
<1>6. This.offset = "unseen"
        => skipped' = (IF skipped < offset THEN skipped + 1 ELSE skipped) /\ ~Limited(seen)
  BY <1>1, <1>3 DEF LimitReached
<1> QED
  BY <1>1, <1>3, <1>4, <1>5, <1>6, StepKeeps

LEMMA UnreadableKeeps ==
  ASSUME PagingInv, NEW k \in todo, SkipUnreadable(k)
  PROVE  ReadingInv'
<1>1. /\ TypeInv /\ ReadingInv /\ UNCHANGED searchVars /\ now' = now
      /\ context' = context /\ seen' = seen /\ skipped' = skipped
      /\ todo' = todo \ {k} /\ ~IsReadable(listing[k])
  BY DEF SkipUnreadable, Handles, PagingInv, LocalInv, contextVars
<1>2. This.offset # "unseen"
  <2>1. ~This.drops
    BY <1>1 DEF ReadingInv, Items, ItemsOf, Counted
  <2> QED
    BY <1>1, <2>1, ProfileFacts DEF TypeInv
<1>3. context' = [now EXCEPT !.skip = context'.skip, !.raw = context'.raw]
      /\ (This.offset # "resumed" => context' = now)
  BY <1>1 DEF ReadingInv
<1> QED
  BY <1>1, <1>2, <1>3, StepKeeps

LEMMA SeenKeeps ==
  ASSUME PagingInv, NEW k \in todo, SkipSeen(k)
  PROVE  ReadingInv'
<1> DEFINE R == Rank(PageStart(now.page))
<1>1. /\ TypeInv /\ ReadingInv /\ ~LimitReached /\ UNCHANGED searchVars /\ now' = now
      /\ context' = context /\ seen' = seen /\ skipped' = skipped
      /\ todo' = todo \ {k} /\ (This.pool \/ \A i \in todo : k <= i)
      /\ IsReadable(listing[k]) /\ listing[k] \in seen /\ Good(context, seen)
  BY DEF SkipSeen, Handles, PagingInv, LocalInv, ContextInv, contextVars
<1>2. offset \in Nat /\ board \in Board /\ skipped \in Nat /\ listing \in Listings
      /\ now.page \in Nat \ {0}
  BY <1>1, SearchType, NowType DEF TypeInv
<1>3. This.offset = "unseen" => \A i \in todo : k <= i
  BY <1>1, <1>2, ProfileFacts
<1>4. context' = [now EXCEPT !.skip = context'.skip, !.raw = context'.raw]
      /\ (This.offset # "resumed" => context' = now)
  BY <1>1 DEF ReadingInv
<1>5. ASSUME This.offset = "unseen", Distinct, OnPage, skipped < offset PROVE FALSE
  <2>1. Rank(k) = R + Cardinality(Handled) + 1 /\ Cardinality(Handled) \in Nat /\ R \in Nat
    BY <1>1, <1>3, <1>5, NextIndex
  <2>2. skipped = Smaller(offset, R + Cardinality(Handled))
    BY <1>1, <1>5 DEF ReadingInv, SkippedInv
  <2>3. IsPage(now.page) /\ context = now
    BY <1>1, <1>2, <1>5, ProfileFacts DEF OnPage, ReadingInv
  <2>4. Exact(now, seen)
    BY <1>1, <1>5, <2>3 DEF Good, LimitReached
  <2>5. now.skipped = Smaller(offset, R) /\ (now.skipped < offset => seen \subseteq EligibleOn(now.page))
    BY <1>5, <2>3, <2>4 DEF Exact
  <2>6. Requested = now.page /\ Items = ItemsOf(now.page) /\ k \in Items
    BY <1>1, <1>5, Asked DEF ReadingInv, Items
  <2>7. now.skipped < offset /\ Rank(k) <= offset
    <3> HIDE DEF R
    <3> QED
      BY <1>2, <1>5, <2>1, <2>2, <2>5 DEF Smaller
  <2>8. PICK i \in ItemsOf(now.page) : Rank(i) > offset /\ listing[i] = listing[k]
    BY <1>1, <2>5, <2>7 DEF EligibleOn
  <2>9. now.page \in 1..Len(listing)
    BY <1>2, <2>3, PageInRange
  <2>10. i \in PageOf(listing, now.page) /\ k \in PageOf(listing, now.page)
    BY <2>6, <2>8 DEF ItemsOf, Listed
  <2>11. i = k
    BY <1>1, <1>5, <2>8, <2>9, <2>10 DEF Distinct, NoRepeats
  <2>12. Rank(k) \in Nat
    <3> HIDE DEF R
    <3> QED
      BY <2>1
  <2> QED
    BY <1>2, <2>7, <2>8, <2>11, <2>12
<1>6. This.offset = "unseen" /\ Distinct /\ OnPage
        => skipped' = (IF skipped < offset THEN skipped + 1 ELSE skipped) /\ ~Limited(seen)
  BY <1>1, <1>5 DEF LimitReached
<1> QED
  BY <1>1, <1>3, <1>4, <1>6, StepKeeps

LEMMA EmitKeeps ==
  ASSUME PagingInv, NEW k \in todo, EmitJob(k)
  PROVE  ReadingInv'
<1>1. /\ TypeInv /\ ReadingInv /\ ~LimitReached /\ UNCHANGED searchVars /\ now' = now
      /\ context' = JobState(k) /\ seen' = seen \cup {listing[k]} /\ skipped' = skipped
      /\ todo' = todo \ {k} /\ (This.pool \/ \A i \in todo : k <= i)
      /\ ~Excluded(k) /\ listing[k] \notin seen
  BY DEF EmitJob, Handles, PagingInv, LocalInv
<1>2. offset \in Nat /\ board \in Board /\ skipped \in Nat
  BY <1>1, SearchType DEF TypeInv
<1>3. This.offset = "unseen" => (\A i \in todo : k <= i) /\ ~(skipped < offset)
  BY <1>1, <1>2, ProfileFacts DEF Excluded
<1>4. context' = [now EXCEPT !.skip = context'.skip, !.raw = context'.raw]
      /\ (This.offset # "resumed" => context' = now)
  BY <1>1 DEF JobState, TypeInv, States
<1>5. This.offset = "unseen"
        => skipped' = (IF skipped < offset THEN skipped + 1 ELSE skipped) /\ ~Limited(seen)
  BY <1>1, <1>3 DEF LimitReached
<1>6. seen \subseteq seen' /\ listing[k] \in seen'
  BY <1>1
<1> QED
  BY <1>1, <1>3, <1>4, <1>5, <1>6, StepKeeps

-------------------------------------------------------------------------------
\* Messages.

\* A message put behind the others.
LEMMA PutKeeps ==
  ASSUME PagingInv, UNCHANGED searchVars, UNCHANGED checkpoint, NEW m \in Messages, Put(m),
         seen' = seen \cup ({m.job} \ {NoJob}), context' = m.state,
         Good(m.state, seen'), m.type = "SITE_COMPLETE" => Done(seen')
  PROVE  SavedInv' /\ OutboxInv' /\ ContextInv'
<1>0. PICK n \in Nat : n = Len(outbox)
  BY DEF PagingInv, TypeInv
<1>1. n \in Nat /\ outbox' = Append(outbox, m) /\ Len(outbox') = n + 1 /\ outbox'[n + 1] = m
      /\ (\A i \in 1..n : outbox'[i] = outbox[i])
  BY <1>0 DEF Put, PagingInv, TypeInv
<1>2. checkpoint' = checkpoint /\ SavedInv /\ OutboxInv /\ ContextInv
  BY DEF PagingInv
<1>3. ASSUME NEW i \in 0..n PROVE Sent(i)' = Sent(i)
  BY <1>1, <1>2 DEF Sent
<1>4. Sent(n + 1)' = seen'
  <2>1. Sent(n + 1)' = checkpoint.seen \cup ({outbox'[k].job : k \in 1..(n + 1)} \ {NoJob})
    BY <1>2 DEF Sent
  <2>2. {outbox'[k].job : k \in 1..(n + 1)} = {outbox[k].job : k \in 1..n} \cup {m.job}
    <3>1. 1..(n + 1) = 1..n \cup {n + 1}
      BY <1>1
    <3> QED
      BY <1>1, <3>1
  <2>3. seen = checkpoint.seen \cup ({outbox[k].job : k \in 1..n} \ {NoJob})
    BY <1>0, <1>2 DEF ContextInv, Sent
  <2> QED
    BY <2>1, <2>2, <2>3
<1>5. SavedInv'
  BY <1>2, GoodFrame DEF SavedInv
<1>7. OutboxInv'
  <2> SUFFICES ASSUME NEW i \in 1..Len(outbox')
               PROVE  /\ Good(outbox[i].state, Sent(i))'
                      /\ outbox'[i].type = "SITE_COMPLETE" => Done(Sent(i))'
    BY DEF OutboxInv
  <2>1. CASE i \in 1..n
    <3>1. outbox'[i] = outbox[i] /\ Sent(i)' = Sent(i)
      BY <1>1, <1>3, <2>1
    <3>2. Good(outbox[i].state, Sent(i)) /\ (outbox[i].type = "SITE_COMPLETE" => Done(Sent(i)))
      BY <1>0, <1>2, <2>1 DEF OutboxInv
    <3> QED
      BY <3>1, <3>2, GoodFrame
  <2>2. CASE i = n + 1
    <3>1. outbox'[i] = m /\ Sent(i)' = seen'
      BY <1>1, <1>4, <2>2
    <3> QED
      BY <3>1, GoodFrame
  <2> QED
    BY <1>1, <2>1, <2>2
<1>8. ContextInv'
  <2>1. seen' = Sent(Len(outbox))'
    BY <1>1, <1>4
  <2>2. Good(context, seen)'
    BY GoodFrame
  <2> QED
    BY <2>1, <2>2 DEF ContextInv
<1> QED
  BY <1>5, <1>7, <1>8

\* A report of the context's state.
LEMMA ReportKeeps ==
  ASSUME PagingInv, UNCHANGED searchVars, UNCHANGED <<contextVars, checkpoint>>,
         NEW type \in {"WARNING", "ERROR", "SITE_COMPLETE"}, Put(Report(type)),
         type = "SITE_COMPLETE" => Done(seen)
  PROVE  SavedInv' /\ OutboxInv' /\ ContextInv'
<1>1. /\ Report(type) \in Messages /\ Report(type).type = type /\ Report(type).state = context
      /\ Report(type).job = NoJob
  BY DEF Report, Message, Messages, PagingInv, TypeInv
<1>2. seen' = seen /\ context' = context /\ checkpoint' = checkpoint /\ Good(context, seen)
  BY DEF contextVars, PagingInv, ContextInv
<1>3. seen' = seen \cup ({NoJob} \ {NoJob})
  BY <1>2
<1> DEFINE m == Report(type)
<1>4. Good(m.state, seen') /\ (m.type = "SITE_COMPLETE" => Done(seen'))
  BY <1>1, <1>2
<1>5. seen' = seen \cup ({m.job} \ {NoJob}) /\ context' = m.state
  BY <1>1, <1>2, <1>3
<1>6. m \in Messages /\ Put(m)
  BY <1>1
<1> HIDE DEF m
<1> QED
  BY <1>2, <1>4, <1>5, <1>6, PutKeeps

\* No message, and nothing seen.
LEMMA QuietKeeps ==
  ASSUME PagingInv, UNCHANGED searchVars, UNCHANGED contextVars, UNCHANGED <<outbox, checkpoint>>
  PROVE  SavedInv' /\ OutboxInv' /\ ContextInv'
<1>1. context' = context /\ seen' = seen /\ outbox' = outbox /\ checkpoint' = checkpoint
  BY DEF contextVars
<1>2. \A i : Sent(i)' = Sent(i)
  BY <1>1 DEF Sent
<1>3. SavedInv'
  BY <1>1, GoodFrame DEF PagingInv, SavedInv
<1>4. OutboxInv'
  BY <1>1, <1>2, GoodFrame DEF PagingInv, OutboxInv
<1>5. ContextInv'
  BY <1>1, <1>2, GoodFrame DEF PagingInv, ContextInv
<1> QED
  BY <1>3, <1>4, <1>5

LEMMA EmitMessage ==
  ASSUME PagingInv, NEW k \in todo, EmitJob(k)
  PROVE  SavedInv' /\ OutboxInv' /\ ContextInv'
<1> DEFINE m == Message("JOB", JobState(k), listing[k])
<1>1. /\ TypeInv /\ ReadingInv /\ ~LimitReached /\ UNCHANGED searchVars /\ Good(context, seen)
      /\ IsReadable(listing[k]) /\ ~Excluded(k) /\ listing[k] \notin seen
      /\ seen' = seen \cup {listing[k]} /\ context' = JobState(k) /\ checkpoint' = checkpoint
      /\ Put(m)
  BY DEF EmitJob, Handles, PagingInv, LocalInv, ContextInv
<1>2. listing[k] \in Job /\ k \in Int
  BY <1>1, ListingType DEF TypeInv, IsReadable
<1>3. JobState(k) \in States
  BY <1>1, <1>2, NewStates
<1>4. m \in Messages /\ m.job = listing[k] /\ m.state = JobState(k) /\ m.type = "JOB"
  BY <1>2, <1>3 DEF Message, Messages
<1>5. Good(JobState(k), seen \cup {listing[k]})
  BY <1>1, JobStateGood
<1>6. {m.job} \ {NoJob} = {listing[k]}
  BY <1>2, <1>4, Constants
<1> HIDE DEF m
<1>7. Good(m.state, seen') /\ seen' = seen \cup ({m.job} \ {NoJob}) /\ context' = m.state
      /\ (m.type = "SITE_COMPLETE" => Done(seen'))
  BY <1>1, <1>4, <1>5, <1>6
<1> QED
  BY <1>1, <1>4, <1>7, PutKeeps

LEMMA PageMessage ==
  ASSUME PagingInv, ReportPage
  PROVE  SavedInv' /\ OutboxInv' /\ ContextInv'
<1>1. /\ TypeInv /\ ReadingInv /\ UNCHANGED searchVars /\ Good(context, seen)
      /\ (todo = {} \/ LimitReached)
      /\ seen' = seen /\ context' = NextState /\ checkpoint' = checkpoint
  BY DEF ReportPage, PagingInv, LocalInv, ContextInv
<1>2. NextState \in States /\ Good(NextState, seen)
  BY <1>1, NewStates, NextStateGood
<1>3. PICK type \in {"PROGRESS", "ERROR", "SITE_COMPLETE"} :
        /\ Put(Message(type, NextState, NoJob))
        /\ type = "SITE_COMPLETE" => LimitReached
  BY DEF ReportPage
<1> DEFINE m == Message(type, NextState, NoJob)
<1>4. m \in Messages /\ m.job = NoJob /\ m.state = NextState /\ m.type = type /\ Put(m)
  BY <1>2, <1>3 DEF Message, Messages
<1>5. LimitReached => Done(seen)
  BY DEF LimitReached, Done
<1>6. seen' = seen \cup ({NoJob} \ {NoJob})
  BY <1>1
<1> HIDE DEF m
<1>7. Good(m.state, seen') /\ seen' = seen \cup ({m.job} \ {NoJob}) /\ context' = m.state
      /\ (m.type = "SITE_COMPLETE" => Done(seen'))
  BY <1>1, <1>2, <1>3, <1>4, <1>5, <1>6
<1> QED
  BY <1>1, <1>4, <1>7, PutKeeps

-------------------------------------------------------------------------------
\* The stream.

LEMMA AcknowledgeKeeps ==
  ASSUME PagingInv, Acknowledge
  PROVE  SavedInv' /\ OutboxInv' /\ ContextInv'
<1>0. PICK n \in Nat : n = Len(outbox)
  BY DEF PagingInv, TypeInv
<1>1. /\ outbox # <<>> /\ outbox' = Tail(outbox) /\ UNCHANGED searchVars
      /\ context' = context /\ seen' = seen
      /\ checkpoint' = [state |-> Head(outbox).state,
                        seen |-> checkpoint.seen \cup ({Head(outbox).job} \ {NoJob}),
                        completed |-> Head(outbox).type = "SITE_COMPLETE"]
  BY DEF Acknowledge, contextVars
<1>2. outbox \in Seq(Messages) /\ OutboxInv /\ ContextInv
  BY DEF PagingInv, TypeInv
<1>3. /\ n \in Nat \ {0} /\ Head(outbox) = outbox[1] /\ Len(outbox') = n - 1
      /\ \A i \in 1..(n - 1) : outbox'[i] = outbox[i + 1]
  BY <1>0, <1>1, <1>2
<1>4. checkpoint'.state = outbox[1].state
      /\ checkpoint'.seen = checkpoint.seen \cup ({outbox[1].job} \ {NoJob})
      /\ checkpoint'.completed = (outbox[1].type = "SITE_COMPLETE")
  BY <1>1, <1>3
<1>5. ASSUME NEW i \in 0..(n - 1) PROVE Sent(i)' = Sent(i + 1)
  <2>1. Sent(i)' = checkpoint'.seen \cup ({outbox'[k].job : k \in 1..i} \ {NoJob})
    BY DEF Sent
  <2>2. \A k \in 1..i : outbox'[k] = outbox[k + 1]
    BY <1>3
  <2>3. {outbox[k].job : k \in 1..(i + 1)} = {outbox[1].job} \cup {outbox'[k].job : k \in 1..i}
    <3>1. ASSUME NEW k \in 1..(i + 1), k # 1 PROVE k - 1 \in 1..i /\ outbox[k] = outbox'[k - 1]
      <4>1. k - 1 \in 1..i /\ (k - 1) + 1 = k
        BY <3>1
      <4> QED
        BY <2>2, <4>1
    <3>2. ASSUME NEW k \in 1..i PROVE k + 1 \in 1..(i + 1) /\ outbox'[k] = outbox[k + 1]
      BY <2>2, <3>2
    <3>3. 1 \in 1..(i + 1)
      OBVIOUS
    <3> QED
      BY <3>1, <3>2, <3>3
  <2> QED
    BY <1>4, <2>1, <2>3 DEF Sent
<1>6. Sent(1) = checkpoint'.seen
  <2>1. {outbox[k].job : k \in 1..1} = {outbox[1].job}
    OBVIOUS
  <2> QED
    BY <1>4, <2>1 DEF Sent
<1>7. SavedInv'
  <2>1. Good(outbox[1].state, Sent(1)) /\ (outbox[1].type = "SITE_COMPLETE" => Done(Sent(1)))
    BY <1>0, <1>2, <1>3 DEF OutboxInv
  <2>2. Good(checkpoint'.state, checkpoint'.seen) /\ (checkpoint'.completed => Done(checkpoint'.seen))
    BY <1>4, <1>6, <2>1
  <2> QED
    BY <1>1, <2>2, GoodFrame DEF SavedInv
<1>8. OutboxInv'
  <2> SUFFICES ASSUME NEW i \in 1..Len(outbox')
               PROVE  /\ Good(outbox[i].state, Sent(i))'
                      /\ outbox'[i].type = "SITE_COMPLETE" => Done(Sent(i))'
    BY DEF OutboxInv
  <2>1. i \in 1..(n - 1) /\ i + 1 \in 1..n /\ i \in 0..(n - 1)
    BY <1>3
  <2>2. outbox'[i] = outbox[i + 1] /\ Sent(i)' = Sent(i + 1)
    BY <1>3, <1>5, <2>1
  <2>3. Good(outbox[i + 1].state, Sent(i + 1))
        /\ (outbox[i + 1].type = "SITE_COMPLETE" => Done(Sent(i + 1)))
    BY <1>0, <1>2, <2>1 DEF OutboxInv
  <2> QED
    BY <1>1, <2>2, <2>3, GoodFrame
<1>9. ContextInv'
  <2>1. seen = Sent(n) /\ Good(context, seen)
    BY <1>0, <1>2 DEF ContextInv
  <2>2. n - 1 \in 0..(n - 1) /\ (n - 1) + 1 = n
    BY <1>3
  <2>3. Sent(n - 1)' = Sent(n)
    BY <1>5, <2>2
  <2>4. seen' = Sent(Len(outbox))'
    BY <1>1, <1>3, <2>1, <2>3
  <2> QED
    BY <1>1, <2>1, <2>4, GoodFrame DEF ContextInv
<1> QED
  BY <1>7, <1>8, <1>9

LEMMA ResumeKeeps ==
  ASSUME PagingInv, ~Turnover, Resume
  PROVE  SavedInv' /\ OutboxInv' /\ ContextInv' /\ LocalInv'
<1>1. /\ UNCHANGED searchVars /\ checkpoint' = checkpoint /\ outbox' = <<>>
      /\ context' = checkpoint.state /\ seen' = checkpoint.seen
      /\ place' \in {"asking", "ended"} /\ now' = checkpoint.state
      /\ skipped' = checkpoint.state.skipped
  BY DEF Resume, searchVars
<1>2. SavedInv' /\ Good(checkpoint.state, checkpoint.seen)
  BY <1>1, GoodFrame DEF PagingInv, SavedInv
<1>3. Len(outbox') = 0
  BY <1>1
<1>4. OutboxInv'
  BY <1>3 DEF OutboxInv
<1>5. Sent(Len(outbox))' = checkpoint.seen
  <2>1. 1..0 = {}
    OBVIOUS
  <2> QED
    BY <1>1, <1>3, <2>1 DEF Sent
<1>6. ContextInv'
  BY <1>1, <1>2, <1>5, GoodFrame DEF ContextInv
<1>7. LocalInv'
  BY <1>1 DEF LocalInv
<1> QED
  BY <1>2, <1>4, <1>6, <1>7

\* What only the worker changes.
LEMMA SameLocal ==
  ASSUME LocalInv, UNCHANGED <<searchVars, place, now, skipped, todo, context, seen>>
  PROVE  LocalInv'
<1>1. /\ UNCHANGED searchVars /\ place' = place /\ now' = now /\ skipped' = skipped /\ todo' = todo
      /\ context' = context /\ seen' = seen
  OBVIOUS
<1>2. board' = board /\ offset' = offset /\ listing' = listing
  BY <1>1 DEF searchVars
<1>3. ASSUME ReadingInv PROVE ReadingInv'
  <2>1. SkippedInv' <=> SkippedInv
    BY <1>1, <1>2, PagesFrame, GoodFrame, ReadingFrame DEF SkippedInv, Handled, LimitReached, Limited
  <2>2. HandledInv' <=> HandledInv
    BY <1>1, <1>2, PagesFrame, ReadingFrame DEF HandledInv, Handled
  <2> QED
    BY <1>1, <1>2, <1>3, <2>1, <2>2, PagesFrame, GoodFrame, ReadingFrame DEF ReadingInv
<1>4. Done(seen)' <=> Done(seen)
  BY <1>1, GoodFrame
<1> QED
  BY <1>1, <1>3, <1>4 DEF LocalInv

-------------------------------------------------------------------------------
\* The invariant.

LEMMA PagingInit == Init => PagingInv
<1> SUFFICES ASSUME Init PROVE PagingInv
  OBVIOUS
<1>1. TypeInv
  BY TypeInit
<1>2. Good(InitialState, {})
  BY <1>1, InitialGood, SearchType
<1>3. /\ place = "asking" /\ now = InitialState /\ skipped = 0 /\ context = InitialState
      /\ seen = {} /\ outbox = <<>>
      /\ checkpoint = [state |-> InitialState, seen |-> {}, completed |-> FALSE]
  BY DEF Init
<1>4. Len(outbox) = 0 /\ 1..0 = {}
  BY <1>3
<1>5. Sent(Len(outbox)) = {}
  BY <1>3, <1>4 DEF Sent
<1>6. SavedInv /\ OutboxInv /\ ContextInv
  BY <1>2, <1>3, <1>4, <1>5 DEF SavedInv, OutboxInv, ContextInv
<1>7. InitialState.skipped = 0
  BY DEF InitialState
<1>8. LocalInv
  BY <1>3, <1>7 DEF LocalInv
<1> QED
  BY <1>1, <1>6, <1>8 DEF PagingInv

LEMMA PagingStep == ~Turnover /\ PagingInv /\ [Next]_vars => PagingInv'
<1> SUFFICES ASSUME ~Turnover, PagingInv, [Next]_vars PROVE PagingInv'
  OBVIOUS
<1>1. TypeInv'
  BY TypeStep DEF PagingInv
<1>2. TypeInv /\ SavedInv /\ OutboxInv /\ ContextInv /\ LocalInv
  BY DEF PagingInv
<1>3. CASE UNCHANGED vars
  <2>1. SavedInv' /\ OutboxInv' /\ ContextInv'
    BY <1>3, QuietKeeps DEF vars, streamVars
  <2>2. LocalInv'
    <3>1. UNCHANGED <<searchVars, place, now, skipped, todo, context, seen>>
      BY <1>3 DEF vars, localVars, contextVars
    <3> QED
      BY <1>2, <3>1, SameLocal
  <2> QED
    BY <1>1, <2>1, <2>2 DEF PagingInv
<1>4. CASE FetchPage
  <2>1. SavedInv' /\ OutboxInv' /\ ContextInv'
    BY <1>4, QuietKeeps DEF FetchPage, streamVars
  <2>2. ReadingInv' /\ place' = "reading"
    BY <1>4, FetchKeeps DEF FetchPage
  <2> QED
    BY <1>1, <2>1, <2>2 DEF PagingInv, LocalInv
<1>5. CASE FetchFails
  <2>1. PICK type \in {"WARNING", "ERROR"} :
          /\ Put(Report(type))
          /\ \/ now' = context /\ skipped' = context.skipped
             \/ place' = "ended"
    BY <1>5 DEF FetchFails
  <2>2. UNCHANGED searchVars /\ context' = context /\ seen' = seen /\ checkpoint' = checkpoint
        /\ place' \in {"asking", "ended"}
    BY <1>5 DEF FetchFails, contextVars
  <2>3. SavedInv' /\ OutboxInv' /\ ContextInv'
    BY <2>1, <2>2, ReportKeeps DEF contextVars
  <2>4. LocalInv'
    BY <2>1, <2>2 DEF LocalInv
  <2> QED
    BY <1>1, <2>3, <2>4 DEF PagingInv
<1>6. ASSUME NEW k \in todo, SkipExcluded(k) PROVE PagingInv'
  <2>1. SavedInv' /\ OutboxInv' /\ ContextInv'
    BY <1>6, QuietKeeps DEF SkipExcluded, streamVars
  <2>2. ReadingInv' /\ place' = "reading"
    BY <1>6, ExcludedKeeps DEF SkipExcluded, Handles
  <2> QED
    BY <1>1, <2>1, <2>2 DEF PagingInv, LocalInv
<1>7. ASSUME NEW k \in todo, SkipUnreadable(k) PROVE PagingInv'
  <2>1. UNCHANGED searchVars /\ UNCHANGED contextVars /\ checkpoint' = checkpoint
        /\ (Put(Report("WARNING")) \/ UNCHANGED outbox)
    BY <1>7 DEF SkipUnreadable
  <2>2. SavedInv' /\ OutboxInv' /\ ContextInv'
    BY <2>1, QuietKeeps, ReportKeeps
  <2>3. ReadingInv' /\ place' = "reading"
    BY <1>7, UnreadableKeeps DEF SkipUnreadable, Handles
  <2> QED
    BY <1>1, <2>2, <2>3 DEF PagingInv, LocalInv
<1>8. ASSUME NEW k \in todo, SkipSeen(k) PROVE PagingInv'
  <2>1. SavedInv' /\ OutboxInv' /\ ContextInv'
    BY <1>8, QuietKeeps DEF SkipSeen, streamVars
  <2>2. ReadingInv' /\ place' = "reading"
    BY <1>8, SeenKeeps DEF SkipSeen, Handles
  <2> QED
    BY <1>1, <2>1, <2>2 DEF PagingInv, LocalInv
<1>9. ASSUME NEW k \in todo, EmitJob(k) PROVE PagingInv'
  <2>1. SavedInv' /\ OutboxInv' /\ ContextInv'
    BY <1>9, EmitMessage
  <2>2. ReadingInv' /\ place' = "reading"
    BY <1>9, EmitKeeps DEF EmitJob, Handles
  <2> QED
    BY <1>1, <2>1, <2>2 DEF PagingInv, LocalInv
<1>10. CASE ReportPage
  <2>1. SavedInv' /\ OutboxInv' /\ ContextInv'
    BY <1>10, PageMessage
  <2>2. LocalInv'
    <3>1. TypeInv /\ ReadingInv /\ Good(context, seen) /\ (todo = {} \/ LimitReached)
          /\ UNCHANGED searchVars /\ seen' = seen /\ context' = NextState /\ skipped' = skipped
      BY <1>2, <1>10 DEF ReportPage, LocalInv, ContextInv
    <3>2. \/ /\ now' = NextState
             /\ place' = (IF EndsAfter THEN "returned" ELSE "asking")
          \/ place' = "ended"
      BY <1>10 DEF ReportPage
    <3>3. place' = "returned" => Done(seen)'
      BY <3>1, <3>2, LastPage, GoodFrame
    <3>4. NextState.skipped = skipped
      BY DEF NextState
    <3>5. place' = "asking" => now' = context' /\ skipped' = now'.skipped
      BY <3>1, <3>2, <3>4
    <3>6. place' # "reading"
      BY <3>2
    <3> QED
      BY <3>3, <3>5, <3>6 DEF LocalInv
  <2> QED
    BY <1>1, <2>1, <2>2 DEF PagingInv
<1>11. CASE ScrapeReturns
  <2>1. UNCHANGED searchVars /\ UNCHANGED <<contextVars, checkpoint>> /\ Put(Report("SITE_COMPLETE"))
        /\ place' = "ended"
    BY <1>11 DEF ScrapeReturns
  <2>2. Done(seen)
    <3>1. CASE place = "returned"
      BY <1>2, <3>1 DEF LocalInv
    <3>2. CASE place = "asking" /\ (~MayAsk \/ EndsBefore)
      BY <1>2, <3>2, NothingToAsk DEF LocalInv, ContextInv
    <3> QED
      BY <1>11, <3>1, <3>2 DEF ScrapeReturns
  <2>3. SavedInv' /\ OutboxInv' /\ ContextInv'
    BY <2>1, <2>2, ReportKeeps
  <2>4. LocalInv'
    BY <2>1 DEF LocalInv
  <2> QED
    BY <1>1, <2>3, <2>4 DEF PagingInv
<1>12. CASE Acknowledge
  <2>1. SavedInv' /\ OutboxInv' /\ ContextInv'
    BY <1>12, AcknowledgeKeeps
  <2>2. UNCHANGED <<searchVars, place, now, skipped, todo, context, seen>>
    BY <1>12 DEF Acknowledge, localVars, contextVars
  <2>3. LocalInv'
    BY <1>2, <2>2, SameLocal
  <2> QED
    BY <1>1, <2>1, <2>3 DEF PagingInv
<1>13. CASE Resume
  BY <1>1, <1>13, ResumeKeeps DEF PagingInv
<1>14. CASE Stay
  <2>1. UNCHANGED vars
    BY <1>14 DEF Stay
  <2>2. SavedInv' /\ OutboxInv' /\ ContextInv'
    BY <2>1, QuietKeeps DEF vars, streamVars
  <2>3. UNCHANGED <<searchVars, place, now, skipped, todo, context, seen>>
    BY <2>1 DEF vars, localVars, contextVars
  <2>4. LocalInv'
    BY <1>2, <2>3, SameLocal
  <2> QED
    BY <1>1, <2>2, <2>4 DEF PagingInv
<1> QED
  BY <1>3, <1>4, <1>5, <1>6, <1>7, <1>8, <1>9, <1>10, <1>11, <1>12, <1>13, <1>14 DEF Next

\* However often a search is interrupted, wherever, and whatever requests fail:
\* the states that are saved, queued and in use are good ones.  The provider
\* has to list in every run what it lists in the first.
THEOREM PagingInvariant ==
  ASSUME ~Turnover
  PROVE  Spec => []PagingInv
<1>1. Init => PagingInv
  BY PagingInit
<1>2. PagingInv /\ [Next]_vars => PagingInv'
  BY PagingStep
<1> QED
  BY <1>1, <1>2, PTL DEF Spec

-------------------------------------------------------------------------------
\* Properties.

\* The listings of an interrupted page have the same indices when it is read
\* again, for every listing and every division into pages.
THEOREM PositionsHold ==
  ASSUME ~Turnover
  PROVE  Spec => []PositionsAgree
<1>1. PagingInv => PositionsAgree
  <2> SUFFICES ASSUME PagingInv, place = "reading", This.offset \in {"raw", "resumed"}
               PROVE  First = Rank(PageStart(Requested))
    BY DEF PositionsAgree
  <2>1. TypeInv /\ ReadingInv
    BY DEF PagingInv, LocalInv
  <2>2. Turned(now) /\ Positioned(now) /\ ~EndsBefore
        /\ (This.asks = "continuation" => Requested = now.page)
    BY <2>1 DEF ReadingInv
  <2>3. board \in Board /\ listing \in Listings /\ now.page \in Nat \ {0} /\ Len(listing) \in Nat
    BY <2>1, SearchType, NowType
  <2>4. OnPage /\ This.asks # "token"
    BY <2>3, ProfileFacts DEF OnPage
  <2>5. Requested = now.page
    BY <2>1, <2>2, <2>4, Asked
  <2>6. PageStart(now.page) <= Len(listing)
    <3>1. CASE This.asks = "continuation"
      <4>1. now.page = 1 \/ IsPage(now.page)
        BY <2>2, <2>3, <2>5, <3>1 DEF Turned, Requested, RequestedIn
      <4>2. PageStart(1) = 0 /\ PageStart(now.page) \in Nat
        BY <2>3, BeforeFirst, NextStart
      <4> QED
        BY <2>3, <4>1, <4>2 DEF IsPage
    <3>2. CASE This.asks # "continuation"
      <4>1. "empty" \in This.ends
        BY <2>3, <3>2, ProfileFacts
      <4>2. Items # {}
        BY <2>2, <4>1 DEF EndsBefore
      <4>3. IsPage(now.page)
        <5>1. Listed(now.page) # {}
          BY <2>5, <4>2 DEF Items, ItemsOf
        <5> QED
          BY <2>3, <5>1, ListedFacts
      <4> QED
        BY <2>1, <2>3, <4>3, NowType DEF IsPage
    <3> QED
      BY <3>1, <3>2
  <2> QED
    BY <2>2, <2>5, <2>6 DEF Positioned, First
<1> QED
  BY <1>1, PagingInvariant, PTL

\* No job is delivered that the offset excludes, on any board, unless a search
\* that goes on by tokens is resumed behind its last page.
THEOREM OffsetHolds ==
  ASSUME ~Turnover
  PROVE  Spec => []OffsetHonoured
<1>1. PagingInv => OffsetHonoured
  BY DEF PagingInv, ContextInv, Good, Within, OffsetHonoured, BehindTheEnd
<1> QED
  BY <1>1, PagingInvariant, PTL

\* No page is left behind that still has jobs: whatever is acknowledged, a
\* resumed search finds the rest.  Indeed counts the listings it excludes by
\* the jobs it has not seen, and needs a provider that does not list a job twice
\* on a page.
THEOREM NothingIsBehind ==
  ASSUME ~Turnover, "indeed" \in Board => \A l \in Listings : NoRepeats(l)
  PROVE  Spec => []NothingBehind
<1>1. PagingInv => NothingBehind
  <2> SUFFICES ASSUME PagingInv PROVE NothingBehind
    OBVIOUS
  <2>1. Good(checkpoint.state, checkpoint.seen) /\ listing \in Listings /\ board \in Board
    BY DEF PagingInv, SavedInv, TypeInv
  <2>2. Distinct
    BY <2>1, ProfileFacts DEF Distinct
  <2> QED
    BY <2>1, <2>2 DEF Good, Behind, NothingBehind
<1> QED
  BY <1>1, PagingInvariant, PTL

\* A site that is reported complete has reached the limit, or delivered every
\* job of the pages it may ask for.  Indeed and Google drop what they cannot
\* read before they look whether a page is empty, and need one listing on each
\* page that can be read.
THEOREM CompleteIsComplete ==
  ASSUME ~Turnover, "indeed" \in Board => \A l \in Listings : NoRepeats(l),
         Board \cap {"indeed", "google"} # {} => \A l \in Listings : Legible(l)
  PROVE  Spec => []CompleteIsExhausted
<1>1. PagingInv => CompleteIsExhausted
  <2> SUFFICES ASSUME PagingInv PROVE CompleteIsExhausted
    OBVIOUS
  <2>1. (checkpoint.completed => Done(checkpoint.seen)) /\ listing \in Listings /\ board \in Board
    BY DEF PagingInv, SavedInv, TypeInv
  <2>2. Distinct /\ Readable
    BY <2>1, ProfileFacts DEF Distinct, Readable
  <2> QED
    BY <2>1, <2>2 DEF Done, CompleteIsExhausted
<1> QED
  BY <1>1, PagingInvariant, PTL
===============================================================================

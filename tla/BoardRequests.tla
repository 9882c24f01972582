----------------------------- MODULE BoardRequests -----------------------------
(***************************************************************************)
(* How each board's adapter turns what a request comes back with into a    *)
(* failure, which ErrorPolicy classifies.                                  *)
(*                                                                         *)
(* A request ends in a transport failure or in an answer: a status, the    *)
(* time its Retry-After asks for, and what its body says.  Each operator   *)
(* gives the failures, at most one, that one request of one board raises;  *)
(* "token" is whether the request was made with a cursor, a continuation   *)
(* token, or from a resumed or later page, as far as that board says so.   *)
(***************************************************************************)
EXTENDS ErrorPolicy

CONSTANTS
  Statuses,  \* the statuses an answer may have
  Waits      \* the times, in seconds from now, a Retry-After may ask for

ASSUME RequestAssumption == Statuses \subseteq 100..599 /\ Waits \subseteq Int

Served == 200..399
Bodies == {"listings", "garbled", "cursor expired", "rate limit", "unauthorized", "nonsense"}

Answers ==
  [end : {"answer"}, status : Statuses,
   after : {{}} \cup {{wait} : wait \in Waits}, says : Bodies]
\* No answer: the connection, a proxy or certificate, or a body that is cut short
\* or cannot be decoded (ChunkedEncodingError, ContentDecodingError).
Breaks == [end : {"network", "config", "cut"}, status : {0}, after : {{}}, says : {"listings"}]
Ends == Answers \cup Breaks

Config == [carrier |-> "config"]
Value  == [carrier |-> "value"]

When(condition, failure) == IF condition THEN {failure} ELSE {}

\* The exceptions of requests, of which classify_exception does not know "cut";
\* those of tls-client are all taken for the network's.
Break(end, isTls) ==
  When(end.end # "answer", [carrier |-> IF isTls THEN "network" ELSE end.end])

Answered(end, statuses) == end.end = "answer" /\ end.status \in statuses

\* An answer with a status the board does not take.
Unserved(end, served, token) ==
  When(end.end = "answer" /\ end.status \notin served,
       [carrier |-> "typed", status |-> end.status, cursor |-> token, after |-> end.after])

\* response.json() of a body that is none.
NotJson(end, served) == When(Answered(end, served) /\ end.says = "garbled", Value)

\* The "errors" of a GraphQL answer.
SaidError(end, served, token) ==
  When(Answered(end, served) /\ end.says \notin {"listings", "garbled"},
       [carrier |-> "message", says |-> end.says, cursor |-> token])

IndeedPage(end, token) ==
  LET ok == 100..399 IN   \* response.ok
  Break(end, FALSE) \cup Unserved(end, ok, token) \cup NotJson(end, ok)
    \cup SaidError(end, ok, token)

LinkedInPage(end, token) == Break(end, FALSE) \cup Unserved(end, Served, token)

GlassdoorToken(end) == Break(end, TRUE) \cup Unserved(end, Served, FALSE)

\* No token on the page or in the configuration; no location.
GlassdoorUnconfigured == {Config, Value}

\* The location is not one the board knows.
GlassdoorLocation(end) ==
  Break(end, TRUE) \cup Unserved(end, {200}, FALSE) \cup NotJson(end, {200})
    \cup When(Answered(end, {200}) /\ end.says = "nonsense", Value)

GlassdoorPage(end, token) ==
  Break(end, TRUE) \cup Unserved(end, {200}, token) \cup NotJson(end, {200})
    \cup SaidError(end, {200}, token)

GoogleInitial(end) == Break(end, FALSE) \cup Unserved(end, Served, FALSE)
GoogleNextPage(end) == Break(end, FALSE) \cup Unserved(end, Served, TRUE)

ZipRecruiterPage(end, token) ==
  Break(end, TRUE) \cup Unserved(end, Served, token) \cup NotJson(end, Served)

\* Naukri numbers its pages: none expires.
NaukriPage(end) == Break(end, FALSE) \cup Unserved(end, Served, FALSE) \cup NotJson(end, Served)

\* raise_for_status
BaytPage(end) ==
  Break(end, FALSE)
    \cup When(Answered(end, 400..599),
              [carrier |-> "http", status |-> end.status, after |-> end.after])

\* A BDJobsException is an adapter_failure, whose text names the status.
BDJobsPage(end) ==
  Break(end, FALSE)
    \cup When(end.end = "answer" /\ end.status # 200,
              [carrier |-> "text", status |-> end.status])

TlsBoards == {"glassdoor", "ziprecruiter"}

\* create_session: tls-client takes no certificate file.
CertificateRefused(board) == When(board \in TlsBoards, Config)

\* What a board raises before it asks: without its key, token, term or location.
Unconfigured(board) ==
  CertificateRefused(board) \cup
  CASE board \in {"indeed", "ziprecruiter"} -> {Config}
    [] board = "glassdoor"                  -> GlassdoorUnconfigured
    [] board = "naukri"                     -> {Config, Value}
    [] OTHER                                -> {}

\* What a board's requests raise when one of them ends so.
Raised(board, end, token) ==
  CASE board = "indeed"       -> IndeedPage(end, token)
    [] board = "linkedin"     -> LinkedInPage(end, token)
    [] board = "glassdoor"    -> GlassdoorToken(end) \cup GlassdoorLocation(end)
                                   \cup GlassdoorPage(end, token)
    [] board = "google"       -> IF token THEN GoogleNextPage(end) ELSE GoogleInitial(end)
    [] board = "ziprecruiter" -> ZipRecruiterPage(end, token)
    [] board = "naukri"       -> NaukriPage(end)
    [] board = "bayt"         -> BaytPage(end)
    [] board = "bdjobs"       -> BDJobsPage(end)

Boards == {"indeed", "linkedin", "glassdoor", "google", "ziprecruiter", "naukri", "bayt",
           "bdjobs"}

\* A request that failed, with what it came back with.
RequestFailures ==
  UNION {{[board |-> b, end |-> end, error |-> e] : e \in Raised(b, end, token)}
           : b \in Boards, end \in Ends, token \in BOOLEAN}
===============================================================================

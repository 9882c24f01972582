------------------------------ MODULE ErrorPolicy ------------------------------
(***************************************************************************)
(* Which failures of an adapter are retried, and after how long:           *)
(* exception.classify_exception and the delay of runtime._run_adapter.     *)
(*                                                                         *)
(* An exception reaches the classification in one of several carriers: a   *)
(* typed error made from a status or from what a response says, an         *)
(* HTTPError of the requests library, a text that names a status or a rate *)
(* limit, an error of the transport.  A raw Retry-After is a set of at     *)
(* most one number of seconds, empty if it is absent or cannot be read.    *)
(***************************************************************************)
EXTENDS Integers, FiniteSetsExt

CONSTANTS
  MaxRetryAfter,  \* MAX_RETRY_AFTER_SECONDS
  RetryBackoff    \* retry_backoff

ASSUME DelayAssumption == MaxRetryAfter \in Nat /\ RetryBackoff \in Nat

ParseRetryAfter(raw) == {Min({Max({0, seconds}), MaxRetryAfter}) : seconds \in raw}

\* An ErrorInfo; the class of an error decides its two flags.
Retryable == {"transient_network", "rate_limited"}
Info(code, after) ==
  [code |-> code, retryable |-> code \in Retryable, reset |-> code = "cursor_expired",
   after |-> after]

\* error_for_http_status: a Retry-After only goes with what may be retried.
StatusInfo(status, cursorActive, raw) ==
  CASE status = 429                                -> Info("rate_limited", ParseRetryAfter(raw))
    [] status \in {401, 403}                       -> Info("authentication_configuration", {})
    [] status = 410 /\ cursorActive                -> Info("cursor_expired", {})
    [] status \in {408, 425} \/ status \in 500..599 -> Info("transient_network", ParseRetryAfter(raw))
    [] status \in (400..499) \ {401, 403, 408, 410, 425, 429}
       \/ (status = 410 /\ ~cursorActive)          -> Info("invalid_request", {})
    [] OTHER                                       -> Info("adapter_failure", {})

\* error_for_response_message: what a response says instead of a status.
MessageInfo(says, cursorActive) ==
  CASE says = "cursor expired" /\ cursorActive -> Info("cursor_expired", {})
    [] says = "rate limit"                     -> Info("rate_limited", {})
    [] says = "unauthorized"                   -> Info("authentication_configuration", {})
    [] OTHER                                   -> Info("adapter_failure", {})

\* classify_exception.  A typed adapter_failure goes on to the text, which says
\* the same again.  What it does not know is an adapter_failure: "without guessing
\* that unknowns are retryable".
Classify(e) ==
  CASE e.carrier = "typed"   -> StatusInfo(e.status, e.cursor, e.after)
    [] e.carrier = "message" -> MessageInfo(e.says, e.cursor)
    [] e.carrier = "http"    -> StatusInfo(e.status, FALSE, e.after)
    [] e.carrier = "text"    -> StatusInfo(e.status, FALSE, {})
    [] e.carrier = "limit"   -> Info("rate_limited", {})
    [] e.carrier = "config"  -> Info("authentication_configuration", {})
    [] e.carrier = "network" -> Info("transient_network", {})
    [] e.carrier = "value"   -> Info("invalid_request", {})
    [] OTHER                 -> Info("adapter_failure", {})

\* TypeError and ValueError, which the registry raises too.
ContractError == [carrier |-> "value"]

\* Mutant: waits only as long as the backoff says.
DelayMutantBackoffOnly(attempt, info) == RetryBackoff * 2^attempt
Delay(attempt, info) == Max({RetryBackoff * 2^attempt} \cup info.after)
================================================================================

------------------------------ MODULE JobDelivery ------------------------------
(***************************************************************************)
(* What the application of a search may rely on, however many threads,     *)
(* retries and restarts there are behind it.                               *)
(*                                                                         *)
(* It has at most one job in hand, and acknowledges it before it gets      *)
(* another: "If execution stops before acknowledgement, that job can be    *)
(* replayed on restart. [...] Acknowledged jobs are deduplicated" (README  *)
(* of jobstreaming).  A site is complete when all it lists is              *)
(* acknowledged, or as much of it as is wanted, and the verdict on the     *)
(* search is the last it hears.                                            *)
(***************************************************************************)
EXTENDS Integers, FiniteSets

CONSTANTS
  Site,   \* the sites searched
  Job,    \* job keys
  Listed, \* Listed[s]: the jobs of s that can be read, on all of its pages
  Wanted  \* how many jobs of a site are wanted

VARIABLES
  acknowledged, \* the jobs of each site the application has acknowledged
  hand,         \* the job it has got and not yet acknowledged, with its site
  completed,    \* the sites that are never asked again
  verdict       \* what it was told of the whole search, "none" before its end

vars == <<acknowledged, hand, completed, verdict>>

Exhausted(s) ==
  Cardinality(acknowledged[s]) >= Wanted \/ Listed[s] \subseteq acknowledged[s]

\* A listed job that was not acknowledged before, while more are wanted.
Return(s, j) ==
  /\ hand = {} /\ verdict = "none"
  /\ ~completed[s] /\ Cardinality(acknowledged[s]) < Wanted
  /\ j \in Listed[s] \ acknowledged[s]
  /\ hand' = {<<s, j>>}
  /\ UNCHANGED <<acknowledged, completed, verdict>>

Acknowledge(s, j) ==
  /\ hand = {<<s, j>>}
  /\ acknowledged' = [acknowledged EXCEPT ![s] = @ \cup {j}]
  /\ hand' = {}
  /\ UNCHANGED <<completed, verdict>>

Complete(s) ==
  /\ hand = {} /\ verdict = "none"
  /\ Exhausted(s)
  /\ completed' = [completed EXCEPT ![s] = TRUE]
  /\ UNCHANGED <<acknowledged, hand, verdict>>

\* The search ends, and is complete if all of its sites are.
Finish ==
  /\ hand = {} /\ verdict = "none"
  /\ verdict' = IF \A s \in Site : completed[s] THEN "complete" ELSE "incomplete"
  /\ UNCHANGED <<acknowledged, hand, completed>>

\* Another run of the search knows what is acknowledged and no more.
Restart ==
  /\ hand' = {} /\ verdict' = "none"
  /\ UNCHANGED <<acknowledged, completed>>

Init ==
  /\ acknowledged = [s \in Site |-> {}] /\ hand = {}
  /\ completed = [s \in Site |-> FALSE] /\ verdict = "none"

Next ==
  \/ \E s \in Site, j \in Job : Return(s, j) \/ Acknowledge(s, j)
  \/ \E s \in Site : Complete(s)
  \/ Finish \/ Restart

Spec == Init /\ [][Next]_vars
================================================================================

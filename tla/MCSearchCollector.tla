--------------------------- MODULE MCSearchCollector ---------------------------
(***************************************************************************)
(* Values for the constants of SearchCollector that a cfg cannot write.    *)
(***************************************************************************)
EXTENDS SearchCollector

CONSTANTS a, b, j1, j2

\* Two sites that share the queue; their listings are alike, so that they are
\* interchangeable.
TwoSitesPages      == [s \in {a, b} |-> <<{j1}>>]
TwoSitesUnreadable == [s \in {a, b} |-> {}]
TwoSitesSymmetry   == Permutations({a, b})
===============================================================================

--------------------------- MODULE MCAdapterPaging ---------------------------
(***************************************************************************)
(* Values for the constants of AdapterPaging that a cfg cannot write.      *)
(***************************************************************************)
EXTENDS AdapterPaging

CONSTANTS j1, j2, j3, j4, j5

\* Three pages with an unreadable listing; two that list a job twice; more than
\* max_pages, again with jobs listed twice; and nothing at all.
StableListings ==
  {<<j1, j2, Bad, j3, j4>>, <<j1, j2, j3, j2>>, <<j1, j2, j3, j4, j5, j3, j2>>, <<>>}

\* What the proofs assume of the listings of some boards holds of all of these.
ASSUME StableListingsAssumption ==
  \A l \in StableListings : Legible(l) /\ NoRepeats(l)

\* The first page shows other jobs the next day.
OtherListings == {<<j1, j2>>, <<j3, j4>>}
===============================================================================

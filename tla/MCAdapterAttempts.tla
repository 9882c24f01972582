-------------------------- MODULE MCAdapterAttempts --------------------------
(***************************************************************************)
(* Values for the constants of AdapterAttempts that a cfg cannot write.    *)
(***************************************************************************)
EXTENDS AdapterAttempts, TLC

CONSTANTS u1, u2

AContract(can, version, resumes) == [can |-> can, version |-> version, resumes |-> resumes]

NoCapabilities == AContract("nothing", 1, FALSE)
Old  == AContract("filters", 1, TRUE)
New  == AContract("filters", 2, TRUE)
Once == AContract("filters", 1, FALSE)

Made(makes, declares, context, isClass) ==
  [makes |-> makes, declares |-> declares, context |-> context, isClass |-> isClass,
   bridged |-> FALSE]

\* A board's class, and one that breaks its word; functions that declare nothing
\* and may make different adapters; an adapter without a context made by a
\* function, by a class, and behind legacy_adapter().
Factories ==
  {Made({New}, {New}, TRUE, TRUE), Made({Old, New}, {Old}, TRUE, FALSE),
   Made({Old, Once}, {}, TRUE, FALSE), Made({New}, {}, TRUE, FALSE),
   Made({New, Old}, {}, FALSE, FALSE), Made({New}, {New}, FALSE, TRUE),
   [Made({Old, New}, {}, FALSE, FALSE) EXCEPT !.bridged = TRUE]}

\* A status of each kind; the times a board asks for are past, shorter than the
\* backoff, longer, and longer than what is granted.
SomeStatuses == {200, 204, 302, 401, 403, 404, 408, 410, 425, 429, 500, 503, 599}
SomeWaits    == {-5, 0, 4, 9}

StreamSymmetry == Permutations({u1, u2})
===============================================================================

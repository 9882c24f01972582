---------------------------- MODULE MCSearchStream ----------------------------
(***************************************************************************)
(* Values for the constants of SearchStream that a cfg cannot write.       *)
(***************************************************************************)
EXTENDS SearchStream, TLC

CONSTANTS a, b, j1, j2, j3, j4

\* One site: a listing of the first page is unreadable, another is repeated on
\* the second, and the site lists one job more than the two that are wanted.
OneSitePages      == a :> <<{j1, j4}, {j1, j2, j3}>>
OneSiteUnreadable == a :> {j4}
===============================================================================

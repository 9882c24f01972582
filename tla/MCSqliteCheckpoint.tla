--------------------------- MODULE MCSqliteCheckpoint ---------------------------
(***************************************************************************)
(* Model values for SqliteCheckpoint.  The streams are not interchangeable *)
(* (one of them is Plain), so there is no symmetry.                        *)
(***************************************************************************)
EXTENDS SqliteCheckpoint

CONSTANTS indeed, one, other, first, second
================================================================================

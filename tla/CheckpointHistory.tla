--------------------------- MODULE CheckpointHistory ---------------------------
(***************************************************************************)
(* What a durable checkpoint store promises, whoever uses it: one register *)
(* that holds nothing or a checkpoint, and goes from one checkpoint to the *)
(* next in whole steps.  Within a generation the revision grows by one and *)
(* acknowledged job keys are only ever appended, one at a time.            *)
(*                                                                         *)
(* "Checkpoint metadata and adapter state use generation-and-revision      *)
(* compare-and-swap semantics.  Seen job keys live in an ordered           *)
(* append-only table" (class SqliteCheckpointStore).                       *)
(***************************************************************************)
EXTENDS Integers, Sequences

CONSTANTS
  Site,    \* request.sites
  Key,     \* job keys
  Cursor,  \* private resume states of an adapter
  Fresh,   \* the resume state of an adapter that has not begun
  Nothing  \* no checkpoint

VARIABLE stored  \* the checkpoint, or Nothing

\* A new generation starts with no key and every site at its beginning.
IsFirst(c) ==
  /\ c.keys = [s \in Site |-> <<>>]
  /\ c.cursor = [s \in Site |-> Fresh]
  /\ ~c.completed

Create ==
  /\ stored = Nothing /\ stored' # Nothing
  /\ IsFirst(stored') /\ stored'.revision = 0

\* A new search takes the place of another one.
Replace ==
  /\ stored # Nothing /\ stored' # Nothing
  /\ IsFirst(stored')
  /\ stored'.generation # stored.generation
  /\ stored'.revision = stored.revision + 1

Clear == stored # Nothing /\ stored' = Nothing

SameSearch ==
  /\ stored # Nothing /\ stored' # Nothing
  /\ stored'.generation = stored.generation
  /\ stored'.revision = stored.revision + 1

\* An event of site s is acknowledged: the resume state it carries, and a key
\* the site did not have if it is a job's.
AdvanceSite(s) ==
  /\ SameSearch
  /\ \/ stored'.keys = stored.keys
     \/ \E k \in Key : /\ \A i \in DOMAIN stored.keys[s] : stored.keys[s][i] # k
                       /\ stored'.keys = [stored.keys EXCEPT ![s] = Append(@, k)]
  /\ \E c \in Cursor : stored'.cursor = [stored.cursor EXCEPT ![s] = c]
  /\ stored'.completed = stored.completed

\* The end of the search is acknowledged.
AdvanceSearch ==
  /\ SameSearch
  /\ stored'.keys = stored.keys /\ stored'.cursor = stored.cursor
  /\ stored'.completed

Init == stored = Nothing

Next == Create \/ Replace \/ Clear \/ (\E s \in Site : AdvanceSite(s)) \/ AdvanceSearch

Spec == Init /\ [][Next]_stored
================================================================================

---------------------------- MODULE SqliteCheckpoint ----------------------------
(***************************************************************************)
(* One SQLite checkpoint file and the streams, in one process or several,  *)
(* that use it: jobstreaming.checkpoint.SqliteCheckpointStore with the     *)
(* calls jobstreaming.runtime.SearchStream makes of it.                    *)
(*                                                                         *)
(* A stream opens its store (SqliteSchema), goes on from the stored        *)
(* checkpoint (resume) or replaces it, and acknowledges one event after    *)
(* the other, each in a transaction of several statements.  A statement    *)
(* may fail, the process may die or be interrupted, another stream may     *)
(* replace the checkpoint, the application may clear it.                   *)
(*                                                                         *)
(* SQLite itself is the external part: a write transaction holds the only  *)
(* write lock from BEGIN IMMEDIATE on, works on an image of its own, and   *)
(* publishes it by COMMIT; a read transaction sees one committed image.    *)
(***************************************************************************)
EXTENDS SqliteSchema

CONSTANTS
  Plain,           \* those that save whole checkpoints (no save_incremental)
  Site, Key, Cursor, Fresh,
  MaxRevision,     \* bound: no event is acknowledged beyond this revision
  MaxGeneration,   \* bound: new searches that are begun
  NoOne,           \* nobody holds the write lock
  Nothing          \* no checkpoint, no site, no key

ASSUME StreamAssumption == Plain \subseteq Stream /\ NoOne \notin Stream
ASSUME CursorAssumption == Fresh \in Cursor
ASSUME BoundAssumption  == MaxRevision \in Nat /\ MaxGeneration \in Nat

VARIABLES
  db,         \* the committed image of the file
  image,      \* what the write transaction under way has made of it
  writer,     \* who holds the write lock
  drawn,      \* uuid4() generations drawn so far
  place,      \* where each stream is
  memory,     \* its checkpoint: what it has acknowledged
  next,       \* the checkpoint it saves, or the image it loads from
  write       \* CheckpointWrite: the site, and the new key if there is one

fileVars   == <<db, image, writer>>
streamVars == <<place, memory, next, write>>
vars == <<schemaVars, fileVars, drawn, streamVars>>

History == INSTANCE CheckpointHistory WITH stored <- db.checkpoint

Checkpoint ==
  [generation : Nat, revision : Nat, completed : BOOLEAN,
   keys : [Site -> Seq(Key)], cursor : [Site -> Cursor]]

ASSUME NothingAssumption == Nothing \notin Site \cup Key \cup Checkpoint

\* The image of a file: the header with the keys and the cursor of each site, and
\* the emitted_count column of each site's row (zero stands for no row too).
NoCount == [s \in Site |-> 0]
EmptyFile == [checkpoint |-> Nothing, count |-> NoCount]

\* SearchCheckpoint.for_request: a new generation at revision 0.
ForRequest(g) ==
  [generation |-> g, revision |-> 0, completed |-> FALSE,
   keys |-> [s \in Site |-> <<>>], cursor |-> [s \in Site |-> Fresh]]

Counts(c) == [s \in Site |-> Len(c.keys[s])]

GoTo(p, where) == place' = [place EXCEPT ![p] = where]

-------------------------------------------------------------------------------
\* SearchStream._load_checkpoint.

\* resume=False: replace whatever there is by a new search.
OpenFresh(p) ==
  /\ place[p] = "none" /\ store[p] = "open" /\ drawn < MaxGeneration
  /\ drawn' = drawn + 1
  /\ next' = [next EXCEPT ![p] = ForRequest(drawn + 1)]
  /\ write' = [write EXCEPT ![p] = [task |-> "replace", site |-> Nothing, key |-> Nothing]]
  /\ GoTo(p, "begin")
  /\ UNCHANGED <<fileVars, memory>>

\* resume=True: the first query of load() fixes what its read transaction sees ...
OpenResume(p) ==
  /\ place[p] = "none" /\ store[p] = "open"
  /\ next' = [next EXCEPT ![p] = db]
  /\ GoTo(p, "loading")
  /\ UNCHANGED <<fileVars, drawn, memory, write>>

\* Mutant: the tables are read outside of a transaction.
SeenByMutantNoTransaction(p) ==
  IF db.checkpoint = Nothing THEN next[p]
  ELSE [db EXCEPT !.checkpoint.revision = next[p].checkpoint.revision,
                  !.checkpoint.generation = next[p].checkpoint.generation]
SeenBy(p) == next[p]

\* ... there is a checkpoint to go on from ...
LoadFinds(p) ==
  /\ place[p] = "loading" /\ next[p].checkpoint # Nothing
  /\ SeenBy(p).count = Counts(SeenBy(p).checkpoint)
  /\ memory' = [memory EXCEPT ![p] = SeenBy(p).checkpoint]
  /\ next' = [next EXCEPT ![p] = Nothing]
  /\ GoTo(p, "open")
  /\ UNCHANGED <<fileVars, drawn, write>>

\* ... or none: save a new one.
LoadFindsNothing(p) ==
  /\ place[p] = "loading" /\ next[p].checkpoint = Nothing /\ drawn < MaxGeneration
  /\ drawn' = drawn + 1
  /\ next' = [next EXCEPT ![p] = ForRequest(drawn + 1)]
  /\ write' = [write EXCEPT ![p] = [task |-> "save", site |-> Nothing, key |-> Nothing]]
  /\ GoTo(p, "begin")
  /\ UNCHANGED <<fileVars, memory>>

-------------------------------------------------------------------------------
\* SearchStream.ack: the next checkpoint, and how it is written.

Acknowledge(p, c, s, k) ==
  /\ place[p] = "open" /\ memory[p].revision < MaxRevision
  /\ next' = [next EXCEPT ![p] = [c EXCEPT !.revision = @ + 1]]
  /\ write' = [write EXCEPT ![p] =
       [task |-> IF p \in Plain THEN "save" ELSE "increment", site |-> s, key |-> k]]
  /\ GoTo(p, "begin")
  /\ UNCHANGED <<fileVars, drawn, memory>>

\* A job that was not acknowledged before.
AckJob(p) ==
  \E s \in Site, k \in Key, r \in Cursor :
    /\ place[p] = "open" /\ ~Contains(memory[p].keys[s], k)
    /\ Acknowledge(p, [memory[p] EXCEPT !.keys[s] = Append(@, k), !.cursor[s] = r], s, k)

\* Any other event of a site: its resume state.
AckState(p) ==
  \E s \in Site, r \in Cursor :
    /\ place[p] = "open"
    /\ Acknowledge(p, [memory[p] EXCEPT !.cursor[s] = r], s, Nothing)

\* SearchCompleteEvent, of a search that completed.
AckSearch(p) ==
  /\ place[p] = "open"
  /\ Acknowledge(p, [memory[p] EXCEPT !.completed = TRUE], Nothing, Nothing)

-------------------------------------------------------------------------------
\* SqliteCheckpointStore: the write transaction.

MayBegin == writer = NoOne

\* BEGIN IMMEDIATE takes the lock ...
Begin(p) ==
  /\ place[p] = "begin" /\ MayBegin
  /\ writer' = p
  /\ image' = db
  /\ GoTo(p, "header")
  /\ UNCHANGED <<db, drawn, memory, next, write>>

\* The call raises: a stream that is being made is not made, a conflict closes
\* one that acknowledges, another error leaves it as it was.
Raise(p, conflict) ==
  LET stays == ~conflict /\ memory[p] # Nothing IN
  /\ GoTo(p, IF stays THEN "open" ELSE "none")
  /\ memory' = IF stays THEN memory ELSE [memory EXCEPT ![p] = Nothing]
  /\ next' = [next EXCEPT ![p] = Nothing]
  /\ write' = [write EXCEPT ![p] = Nothing]
  /\ UNCHANGED drawn

\* ... or gives up after the busy timeout.
BusyTimeout(p) ==
  /\ place[p] = "begin" /\ writer # NoOne
  /\ Raise(p, FALSE)
  /\ UNCHANGED fileVars

RolledBack == db

Rollback(p) ==
  /\ db' = RolledBack
  /\ image' = Nothing
  /\ writer' = NoOne

Writes(p, file, where) ==
  /\ image' = file
  /\ GoTo(p, where)
  /\ UNCHANGED <<db, writer, drawn, memory, next, write>>

\* Mutant: a header is taken for the stream's own if the revision fits.
OwnsMutantNoGeneration(stored, c) == c.revision = stored.revision + 1
\* Mutant: the revision is not compared.
OwnsMutantNoRevision(stored, c) == c.generation = stored.generation
Owns(stored, c) ==
  c.revision = stored.revision + 1 /\ c.generation = stored.generation

\* _advance_header: the first checkpoint, or the successor of the stored one.
MayAdvance(stored, c) ==
  IF stored = Nothing THEN c.revision = 0 ELSE Owns(stored, c)

\* The header of c over the rows of the image; without a header there are none.
WithHeader(c) ==
  LET stored == image.checkpoint
      rows   == IF stored = Nothing THEN c ELSE stored IN
  [image EXCEPT !.checkpoint = [c EXCEPT !.keys = rows.keys, !.cursor = rows.cursor]]

AfterHeader(p) ==
  CASE write[p].task = "save"           -> "rows"
    [] write[p].task = "increment" /\ write[p].site # Nothing -> "adapter"
    [] OTHER                            -> "commit"

AdvanceHeader(p) ==
  /\ place[p] = "header" /\ write[p].task # "replace"
  /\ MayAdvance(image.checkpoint, next[p])
  /\ Writes(p, WithHeader(next[p]), AfterHeader(p))

\* Mutant: the replacing checkpoint starts at its own revision.
ReplacementMutantRevision(c) == c
Replacement(c) ==
  IF image.checkpoint = Nothing THEN c
  ELSE [c EXCEPT !.revision = image.checkpoint.revision + 1]

\* replace(): everything goes, and the new checkpoint is there.
ReplaceSearch(p) ==
  /\ place[p] = "header" /\ write[p].task = "replace"
  /\ next' = [next EXCEPT ![p] = Replacement(@)]
  /\ image' = [checkpoint |-> Replacement(next[p]), count |-> NoCount]
  /\ GoTo(p, "commit")
  /\ UNCHANGED <<db, writer, drawn, memory, write>>

\* _save_full: acknowledged keys and their order are append-only.
AppendsOnly(c) == \A s \in Site : IsPrefix(image.checkpoint.keys[s], c.keys[s])

SaveFull(p) ==
  /\ place[p] = "rows" /\ AppendsOnly(next[p])
  /\ Writes(p, [checkpoint |-> next[p], count |-> Counts(next[p])], "commit")

\* save_incremental: the count must be the stored one, plus the new key.
Increments(p) ==
  Len(next[p].keys[write[p].site]) =
    image.count[write[p].site] + (IF write[p].key = Nothing THEN 0 ELSE 1)

\* _write_adapter.
WriteAdapter(p) ==
  LET s == write[p].site IN
  /\ place[p] = "adapter" /\ Increments(p)
  /\ Writes(p, [image EXCEPT !.count[s] = Len(next[p].keys[s]),
                             !.checkpoint.cursor[s] = next[p].cursor[s]],
               IF write[p].key = Nothing THEN "commit" ELSE "key")

IsNewKey(p) == ~Contains(image.checkpoint.keys[write[p].site], write[p].key)

\* The row of the new key, at the position of the new count.
InsertKey(p) ==
  /\ place[p] = "key" /\ IsNewKey(p)
  /\ Writes(p, [image EXCEPT !.checkpoint.keys[write[p].site] = Append(@, write[p].key)],
               "commit")

\* What each group of statements asks of the rows it finds.
Accepts(p) ==
  CASE place[p] = "header" -> write[p].task = "replace"
                                \/ MayAdvance(image.checkpoint, next[p])
    [] place[p] = "rows"    -> AppendsOnly(next[p])
    [] place[p] = "adapter" -> Increments(p)
    [] place[p] = "key"     -> IsNewKey(p)
    [] OTHER                -> TRUE

\* CheckpointConflictError of any of them.
Conflict(p) ==
  /\ ~Accepts(p)
  /\ Rollback(p)
  /\ Raise(p, TRUE)

InTransaction(p) == place[p] \in {"header", "rows", "adapter", "key", "commit"}

\* sqlite3.Error of any statement, COMMIT included.
StatementFails(p) ==
  /\ InTransaction(p)
  /\ Rollback(p)
  /\ Raise(p, FALSE)

Commit(p) ==
  /\ place[p] = "commit"
  /\ db' = image
  /\ image' = Nothing
  /\ writer' = NoOne
  /\ GoTo(p, "committed")
  /\ UNCHANGED <<drawn, memory, next, write>>

\* The call returns, and the stream takes the new checkpoint for its own.
Return(p) ==
  /\ place[p] = "committed"
  /\ memory' = [memory EXCEPT ![p] = next[p]]
  /\ next' = [next EXCEPT ![p] = Nothing]
  /\ write' = [write EXCEPT ![p] = Nothing]
  /\ GoTo(p, "open")
  /\ UNCHANGED <<fileVars, drawn>>

\* A KeyboardInterrupt in the caller's thread, after COMMIT: the stream never
\* learns that its event was acknowledged.
Interrupt(p) ==
  /\ place[p] = "committed"
  /\ Raise(p, FALSE)
  /\ UNCHANGED fileVars

-------------------------------------------------------------------------------
\* The stream is closed, or its process dies: SQLite discards its transaction.
Stop(p) ==
  /\ place[p] # "none"
  /\ IF InTransaction(p) THEN Rollback(p) ELSE UNCHANGED fileVars
  /\ Raise(p, TRUE)
  /\ StoreGoesTo(p, "none") \/ UNCHANGED store
  /\ UNCHANGED tables

\* The application calls clear(), a transaction of its own.
Clear ==
  /\ writer = NoOne /\ db # EmptyFile
  /\ db' = EmptyFile
  /\ UNCHANGED <<schemaVars, image, writer, drawn, streamVars>>

Init ==
  /\ SchemaInit
  /\ db = EmptyFile
  /\ image = Nothing /\ writer = NoOne /\ drawn = 0
  /\ place  = [p \in Stream |-> "none"]
  /\ memory = [p \in Stream |-> Nothing]
  /\ next   = [p \in Stream |-> Nothing]
  /\ write  = [p \in Stream |-> Nothing]

Opens(p) == OpenFresh(p) \/ OpenResume(p) \/ LoadFinds(p) \/ LoadFindsNothing(p)
Acks(p)  == AckJob(p) \/ AckState(p) \/ AckSearch(p)

\* A step of the call that is under way.
Saves(p) ==
  \/ Begin(p) \/ BusyTimeout(p)
  \/ AdvanceHeader(p) \/ ReplaceSearch(p) \/ SaveFull(p) \/ WriteAdapter(p) \/ InsertKey(p)
  \/ Conflict(p) \/ StatementFails(p) \/ Commit(p) \/ Return(p) \/ Interrupt(p)

OpensStore(p) == SchemaStep(p, MayBegin) /\ UNCHANGED <<fileVars, drawn, streamVars>>

Next ==
  \/ Clear
  \/ \E p \in Stream :
       \/ OpensStore(p) \/ Stop(p)
       \/ (Opens(p) \/ Acks(p) \/ Saves(p)) /\ UNCHANGED schemaVars

Spec == Init /\ [][Next]_vars

-------------------------------------------------------------------------------
\* Properties.

\* README: files of older libraries load, and "SQLite adds the missing column only
\* after its future-schema compatibility preflight succeeds": whoever opened the
\* file, and whatever became of others that did, an open store finds all its
\* tables, and a later library's file stays as it is.  And the committed rows can
\* be loaded: load() refuses an emitted_count that differs from the number of keys.
Loadable ==
  /\ (\E p \in Stream : store[p] = "open") => tables = Complete
  /\ "version_2" \in tables => tables = LaterFile
  /\ db.count = IF db.checkpoint = Nothing THEN NoCount ELSE Counts(db.checkpoint)

Content(c) == <<c.keys, c.cursor, c.completed>>

\* The checkpoints somebody goes on from.
Known == {db.checkpoint} \cup {memory[p] : p \in Stream}

\* README: "an opaque generation identity, a monotonically increasing revision
\* within that generation": the two identify a checkpoint.  Whoever holds the
\* same generation and revision, the file or a stream, holds the same keys and
\* resume states; compare-and-swap rests on it.
IdentityMeansContent ==
  \A c, d \in Known \ {Nothing} :
    c.generation = d.generation /\ c.revision = d.revision => Content(c) = Content(d)

\* README: "Acknowledged jobs are deduplicated": what a stream has acknowledged
\* is in the file, in order, unless another search took its place.
AcknowledgedIsStored ==
  \A p \in Stream :
    memory[p] # Nothing /\ db.checkpoint # Nothing
      /\ memory[p].generation = db.checkpoint.generation =>
        /\ memory[p].revision <= db.checkpoint.revision
        /\ \A s \in Site : IsPrefix(memory[p].keys[s], db.checkpoint.keys[s])

Fenced(p) ==
  /\ memory[p] # Nothing /\ place[p] # "committed"
  /\ db.checkpoint = Nothing \/ db.checkpoint.generation # memory[p].generation

\* A stream whose search was replaced or cleared acknowledges nothing any more,
\* even if revisions agree again.
FencedStaysFenced ==
  [][\A p \in Stream : Fenced(p) =>
       /\ memory'[p] \in {memory[p], Nothing}
       /\ memory'[p] # Nothing => Fenced(p)']_vars

\* The file goes through the history CheckpointHistory promises.
ImplementsHistory == History!Spec
================================================================================

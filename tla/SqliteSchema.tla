------------------------------ MODULE SqliteSchema ------------------------------
(***************************************************************************)
(* Opening the file of a jobstreaming.checkpoint.SqliteCheckpointStore:    *)
(* _initialize() looks whether the library may use the file, adds what an  *)
(* older version has left out, and creates what is not there.              *)
(*                                                                         *)
(* The file may be new, of an older library, or of a later one.  Several   *)
(* processes may open it at once and may die at any point: executescript   *)
(* commits each of its statements, so that others see the file in between. *)
(***************************************************************************)
EXTENDS Integers, Sequences, SequencesExt

CONSTANT Stream   \* who opens the file, each with a store of its own

VARIABLES
  tables,  \* the tables and rows of the file, and whether there is a generation column
  store    \* how far the store of each stream is

schemaVars == <<tables, store>>

\* What CREATE TABLE and INSERT make, in their order ("rows" are two tables).
Statements == <<"schema_table", "version_1", "search_table", "rows">>
Made(statement) ==
  IF statement = "search_table" THEN {"search_table", "generation_column"} ELSE {statement}

NewFile    == {}
LegacyFile == ToSet(Statements)
LaterFile  == {"schema_table", "version_2"}
Complete   == UNION {Made(statement) : statement \in ToSet(Statements)}

StoreGoesTo(p, where) == store' = [store EXCEPT ![p] = where]

\* _validate_existing_schema: a file without a schema table is new, one without a
\* version or with another one is refused.
IsNew       == "schema_table" \notin tables
IsSupported == "version_1" \in tables

Validate(p) ==
  /\ store[p] = "none"
  /\ \/ IsNew       /\ StoreGoesTo(p, "creating")
     \/ IsSupported /\ StoreGoesTo(p, "migrating")
  /\ UNCHANGED tables

\* CheckpointCompatibilityError
Incompatible(p) ==
  /\ store[p] = "none" /\ ~IsNew /\ ~IsSupported
  /\ UNCHANGED schemaVars

\* Mutant: the column is left to CREATE TABLE IF NOT EXISTS.
MigratedMutantLeft == tables
Migrated == tables \cup (IF "search_table" \in tables THEN {"generation_column"} ELSE {})

\* _migrate_v1_generation, in a transaction; "isFree" is the write lock.
Migrate(p, isFree) ==
  /\ store[p] = "migrating" /\ isFree
  /\ tables' = Migrated
  /\ StoreGoesTo(p, "creating")

\* executescript: what exists already is left as it is.
Missing == {i \in DOMAIN Statements : Statements[i] \notin tables}

Create(p, isFree) ==
  /\ store[p] = "creating" /\ isFree
  /\ \E i \in Missing : /\ \A j \in Missing : i <= j
                        /\ tables' = tables \cup Made(Statements[i])
  /\ UNCHANGED store

Opened(p, isFree) ==
  /\ store[p] = "creating" /\ isFree /\ Missing = {}
  /\ StoreGoesTo(p, "open")
  /\ UNCHANGED tables

\* The process dies, or a statement fails or waits too long for the lock.
OpeningFails(p) ==
  /\ store[p] \in {"migrating", "creating"}
  /\ StoreGoesTo(p, "none")
  /\ UNCHANGED tables

SchemaInit ==
  /\ tables \in {NewFile, LegacyFile, LaterFile}
  /\ store = [p \in Stream |-> "none"]

SchemaStep(p, isFree) ==
  \/ Validate(p) \/ Incompatible(p) \/ Migrate(p, isFree) \/ Create(p, isFree)
  \/ Opened(p, isFree) \/ OpeningFails(p)
================================================================================

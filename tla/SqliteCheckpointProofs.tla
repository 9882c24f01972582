------------------------- MODULE SqliteCheckpointProofs -------------------------
(***************************************************************************)
(* Proofs about SqliteCheckpoint, for any number of streams, sites, keys,  *)
(* resume states, revisions and generations.                               *)
(***************************************************************************)
EXTENDS SqliteCheckpoint, TLAPS

-------------------------------------------------------------------------------
\* Opening a file.  Statements that are made one at a time are made in their order.

Halfway == {NewFile, {"schema_table"}, {"schema_table", "version_1"},
            {"schema_table", "version_1", "search_table", "generation_column"}}

SchemaInv ==
  /\ tables \in Halfway \cup {Complete, LegacyFile, LaterFile}
  /\ store \in [Stream -> {"none", "migrating", "creating", "open"}]
  /\ \A p \in Stream :
       /\ store[p] = "migrating" => "version_1" \in tables
       /\ store[p] = "creating" => tables \in Halfway \cup {Complete}
       /\ store[p] = "open" => tables = Complete

\* The sets of tables, spelled out.
LEMMA TableSets ==
  /\ NewFile = {}
  /\ LegacyFile = {"schema_table", "version_1", "search_table", "rows"}
  /\ LaterFile = {"schema_table", "version_2"}
  /\ Complete = {"schema_table", "version_1", "search_table", "generation_column", "rows"}
  /\ DOMAIN Statements = 1..4
  /\ Statements[1] = "schema_table" /\ Statements[2] = "version_1"
  /\ Statements[3] = "search_table" /\ Statements[4] = "rows"
  <1>1. /\ DOMAIN Statements = 1..4
        /\ Statements[1] = "schema_table" /\ Statements[2] = "version_1"
        /\ Statements[3] = "search_table" /\ Statements[4] = "rows"
    BY DEF Statements
  <1>2. ToSet(Statements) = {"schema_table", "version_1", "search_table", "rows"}
    <2>1. 1..4 = {1, 2, 3, 4}
      OBVIOUS
    <2>2. ToSet(Statements) = {Statements[i] : i \in {1, 2, 3, 4}}
      BY <1>1, <2>1 DEF ToSet
    <2> QED BY <1>1, <2>2
  <1>3. Complete = {"schema_table", "version_1", "search_table", "generation_column", "rows"}
    <2>1. /\ Made("schema_table") = {"schema_table"} /\ Made("version_1") = {"version_1"}
          /\ Made("search_table") = {"search_table", "generation_column"}
          /\ Made("rows") = {"rows"}
      BY DEF Made
    <2>2. Complete = UNION {Made("schema_table"), Made("version_1"), Made("search_table"),
                            Made("rows")}
      BY <1>2 DEF Complete
    <2> QED BY <2>1, <2>2
  <1> QED BY <1>1, <1>2, <1>3 DEF NewFile, LegacyFile, LaterFile

\* A file that is found is new, of an older or of a later library.
LEMMA SchemaInit1 == SchemaInit => SchemaInv
  BY DEF SchemaInit, SchemaInv, Halfway

\* _initialize: whoever opens the file, it goes from one stage of its making to the next.
LEMMA SchemaStep1 ==
  ASSUME SchemaInv, NEW p \in Stream, NEW isFree, SchemaStep(p, isFree)
  PROVE  SchemaInv'
  <1>1. CASE Validate(p)
    BY <1>1, TableSets DEF SchemaInv, Validate, StoreGoesTo, IsNew, IsSupported, Halfway
  <1>2. CASE Incompatible(p)
    BY <1>2 DEF SchemaInv, Incompatible, schemaVars
  <1>3. CASE Migrate(p, isFree)
    BY <1>3, TableSets DEF SchemaInv, Migrate, Migrated, StoreGoesTo, Halfway
  <1>4. CASE Create(p, isFree)
    <2>1. PICK i \in Missing : /\ \A j \in Missing : i <= j
                               /\ tables' = tables \cup Made(Statements[i])
      BY <1>4 DEF Create
    <2>2. tables \in Halfway
      BY <1>4, <2>1, TableSets DEF Create, SchemaInv, Missing
    <2>3. tables' \in Halfway \cup {Complete}
      <3>1. i \in {1, 2, 3, 4} /\ Statements[i] \notin tables
        BY TableSets DEF Missing
      <3>2. \A j \in {1, 2, 3, 4} : Statements[j] \notin tables => i <= j
        BY <2>1, TableSets DEF Missing
      <3>3. \/ i = 1 /\ tables = {}
            \/ i = 2 /\ tables = {"schema_table"}
            \/ i = 3 /\ tables = {"schema_table", "version_1"}
            \/ i = 4 /\ tables = {"schema_table", "version_1", "search_table", "generation_column"}
        BY <2>2, <3>1, <3>2, TableSets DEF Halfway
      <3> QED BY <2>1, <3>3, TableSets DEF Halfway, Made
    <2>4. /\ store' = store /\ tables \subseteq tables'
          /\ \A q \in Stream : store[q] # "open"
      BY <1>4, <2>1, <2>2, TableSets DEF Create, SchemaInv, Halfway
    <2> QED BY <2>2, <2>3, <2>4 DEF SchemaInv
  <1>5. CASE Opened(p, isFree)
    BY <1>5, TableSets DEF SchemaInv, Opened, Missing, StoreGoesTo, Halfway
  <1>6. CASE OpeningFails(p)
    BY <1>6 DEF SchemaInv, OpeningFails, StoreGoesTo
  <1> QED BY <1>1, <1>2, <1>3, <1>4, <1>5, <1>6 DEF SchemaStep

-------------------------------------------------------------------------------
\* Prefixes.

\* A prefix, element by element.
LEMMA PrefixPoint ==
  ASSUME NEW s \in Seq(Key), NEW t \in Seq(Key)
  PROVE  IsPrefix(s, t) <=> Len(s) <= Len(t) /\ \A i \in 1..Len(s) : s[i] = t[i]
  <1>1. SubSeq(s, 1, Len(s)) = s
    OBVIOUS
  <1>2. ASSUME Len(s) <= Len(t)
        PROVE  /\ Len(SubSeq(t, 1, Len(s))) = Len(s)
               /\ \A i \in 1..Len(s) : SubSeq(t, 1, Len(s))[i] = t[i]
               /\ SubSeq(t, 1, Len(s)) \in Seq(Key)
    BY <1>2
  <1>3. ASSUME Len(s) <= Len(t), \A i \in 1..Len(s) : s[i] = t[i]
        PROVE  s = SubSeq(t, 1, Len(s))
    BY <1>2, <1>3
  <1> QED BY <1>1, <1>2, <1>3 DEF IsPrefix

\* A sequence is a prefix of itself.
LEMMA PrefixRefl ==
  ASSUME NEW s \in Seq(Key)
  PROVE  IsPrefix(s, s)
  BY PrefixPoint

\* A prefix of a prefix is one.
LEMMA PrefixTrans ==
  ASSUME NEW s \in Seq(Key), NEW t \in Seq(Key), NEW u \in Seq(Key),
         IsPrefix(s, t), IsPrefix(t, u)
  PROVE  IsPrefix(s, u)
  BY PrefixPoint

\* A sequence is a prefix of what is appended to it.
LEMMA PrefixAppend ==
  ASSUME NEW s \in Seq(Key), NEW k \in Key
  PROVE  IsPrefix(s, Append(s, k)) /\ Append(s, k) \in Seq(Key)
  <1>1. /\ Append(s, k) \in Seq(Key) /\ Len(Append(s, k)) = Len(s) + 1
        /\ \A i \in 1..Len(s) : s[i] = Append(s, k)[i]
    OBVIOUS
  <1>2. Len(s) <= Len(Append(s, k))
    BY <1>1
  <1> QED BY <1>1, <1>2, PrefixPoint

-------------------------------------------------------------------------------
\* The types.  A stream that loads has an image of the file in next, one that
\* saves the checkpoint it saves.

File == [checkpoint : Checkpoint \cup {Nothing}, count : [Site -> Nat]]
Write ==
  [task : {"save", "increment", "replace"}, site : Site \cup {Nothing}, key : Key \cup {Nothing}]

Saving == {"begin", "header", "rows", "adapter", "key", "commit"}
Places == Saving \cup {"none", "loading", "open", "committed"}

Counted(f) == f.count = IF f.checkpoint = Nothing THEN NoCount ELSE Counts(f.checkpoint)

FileTypes ==
  /\ db \in File /\ Counted(db)
  /\ drawn \in Nat
  /\ writer \in Stream \cup {NoOne}

StreamTypes ==
  /\ place \in [Stream -> Places]
  /\ memory \in [Stream -> Checkpoint \cup {Nothing}]
  /\ DOMAIN next = Stream /\ DOMAIN write = Stream

StreamType(p) ==
  /\ place[p] \in {"none", "loading"} => memory[p] = Nothing
  /\ place[p] = "open" => memory[p] # Nothing
  /\ place[p] = "loading" => next[p] \in File
  /\ place[p] \in Saving \cup {"committed"} => next[p] \in Checkpoint
  /\ place[p] \in Saving => write[p] \in Write
  /\ InTransaction(p) <=> writer = p

\* The checkpoints that are or were in the file and somebody still has.
Past ==
  ({db.checkpoint} \cup {memory[p] : p \in Stream}
     \cup {next[p].checkpoint : p \in {q \in Stream : place[q] = "loading"}}
     \cup {next[p] : p \in {q \in Stream : place[q] = "committed"}}) \ {Nothing}

\* Generation and revision identify a checkpoint, and later ones go on from it.
Agree(c, d) ==
  c.generation = d.generation =>
    /\ c.revision <= d.revision => \A s \in Site : IsPrefix(c.keys[s], d.keys[s])
    /\ c.revision = d.revision => Content(c) = Content(d)

Latest(c) ==
  db.checkpoint # Nothing /\ c.generation = db.checkpoint.generation
    => c.revision <= db.checkpoint.revision

PastInv ==
  /\ \A c, d \in Past : Agree(c, d)
  /\ \A c \in Past : Latest(c) /\ c.generation <= drawn

\* The first save of a new search: nobody else has its generation.
Begins(p) == place[p] \in Saving /\ memory[p] = Nothing

FirstInv(p) ==
  Begins(p) =>
    /\ next[p].generation <= drawn
    /\ \A c \in Past : c.generation # next[p].generation
    /\ \A q \in Stream \ {p} : Begins(q) => next[q].generation # next[p].generation
    /\ History!IsFirst(next[p])
    /\ write[p].site = Nothing /\ write[p].key = Nothing
    /\ \/ write[p].task = "save" /\ next[p].revision = 0
       \/ write[p].task = "replace" /\ (place[p] # "commit" => next[p].revision = 0)

\* Every other save goes one event on from what the stream has acknowledged.
Successor(c, d, w) ==
  /\ d.generation = c.generation /\ d.revision = c.revision + 1
  /\ w.task \in {"save", "increment"}
  /\ w.site = Nothing => w.key = Nothing /\ d.keys = c.keys /\ d.cursor = c.cursor /\ d.completed
  /\ w.site # Nothing =>
       /\ d.completed <=> c.completed
       /\ \E r \in Cursor : d.cursor = [c.cursor EXCEPT ![w.site] = r]
       /\ w.key = Nothing => d.keys = c.keys
       /\ w.key # Nothing =>
            /\ ~Contains(c.keys[w.site], w.key)
            /\ d.keys = [c.keys EXCEPT ![w.site] = Append(@, w.key)]

SuccessorInv(p) ==
  place[p] \in Saving /\ memory[p] # Nothing => Successor(memory[p], next[p], write[p])

\* What the writer has made of the file so far.
HeaderOf(c, d) ==
  /\ c.generation = d.generation /\ c.revision = d.revision
  /\ c.completed <=> d.completed

Goes(p) ==
  IF write[p].task = "replace"
  THEN next[p].revision = IF db.checkpoint = Nothing THEN 0 ELSE db.checkpoint.revision + 1
  ELSE MayAdvance(db.checkpoint, next[p])

ImageInv(p) ==
  writer = p =>
    /\ image \in File
    /\ place[p] = "header" => image = db
    /\ place[p] \notin {"header"} => Goes(p)
    /\ place[p] = "rows" => write[p].task = "save"
    /\ place[p] \in {"adapter", "key"} =>
         /\ write[p].task = "increment" /\ write[p].site \in Site
         /\ image.checkpoint # Nothing /\ HeaderOf(image.checkpoint, next[p])
         /\ image.checkpoint.keys = db.checkpoint.keys
    /\ place[p] = "adapter" =>
         image.checkpoint.cursor = db.checkpoint.cursor /\ image.count = db.count
    /\ place[p] = "key" =>
         /\ write[p].key # Nothing
         /\ image.checkpoint.cursor = next[p].cursor /\ image.count = Counts(next[p])
    /\ place[p] = "commit" => image.checkpoint = next[p] /\ image.count = Counts(next[p])

IInv ==
  /\ SchemaInv /\ FileTypes /\ StreamTypes /\ PastInv
  /\ \A p \in Stream : StreamType(p) /\ FirstInv(p) /\ SuccessorInv(p) /\ ImageInv(p)

-------------------------------------------------------------------------------
\* A checkpoint is its header, its keys and its resume states.
LEMMA CheckpointEq ==
  ASSUME NEW c \in Checkpoint, NEW d \in Checkpoint, HeaderOf(c, d),
         c.keys = d.keys, c.cursor = d.cursor
  PROVE  c = d
  BY DEF Checkpoint, HeaderOf

\* Past holds checkpoints only.
LEMMA PastType ==
  ASSUME IInv
  PROVE  Past \subseteq Checkpoint
  BY DEF IInv, FileTypes, StreamTypes, StreamType, File, Past

\* A file before its first checkpoint.
LEMMA IInvInit == Init => IInv
  <1> SUFFICES ASSUME Init PROVE IInv
    OBVIOUS
  <1>1. SchemaInv
    BY SchemaInit1 DEF Init
  <1>2. FileTypes /\ StreamTypes
    BY DEF Init, FileTypes, StreamTypes, File, EmptyFile, Counted, NoCount, Places
  <1>3. Past = {}
    BY DEF Init, Past, EmptyFile
  <1>4. ASSUME NEW p \in Stream
        PROVE  StreamType(p) /\ FirstInv(p) /\ SuccessorInv(p) /\ ImageInv(p)
    BY StreamAssumption DEF Init, StreamType, FirstInv, Begins, SuccessorInv, ImageInv, Saving,
       InTransaction
  <1> QED BY <1>1, <1>2, <1>3, <1>4 DEF IInv, PastInv

-------------------------------------------------------------------------------
\* Steps of one stream.

\* The others stay as they are.
Alone(p) ==
  /\ StreamTypes'
  /\ \A q \in Stream \ {p} :
       /\ place'[q] = place[q] /\ memory'[q] = memory[q]
       /\ next'[q] = next[q] /\ write'[q] = write[q]
  /\ \/ UNCHANGED <<writer, image>>
     \/ writer \in {NoOne, p} /\ writer' \in {NoOne, p}

\* No new checkpoint is known after a step that leaves the file, if the stream that
\* took the step holds none.
LEMMA PastSubset ==
  ASSUME NEW p \in Stream, StreamTypes, Alone(p), db' = db,
         memory'[p] \in Past \cup {Nothing},
         place'[p] = "loading" => next'[p].checkpoint \in Past \cup {Nothing},
         place'[p] = "committed" => next'[p] \in Past
  PROVE  Past' \subseteq Past
  <1> SUFFICES ASSUME NEW c \in Past'
               PROVE  c \in Past
    OBVIOUS
  <1>1. c # Nothing
    BY DEF Past
  <1>2. CASE c = db'.checkpoint
    BY <1>1, <1>2 DEF Past
  <1>3. ASSUME NEW q \in Stream, c = memory'[q]
        PROVE  c \in Past
    BY <1>1, <1>3 DEF Past, Alone
  <1>4. ASSUME NEW q \in Stream, place'[q] = "loading", c = next'[q].checkpoint
        PROVE  c \in Past
    BY <1>1, <1>4 DEF Past, Alone
  <1>5. ASSUME NEW q \in Stream, place'[q] = "committed", c = next'[q]
        PROVE  c \in Past
    BY <1>1, <1>5 DEF Past, Alone
  <1> QED BY <1>2, <1>3, <1>4, <1>5 DEF Past

\* What one stream does leaves what is known of the others.
LEMMA StepKeeps ==
  ASSUME IInv, SchemaInv', FileTypes', NEW p \in Stream, Alone(p), db' = db,
         drawn <= drawn', Past' \subseteq Past,
         StreamType(p)', FirstInv(p)', SuccessorInv(p)', ImageInv(p)',
         Begins(p)' => \/ next'[p].generation > drawn
                       \/ Begins(p) /\ next'[p].generation = next[p].generation
  PROVE  IInv'
  <1>1. PastInv'
    <2>1. ASSUME NEW c \in Past', NEW d \in Past'
          PROVE  Agree(c, d)
      BY <2>1 DEF IInv, PastInv
    <2>2. ASSUME NEW c \in Past'
          PROVE  Latest(c)' /\ c.generation <= drawn'
      <3>1. c.generation \in Nat /\ c.generation <= drawn /\ Latest(c)
        BY <2>2, PastType DEF IInv, PastInv, Checkpoint
      <3> QED BY <3>1 DEF IInv, Latest, FileTypes
    <2> QED BY <2>1, <2>2 DEF PastInv, Agree
  <1>2. ASSUME NEW q \in Stream, q # p
        PROVE  (StreamType(q) /\ FirstInv(q) /\ SuccessorInv(q) /\ ImageInv(q))'
    <2>1. /\ place'[q] = place[q] /\ memory'[q] = memory[q]
          /\ next'[q] = next[q] /\ write'[q] = write[q]
          /\ writer' = q <=> writer = q
          /\ writer = q => image' = image
      BY <1>2, StreamAssumption DEF Alone
    <2>2. StreamType(q) /\ FirstInv(q) /\ SuccessorInv(q) /\ ImageInv(q)
      BY DEF IInv
    <2>3. StreamType(q)'
      BY <2>1, <2>2 DEF StreamType, InTransaction
    <2>4. FirstInv(q)'
      <3> SUFFICES ASSUME Begins(q)
                   PROVE  FirstInv(q)'
        BY <2>1 DEF FirstInv, Begins
      <3>1. next[q].generation \in Nat /\ next[q].generation <= drawn
        BY <2>2 DEF FirstInv, Begins, StreamType, Checkpoint
      <3>2. \A c \in Past' : c.generation # next'[q].generation
        BY <2>1, <2>2 DEF FirstInv
      <3>3. ASSUME NEW r \in Stream \ {q}, Begins(r)'
            PROVE  next'[r].generation # next'[q].generation
        <4>1. CASE r = p
          <5>1. CASE next'[p].generation > drawn
            BY <2>1, <3>1, <4>1, <5>1 DEF IInv, FileTypes
          <5>2. CASE Begins(p) /\ next'[p].generation = next[p].generation
            BY <2>1, <2>2, <3>3, <4>1, <5>2 DEF FirstInv
          <5> QED BY <3>3, <4>1, <5>1, <5>2
        <4>2. CASE r # p
          <5>1. Begins(r) /\ next'[r] = next[r]
            BY <3>3, <4>2 DEF Alone, Begins
          <5> QED BY <2>1, <2>2, <3>3, <5>1 DEF FirstInv
        <4> QED BY <4>1, <4>2
      <3>4. next[q].generation <= drawn'
        BY <3>1 DEF IInv, FileTypes
      <3> QED BY <2>1, <2>2, <3>2, <3>3, <3>4 DEF FirstInv, History!IsFirst
    <2>5. SuccessorInv(q)'
      BY <2>1, <2>2 DEF SuccessorInv, Successor
    <2>6. ImageInv(q)'
      BY <2>1, <2>2 DEF ImageInv, Goes, HeaderOf, MayAdvance, Owns, Counts
    <2> QED BY <2>3, <2>4, <2>5, <2>6
  <1>3. StreamTypes'
    BY DEF Alone
  <1> QED BY <1>1, <1>2, <1>3 DEF IInv

\* A stream that ends a call, or is closed, keeps a checkpoint that was in the file.
LEMMA LeaveKeeps ==
  ASSUME IInv, SchemaInv', NEW p \in Stream, Alone(p), db' = db, drawn' = drawn,
         writer' # p, memory'[p] \in Past \cup {Nothing},
         place'[p] = IF memory'[p] = Nothing THEN "none" ELSE "open"
  PROVE  IInv'
  <1>1. Past' \subseteq Past
    BY PastSubset DEF IInv
  <1>2. FileTypes'
    BY DEF IInv, FileTypes, Alone, Counted, NoCount, Counts
  <1>3. place'[p] \notin Saving /\ ~InTransaction(p)'
    BY DEF Saving, InTransaction
  <1>4. StreamType(p)'
    BY <1>3 DEF StreamType, Saving
  <1>5. FirstInv(p)' /\ SuccessorInv(p)' /\ ImageInv(p)' /\ ~Begins(p)'
    BY <1>3 DEF FirstInv, Begins, SuccessorInv, ImageInv
  <1>6. drawn <= drawn'
    BY DEF IInv, FileTypes
  <1> QED BY <1>1, <1>2, <1>4, <1>5, <1>6, StepKeeps

\* What a stream has acknowledged is, or was, in the file.
LEMMA MemoryIsPast ==
  ASSUME NEW p \in Stream
  PROVE  memory[p] \in Past \cup {Nothing}
  BY DEF Past

\* The call raises.
LEMMA RaiseKeeps ==
  ASSUME IInv, SchemaInv', NEW p \in Stream, NEW conflict \in BOOLEAN, Raise(p, conflict),
         db' = db, writer' # p,
         UNCHANGED <<writer, image>> \/ (writer \in {NoOne, p} /\ writer' \in {NoOne, p})
  PROVE  IInv'
  <1>1. memory'[p] \in {memory[p], Nothing}
    BY DEF Raise, IInv, StreamTypes
  <1>2. place'[p] = IF memory'[p] = Nothing THEN "none" ELSE "open"
    BY DEF Raise, GoTo, IInv, StreamTypes
  <1>3. StreamTypes'
    BY DEF Raise, GoTo, IInv, StreamTypes, Places
  <1>4. Alone(p)
    BY <1>3 DEF Alone, Raise, GoTo, IInv, StreamTypes
  <1>5. drawn' = drawn
    BY DEF Raise
  <1> QED BY <1>1, <1>2, <1>4, <1>5, MemoryIsPast, LeaveKeeps

\* ROLLBACK ends the transaction of the stream that holds the lock.
LEMMA RollbackFree ==
  ASSUME IInv, NEW p \in Stream, InTransaction(p), Rollback(p)
  PROVE  db' = db /\ writer' = NoOne /\ writer = p
  BY DEF IInv, StreamType, Rollback, RolledBack

\* A call that raises, and a stream that is closed.
LEMMA EndingsKeep ==
  ASSUME IInv, SchemaInv', NEW p \in Stream,
         BusyTimeout(p) \/ Conflict(p) \/ StatementFails(p) \/ Stop(p) \/ Interrupt(p)
  PROVE  IInv'
  <1>1. CASE BusyTimeout(p)
    <2>1. ~InTransaction(p)
      BY <1>1 DEF BusyTimeout, InTransaction
    <2>2. Raise(p, FALSE) /\ UNCHANGED fileVars
      BY <1>1 DEF BusyTimeout
    <2> QED BY <2>1, <2>2, RaiseKeeps DEF fileVars, IInv, StreamType
  <1>2. CASE Conflict(p)
    <2>1. InTransaction(p)
      BY <1>2 DEF Conflict, Accepts, InTransaction
    <2>2. Raise(p, TRUE) /\ Rollback(p)
      BY <1>2 DEF Conflict
    <2> QED BY <2>1, <2>2, RollbackFree, RaiseKeeps, StreamAssumption
  <1>3. CASE StatementFails(p)
    <2>1. InTransaction(p) /\ Raise(p, FALSE) /\ Rollback(p)
      BY <1>3 DEF StatementFails
    <2> QED BY <2>1, RollbackFree, RaiseKeeps, StreamAssumption
  <1>4. CASE Stop(p)
    <2>1. Raise(p, TRUE)
      BY <1>4 DEF Stop
    <2>2. CASE InTransaction(p)
      BY <1>4, <2>1, <2>2, RollbackFree, RaiseKeeps, StreamAssumption DEF Stop
    <2>3. CASE ~InTransaction(p)
      BY <1>4, <2>1, <2>3, RaiseKeeps DEF Stop, fileVars, IInv, StreamType
    <2> QED BY <2>2, <2>3
  <1>5. CASE Interrupt(p)
    <2>1. ~InTransaction(p)
      BY <1>5 DEF Interrupt, InTransaction
    <2>2. Raise(p, FALSE) /\ UNCHANGED fileVars
      BY <1>5 DEF Interrupt
    <2> QED BY <2>1, <2>2, RaiseKeeps DEF fileVars, IInv, StreamType
  <1> QED BY <1>1, <1>2, <1>3, <1>4, <1>5

\* load() returns a checkpoint of the file.
LEMMA LoadFindsKeeps ==
  ASSUME IInv, SchemaInv', NEW p \in Stream, LoadFinds(p)
  PROVE  IInv'
  <1>1. /\ place[p] = "loading" /\ next[p].checkpoint # Nothing
        /\ memory' = [memory EXCEPT ![p] = next[p].checkpoint]
        /\ next' = [next EXCEPT ![p] = Nothing]
        /\ place' = [place EXCEPT ![p] = "open"]
        /\ UNCHANGED <<db, image, writer, drawn, write>>
    BY DEF LoadFinds, SeenBy, GoTo, fileVars
  <1>2. next[p].checkpoint \in Past \cap Checkpoint
    BY <1>1, PastType DEF Past
  <1>3. memory'[p] = next[p].checkpoint /\ place'[p] = "open" /\ memory'[p] # Nothing
    BY <1>1 DEF IInv, StreamTypes
  <1>4. Alone(p)
    BY <1>1, <1>2 DEF Alone, IInv, StreamTypes, Places
  <1>5. writer' # p
    BY <1>1 DEF IInv, StreamType, InTransaction
  <1> QED BY <1>1, <1>2, <1>3, <1>4, <1>5, LeaveKeeps

\* The stream takes the checkpoint it saved for its own.
LEMMA ReturnKeeps ==
  ASSUME IInv, SchemaInv', NEW p \in Stream, Return(p)
  PROVE  IInv'
  <1>1. /\ place[p] = "committed"
        /\ memory' = [memory EXCEPT ![p] = next[p]]
        /\ next' = [next EXCEPT ![p] = Nothing]
        /\ write' = [write EXCEPT ![p] = Nothing]
        /\ place' = [place EXCEPT ![p] = "open"]
        /\ UNCHANGED <<db, image, writer, drawn>>
    BY DEF Return, GoTo, fileVars
  <1>2. next[p] \in Checkpoint
    BY <1>1 DEF IInv, StreamType
  <1>3. next[p] \in Past
    BY <1>1, <1>2, NothingAssumption DEF Past
  <1>4. memory'[p] = next[p] /\ place'[p] = "open" /\ memory'[p] # Nothing
    BY <1>1, <1>2, NothingAssumption DEF IInv, StreamTypes
  <1>5. Alone(p)
    BY <1>1, <1>2 DEF Alone, IInv, StreamTypes, Places
  <1>6. writer' # p
    BY <1>1 DEF IInv, StreamType, InTransaction
  <1> QED BY <1>1, <1>3, <1>4, <1>5, <1>6, LeaveKeeps

-------------------------------------------------------------------------------
\* SearchStream.ack: what the next checkpoint has from the last.

WithKey(keys, s, k) == [keys EXCEPT ![s] = Append(@, k)]
AfterJob(c, s, k, r) ==
  [[c EXCEPT !.keys[s] = Append(@, k), !.cursor[s] = r] EXCEPT !.revision = @ + 1]
AfterState(c, s, r) == [[c EXCEPT !.cursor[s] = r] EXCEPT !.revision = @ + 1]
AfterSearch(c) == [[c EXCEPT !.completed = TRUE] EXCEPT !.revision = @ + 1]

\* The next event.
LEMMA NextRevision ==
  ASSUME NEW c \in Checkpoint
  PROVE  [c EXCEPT !.revision = @ + 1] \in Checkpoint
  <1>1. c.revision + 1 \in Nat
    BY DEF Checkpoint
  <1>2. ASSUME NEW n \in Nat
        PROVE  [c EXCEPT !.revision = n] \in Checkpoint
    BY DEF Checkpoint
  <1> QED BY <1>1, <1>2

\* A job: its key is appended, its site's resume state replaced.
LEMMA JobFields ==
  ASSUME NEW c \in Checkpoint, NEW s \in Site, NEW k \in Key, NEW r \in Cursor
  PROVE  /\ AfterJob(c, s, k, r) \in Checkpoint
         /\ AfterJob(c, s, k, r).generation = c.generation
         /\ AfterJob(c, s, k, r).revision = c.revision + 1
         /\ AfterJob(c, s, k, r).keys = WithKey(c.keys, s, k)
         /\ AfterJob(c, s, k, r).cursor = [c.cursor EXCEPT ![s] = r]
  <1> DEFINE d == AfterJob(c, s, k, r)
  <1>1. [c.keys EXCEPT ![s] = Append(@, k)] \in [Site -> Seq(Key)]
    BY DEF Checkpoint
  <1>2. [c.cursor EXCEPT ![s] = r] \in [Site -> Cursor]
    BY DEF Checkpoint
  <1>3. ASSUME NEW ks \in [Site -> Seq(Key)], NEW cu \in [Site -> Cursor]
        PROVE  [c EXCEPT !.keys = ks, !.cursor = cu] \in Checkpoint
    <2>1. [c EXCEPT !.keys = ks] \in Checkpoint
      BY DEF Checkpoint
    <2>2. ASSUME NEW e \in Checkpoint
          PROVE  [e EXCEPT !.cursor = cu] \in Checkpoint
      BY DEF Checkpoint
    <2> QED BY <2>1, <2>2
  <1>4. d \in Checkpoint
    <2>1. PICK ks \in [Site -> Seq(Key)] : ks = [c.keys EXCEPT ![s] = Append(@, k)]
      BY <1>1
    <2>2. PICK cu \in [Site -> Cursor] : cu = [c.cursor EXCEPT ![s] = r]
      BY <1>2
    <2>3. [c EXCEPT !.keys[s] = Append(@, k), !.cursor[s] = r]
            = [c EXCEPT !.keys = ks, !.cursor = cu]
      BY <2>1, <2>2
    <2> QED BY <1>3, <2>3, NextRevision DEF AfterJob
  <1>5. d.generation = c.generation
    BY DEF Checkpoint, AfterJob
  <1>6. d.revision = c.revision + 1
    BY DEF Checkpoint, AfterJob
  <1>7. d.keys = WithKey(c.keys, s, k)
    BY DEF Checkpoint, AfterJob, WithKey
  <1>8. d.cursor = [c.cursor EXCEPT ![s] = r]
    BY DEF Checkpoint, AfterJob
  <1> QED BY <1>4, <1>5, <1>6, <1>7, <1>8

\* A job does not complete the search.
LEMMA JobCompleted ==
  ASSUME NEW c \in Checkpoint, NEW s \in Site, NEW k \in Key, NEW r \in Cursor
  PROVE  AfterJob(c, s, k, r).completed = c.completed
  BY Zenon DEF Checkpoint, AfterJob

\* Another event of a site: the resume state is replaced.
LEMMA StateFields ==
  ASSUME NEW c \in Checkpoint, NEW s \in Site, NEW r \in Cursor
  PROVE  /\ AfterState(c, s, r) \in Checkpoint
         /\ AfterState(c, s, r).generation = c.generation
         /\ AfterState(c, s, r).revision = c.revision + 1
         /\ AfterState(c, s, r).completed = c.completed
         /\ AfterState(c, s, r).keys = c.keys
         /\ AfterState(c, s, r).cursor = [c.cursor EXCEPT ![s] = r]
  <1> DEFINE d == AfterState(c, s, r)
  <1>1. [c EXCEPT !.cursor[s] = r] \in Checkpoint
    BY DEF Checkpoint
  <1>2. d \in Checkpoint
    BY <1>1, NextRevision DEF AfterState
  <1>3. d.generation = c.generation
    BY DEF Checkpoint, AfterState
  <1>4. d.revision = c.revision + 1
    BY DEF Checkpoint, AfterState
  <1>5. d.completed = c.completed
    BY Zenon DEF Checkpoint, AfterState
  <1>6. d.keys = c.keys
    BY DEF Checkpoint, AfterState
  <1>7. d.cursor = [c.cursor EXCEPT ![s] = r]
    BY DEF Checkpoint, AfterState
  <1> QED BY <1>2, <1>3, <1>4, <1>5, <1>6, <1>7

\* The end of the search.
LEMMA SearchFields ==
  ASSUME NEW c \in Checkpoint
  PROVE  /\ AfterSearch(c) \in Checkpoint
         /\ AfterSearch(c).generation = c.generation
         /\ AfterSearch(c).revision = c.revision + 1
         /\ AfterSearch(c).completed
         /\ AfterSearch(c).keys = c.keys
         /\ AfterSearch(c).cursor = c.cursor
  <1> DEFINE d == AfterSearch(c)
  <1>1. [c EXCEPT !.completed = TRUE] \in Checkpoint
    BY DEF Checkpoint
  <1>2. d \in Checkpoint
    BY <1>1, NextRevision DEF AfterSearch
  <1>3. d.generation = c.generation
    BY DEF Checkpoint, AfterSearch
  <1>4. d.revision = c.revision + 1
    BY DEF Checkpoint, AfterSearch
  <1>5. d.completed
    BY Zenon DEF Checkpoint, AfterSearch
  <1>6. d.keys = c.keys
    BY DEF Checkpoint, AfterSearch
  <1>7. d.cursor = c.cursor
    BY DEF Checkpoint, AfterSearch
  <1> QED BY <1>2, <1>3, <1>4, <1>5, <1>6, <1>7

\* load() fixes the image it reads.
LEMMA OpenResumeKeeps ==
  ASSUME IInv, SchemaInv', NEW p \in Stream, OpenResume(p)
  PROVE  IInv'
  <1>1. /\ place[p] = "none" /\ next' = [next EXCEPT ![p] = db]
        /\ place' = [place EXCEPT ![p] = "loading"]
        /\ UNCHANGED <<db, image, writer, drawn, memory, write>>
    BY DEF OpenResume, GoTo, fileVars
  <1>2. place'[p] = "loading" /\ next'[p] = db /\ memory'[p] = memory[p]
    BY <1>1 DEF IInv, StreamTypes
  <1>3. Alone(p)
    BY <1>1 DEF Alone, IInv, StreamTypes, Places
  <1>4. Past' \subseteq Past
    <2>1. db.checkpoint \in Past \cup {Nothing}
      BY DEF Past
    <2> QED BY <1>1, <1>2, <1>3, <2>1, MemoryIsPast, PastSubset DEF IInv
  <1>5. FileTypes'
    BY <1>1 DEF IInv, FileTypes, Counted, NoCount, Counts
  <1>6. StreamType(p)'
    BY <1>1, <1>2 DEF IInv, StreamType, Saving, InTransaction, FileTypes
  <1>7. FirstInv(p)' /\ SuccessorInv(p)' /\ ImageInv(p)' /\ ~Begins(p)'
    BY <1>1, <1>2 DEF FirstInv, Begins, SuccessorInv, ImageInv, Saving, IInv, StreamType,
       InTransaction
  <1>8. drawn <= drawn'
    BY <1>1 DEF IInv, FileTypes
  <1> QED BY <1>1, <1>3, <1>4, <1>5, <1>6, <1>7, <1>8, StepKeeps

\* SearchCheckpoint.for_request.
LEMMA ForRequestType ==
  ASSUME NEW g \in Nat
  PROVE  /\ ForRequest(g) \in Checkpoint
         /\ ForRequest(g).generation = g /\ ForRequest(g).revision = 0
         /\ History!IsFirst(ForRequest(g))
  BY CursorAssumption DEF ForRequest, Checkpoint, History!IsFirst

\* A new search gets a generation of its own.
LEMMA FirstKeeps ==
  ASSUME IInv, SchemaInv', NEW p \in Stream, place[p] \in {"none", "loading"},
         NEW task \in {"save", "replace"}, drawn' = drawn + 1,
         next' = [next EXCEPT ![p] = ForRequest(drawn + 1)],
         write' = [write EXCEPT ![p] = [task |-> task, site |-> Nothing, key |-> Nothing]],
         GoTo(p, "begin"), UNCHANGED <<db, image, writer, memory>>
  PROVE  IInv'
  <1>1. /\ place'[p] = "begin" /\ next'[p] = ForRequest(drawn + 1)
        /\ write'[p] = [task |-> task, site |-> Nothing, key |-> Nothing]
        /\ memory'[p] = Nothing
    BY DEF IInv, StreamTypes, StreamType, GoTo
  <1>2. drawn \in Nat /\ drawn' \in Nat /\ drawn <= drawn'
    BY DEF IInv, FileTypes
  <1>3. /\ next'[p] \in Checkpoint /\ next'[p].generation = drawn + 1 /\ next'[p].revision = 0
        /\ History!IsFirst(next'[p])
    BY <1>1, <1>2, ForRequestType
  <1>4. Alone(p)
    <2>1. /\ place' \in [Stream -> Places] /\ memory' \in [Stream -> Checkpoint \cup {Nothing}]
      BY DEF IInv, StreamTypes, Places, Saving, GoTo
    <2>2. DOMAIN next' = Stream
      BY DEF IInv, StreamTypes
    <2>3. DOMAIN write' = Stream
      BY DEF IInv, StreamTypes
    <2> QED BY <1>1, <2>1, <2>2, <2>3 DEF Alone, IInv, StreamTypes, GoTo
  <1>5. Past' \subseteq Past
    BY <1>1, <1>4, PastSubset DEF IInv
  <1>6. FileTypes'
    BY <1>2 DEF IInv, FileTypes, Counted, NoCount, Counts
  <1>7. StreamType(p)'
    BY <1>1, <1>3 DEF IInv, StreamType, Saving, InTransaction, Write
  <1>8. FirstInv(p)'
    <2>1. \A c \in Past' : c.generation # next'[p].generation
      BY <1>2, <1>3, <1>5, PastType DEF IInv, PastInv, Checkpoint
    <2>2. ASSUME NEW q \in Stream \ {p}, Begins(q)'
          PROVE  next'[q].generation # next'[p].generation
      <3>1. Begins(q) /\ next'[q] = next[q]
        BY <1>4, <2>2 DEF Alone, Begins
      <3>2. next[q] \in Checkpoint /\ next[q].generation <= drawn
        BY <3>1 DEF IInv, FirstInv, StreamType, Begins
      <3> QED BY <1>2, <1>3, <3>1, <3>2 DEF Checkpoint
    <2> QED BY <1>1, <1>2, <1>3, <2>1, <2>2 DEF FirstInv
  <1>9. SuccessorInv(p)' /\ ImageInv(p)'
    BY <1>1 DEF SuccessorInv, ImageInv, IInv, StreamType, InTransaction
  <1>10. next'[p].generation > drawn
    BY <1>2, <1>3
  <1> QED BY <1>2, <1>4, <1>5, <1>6, <1>7, <1>8, <1>9, <1>10, StepKeeps

\* A search that is not resumed, and one that finds nothing to go on from.
LEMMA NewSearchKeeps ==
  ASSUME IInv, SchemaInv', NEW p \in Stream, OpenFresh(p) \/ LoadFindsNothing(p)
  PROVE  IInv'
  BY FirstKeeps DEF OpenFresh, LoadFindsNothing, fileVars

\* An event is acknowledged: the next checkpoint goes one event on.
LEMMA AcknowledgeKeeps ==
  ASSUME IInv, SchemaInv', NEW p \in Stream, NEW c, NEW s, NEW k, Acknowledge(p, c, s, k),
         next'[p] \in Checkpoint, write'[p] \in Write,
         Successor(memory[p], next'[p], write'[p])
  PROVE  IInv'
  <1>1. /\ place[p] = "open" /\ place'[p] = "begin" /\ memory'[p] = memory[p]
        /\ UNCHANGED <<db, image, writer, drawn, memory>>
    BY DEF Acknowledge, GoTo, fileVars, IInv, StreamTypes
  <1>2. Alone(p)
    <2>1. /\ place' \in [Stream -> Places] /\ memory' \in [Stream -> Checkpoint \cup {Nothing}]
      BY <1>1 DEF Acknowledge, GoTo, IInv, StreamTypes, Places, Saving
    <2>2. DOMAIN next' = Stream
      BY DEF Acknowledge, IInv, StreamTypes
    <2>3. DOMAIN write' = Stream
      BY DEF Acknowledge, IInv, StreamTypes
    <2> QED BY <1>1, <2>1, <2>2, <2>3 DEF Alone, Acknowledge, GoTo, IInv, StreamTypes
  <1>3. Past' \subseteq Past
    BY <1>1, <1>2, MemoryIsPast, PastSubset DEF IInv
  <1>4. FileTypes'
    BY <1>1 DEF IInv, FileTypes, Counted, NoCount, Counts
  <1>5. memory[p] # Nothing /\ writer # p
    BY <1>1 DEF IInv, StreamType, InTransaction
  <1>6. StreamType(p)'
    BY <1>1, <1>5 DEF StreamType, Saving, InTransaction
  <1>7. FirstInv(p)' /\ ImageInv(p)' /\ ~Begins(p)'
    BY <1>1, <1>5 DEF FirstInv, Begins, ImageInv
  <1>8. SuccessorInv(p)'
    BY <1>1 DEF SuccessorInv, Successor
  <1>9. drawn <= drawn'
    BY <1>1 DEF IInv, FileTypes
  <1> QED BY <1>1, <1>2, <1>3, <1>4, <1>6, <1>7, <1>8, <1>9, StepKeeps

\* SearchStream.ack, of each kind of event.
LEMMA AcksKeep ==
  ASSUME IInv, SchemaInv', NEW p \in Stream, Acks(p)
  PROVE  IInv'
  <1>1. memory[p] \in Checkpoint /\ DOMAIN next = Stream /\ DOMAIN write = Stream
    BY DEF Acks, AckJob, AckState, AckSearch, IInv, StreamTypes, StreamType
  <1> DEFINE task == IF p \in Plain THEN "save" ELSE "increment"
  <1>2. CASE AckJob(p)
    <2>1. PICK s \in Site, k \in Key, r \in Cursor :
            /\ ~Contains(memory[p].keys[s], k)
            /\ Acknowledge(p, [memory[p] EXCEPT !.keys[s] = Append(@, k), !.cursor[s] = r], s, k)
      BY <1>2 DEF AckJob
    <2>2. /\ next'[p] = AfterJob(memory[p], s, k, r)
          /\ write'[p] = [task |-> task, site |-> s, key |-> k]
      BY <1>1, <2>1 DEF Acknowledge, AfterJob
    <2>3. /\ next'[p].generation = memory[p].generation
          /\ next'[p].revision = memory[p].revision + 1
          /\ next'[p].keys = [memory[p].keys EXCEPT ![s] = Append(@, k)]
          /\ next'[p].cursor = [memory[p].cursor EXCEPT ![s] = r]
          /\ next'[p] \in Checkpoint
          /\ next'[p].completed = memory[p].completed
      <3>1. next'[p] = AfterJob(memory[p], s, k, r) /\ memory[p] \in Checkpoint
        BY <1>1, <2>2
      <3>2. next'[p].completed = memory[p].completed
        BY <3>1, JobCompleted
      <3>3. /\ next'[p] \in Checkpoint
            /\ next'[p].generation = memory[p].generation
            /\ next'[p].revision = memory[p].revision + 1
            /\ next'[p].keys = WithKey(memory[p].keys, s, k)
            /\ next'[p].cursor = [memory[p].cursor EXCEPT ![s] = r]
        BY <3>1, JobFields
      <3> QED BY <3>2, <3>3 DEF WithKey
    <2>4. write'[p] \in Write
      BY <2>2 DEF Write
    <2>5. Successor(memory[p], next'[p], write'[p])
      BY <2>1, <2>2, <2>3, NothingAssumption DEF Successor
    <2> QED BY <2>1, <2>3, <2>4, <2>5, AcknowledgeKeeps
  <1>3. CASE AckState(p)
    <2>1. PICK s \in Site, r \in Cursor :
            Acknowledge(p, [memory[p] EXCEPT !.cursor[s] = r], s, Nothing)
      BY <1>3 DEF AckState
    <2>2. /\ next'[p] = AfterState(memory[p], s, r)
          /\ write'[p] = [task |-> task, site |-> s, key |-> Nothing]
      BY <1>1, <2>1 DEF Acknowledge, AfterState
    <2>3. /\ next'[p].generation = memory[p].generation
          /\ next'[p].revision = memory[p].revision + 1
          /\ next'[p].keys = memory[p].keys
          /\ next'[p].cursor = [memory[p].cursor EXCEPT ![s] = r]
          /\ next'[p] \in Checkpoint
          /\ next'[p].completed = memory[p].completed
      BY <1>1, <2>2, StateFields
    <2>4. write'[p] \in Write
      BY <2>2 DEF Write
    <2>5. Successor(memory[p], next'[p], write'[p])
      BY <2>1, <2>2, <2>3, NothingAssumption DEF Successor
    <2> QED BY <2>1, <2>3, <2>4, <2>5, AcknowledgeKeeps
  <1>4. CASE AckSearch(p)
    <2>1. Acknowledge(p, [memory[p] EXCEPT !.completed = TRUE], Nothing, Nothing)
      BY <1>4 DEF AckSearch
    <2>2. /\ next'[p] = AfterSearch(memory[p])
          /\ write'[p] = [task |-> task, site |-> Nothing, key |-> Nothing]
      BY <1>1, <2>1 DEF Acknowledge, AfterSearch
    <2>3. /\ next'[p].generation = memory[p].generation
          /\ next'[p].revision = memory[p].revision + 1
          /\ next'[p].keys = memory[p].keys
          /\ next'[p].cursor = memory[p].cursor
          /\ next'[p] \in Checkpoint
          /\ next'[p].completed
      BY <1>1, <2>2, SearchFields
    <2>4. write'[p] \in Write
      BY <2>2 DEF Write
    <2>5. Successor(memory[p], next'[p], write'[p])
      BY <2>1, <2>2, <2>3, NothingAssumption DEF Successor
    <2> QED BY <2>1, <2>3, <2>4, <2>5, AcknowledgeKeeps
  <1> QED BY <1>2, <1>3, <1>4 DEF Acks

-------------------------------------------------------------------------------
\* The write transaction.

\* A stream that goes on from what it has acknowledged finds that in the file.
LEMMA GoesOn ==
  ASSUME IInv, NEW p \in Stream, place[p] \in Saving, memory[p] # Nothing,
         MayAdvance(db.checkpoint, next[p])
  PROVE  /\ Successor(memory[p], next[p], write[p])
         /\ db.checkpoint \in Checkpoint /\ memory[p] \in Checkpoint
         /\ db.checkpoint \in Past /\ memory[p] \in Past
         /\ db.checkpoint.generation = memory[p].generation
         /\ db.checkpoint.revision = memory[p].revision
         /\ db.checkpoint.keys = memory[p].keys
         /\ db.checkpoint.cursor = memory[p].cursor
         /\ db.checkpoint.completed = memory[p].completed
  <1>1. /\ Successor(memory[p], next[p], write[p])
        /\ memory[p] \in Past /\ memory[p] \in Checkpoint
    BY DEF IInv, SuccessorInv, Past, StreamTypes
  <1>2. /\ next[p].revision = memory[p].revision + 1
        /\ next[p].generation = memory[p].generation
        /\ memory[p].revision \in Nat
    BY <1>1 DEF Successor, Checkpoint
  <1>3. db.checkpoint # Nothing /\ Owns(db.checkpoint, next[p])
    BY <1>2 DEF MayAdvance
  <1>4. db.checkpoint \in Past /\ db.checkpoint \in Checkpoint
    BY <1>3, PastType DEF Past
  <1>5. /\ db.checkpoint.generation = memory[p].generation
        /\ db.checkpoint.revision = memory[p].revision
    <2>1. db.checkpoint.revision \in Nat
      BY <1>4 DEF Checkpoint
    <2> QED BY <1>2, <1>3, <2>1 DEF Owns
  <1>6. Content(db.checkpoint) = Content(memory[p])
    BY <1>1, <1>4, <1>5 DEF IInv, PastInv, Agree
  <1> QED BY <1>1, <1>4, <1>5, <1>6 DEF Content

\* A statement that does its work leaves all but the image of the file.
LEMMA StatementKeeps ==
  ASSUME IInv, SchemaInv', NEW p \in Stream,
         place[p] \in {"begin", "header", "rows", "adapter", "key"},
         NEW where \in {"header", "rows", "adapter", "key", "commit"}, GoTo(p, where),
         writer \in {NoOne, p}, writer' = p,
         UNCHANGED <<db, drawn, memory, next, write>>, ImageInv(p)'
  PROVE  IInv'
  <1>1. place'[p] = where
    BY DEF GoTo, IInv, StreamTypes
  <1>2. Alone(p)
    <2>1. place' \in [Stream -> Places]
      BY DEF GoTo, IInv, StreamTypes, Places, Saving
    <2> QED BY <2>1 DEF Alone, IInv, StreamTypes, GoTo
  <1>3. Past' \subseteq Past
    BY <1>1, <1>2, MemoryIsPast, PastSubset DEF IInv
  <1>4. FileTypes'
    BY DEF IInv, FileTypes, Counted, NoCount, Counts
  <1>5. StreamType(p)'
    BY <1>1 DEF IInv, StreamType, Saving, InTransaction
  <1>6. FirstInv(p)'
    <2>1. Begins(p)' => Begins(p) /\ place[p] # "commit"
      BY DEF Begins, Saving
    <2>2. \A q \in Stream \ {p} : Begins(q)' => Begins(q)
      BY <1>2 DEF Begins, Alone
    <2> QED BY <1>3, <2>1, <2>2 DEF IInv, FirstInv, History!IsFirst
  <1>7. SuccessorInv(p)'
    BY DEF IInv, SuccessorInv, Successor, Saving
  <1>8. Begins(p)' => Begins(p) /\ next'[p].generation = next[p].generation
    BY DEF Begins, Saving
  <1>9. drawn <= drawn'
    BY DEF IInv, FileTypes
  <1> QED BY <1>2, <1>3, <1>4, <1>5, <1>6, <1>7, <1>8, <1>9, StepKeeps

\* BEGIN IMMEDIATE works on the committed image.
LEMMA BeginKeeps ==
  ASSUME IInv, SchemaInv', NEW p \in Stream, Begin(p)
  PROVE  IInv'
  <1>1. place[p] = "begin" /\ place'[p] = "header" /\ writer = NoOne /\ writer' = p /\ image' = db
        /\ GoTo(p, "header") /\ UNCHANGED <<db, drawn, memory, next, write>>
    BY DEF Begin, MayBegin, GoTo, IInv, StreamTypes
  <1>2. ImageInv(p)'
    BY <1>1 DEF ImageInv, IInv, FileTypes
  <1> QED BY <1>1, <1>2, StatementKeeps

\* _save_full makes the image the checkpoint that is saved.
LEMMA SaveFullKeeps ==
  ASSUME IInv, SchemaInv', NEW p \in Stream, SaveFull(p)
  PROVE  IInv'
  <1>1. /\ place[p] = "rows" /\ place'[p] = "commit" /\ writer' = writer
        /\ image' = [checkpoint |-> next[p], count |-> Counts(next[p])]
        /\ GoTo(p, "commit") /\ UNCHANGED <<db, drawn, memory, next, write>>
    BY DEF SaveFull, Writes, GoTo, IInv, StreamTypes
  <1>2. writer = p /\ Goes(p) /\ next[p] \in Checkpoint
    BY <1>1 DEF IInv, StreamType, InTransaction, ImageInv, Saving
  <1>3. Goes(p)'
    BY <1>1, <1>2 DEF Goes, MayAdvance, Owns
  <1>4. image' \in File
    BY <1>1, <1>2 DEF File, Counts, Checkpoint
  <1>5. image'.checkpoint = next'[p] /\ image'.count = Counts(next[p])'
    BY <1>1 DEF Counts
  <1>6. ImageInv(p)'
    BY <1>1, <1>2, <1>3, <1>4, <1>5 DEF ImageInv
  <1> QED BY <1>1, <1>2, <1>6, StatementKeeps

\* The header of a checkpoint over the rows that are there.
LEMMA HeaderFields ==
  ASSUME image \in File, NEW c \in Checkpoint
  PROVE  LET rows == IF image.checkpoint = Nothing THEN c ELSE image.checkpoint IN
         /\ WithHeader(c) \in File /\ WithHeader(c).count = image.count
         /\ WithHeader(c).checkpoint \in Checkpoint
         /\ WithHeader(c).checkpoint.generation = c.generation
         /\ WithHeader(c).checkpoint.revision = c.revision
         /\ WithHeader(c).checkpoint.keys = rows.keys
         /\ WithHeader(c).checkpoint.cursor = rows.cursor
  <1> DEFINE rows == IF image.checkpoint = Nothing THEN c ELSE image.checkpoint
  <1>1. PICK ks \in [Site -> Seq(Key)] : ks = rows.keys
    BY DEF File, Checkpoint
  <1>2. PICK cu \in [Site -> Cursor] : cu = rows.cursor
    BY DEF File, Checkpoint
  <1> DEFINE d == [c EXCEPT !.keys = ks, !.cursor = cu]
  <1>3. WithHeader(c) = [image EXCEPT !.checkpoint = d]
    BY <1>1, <1>2 DEF WithHeader
  <1>4. d \in Checkpoint
    <2>1. [c EXCEPT !.keys = ks] \in Checkpoint
      BY DEF Checkpoint
    <2>2. ASSUME NEW e \in Checkpoint
          PROVE  [e EXCEPT !.cursor = cu] \in Checkpoint
      BY DEF Checkpoint
    <2> QED BY <2>1, <2>2
  <1>5. /\ d.generation = c.generation /\ d.revision = c.revision
        /\ d.keys = ks /\ d.cursor = cu
    BY DEF Checkpoint
  <1>6. ASSUME NEW e \in Checkpoint
        PROVE  /\ [image EXCEPT !.checkpoint = e] \in File
               /\ [image EXCEPT !.checkpoint = e].count = image.count
               /\ [image EXCEPT !.checkpoint = e].checkpoint = e
    BY DEF File
  <1> HIDE DEF d
  <1> QED BY <1>1, <1>2, <1>3, <1>4, <1>5, <1>6

\* The header says whether the search completed.
LEMMA HeaderCompleted ==
  ASSUME image \in File, NEW c \in Checkpoint
  PROVE  WithHeader(c).checkpoint.completed = c.completed
  BY Zenon DEF WithHeader, File, Checkpoint

\* _advance_header: the image has the new header over rows that belong to it.
LEMMA AdvanceHeaderKeeps ==
  ASSUME IInv, SchemaInv', NEW p \in Stream, AdvanceHeader(p)
  PROVE  IInv'
  <1>1. /\ place[p] = "header" /\ write[p].task # "replace"
        /\ MayAdvance(image.checkpoint, next[p]) /\ image' = WithHeader(next[p])
        /\ writer' = writer /\ place' = [place EXCEPT ![p] = AfterHeader(p)]
        /\ UNCHANGED <<db, drawn, memory, next, write>>
    BY DEF AdvanceHeader, Writes, GoTo
  <1>2. /\ writer = p /\ image = db /\ image \in File
        /\ next[p] \in Checkpoint /\ write[p] \in Write /\ place[p] \in Saving
    BY <1>1 DEF IInv, StreamType, InTransaction, ImageInv, Saving
  <1>3. Goes(p)'
    BY <1>1, <1>2 DEF Goes, MayAdvance, Owns
  <1>4. place'[p] = AfterHeader(p) /\ AfterHeader(p) \in {"rows", "adapter", "commit"}
    BY <1>1 DEF IInv, StreamTypes, AfterHeader
  <1>5. image' \in File
    BY <1>1, <1>2, HeaderFields
  <1>6. CASE write[p].task = "save"
    <2>1. place'[p] = "rows"
      BY <1>4, <1>6 DEF AfterHeader
    <2>2. ImageInv(p)'
      BY <1>1, <1>3, <1>5, <1>6, <2>1 DEF ImageInv
    <2> QED BY <1>1, <1>2, <2>1, <2>2, StatementKeeps DEF GoTo
  <1>7. CASE write[p].task # "save"
    <2>1. write[p].task = "increment"
      BY <1>1, <1>2, <1>7 DEF Write
    <2>2. memory[p] # Nothing
      BY <1>1, <1>2, <2>1 DEF IInv, FirstInv, Begins
    <2>3. /\ Successor(memory[p], next[p], write[p])
          /\ db.checkpoint \in Checkpoint
          /\ db.checkpoint.keys = memory[p].keys
          /\ db.checkpoint.cursor = memory[p].cursor
      BY <1>1, <1>2, <2>2, GoesOn
    <2>4. db.checkpoint # Nothing
      BY <2>3, NothingAssumption
    <2>5. /\ image'.checkpoint \in Checkpoint /\ image'.count = db.count
          /\ image'.checkpoint.generation = next[p].generation
          /\ image'.checkpoint.revision = next[p].revision
          /\ image'.checkpoint.keys = db.checkpoint.keys
          /\ image'.checkpoint.cursor = db.checkpoint.cursor
      BY <1>1, <1>2, <2>4, HeaderFields
    <2>6. HeaderOf(image'.checkpoint, next[p])
      <3>1. image'.checkpoint.completed = next[p].completed
        BY <1>1, <1>2, HeaderCompleted
      <3> QED BY <2>5, <3>1 DEF HeaderOf
    <2>7. CASE write[p].site # Nothing
      <3>1. place'[p] = "adapter" /\ write[p].site \in Site
        BY <1>2, <1>4, <2>1, <2>7 DEF AfterHeader, Write
      <3>2. ImageInv(p)'
        BY <1>1, <1>3, <1>5, <2>1, <2>5, <2>6, <3>1, NothingAssumption DEF ImageInv, HeaderOf
      <3> QED BY <1>1, <1>2, <3>1, <3>2, StatementKeeps DEF GoTo
    <2>8. CASE write[p].site = Nothing
      <3>1. place'[p] = "commit"
        BY <1>4, <2>1, <2>8 DEF AfterHeader
      <3>2. next[p].keys = db.checkpoint.keys /\ next[p].cursor = db.checkpoint.cursor
        BY <2>3, <2>8 DEF Successor
      <3>3. image'.checkpoint = next[p]
        BY <1>2, <2>5, <2>6, <3>2, CheckpointEq
      <3>4. image'.count = Counts(next[p])
        BY <2>4, <2>5, <3>2 DEF IInv, FileTypes, Counted, Counts
      <3>5. ImageInv(p)'
        BY <1>1, <1>3, <1>5, <3>1, <3>3, <3>4 DEF ImageInv, Counts
      <3> QED BY <1>1, <1>2, <3>1, <3>5, StatementKeeps DEF GoTo
    <2> QED BY <2>7, <2>8
  <1> QED BY <1>6, <1>7

\* A row of the image.
LEMMA CursorRow ==
  ASSUME image \in File, image.checkpoint # Nothing, NEW s \in Site, NEW r \in Cursor,
         NEW n \in Nat, image' = [image EXCEPT !.count[s] = n, !.checkpoint.cursor[s] = r]
  PROVE  /\ image' \in File /\ image'.checkpoint \in Checkpoint
         /\ image'.count = [image.count EXCEPT ![s] = n]
         /\ image'.checkpoint.generation = image.checkpoint.generation
         /\ image'.checkpoint.revision = image.checkpoint.revision
         /\ image'.checkpoint.keys = image.checkpoint.keys
         /\ image'.checkpoint.cursor = [image.checkpoint.cursor EXCEPT ![s] = r]
         /\ image'.checkpoint.completed = image.checkpoint.completed
  <1> DEFINE c == image.checkpoint
             d == [c EXCEPT !.cursor[s] = r]
             m == [image.count EXCEPT ![s] = n]
  <1>1. c \in Checkpoint /\ m \in [Site -> Nat]
    BY DEF File
  <1>2. d \in Checkpoint
    BY <1>1 DEF Checkpoint
  <1>3. /\ d.generation = c.generation /\ d.revision = c.revision /\ d.keys = c.keys
        /\ d.cursor = [c.cursor EXCEPT ![s] = r]
    BY <1>1 DEF Checkpoint
  <1>4. d.completed = c.completed
    BY <1>1, Zenon DEF Checkpoint
  <1>5. image'.checkpoint = d
    BY DEF File
  <1>6. image'.count = m
    BY DEF File
  <1>7. image' \in File
    BY <1>1, <1>2, <1>5, <1>6 DEF File
  <1> QED BY <1>2, <1>3, <1>4, <1>5, <1>6, <1>7

\* A new key in the image.
LEMMA KeyRow ==
  ASSUME image \in File, image.checkpoint # Nothing, NEW s \in Site, NEW k \in Key,
         image' = [image EXCEPT !.checkpoint.keys[s] = Append(@, k)]
  PROVE  /\ image' \in File /\ image'.checkpoint \in Checkpoint
         /\ image'.count = image.count
         /\ image'.checkpoint.generation = image.checkpoint.generation
         /\ image'.checkpoint.revision = image.checkpoint.revision
         /\ image'.checkpoint.keys = [image.checkpoint.keys EXCEPT ![s] = Append(@, k)]
         /\ image'.checkpoint.cursor = image.checkpoint.cursor
         /\ image'.checkpoint.completed = image.checkpoint.completed
  <1> DEFINE c == image.checkpoint
             d == [c EXCEPT !.keys[s] = Append(@, k)]
  <1>1. c \in Checkpoint
    BY DEF File
  <1>2. d \in Checkpoint
    <2>1. PICK ks \in [Site -> Seq(Key)] : ks = [c.keys EXCEPT ![s] = Append(@, k)]
      <3>1. c.keys \in [Site -> Seq(Key)]
        BY <1>1 DEF Checkpoint
      <3>2. ASSUME NEW f \in [Site -> Seq(Key)]
            PROVE  [f EXCEPT ![s] = Append(@, k)] \in [Site -> Seq(Key)]
        OBVIOUS
      <3> QED BY <3>1, <3>2
    <2>2. [c EXCEPT !.keys = ks] \in Checkpoint
      BY <1>1 DEF Checkpoint
    <2> QED BY <2>1, <2>2
  <1>3. /\ d.generation = c.generation /\ d.revision = c.revision /\ d.cursor = c.cursor
        /\ d.keys = [c.keys EXCEPT ![s] = Append(@, k)]
    BY <1>1 DEF Checkpoint
  <1>4. d.completed = c.completed
    BY <1>1, Zenon DEF Checkpoint
  <1>5. image'.checkpoint = d
    BY DEF File
  <1>6. image'.count = image.count
    BY DEF File
  <1>7. image' \in File
    BY <1>1, <1>2, <1>5, <1>6 DEF File
  <1> QED BY <1>2, <1>3, <1>4, <1>5, <1>6, <1>7

\* What is known of a stream in the middle of save_incremental.
LEMMA Incremental ==
  ASSUME IInv, NEW p \in Stream, place[p] \in {"adapter", "key"}
  PROVE  /\ writer = p /\ image \in File /\ Goes(p) /\ image.checkpoint # Nothing
         /\ next[p] \in Checkpoint /\ write[p].site \in Site
         /\ Successor(memory[p], next[p], write[p])
         /\ memory[p] \in Checkpoint
         /\ image.checkpoint.generation = next[p].generation
         /\ image.checkpoint.revision = next[p].revision
         /\ image.checkpoint.completed <=> next[p].completed
         /\ image.checkpoint.keys = memory[p].keys
         /\ db.checkpoint.keys = memory[p].keys
         /\ db.checkpoint.cursor = memory[p].cursor
         /\ db.count = Counts(memory[p])
         /\ write[p].key \in Key \cup {Nothing}
  <1>1. /\ writer = p /\ image \in File /\ Goes(p) /\ next[p] \in Checkpoint
        /\ write[p] \in Write /\ place[p] \in Saving /\ write[p].task = "increment"
    BY DEF IInv, StreamType, InTransaction, ImageInv, Saving
  <1>2. /\ write[p].site \in Site /\ image.checkpoint # Nothing
        /\ HeaderOf(image.checkpoint, next[p])
        /\ image.checkpoint.keys = db.checkpoint.keys
    BY <1>1 DEF IInv, ImageInv
  <1>3. memory[p] # Nothing
    BY <1>1 DEF IInv, FirstInv, Begins
  <1>4. MayAdvance(db.checkpoint, next[p])
    BY <1>1 DEF Goes
  <1>5. /\ Successor(memory[p], next[p], write[p]) /\ db.checkpoint \in Checkpoint
        /\ memory[p] \in Checkpoint
        /\ db.checkpoint.keys = memory[p].keys
        /\ db.checkpoint.cursor = memory[p].cursor
    BY <1>1, <1>3, <1>4, GoesOn
  <1>6. db.count = Counts(memory[p])
    BY <1>5, NothingAssumption DEF IInv, FileTypes, Counted, Counts
  <1>7. write[p].key \in Key \cup {Nothing}
    BY <1>1 DEF Write
  <1> QED BY <1>1, <1>2, <1>5, <1>6, <1>7 DEF HeaderOf

\* _write_adapter: with the site's row the image is complete, but for a new key.
LEMMA WriteAdapterKeeps ==
  ASSUME IInv, SchemaInv', NEW p \in Stream, WriteAdapter(p)
  PROVE  IInv'
  <1> DEFINE s == write[p].site
             where == IF write[p].key = Nothing THEN "commit" ELSE "key"
  <1>1. /\ place[p] = "adapter" /\ GoTo(p, where)
        /\ image' = [image EXCEPT !.count[s] = Len(next[p].keys[s]),
                                  !.checkpoint.cursor[s] = next[p].cursor[s]]
        /\ writer' = writer /\ UNCHANGED <<db, drawn, memory, next, write>>
    BY DEF WriteAdapter, Writes
  <1>2. /\ writer = p /\ image \in File /\ Goes(p) /\ image.checkpoint # Nothing
        /\ next[p] \in Checkpoint /\ s \in Site
        /\ Successor(memory[p], next[p], write[p]) /\ memory[p] \in Checkpoint
    BY <1>1, Incremental
  <1>3. /\ image.checkpoint.keys = memory[p].keys /\ db.checkpoint.keys = memory[p].keys
        /\ image.checkpoint.cursor = memory[p].cursor /\ image.count = Counts(memory[p])
    BY <1>1, <1>2, Incremental DEF IInv, ImageInv
  <1>4. /\ next[p].cursor[s] \in Cursor /\ next[p].keys \in [Site -> Seq(Key)]
        /\ Len(next[p].keys[s]) \in Nat
    BY <1>2 DEF Checkpoint
  <1>5. /\ image' \in File /\ image'.checkpoint \in Checkpoint
        /\ image'.count = [image.count EXCEPT ![s] = Len(next[p].keys[s])]
        /\ image'.checkpoint.generation = image.checkpoint.generation
        /\ image'.checkpoint.revision = image.checkpoint.revision
        /\ image'.checkpoint.keys = image.checkpoint.keys
        /\ image'.checkpoint.cursor = [image.checkpoint.cursor EXCEPT ![s] = next[p].cursor[s]]
        /\ image'.checkpoint.completed = image.checkpoint.completed
    BY <1>1, <1>2, <1>4, CursorRow
  <1>6. image'.checkpoint.cursor = next[p].cursor
    <2>1. PICK r \in Cursor : next[p].cursor = [memory[p].cursor EXCEPT ![s] = r]
      BY <1>2, NothingAssumption DEF Successor
    <2>2. memory[p].cursor \in [Site -> Cursor]
      BY <1>2 DEF Checkpoint
    <2> QED BY <1>2, <1>3, <1>5, <2>1, <2>2
  <1>7. image'.count = Counts(next[p])
    <2>1. \A t \in Site \ {s} : next[p].keys[t] = memory[p].keys[t]
      <3>1. memory[p].keys \in [Site -> Seq(Key)]
        BY <1>2 DEF Checkpoint
      <3> QED BY <1>2, <3>1, NothingAssumption DEF Successor
    <2>2. image'.count = [[t \in Site |-> Len(memory[p].keys[t])] EXCEPT ![s] = Len(next[p].keys[s])]
      BY <1>3, <1>5 DEF Counts
    <2> QED BY <1>2, <2>1, <2>2 DEF Counts
  <1>8. HeaderOf(image'.checkpoint, next[p])
    <2>1. image.checkpoint.completed <=> next[p].completed
      BY <1>1, Incremental
    <2>2. /\ image.checkpoint.generation = next[p].generation
          /\ image.checkpoint.revision = next[p].revision
      BY <1>1, Incremental
    <2> QED BY <1>5, <2>1, <2>2 DEF HeaderOf
  <1>9. Goes(p)'
    BY <1>1, <1>2 DEF Goes, MayAdvance, Owns
  <1>10. write[p].task = "increment"
    BY <1>1, <1>2 DEF IInv, ImageInv
  <1>11. place'[p] = where
    BY <1>1 DEF GoTo, IInv, StreamTypes
  <1>12. CASE write[p].key = Nothing
    <2>1. next[p].keys = memory[p].keys
      BY <1>2, <1>12, NothingAssumption DEF Successor
    <2>2. image'.checkpoint = next[p]
      BY <1>2, <1>3, <1>5, <1>6, <1>8, <2>1, CheckpointEq
    <2>3. ImageInv(p)'
      BY <1>1, <1>5, <1>7, <1>9, <1>11, <1>12, <2>2 DEF ImageInv, Counts
    <2> QED BY <1>1, <1>2, <1>12, <2>3, StatementKeeps
  <1>13. CASE write[p].key # Nothing
    <2>1. image'.checkpoint # Nothing
      BY <1>5, NothingAssumption
    <2>2. image'.checkpoint.keys = db.checkpoint.keys
      BY <1>3, <1>5
    <2>3. ImageInv(p)'
      BY <1>1, <1>2, <1>5, <1>6, <1>7, <1>8, <1>9, <1>10, <1>11, <1>13, <2>1, <2>2
         DEF ImageInv, Counts, HeaderOf
    <2> QED BY <1>1, <1>2, <1>13, <2>3, StatementKeeps
  <1> QED BY <1>12, <1>13

\* The new key completes the image.
LEMMA InsertKeyKeeps ==
  ASSUME IInv, SchemaInv', NEW p \in Stream, InsertKey(p)
  PROVE  IInv'
  <1> DEFINE s == write[p].site
             k == write[p].key
  <1>1. /\ place[p] = "key" /\ GoTo(p, "commit")
        /\ image' = [image EXCEPT !.checkpoint.keys[s] = Append(@, k)]
        /\ writer' = writer /\ UNCHANGED <<db, drawn, memory, next, write>>
    BY DEF InsertKey, Writes
  <1>2. /\ writer = p /\ image \in File /\ Goes(p) /\ image.checkpoint # Nothing
        /\ next[p] \in Checkpoint /\ s \in Site
        /\ Successor(memory[p], next[p], write[p]) /\ memory[p] \in Checkpoint
        /\ image.checkpoint.keys = memory[p].keys
    BY <1>1, Incremental
  <1>3. /\ k \in Key /\ image.checkpoint.cursor = next[p].cursor
        /\ image.count = Counts(next[p])
    <2>1. k \in Key \cup {Nothing}
      BY <1>1, Incremental
    <2> QED BY <1>1, <1>2, <2>1 DEF IInv, ImageInv
  <1>4. /\ image' \in File /\ image'.checkpoint \in Checkpoint
        /\ image'.count = image.count
        /\ image'.checkpoint.generation = image.checkpoint.generation
        /\ image'.checkpoint.revision = image.checkpoint.revision
        /\ image'.checkpoint.keys = [image.checkpoint.keys EXCEPT ![s] = Append(@, k)]
        /\ image'.checkpoint.cursor = image.checkpoint.cursor
        /\ image'.checkpoint.completed = image.checkpoint.completed
    BY <1>1, <1>2, <1>3, KeyRow
  <1>5. next[p].keys = [memory[p].keys EXCEPT ![s] = Append(@, k)]
    BY <1>2, <1>3, NothingAssumption DEF Successor
  <1>6. HeaderOf(image'.checkpoint, next[p])
    <2>1. image.checkpoint.completed <=> next[p].completed
      BY <1>1, Incremental
    <2>2. /\ image.checkpoint.generation = next[p].generation
          /\ image.checkpoint.revision = next[p].revision
      BY <1>1, Incremental
    <2> QED BY <1>4, <2>1, <2>2 DEF HeaderOf
  <1>7. image'.checkpoint = next[p]
    BY <1>2, <1>3, <1>4, <1>5, <1>6, CheckpointEq
  <1>8. Goes(p)'
    BY <1>1, <1>2 DEF Goes, MayAdvance, Owns
  <1>9. place'[p] = "commit"
    BY <1>1 DEF GoTo, IInv, StreamTypes
  <1>10. ImageInv(p)'
    BY <1>1, <1>3, <1>4, <1>7, <1>8, <1>9 DEF ImageInv, Counts
  <1> QED BY <1>1, <1>2, <1>10, StatementKeeps

\* replace(): the new search, at the revision after the stored one.
LEMMA ReplacementFields ==
  ASSUME image \in File, NEW c \in Checkpoint, c.revision = 0
  PROVE  /\ Replacement(c) \in Checkpoint
         /\ Replacement(c).generation = c.generation
         /\ Replacement(c).revision =
              IF image.checkpoint = Nothing THEN 0 ELSE image.checkpoint.revision + 1
         /\ Replacement(c).keys = c.keys /\ Replacement(c).cursor = c.cursor
  <1>1. CASE image.checkpoint = Nothing
    BY <1>1 DEF Replacement
  <1>2. CASE image.checkpoint # Nothing
    <2>1. PICK n \in Nat : n = image.checkpoint.revision + 1
      BY <1>2 DEF File, Checkpoint
    <2>2. Replacement(c) = [c EXCEPT !.revision = n]
      BY <1>2, <2>1 DEF Replacement
    <2>3. /\ [c EXCEPT !.revision = n] \in Checkpoint
          /\ [c EXCEPT !.revision = n].generation = c.generation
          /\ [c EXCEPT !.revision = n].revision = n
          /\ [c EXCEPT !.revision = n].keys = c.keys
          /\ [c EXCEPT !.revision = n].cursor = c.cursor
      BY DEF Checkpoint
    <2> QED BY <1>2, <2>1, <2>2, <2>3
  <1> QED BY <1>1, <1>2

\* A search that replaces another one has not completed.
LEMMA ReplacementCompleted ==
  ASSUME NEW c \in Checkpoint
  PROVE  Replacement(c).completed = c.completed
  <1>1. [c EXCEPT !.revision = image.checkpoint.revision + 1].completed = c.completed
    BY Zenon DEF Checkpoint
  <1> QED BY <1>1, Zenon DEF Replacement

\* replace() makes the image the new search.
LEMMA ReplaceSearchKeeps ==
  ASSUME IInv, SchemaInv', NEW p \in Stream, ReplaceSearch(p)
  PROVE  IInv'
  <1> DEFINE d == Replacement(next[p])
  <1>1. /\ place[p] = "header" /\ write[p].task = "replace"
        /\ next' = [next EXCEPT ![p] = d]
        /\ image' = [checkpoint |-> d, count |-> NoCount]
        /\ place' = [place EXCEPT ![p] = "commit"]
        /\ UNCHANGED <<db, writer, drawn, memory, write>>
    BY DEF ReplaceSearch, GoTo
  <1>2. /\ writer = p /\ image = db /\ image \in File
        /\ next[p] \in Checkpoint /\ write[p] \in Write /\ place[p] \in Saving
    BY <1>1 DEF IInv, StreamType, InTransaction, ImageInv, Saving
  <1>3. memory[p] = Nothing
    BY <1>1, <1>2 DEF IInv, SuccessorInv, Successor
  <1>4. Begins(p) /\ FirstInv(p) /\ next[p].revision = 0
    BY <1>1, <1>2, <1>3 DEF IInv, FirstInv, Begins
  <1>5. /\ d \in Checkpoint /\ d.generation = next[p].generation
        /\ d.revision = IF db.checkpoint = Nothing THEN 0 ELSE db.checkpoint.revision + 1
        /\ d.keys = next[p].keys /\ d.cursor = next[p].cursor
    BY <1>2, <1>4, ReplacementFields
  <1>6. d.completed = next[p].completed
    BY <1>2, ReplacementCompleted
  <1>7. History!IsFirst(d)
    BY <1>4, <1>5, <1>6 DEF FirstInv, History!IsFirst
  <1> HIDE DEF d
  <1>8. next'[p] = d /\ place'[p] = "commit" /\ memory'[p] = Nothing /\ write'[p] = write[p]
    BY <1>1, <1>3 DEF IInv, StreamTypes
  <1>9. Alone(p)
    <2>1. place' \in [Stream -> Places]
      BY <1>1 DEF IInv, StreamTypes, Places, Saving
    <2>2. StreamTypes'
      BY <1>1, <2>1 DEF IInv, StreamTypes
    <2>3. ASSUME NEW q \in Stream \ {p}
          PROVE  place'[q] = place[q] /\ next'[q] = next[q]
      BY <1>1 DEF IInv, StreamTypes
    <2>4. writer \in {NoOne, p} /\ writer' \in {NoOne, p}
      BY <1>1, <1>2
    <2> QED BY <1>1, <2>2, <2>3, <2>4 DEF Alone
  <1>10. Past' \subseteq Past
    BY <1>1, <1>8, <1>9, PastSubset DEF IInv
  <1>11. FileTypes'
    BY <1>1 DEF IInv, FileTypes, Counted, NoCount, Counts
  <1>12. StreamType(p)'
    BY <1>1, <1>2, <1>5, <1>8 DEF StreamType, Saving, InTransaction
  <1>13. FirstInv(p)'
    <2>1. \A q \in Stream \ {p} : Begins(q)' => Begins(q) /\ next'[q] = next[q]
      BY <1>9 DEF Begins, Alone
    <2>2. History!IsFirst(next[p])'
      BY <1>7, <1>8 DEF History!IsFirst
    <2> QED BY <1>1, <1>4, <1>5, <1>8, <1>10, <2>1, <2>2 DEF FirstInv
  <1>14. SuccessorInv(p)'
    BY <1>8 DEF SuccessorInv
  <1>15. ImageInv(p)'
    <2>1. NoCount = Counts(d)
      BY <1>7 DEF NoCount, Counts, History!IsFirst
    <2>2. image'.checkpoint = next'[p] /\ image'.count = Counts(next[p])'
      BY <1>1, <1>8, <2>1 DEF Counts
    <2>3. image' \in File
      BY <1>1, <1>5 DEF File, NoCount
    <2>4. Goes(p)'
      BY <1>1, <1>5, <1>8 DEF Goes
    <2> QED BY <1>8, <2>2, <2>3, <2>4 DEF ImageInv
  <1>16. drawn <= drawn'
    BY <1>1 DEF IInv, FileTypes
  <1> QED BY <1>1, <1>2, <1>4, <1>5, <1>8, <1>9, <1>10, <1>11, <1>12, <1>13, <1>14, <1>15, <1>16,
             StepKeeps

-------------------------------------------------------------------------------
\* Steps that change the file.

\* What COMMIT publishes: a new search, or one event more of the stored one.
LEMMA Published ==
  ASSUME IInv, NEW p \in Stream, place[p] = "commit"
  PROVE  /\ writer = p /\ image \in File /\ image.checkpoint = next[p]
         /\ next[p] \in Checkpoint /\ image.count = Counts(next[p])
         /\ next[p].generation <= drawn
         /\ \A c \in Past : /\ Agree(c, next[p]) /\ Agree(next[p], c)
                            /\ c.generation = next[p].generation => c.revision <= next[p].revision
  <1>1. /\ writer = p /\ image \in File /\ image.checkpoint = next[p]
        /\ next[p] \in Checkpoint /\ image.count = Counts(next[p])
        /\ Goes(p) /\ place[p] \in Saving
    BY DEF IInv, StreamType, InTransaction, ImageInv, Saving
  <1>2. CASE memory[p] = Nothing
    <2>1. FirstInv(p) /\ Begins(p)
      BY <1>1, <1>2 DEF IInv, Begins
    <2> QED BY <1>1, <2>1 DEF FirstInv, Agree
  <1>3. CASE memory[p] # Nothing
    <2>1. MayAdvance(db.checkpoint, next[p])
      BY <1>1, <1>3 DEF IInv, SuccessorInv, Successor, Goes
    <2>2. /\ Successor(memory[p], next[p], write[p])
          /\ db.checkpoint \in Checkpoint /\ memory[p] \in Checkpoint
          /\ db.checkpoint \in Past /\ memory[p] \in Past
          /\ db.checkpoint.generation = memory[p].generation
          /\ db.checkpoint.revision = memory[p].revision
          /\ db.checkpoint.keys = memory[p].keys
      BY <1>1, <1>3, <2>1, GoesOn
    <2>3. /\ next[p].generation = db.checkpoint.generation
          /\ next[p].revision = db.checkpoint.revision + 1
          /\ next[p].generation <= drawn
      BY <2>2 DEF Successor, IInv, PastInv
    <2>4. \A s \in Site : IsPrefix(db.checkpoint.keys[s], next[p].keys[s])
      <3>1. memory[p].keys \in [Site -> Seq(Key)]
        BY <2>2 DEF Checkpoint
      <3>2. CASE write[p].key = Nothing
        <4>1. next[p].keys = memory[p].keys
          BY <2>2, <3>2 DEF Successor
        <4> QED BY <2>2, <3>1, <4>1, PrefixRefl
      <3>3. CASE write[p].key # Nothing
        <4>1. /\ write[p].site \in Site /\ write[p].key \in Key
              /\ next[p].keys = [memory[p].keys EXCEPT ![write[p].site] = Append(@, write[p].key)]
          BY <1>1, <2>2, <3>3 DEF Successor, IInv, StreamType, Write
        <4>2. ASSUME NEW s \in Site
              PROVE  IsPrefix(memory[p].keys[s], next[p].keys[s])
          <5>1. CASE s = write[p].site
            BY <3>1, <4>1, <5>1, PrefixAppend
          <5>2. CASE s # write[p].site
            BY <3>1, <4>1, <5>2, PrefixRefl
          <5> QED BY <5>1, <5>2
        <4> QED BY <2>2, <4>2
      <3> QED BY <3>2, <3>3
    <2>5. ASSUME NEW c \in Past, c.generation = next[p].generation
          PROVE  /\ c.revision \in Nat /\ c.revision < next[p].revision
                 /\ \A s \in Site : IsPrefix(c.keys[s], next[p].keys[s])
      <3>1. c \in Checkpoint /\ c.revision \in Nat /\ db.checkpoint.revision \in Nat
        BY <2>2, PastType DEF Checkpoint
      <3>2. c.revision <= db.checkpoint.revision
        BY <2>2, <2>3, <2>5, NothingAssumption DEF IInv, PastInv, Latest
      <3>3. \A s \in Site : IsPrefix(c.keys[s], db.checkpoint.keys[s])
        BY <2>2, <2>3, <2>5, <3>2 DEF IInv, PastInv, Agree
      <3>4. ASSUME NEW s \in Site
            PROVE  IsPrefix(c.keys[s], next[p].keys[s])
        <4>1. /\ c.keys[s] \in Seq(Key) /\ db.checkpoint.keys[s] \in Seq(Key)
              /\ next[p].keys[s] \in Seq(Key)
          BY <1>1, <2>2, <3>1 DEF Checkpoint
        <4> QED BY <2>4, <3>3, <4>1, PrefixTrans
      <3> QED BY <2>3, <3>1, <3>2, <3>4
    <2>6. next[p].revision \in Nat
      BY <1>1 DEF Checkpoint
    <2> QED BY <1>1, <2>3, <2>5, <2>6 DEF Agree
  <1> QED BY <1>2, <1>3

\* COMMIT publishes a checkpoint that goes on from all that is known of its search.
LEMMA CommitKeeps ==
  ASSUME IInv, SchemaInv', NEW p \in Stream, Commit(p)
  PROVE  IInv'
  <1>1. /\ place[p] = "commit" /\ db' = image /\ writer' = NoOne
        /\ place' = [place EXCEPT ![p] = "committed"]
        /\ UNCHANGED <<drawn, memory, next, write>>
    BY DEF Commit, GoTo
  <1>2. /\ writer = p /\ image \in File /\ image.checkpoint = next[p]
        /\ next[p] \in Checkpoint /\ image.count = Counts(next[p])
        /\ next[p].generation <= drawn
        /\ \A c \in Past : /\ Agree(c, next[p]) /\ Agree(next[p], c)
                           /\ c.generation = next[p].generation => c.revision <= next[p].revision
    BY <1>1, Published
  <1>3. next[p] # Nothing /\ db'.checkpoint = next[p]
    BY <1>1, <1>2, NothingAssumption
  <1>4. \A q \in Stream \ {p} : place'[q] = place[q]
    BY <1>1 DEF IInv, StreamTypes
  <1>5. place'[p] = "committed"
    BY <1>1 DEF IInv, StreamTypes
  <1>6. Past' \subseteq Past \cup {next[p]}
    BY <1>1, <1>3, <1>4, <1>5 DEF Past
  <1>7. FileTypes'
    <2>1. db' \in File /\ db'.count = Counts(db'.checkpoint)
      BY <1>1, <1>2
    <2>2. Counted(db)'
      BY <1>3, <2>1 DEF Counted, Counts
    <2> QED BY <1>1, <2>1, <2>2 DEF IInv, FileTypes
  <1>8. StreamTypes'
    BY <1>1 DEF IInv, StreamTypes, Places
  <1>9. PastInv'
    <2>1. Agree(next[p], next[p])
      <3>1. \A s \in Site : next[p].keys[s] \in Seq(Key)
        BY <1>2 DEF Checkpoint
      <3> QED BY <3>1, PrefixRefl DEF Agree
    <2>2. ASSUME NEW c \in Past', NEW d \in Past'
          PROVE  Agree(c, d)
      <3>1. c \in Past \cup {next[p]} /\ d \in Past \cup {next[p]}
        BY <1>6
      <3> QED BY <1>2, <2>1, <3>1 DEF IInv, PastInv
    <2>3. ASSUME NEW c \in Past'
          PROVE  Latest(c)' /\ c.generation <= drawn'
      <3>1. c \in Past \cup {next[p]}
        BY <1>6
      <3>2. c.generation <= drawn'
        BY <1>1, <1>2, <3>1 DEF IInv, PastInv
      <3>3. c.generation = next[p].generation => c.revision <= next[p].revision
        BY <1>2, <3>1 DEF Checkpoint
      <3> QED BY <1>3, <3>2, <3>3 DEF Latest
    <2> QED BY <2>2, <2>3 DEF PastInv, Agree
  <1>10. ASSUME NEW q \in Stream
         PROVE  (StreamType(q) /\ FirstInv(q) /\ SuccessorInv(q) /\ ImageInv(q))'
    <2>1. StreamType(q) /\ FirstInv(q) /\ SuccessorInv(q)
      BY DEF IInv
    <2>2. CASE q = p
      <3>1. /\ place'[q] = "committed" /\ next'[q] \in Checkpoint /\ writer' # q
            /\ place'[q] \notin Saving /\ ~InTransaction(q)'
        BY <1>1, <1>2, <1>5, <2>2, StreamAssumption DEF Saving, InTransaction
      <3> QED BY <3>1 DEF StreamType, FirstInv, Begins, SuccessorInv, ImageInv
    <2>3. CASE q # p
      <3>1. /\ place'[q] = place[q] /\ UNCHANGED <<memory, next, write, drawn>>
            /\ writer' # q /\ writer # q
        BY <1>1, <1>2, <1>4, <2>3, StreamAssumption
      <3>2. StreamType(q)'
        BY <2>1, <3>1 DEF StreamType, InTransaction
      <3>3. FirstInv(q)'
        <4> SUFFICES ASSUME Begins(q)
                     PROVE  FirstInv(q)'
          BY <3>1 DEF FirstInv, Begins
        <4>1. next[p].generation # next[q].generation
          <5>1. CASE Begins(p)
            BY <2>1, <2>3, <5>1 DEF FirstInv
          <5>2. CASE ~Begins(p)
            <6>1. memory[p] # Nothing /\ place[p] \in Saving
              BY <1>1, <5>2 DEF Begins, Saving
            <6>2. next[p].generation = memory[p].generation
              BY <6>1 DEF IInv, SuccessorInv, Successor
            <6>3. memory[p] \in Past
              BY <6>1 DEF Past
            <6> QED BY <2>1, <6>2, <6>3 DEF FirstInv
          <5> QED BY <5>1, <5>2
        <4>2. \A c \in Past' : c.generation # next'[q].generation
          BY <1>6, <2>1, <3>1, <4>1 DEF FirstInv
        <4>3. \A r \in Stream \ {q} : Begins(r)' => Begins(r)
          BY <1>1, <1>4, <1>5, <3>1 DEF Begins, Saving
        <4> QED BY <2>1, <3>1, <4>2, <4>3 DEF FirstInv, History!IsFirst
      <3>4. SuccessorInv(q)'
        BY <2>1, <3>1 DEF SuccessorInv, Successor
      <3> QED BY <3>1, <3>2, <3>3, <3>4 DEF ImageInv
    <2> QED BY <2>2, <2>3
  <1> QED BY <1>7, <1>8, <1>9, <1>10 DEF IInv

\* clear() forgets the checkpoint, not what the streams have acknowledged.
LEMMA ClearKeeps ==
  ASSUME IInv, SchemaInv', Clear
  PROVE  IInv'
  <1>1. /\ writer = NoOne /\ db' = EmptyFile
        /\ UNCHANGED <<image, writer, drawn, place, memory, next, write>>
    BY DEF Clear, streamVars
  <1>2. db'.checkpoint = Nothing
    BY <1>1 DEF EmptyFile
  <1>3. Past' \subseteq Past
    BY <1>1, <1>2 DEF Past
  <1>4. FileTypes'
    BY <1>1, <1>2 DEF IInv, FileTypes, File, EmptyFile, NoCount, Counted
  <1>5. StreamTypes'
    BY <1>1 DEF IInv, StreamTypes
  <1>6. PastInv'
    <2>1. \A c, d \in Past' : Agree(c, d)
      BY <1>3 DEF IInv, PastInv
    <2>2. \A c \in Past' : c.generation <= drawn'
      BY <1>1, <1>3 DEF IInv, PastInv
    <2>3. \A c \in Past' : Latest(c)'
      BY <1>2 DEF Latest
    <2> QED BY <2>1, <2>2, <2>3 DEF PastInv, Agree
  <1>7. ASSUME NEW q \in Stream
        PROVE  (StreamType(q) /\ FirstInv(q) /\ SuccessorInv(q) /\ ImageInv(q))'
    <2>1. StreamType(q) /\ FirstInv(q) /\ SuccessorInv(q)
      BY DEF IInv
    <2>2. StreamType(q)'
      BY <1>1, <2>1 DEF StreamType, InTransaction
    <2>3. FirstInv(q)'
      BY <1>1, <1>3, <2>1 DEF FirstInv, Begins, History!IsFirst
    <2>4. SuccessorInv(q)'
      BY <1>1, <2>1 DEF SuccessorInv, Successor
    <2>5. writer' # q
      BY <1>1, StreamAssumption
    <2> QED BY <2>2, <2>3, <2>4, <2>5 DEF ImageInv
  <1> QED BY <1>4, <1>5, <1>6, <1>7 DEF IInv

\* Opening a store leaves the checkpoints alone.
LEMMA StutterKeeps ==
  ASSUME IInv, SchemaInv', UNCHANGED <<fileVars, drawn, streamVars>>
  PROVE  IInv'
  <1>1. UNCHANGED <<db, image, writer, drawn, place, memory, next, write>>
    BY DEF fileVars, streamVars
  <1>2. Past' = Past
    BY <1>1 DEF Past
  <1>3. FileTypes' /\ StreamTypes'
    BY <1>1 DEF IInv, FileTypes, StreamTypes, Counted, NoCount, Counts
  <1>4. PastInv'
    <2>1. \A c, d \in Past' : Agree(c, d)
      BY <1>2 DEF IInv, PastInv
    <2>2. \A c \in Past' : Latest(c)' /\ c.generation <= drawn'
      BY <1>1, <1>2 DEF IInv, PastInv, Latest
    <2> QED BY <2>1, <2>2 DEF PastInv, Agree
  <1>5. ASSUME NEW q \in Stream
        PROVE  (StreamType(q) /\ FirstInv(q) /\ SuccessorInv(q) /\ ImageInv(q))'
    <2>1. StreamType(q) /\ FirstInv(q) /\ SuccessorInv(q) /\ ImageInv(q)
      BY DEF IInv
    <2>2. StreamType(q)'
      BY <1>1, <2>1 DEF StreamType, InTransaction
    <2>3. FirstInv(q)'
      BY <1>1, <1>2, <2>1 DEF FirstInv, Begins, History!IsFirst
    <2>4. SuccessorInv(q)'
      BY <1>1, <2>1 DEF SuccessorInv, Successor
    <2>5. ImageInv(q)'
      BY <1>1, <2>1 DEF ImageInv, Goes, HeaderOf, MayAdvance, Owns, Counts
    <2> QED BY <2>2, <2>3, <2>4, <2>5
  <1> QED BY <1>3, <1>4, <1>5 DEF IInv

-------------------------------------------------------------------------------
\* No step leaves the stages of the file.
LEMMA SchemaKept ==
  ASSUME IInv, [Next]_vars
  PROVE  SchemaInv'
  <1>1. CASE UNCHANGED schemaVars
    BY <1>1 DEF IInv, SchemaInv, schemaVars
  <1>2. ASSUME NEW p \in Stream, OpensStore(p)
        PROVE  SchemaInv'
    BY <1>2, SchemaStep1 DEF IInv, OpensStore
  <1>3. ASSUME NEW p \in Stream, Stop(p)
        PROVE  SchemaInv'
    BY <1>3 DEF IInv, SchemaInv, Stop, StoreGoesTo
  <1> QED BY <1>1, <1>2, <1>3 DEF Next, Clear, vars

\* Every step keeps the invariant.
LEMMA IInvStep == IInv /\ [Next]_vars => IInv'
  <1> SUFFICES ASSUME IInv, [Next]_vars
               PROVE  IInv'
    OBVIOUS
  <1>1. SchemaInv'
    BY SchemaKept
  <1>2. CASE UNCHANGED vars
    BY <1>1, <1>2, StutterKeeps DEF vars
  <1>3. CASE Clear
    BY <1>1, <1>3, ClearKeeps
  <1>4. ASSUME NEW p \in Stream, OpensStore(p)
        PROVE  IInv'
    BY <1>1, <1>4, StutterKeeps DEF OpensStore
  <1>5. ASSUME NEW p \in Stream, Stop(p)
        PROVE  IInv'
    BY <1>1, <1>5, EndingsKeep
  <1>6. ASSUME NEW p \in Stream, Opens(p)
        PROVE  IInv'
    BY <1>1, <1>6, NewSearchKeeps, OpenResumeKeeps, LoadFindsKeeps DEF Opens
  <1>7. ASSUME NEW p \in Stream, Acks(p)
        PROVE  IInv'
    BY <1>1, <1>7, AcksKeep
  <1>8. ASSUME NEW p \in Stream, Saves(p)
        PROVE  IInv'
    BY <1>1, <1>8, BeginKeeps, EndingsKeep, AdvanceHeaderKeeps, ReplaceSearchKeeps,
       SaveFullKeeps, WriteAdapterKeeps, InsertKeyKeeps, CommitKeeps, ReturnKeeps DEF Saves
  <1> QED BY <1>2, <1>3, <1>4, <1>5, <1>6, <1>7, <1>8 DEF Next

\* The invariant holds of every behaviour.
LEMMA Invariance == Spec => []IInv
  BY IInvInit, IInvStep, PTL DEF Spec

-------------------------------------------------------------------------------
\* Results.

\* README: files of older libraries load.  Whatever the streams that open the
\* file do, and wherever they die, an open store finds all its tables, a later
\* library's file stays as it is, and load() accepts the committed rows.
THEOREM LoadableAlways == Spec => []Loadable
  <1>1. IInv => Loadable
    <2> SUFFICES ASSUME IInv
                 PROVE  Loadable
      OBVIOUS
    <2>1. (\E p \in Stream : store[p] = "open") => tables = Complete
      BY DEF IInv, SchemaInv
    <2>2. "version_2" \in tables => tables = LaterFile
      BY TableSets DEF IInv, SchemaInv, Halfway
    <2>3. Counted(db)
      BY DEF IInv, FileTypes
    <2> QED BY <2>1, <2>2, <2>3 DEF Loadable, Counted, Counts
  <1> QED BY <1>1, Invariance, PTL

\* What somebody goes on from is, or was, in the file.
LEMMA KnownIsPast ==
  ASSUME NEW c \in Known \ {Nothing}
  PROVE  c \in Past
  BY DEF Known, Past

\* README: generation and revision identify a checkpoint.  Whoever holds the same
\* two, the file or any stream, holds the same keys, resume states and outcome.
THEOREM IdentityMeansContentAlways == Spec => []IdentityMeansContent
  <1>1. IInv => IdentityMeansContent
    BY KnownIsPast DEF IInv, PastInv, Agree, IdentityMeansContent
  <1> QED BY <1>1, Invariance, PTL

\* README: "Acknowledged jobs are deduplicated".  What a stream has acknowledged
\* is in the file, in order, unless another search took its place.
THEOREM AcknowledgedIsStoredAlways == Spec => []AcknowledgedIsStored
  <1>1. ASSUME IInv, NEW p \in Stream, memory[p] # Nothing, db.checkpoint # Nothing,
               memory[p].generation = db.checkpoint.generation
        PROVE  /\ memory[p].revision <= db.checkpoint.revision
               /\ \A s \in Site : IsPrefix(memory[p].keys[s], db.checkpoint.keys[s])
    <2>1. memory[p] \in Past /\ db.checkpoint \in Past
      BY <1>1 DEF Past
    <2>2. memory[p].revision <= db.checkpoint.revision
      BY <1>1, <2>1 DEF IInv, PastInv, Latest
    <2> QED BY <1>1, <2>1, <2>2 DEF IInv, PastInv, Agree
  <1>2. IInv => AcknowledgedIsStored
    BY <1>1 DEF AcknowledgedIsStored
  <1> QED BY <1>2, Invariance, PTL

\* Only a commit or clear() changes the file.
LEMMA FileChanges ==
  ASSUME IInv, [Next]_vars, db' # db
  PROVE  \/ Clear
         \/ \E p \in Stream : Commit(p)
  <1>1. ASSUME NEW p \in Stream, Stop(p) \/ OpensStore(p)
        PROVE  db' = db
    BY <1>1 DEF Stop, OpensStore, Rollback, RolledBack, fileVars
  <1>2. ASSUME NEW p \in Stream, Opens(p) \/ Acks(p)
        PROVE  db' = db
    BY <1>2 DEF Opens, OpenFresh, OpenResume, LoadFinds, LoadFindsNothing, Acks, AckJob, AckState,
       AckSearch, Acknowledge, fileVars
  <1>3. ASSUME NEW p \in Stream, Saves(p), ~Commit(p)
        PROVE  db' = db
    BY <1>3 DEF Saves, Begin, BusyTimeout, AdvanceHeader, ReplaceSearch, SaveFull, WriteAdapter,
       InsertKey, Writes, Conflict, StatementFails, Rollback, RolledBack, Return, Interrupt, fileVars
  <1> QED BY <1>1, <1>2, <1>3 DEF Next, vars, fileVars

\* A new search begins with a commit, or one that is there goes on.
LEMMA CommitContinues ==
  ASSUME IInv, NEW p \in Stream, place[p] = "commit"
  PROVE  \/ /\ memory[p] = Nothing
            /\ \A c \in Past : c.generation # next[p].generation
            /\ History!IsFirst(next[p])
            /\ next[p].revision = IF db.checkpoint = Nothing THEN 0 ELSE db.checkpoint.revision + 1
         \/ /\ memory[p] # Nothing
            /\ db.checkpoint # Nothing /\ db.checkpoint.generation = memory[p].generation
            /\ db.checkpoint.revision = memory[p].revision
            /\ db.checkpoint.keys = memory[p].keys /\ db.checkpoint.cursor = memory[p].cursor
            /\ db.checkpoint.completed = memory[p].completed
            /\ db.checkpoint \in Checkpoint /\ next[p] \in Checkpoint
            /\ Successor(memory[p], next[p], write[p]) /\ write[p] \in Write
  <1>1. /\ next[p] \in Checkpoint /\ Goes(p) /\ place[p] \in Saving /\ write[p] \in Write
    BY DEF IInv, StreamType, InTransaction, ImageInv, Saving
  <1>2. CASE memory[p] = Nothing
    <2>1. /\ Begins(p) /\ FirstInv(p)
          /\ \A c \in Past : c.generation # next[p].generation
          /\ History!IsFirst(next[p])
      BY <1>1, <1>2 DEF IInv, Begins, FirstInv
    <2>2. CASE write[p].task = "replace"
      BY <1>1, <1>2, <2>1, <2>2 DEF Goes
    <2>3. CASE write[p].task # "replace"
      <3>1. MayAdvance(db.checkpoint, next[p])
        BY <1>1, <2>3 DEF Goes
      <3>2. db.checkpoint = Nothing
        BY <2>1, <3>1 DEF MayAdvance, Owns, Past
      <3> QED BY <1>2, <2>1, <3>1, <3>2 DEF MayAdvance
    <2> QED BY <2>2, <2>3
  <1>3. CASE memory[p] # Nothing
    <2>1. MayAdvance(db.checkpoint, next[p])
      BY <1>1, <1>3 DEF IInv, SuccessorInv, Successor, Goes
    <2> QED BY <1>1, <1>3, <2>1, GoesOn, NothingAssumption
  <1> QED BY <1>2, <1>3

\* Who acknowledges: the checkpoint of a stream changes when it loads, when its
\* call returns, and when it is closed.
LEMMA MemoryChanges ==
  ASSUME IInv, [Next]_vars, NEW p \in Stream, memory[p] # Nothing, place[p] # "committed"
  PROVE  /\ memory'[p] \in {memory[p], Nothing}
         /\ place'[p] = "committed" => Commit(p)
  <1> DEFINE Goal == /\ memory'[p] \in {memory[p], Nothing}
                     /\ place'[p] = "committed" => Commit(p)
  <1>1. place[p] \notin {"none", "loading"} /\ memory \in [Stream -> Checkpoint \cup {Nothing}]
        /\ place \in [Stream -> Places]
    BY DEF IInv, StreamType, StreamTypes
  <1>2. CASE UNCHANGED vars \/ Clear
    BY <1>2 DEF vars, Clear, streamVars
  <1>3. ASSUME NEW q \in Stream, OpensStore(q)
        PROVE  Goal
    BY <1>3 DEF OpensStore, streamVars
  <1>4. ASSUME NEW q \in Stream, NEW conflict \in BOOLEAN, Raise(q, conflict)
        PROVE  Goal
    <2>1. place' = [place EXCEPT ![q] = "open"] \/ place' = [place EXCEPT ![q] = "none"]
      BY <1>4 DEF Raise, GoTo
    <2>2. memory' = memory \/ memory' = [memory EXCEPT ![q] = Nothing]
      BY <1>4 DEF Raise
    <2> QED BY <1>1, <2>1, <2>2
  <1>5. ASSUME NEW q \in Stream, Opens(q)
        PROVE  Goal
    BY <1>1, <1>5 DEF Opens, OpenFresh, OpenResume, LoadFinds, LoadFindsNothing, GoTo
  <1>6. ASSUME NEW q \in Stream, Acks(q)
        PROVE  Goal
    BY <1>1, <1>6 DEF Acks, AckJob, AckState, AckSearch, Acknowledge, GoTo
  <1>7. ASSUME NEW q \in Stream, NEW where \in Saving, GoTo(q, where), memory' = memory
        PROVE  Goal
    BY <1>1, <1>7 DEF GoTo, Saving
  <1>8. ASSUME NEW q \in Stream, Commit(q)
        PROVE  Goal
    BY <1>1, <1>8 DEF Commit, GoTo
  <1>9. ASSUME NEW q \in Stream, Return(q)
        PROVE  Goal
    BY <1>1, <1>9 DEF Return, GoTo
  <1>10. ASSUME NEW q \in Stream, Saves(q)
         PROVE  Goal
    <2>1. CASE Begin(q) \/ ReplaceSearch(q) \/ SaveFull(q) \/ WriteAdapter(q) \/ InsertKey(q)
      BY <1>7, <2>1 DEF Begin, ReplaceSearch, SaveFull, WriteAdapter, InsertKey, Writes, Saving
    <2>2. CASE AdvanceHeader(q)
      BY <1>7, <2>2 DEF AdvanceHeader, AfterHeader, Writes, Saving
    <2>3. CASE BusyTimeout(q) \/ Conflict(q) \/ StatementFails(q) \/ Interrupt(q)
      BY <1>4, <2>3 DEF BusyTimeout, Conflict, StatementFails, Interrupt
    <2> QED BY <1>8, <1>9, <1>10, <2>1, <2>2, <2>3 DEF Saves
  <1>11. ASSUME NEW q \in Stream, Stop(q)
         PROVE  Goal
    BY <1>4, <1>11 DEF Stop
  <1> QED BY <1>2, <1>3, <1>5, <1>6, <1>10, <1>11 DEF Next

\* A stream whose search was replaced or cleared acknowledges nothing any more,
\* even if revisions agree again.
THEOREM FencedStaysFencedAlways == Spec => FencedStaysFenced
  <1>1. ASSUME IInv, [Next]_vars, NEW p \in Stream, Fenced(p)
        PROVE  /\ memory'[p] \in {memory[p], Nothing}
               /\ memory'[p] # Nothing => Fenced(p)'
    <2>1. /\ memory[p] # Nothing /\ place[p] # "committed"
          /\ db.checkpoint = Nothing \/ db.checkpoint.generation # memory[p].generation
      BY <1>1 DEF Fenced
    <2>2. /\ memory'[p] \in {memory[p], Nothing}
          /\ place'[p] = "committed" => Commit(p)
      BY <1>1, <2>1, MemoryChanges
    <2>3. place'[p] # "committed"
      BY <1>1, <2>1, <2>2, CommitContinues DEF Commit
    <2>4. db'.checkpoint = Nothing \/ db'.checkpoint.generation # memory[p].generation
      <3>1. CASE db' = db
        BY <2>1, <3>1
      <3>2. CASE Clear
        BY <3>2 DEF Clear, EmptyFile
      <3>3. ASSUME NEW q \in Stream, Commit(q)
            PROVE  db'.checkpoint.generation # memory[p].generation
        <4>1. place[q] = "commit" /\ db'.checkpoint = next[q]
          BY <1>1, <3>3, Published DEF Commit
        <4>2. memory[p] \in Past
          BY <2>1 DEF Past
        <4>3. CASE memory[q] = Nothing
          BY <1>1, <4>1, <4>2, <4>3, CommitContinues
        <4>4. CASE memory[q] # Nothing
          <5>1. /\ db.checkpoint # Nothing /\ db.checkpoint.generation = memory[q].generation
                /\ Successor(memory[q], next[q], write[q])
            BY <1>1, <4>1, <4>4, CommitContinues
          <5>2. next[q].generation = db.checkpoint.generation
            BY <5>1 DEF Successor
          <5> QED BY <2>1, <4>1, <5>1, <5>2
        <4> QED BY <4>3, <4>4
      <3> QED BY <1>1, <3>1, <3>2, <3>3, FileChanges
    <2> QED BY <2>2, <2>3, <2>4, <2>1 DEF Fenced
  <1>2. IInv /\ [Next]_vars => [\A p \in Stream : Fenced(p) =>
       /\ memory'[p] \in {memory[p], Nothing}
       /\ memory'[p] # Nothing => Fenced(p)']_vars
    BY <1>1
  <1> QED BY <1>2, Invariance, PTL DEF Spec, FencedStaysFenced

\* class SqliteCheckpointStore: "Checkpoint metadata and adapter state use
\* generation-and-revision compare-and-swap semantics.  Seen job keys live in an
\* ordered append-only table".  However the streams' transactions, failures and
\* restarts interleave, the committed checkpoint goes through a CheckpointHistory.
THEOREM ImplementsHistoryAlways == Spec => ImplementsHistory
  <1>1. Init => History!Init
    BY DEF Init, EmptyFile, History!Init
  <1>2. ASSUME IInv, [Next]_vars
        PROVE  [History!Next]_(db.checkpoint)
    <2>1. CASE db' = db
      BY <2>1
    <2>2. CASE Clear
      BY <2>2 DEF Clear, EmptyFile, History!Next, History!Clear
    <2>3. ASSUME NEW p \in Stream, Commit(p)
          PROVE  History!Next
      <3>1. /\ place[p] = "commit" /\ db'.checkpoint = next[p] /\ next[p] \in Checkpoint
        BY <1>2, <2>3, Published DEF Commit
      <3>2. db'.checkpoint # Nothing
        BY <3>1, NothingAssumption
      <3>3. CASE memory[p] = Nothing
        <4>1. /\ \A c \in Past : c.generation # next[p].generation
              /\ History!IsFirst(db'.checkpoint)
              /\ next[p].revision = IF db.checkpoint = Nothing THEN 0 ELSE db.checkpoint.revision + 1
          BY <1>2, <3>1, <3>3, CommitContinues
        <4>2. db.checkpoint # Nothing => db.checkpoint \in Past
          BY DEF Past
        <4> QED BY <3>1, <3>2, <4>1, <4>2 DEF History!Next, History!Create, History!Replace
      <3>4. CASE memory[p] # Nothing
        <4>1. /\ db.checkpoint # Nothing /\ db.checkpoint.generation = memory[p].generation
              /\ db.checkpoint.revision = memory[p].revision
              /\ db.checkpoint.keys = memory[p].keys /\ db.checkpoint.cursor = memory[p].cursor
              /\ db.checkpoint.completed = memory[p].completed
              /\ db.checkpoint \in Checkpoint /\ next[p] \in Checkpoint
              /\ Successor(memory[p], next[p], write[p]) /\ write[p] \in Write
          BY <1>2, <3>1, <3>4, CommitContinues
        <4>2. History!SameSearch
          BY <3>1, <3>2, <4>1 DEF History!SameSearch, Successor
        <4>3. CASE write[p].site = Nothing
          BY <3>1, <4>1, <4>2, <4>3 DEF Successor, History!Next, History!AdvanceSearch
        <4>4. CASE write[p].site # Nothing
          <5> DEFINE s == write[p].site
          <5>1. s \in Site /\ write[p].key \in Key \cup {Nothing}
            BY <4>1, <4>4 DEF Write
          <5>2. \/ next[p].keys = db.checkpoint.keys
                \/ \E k \in Key :
                     /\ \A i \in DOMAIN db.checkpoint.keys[s] : db.checkpoint.keys[s][i] # k
                     /\ next[p].keys = [db.checkpoint.keys EXCEPT ![s] = Append(@, k)]
            <6>1. CASE write[p].key = Nothing
              BY <4>1, <4>4, <6>1 DEF Successor
            <6>2. CASE write[p].key # Nothing
              <7>1. /\ ~Contains(memory[p].keys[s], write[p].key)
                    /\ next[p].keys = [memory[p].keys EXCEPT ![s] = Append(@, write[p].key)]
                BY <4>1, <4>4, <6>2 DEF Successor
              <7>2. db.checkpoint.keys[s] \in Seq(Key)
                BY <4>1, <5>1 DEF Checkpoint
              <7>3. \A i \in DOMAIN db.checkpoint.keys[s] : db.checkpoint.keys[s][i] # write[p].key
                <8>1. DOMAIN db.checkpoint.keys[s] = 1..Len(db.checkpoint.keys[s])
                  BY <7>2
                <8>2. memory[p].keys[s] = db.checkpoint.keys[s]
                  BY <4>1
                <8> QED BY <7>1, <8>1, <8>2 DEF Contains
              <7> QED BY <4>1, <5>1, <6>2, <7>1, <7>3
            <6> QED BY <6>1, <6>2
          <5>3. \E r \in Cursor : next[p].cursor = [db.checkpoint.cursor EXCEPT ![s] = r]
            BY <4>1, <4>4 DEF Successor
          <5>4. next[p].completed = db.checkpoint.completed
            <6>1. next[p].completed <=> memory[p].completed
              BY <4>1, <4>4 DEF Successor
            <6>2. next[p].completed \in BOOLEAN /\ db.checkpoint.completed \in BOOLEAN
              BY <4>1 DEF Checkpoint
            <6> QED BY <4>1, <6>1, <6>2
          <5> HIDE DEF s
          <5>5. History!AdvanceSite(s)
            BY <3>1, <4>2, <5>2, <5>3, <5>4 DEF History!AdvanceSite
          <5> QED BY <5>1, <5>5 DEF History!Next
        <4> QED BY <4>3, <4>4
      <3> QED BY <3>3, <3>4
    <2> QED BY <1>2, <2>1, <2>2, <2>3, FileChanges
  <1>3. IInv /\ [Next]_vars => [History!Next]_(db.checkpoint)
    BY <1>2
  <1> QED BY <1>1, <1>3, Invariance, PTL DEF Spec, ImplementsHistory, History!Spec
================================================================================

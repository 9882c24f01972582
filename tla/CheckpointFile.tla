----------------------------- MODULE CheckpointFile -----------------------------
(***************************************************************************)
(* The stores that keep one checkpoint for one stream at a time, and how a *)
(* stream opens on them: checkpoint.JsonFileCheckpointStore,               *)
(* MemoryCheckpointStore, a custom store without replace(), and            *)
(* runtime.SearchStream._load_checkpoint.                                  *)
(*                                                                         *)
(* Programs run one after the other on the same path, each for a request   *)
(* and with the schema versions of its release.  A step of a save may      *)
(* fail, the program may be killed, the machine may lose its power.        *)
(*                                                                         *)
(* The file system is the external part: a rename is atomic, what was      *)
(* fsynced is whole after a power loss, but a directory entry is not on    *)
(* disk until the kernel writes it.                                        *)
(***************************************************************************)
EXTENDS Integers

CONSTANTS
  Kind,         \* of stores: "json", "memory", "generic"
  Request,      \* request fingerprints
  Schema,       \* what releases call CHECKPOINT_VERSION and cursor_schema_version
  MaxSearches,  \* bound: searches that are begun
  MaxRevision,  \* bound: events acknowledged in one search
  Torn,         \* a file that is not a whole checkpoint
  Nothing

ASSUME FileAssumption ==
  /\ Kind \subseteq {"json", "memory", "generic"}
  /\ MaxSearches \in Nat /\ MaxRevision \in Nat

\* A checkpoint, reduced to what says whose it is and how far it is.
Checkpoint == [generation : Nat, request : Request, schema : Schema, revision : Nat]

ASSUME NothingAssumption ==
  /\ Torn # Nothing
  /\ Torn \notin Checkpoint
  /\ Nothing \notin Checkpoint

VARIABLES
  kind,     \* which store it is
  path,     \* what load() would find
  onDisk,   \* what it may find after a power loss
  temp,     \* the temporary file of the save under way
  drawn,    \* searches begun: the last generation drawn
  place,    \* where the program is
  request, schema,  \* of its stream
  memory,   \* _checkpoint, what its stream has acknowledged
  pending,  \* the checkpoint it saves
  resets,   \* it saves to begin a new search, with resume=False
  saved     \* history: what the last save that returned, or took effect, saved

disk == <<path, onDisk, temp>>
stream == <<place, request, schema, memory, pending, resets>>
vars == <<kind, disk, drawn, stream, saved>>

\* SearchCheckpoint.for_request: a new generation at revision 0.
ForRequest(r, v, g) == [generation |-> g, request |-> r, schema |-> v, revision |-> 0]

\* AtomicCheckpointStore: it has a replace(), which saves.
Atomic == kind # "generic"

\* A power loss finds the new entry, or an older one that is still on disk.
Enters(found) ==
  /\ path' = found
  /\ onDisk' = IF kind = "json" THEN onDisk \cup {found} ELSE {found}

-------------------------------------------------------------------------------
\* SearchStream._load_checkpoint.

BeginSave(c, first) ==
  /\ pending' = c
  /\ place' = first

\* Mutant: replace() of a built-in store clears first.
FirstOfResetMutantClears == "clearing"
\* The first step of a reset: a store without replace() is cleared before.
FirstOfReset == IF Atomic THEN "writing" ELSE "clearing"

\* resume=False
OpenFresh ==
  /\ place = "none" /\ drawn < MaxSearches
  /\ \E r \in Request, v \in Schema :
       /\ request' = r /\ schema' = v
       /\ BeginSave(ForRequest(r, v, drawn + 1), FirstOfReset)
  /\ drawn' = drawn + 1
  /\ resets' = TRUE
  /\ UNCHANGED <<kind, disk, memory, saved>>

\* Nothing is stored: save a new checkpoint.
OpenNew ==
  /\ place = "none" /\ path = Nothing /\ drawn < MaxSearches
  /\ \E r \in Request, v \in Schema :
       /\ request' = r /\ schema' = v
       /\ BeginSave(ForRequest(r, v, drawn + 1), "writing")
  /\ drawn' = drawn + 1
  /\ UNCHANGED <<kind, disk, memory, resets, saved>>

\* Mutant: looks at the schema versions only.
UsableMutantAnyRequest(c, r, v) == c.schema = v
\* A checkpoint of another schema version or another request is refused.
Usable(c, r, v) == c.schema = v /\ c.request = r

\* What cannot be read or used raises, and nothing changes.
OpenStored ==
  /\ place = "none" /\ path \notin {Nothing, Torn}
  /\ \E r \in Request, v \in Schema :
       /\ Usable(path, r, v)
       /\ request' = r /\ schema' = v
  /\ memory' = path
  /\ place' = "open"
  /\ UNCHANGED <<kind, disk, drawn, pending, resets, saved>>

-------------------------------------------------------------------------------
\* save()

\* SearchStream.ack: the next revision.
Ack ==
  /\ place = "open" /\ memory.revision < MaxRevision
  /\ BeginSave([memory EXCEPT !.revision = @ + 1], "writing")
  /\ UNCHANGED <<kind, disk, drawn, request, schema, memory, resets, saved>>

\* The reset of a store without replace(): clear(), then save().
ClearForReset ==
  /\ place = "clearing"
  /\ Enters(Nothing)
  /\ place' = "writing"
  /\ UNCHANGED <<kind, temp, drawn, request, schema, memory, pending, resets, saved>>

\* The stores other than the JSON file save in one step.
SaveAtOnce ==
  /\ place = "writing" /\ kind # "json"
  /\ Enters(pending)
  /\ place' = "saved"
  /\ UNCHANGED <<kind, temp, drawn, request, schema, memory, pending, resets, saved>>

WriteTemporary ==
  /\ place = "writing" /\ kind = "json"
  /\ temp' = [holds |-> pending, whole |-> FALSE]
  /\ place' = "written"
  /\ UNCHANGED <<kind, path, onDisk, drawn, request, schema, memory, pending, resets, saved>>

\* Mutant: only flushes.
SyncedMutantFlushed(file) == file
\* flush, then fsync.
Synced(file) == [holds |-> file.holds, whole |-> TRUE]

SyncTemporary ==
  /\ place = "written"
  /\ temp' = Synced(temp)
  /\ place' = "synced"
  /\ UNCHANGED <<kind, path, onDisk, drawn, request, schema, memory, pending, resets, saved>>

\* os.replace
ReplaceFile ==
  /\ place = "synced"
  /\ path' = temp.holds
  /\ onDisk' = onDisk \cup {temp.holds} \cup (IF temp.whole THEN {} ELSE {Torn})
  /\ temp' = Nothing
  /\ place' = "saved"
  /\ UNCHANGED <<kind, drawn, request, schema, memory, pending, resets, saved>>

SaveReturns ==
  /\ place = "saved"
  /\ memory' = pending /\ saved' = pending
  /\ pending' = Nothing /\ resets' = FALSE
  /\ place' = "open"
  /\ UNCHANGED <<kind, disk, drawn, request, schema>>

\* Mutant: an acknowledgement goes on as if it had been saved.
KeptInMemoryMutantPending == IF memory = Nothing THEN Nothing ELSE pending
\* What a stream goes on from after a save that raised.
KeptInMemory == memory

\* The call raises: the temporary file is unlinked, or stays and is never read;
\* there is no stream, or one whose event is still to be acknowledged.
Raises ==
  /\ temp' = Nothing
  /\ memory' = KeptInMemory
  /\ pending' = Nothing /\ resets' = FALSE
  /\ place' = IF memory = Nothing THEN "none" ELSE "open"
  /\ UNCHANGED <<kind, path, onDisk, drawn, request, schema>>

StepFails ==
  /\ place \in {"clearing", "writing", "written", "synced"}
  /\ Raises
  /\ saved' = IF path = Nothing THEN Nothing ELSE saved

\* A KeyboardInterrupt when the file has been replaced.
Interrupted ==
  /\ place = "saved"
  /\ Raises
  /\ saved' = path

-------------------------------------------------------------------------------
\* The end of a stream, and of a program.

Forgotten == memory' = Nothing /\ pending' = Nothing /\ resets' = FALSE /\ place' = "none"

Close ==
  /\ place = "open"
  /\ Forgotten
  /\ UNCHANGED <<kind, disk, drawn, request, schema, saved>>

\* The application calls clear().
Clear ==
  /\ place = "none" /\ path # Nothing
  /\ Enters(Nothing)
  /\ saved' = Nothing
  /\ UNCHANGED <<kind, temp, drawn, stream>>

\* What was in the file when the program ended.
Kill ==
  /\ place # "none"
  /\ path' = IF kind = "memory" THEN Nothing ELSE path
  /\ onDisk' = IF kind = "json" THEN onDisk ELSE {path'}
  /\ temp' = Nothing
  /\ saved' = IF path' \in {pending, Nothing} THEN path' ELSE saved
  /\ Forgotten
  /\ UNCHANGED <<kind, drawn, request, schema>>

PowerLoss ==
  /\ kind = "json"
  /\ path' \in onDisk
  /\ onDisk' = {path'}
  /\ temp' = Nothing
  /\ saved' = IF path' = Torn THEN saved ELSE path'
  /\ Forgotten
  /\ UNCHANGED <<kind, drawn, request, schema>>

\* The kernel writes the directory.
DirectoryIsWritten ==
  /\ kind = "json" /\ onDisk # {path}
  /\ onDisk' = {path}
  /\ UNCHANGED <<kind, path, temp, drawn, stream, saved>>

Init ==
  /\ kind \in Kind
  /\ path = Nothing /\ onDisk = {Nothing} /\ temp = Nothing
  /\ drawn = 0
  /\ place = "none" /\ request = Nothing /\ schema = Nothing
  /\ memory = Nothing /\ pending = Nothing /\ resets = FALSE
  /\ saved = Nothing

Open == OpenFresh \/ OpenNew \/ OpenStored

Save ==
  \/ Ack \/ ClearForReset \/ SaveAtOnce \/ WriteTemporary \/ SyncTemporary \/ ReplaceFile
  \/ SaveReturns \/ StepFails \/ Interrupted

\* The bound on searches leaves nothing to open.
AtBound == place = "none" /\ path = Nothing /\ drawn = MaxSearches

Next ==
  \/ Open \/ Save \/ Close \/ Clear \/ Kill \/ PowerLoss \/ DirectoryIsWritten
  \/ AtBound /\ UNCHANGED vars

Spec == Init /\ [][Next]_vars

-------------------------------------------------------------------------------
\* Properties.

\* README: "The checkpoint is written through an fsync plus atomic file
\* replacement", and resume=False "replaces an existing search checkpoint in one
\* all-or-nothing transition".  Whatever fails or dies, a built-in store holds a
\* whole checkpoint: the last one whose save returned, or the one that is being
\* saved.  Only a loss of power may bring back an older one.
LastSaveStands == Atomic => path = saved \/ (pending # Nothing /\ path = pending)

\* README: "A checkpoint is bound to the complete request fingerprint", and an
\* incompatible upgrade is refused: the checkpoint a stream acknowledges on is of
\* its own request and schema versions, whoever wrote it before.
OwnRequestOnly ==
  place = "open" => path # Nothing /\ path.request = request /\ path.schema = schema

\* Unless a reset was asked for, a checkpoint is followed by the next revision of
\* its own search, however many saves failed in between and programs died.
SearchGoesOn ==
  [][ \/ PowerLoss \/ resets
      \/ path = Nothing \/ path' \in {Nothing, path}
      \/ path' = [path EXCEPT !.revision = @ + 1] ]_vars
===============================================================================

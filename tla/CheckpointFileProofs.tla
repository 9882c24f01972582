-------------------------- MODULE CheckpointFileProofs --------------------------
(***************************************************************************)
(* Proofs about CheckpointFile, for any number of searches, events,        *)
(* requests and releases: what a built-in store holds, whose checkpoint a  *)
(* stream goes on from, and that no search is rewound or skipped.          *)
(*                                                                         *)
(* The invariant says of each place of a save what is in the file, in the  *)
(* temporary file and in memory: the file holds what the stream has, or    *)
(* the next revision of it, if the caller was interrupted after the        *)
(* replacement; a temporary file that is renamed is whole.                 *)
(***************************************************************************)
EXTENDS CheckpointFile, TLAPS

Saving == {"clearing", "writing", "written", "synced", "saved"}

Succ(c) == [c EXCEPT !.revision = @ + 1]

Types ==
  /\ kind \in Kind
  /\ path \in Checkpoint \cup {Nothing}
  /\ onDisk \subseteq Checkpoint \cup {Nothing}
  /\ drawn \in Nat
  /\ place \in {"none", "open"} \cup Saving
  /\ memory \in Checkpoint \cup {Nothing}
  /\ pending \in Checkpoint \cup {Nothing}
  /\ resets \in BOOLEAN

\* Where there is a stream, and where there is a save.
PlaceInv ==
  /\ place = "none" => memory = Nothing
  /\ place = "open" => memory # Nothing
  /\ place \in Saving <=> pending # Nothing
  /\ resets => place \in Saving /\ memory = Nothing
  /\ place = "clearing" => resets /\ ~Atomic

\* The temporary file of a save.
TempInv ==
  /\ place = "written" => temp = [holds |-> pending, whole |-> FALSE]
  /\ place = "synced"  => temp = [holds |-> pending, whole |-> TRUE]

\* The checkpoints of a stream are of its request and schema versions.
OwnInv ==
  /\ memory # Nothing => memory.request = request /\ memory.schema = schema
  /\ pending # Nothing => pending.request = request /\ pending.schema = schema

\* What is saved follows what is acknowledged, and so does what is stored.
FollowInv ==
  /\ memory # Nothing => path \in {memory, Succ(memory)}
  /\ memory # Nothing /\ pending # Nothing => pending = Succ(memory)
  /\ place \in Saving \ {"saved"} /\ memory = Nothing /\ ~resets => path = Nothing
  /\ place = "saved" => path = pending

\* Until the save takes effect a built-in store holds the last one.
SavedInv == Atomic /\ place # "saved" => path = saved

IInv == Types /\ PlaceInv /\ TempInv /\ OwnInv /\ FollowInv /\ SavedInv

LEMMA SuccType ==
  ASSUME NEW c \in Checkpoint
  PROVE  /\ Succ(c) \in Checkpoint
         /\ Succ(c).request = c.request /\ Succ(c).schema = c.schema
  BY DEF Succ, Checkpoint

LEMMA ForRequestType ==
  ASSUME NEW r \in Request, NEW v \in Schema, NEW g \in Nat
  PROVE  /\ ForRequest(r, v, g) \in Checkpoint
         /\ ForRequest(r, v, g).request = r /\ ForRequest(r, v, g).schema = v
  BY DEF ForRequest, Checkpoint

LEMMA SyncedIsWhole ==
  ASSUME NEW c
  PROVE  Synced([holds |-> c, whole |-> FALSE]) = [holds |-> c, whole |-> TRUE]
  BY DEF Synced

LEMMA IInvInit == Init => IInv
  <1> SUFFICES ASSUME Init PROVE IInv
    OBVIOUS
  <1>1. Types
    BY DEF Init, Types
  <1>2. PlaceInv /\ TempInv /\ OwnInv /\ FollowInv /\ SavedInv
    BY DEF Init, PlaceInv, TempInv, OwnInv, FollowInv, SavedInv, Saving
  <1> QED BY <1>1, <1>2 DEF IInv

LEMMA OpenStep ==
  ASSUME IInv, Open
  PROVE  IInv'
  <1> USE NothingAssumption DEF IInv, Types, PlaceInv, TempInv, OwnInv, FollowInv, SavedInv, Saving,
        Atomic, disk
  <1>1. CASE OpenFresh
    <2>1. PICK r \in Request, v \in Schema :
            /\ request' = r /\ schema' = v
            /\ BeginSave(ForRequest(r, v, drawn + 1), FirstOfReset)
      BY <1>1 DEF OpenFresh
    <2>2. pending' \in Checkpoint /\ pending'.request = request' /\ pending'.schema = schema'
      BY <2>1, ForRequestType DEF BeginSave
    <2>3. place' = "writing" \/ (place' = "clearing" /\ ~Atomic)
      BY <2>1 DEF BeginSave, FirstOfReset
    <2>4. /\ resets' = TRUE /\ drawn' \in Nat /\ place = "none" /\ memory = Nothing
          /\ UNCHANGED <<kind, path, onDisk, temp, memory, saved>>
      BY <1>1 DEF OpenFresh
    <2>5. Types' /\ PlaceInv' /\ TempInv' /\ OwnInv'
      BY <2>2, <2>3, <2>4
    <2> QED BY <2>3, <2>4, <2>5
  <1>2. CASE OpenNew
    <2>1. PICK r \in Request, v \in Schema :
            /\ request' = r /\ schema' = v
            /\ BeginSave(ForRequest(r, v, drawn + 1), "writing")
      BY <1>2 DEF OpenNew
    <2>2. pending' \in Checkpoint /\ pending'.request = request' /\ pending'.schema = schema'
      BY <2>1, ForRequestType DEF BeginSave
    <2>3. /\ place' = "writing" /\ path = Nothing /\ drawn' \in Nat
          /\ UNCHANGED <<kind, disk, memory, resets, saved>> /\ memory = Nothing
      BY <1>2, <2>1 DEF OpenNew, BeginSave
    <2> QED BY <2>2, <2>3
  <1>3. CASE OpenStored
    BY <1>3 DEF OpenStored, Usable
  <1> QED BY <1>1, <1>2, <1>3 DEF Open

LEMMA SaveStep ==
  ASSUME IInv, Save
  PROVE  IInv'
  <1> USE NothingAssumption DEF IInv, Types, PlaceInv, TempInv, OwnInv, FollowInv, SavedInv, Saving,
        Atomic, disk
  <1>1. CASE Ack
    <2>1. memory \in Checkpoint /\ pending' = Succ(memory)
      BY <1>1 DEF Ack, BeginSave, Succ
    <2>2. /\ pending' \in Checkpoint
          /\ pending'.request = memory.request /\ pending'.schema = memory.schema
      BY <2>1, SuccType
    <2> QED BY <1>1, <2>1, <2>2 DEF Ack, BeginSave
  <1>2. CASE ClearForReset
    BY <1>2 DEF ClearForReset, Enters
  <1>3. CASE SaveAtOnce
    BY <1>3 DEF SaveAtOnce, Enters
  <1>4. CASE WriteTemporary
    BY <1>4 DEF WriteTemporary
  <1>5. CASE SyncTemporary
    <2>1. temp' = [holds |-> pending, whole |-> TRUE]
      BY <1>5, SyncedIsWhole DEF SyncTemporary
    <2> QED BY <1>5, <2>1 DEF SyncTemporary
  <1>6. CASE ReplaceFile
    BY <1>6 DEF ReplaceFile
  <1>7. CASE SaveReturns
    BY <1>7 DEF SaveReturns
  <1>8. CASE StepFails
    BY <1>8 DEF StepFails, Raises, KeptInMemory
  <1>9. CASE Interrupted
    BY <1>9 DEF Interrupted, Raises, KeptInMemory
  <1> QED BY <1>1, <1>2, <1>3, <1>4, <1>5, <1>6, <1>7, <1>8, <1>9 DEF Save

LEMMA EndStep ==
  ASSUME IInv, Close \/ Clear \/ Kill \/ PowerLoss \/ DirectoryIsWritten \/ UNCHANGED vars
  PROVE  IInv'
  <1> USE NothingAssumption DEF IInv, Types, PlaceInv, TempInv, OwnInv, FollowInv, SavedInv, Saving,
        Atomic, disk, stream
  <1>1. CASE Close
    BY <1>1 DEF Close, Forgotten
  <1>2. CASE Clear
    BY <1>2 DEF Clear, Enters
  <1>3. CASE Kill
    BY <1>3 DEF Kill, Forgotten
  <1>4. CASE PowerLoss
    BY <1>4 DEF PowerLoss, Forgotten
  <1>5. CASE DirectoryIsWritten
    BY <1>5 DEF DirectoryIsWritten
  <1>6. CASE UNCHANGED vars
    BY <1>6 DEF vars
  <1> QED BY <1>1, <1>2, <1>3, <1>4, <1>5, <1>6

LEMMA IInvStep == IInv /\ [Next]_vars => IInv'
  <1> SUFFICES ASSUME IInv, [Next]_vars PROVE IInv'
    OBVIOUS
  <1>1. CASE Open
    BY <1>1, OpenStep
  <1>2. CASE Save
    BY <1>2, SaveStep
  <1>3. CASE Close \/ Clear \/ Kill \/ PowerLoss \/ DirectoryIsWritten \/ UNCHANGED vars
    BY <1>3, EndStep
  <1> QED BY <1>1, <1>2, <1>3 DEF Next

LEMMA IInvHolds == Spec => []IInv
  BY IInvInit, IInvStep, PTL DEF Spec

-------------------------------------------------------------------------------
\* Whatever fails or dies, a built-in store holds the checkpoint of the last save
\* that returned, or the one that is being saved: never a part of one, and never
\* nothing in between.
THEOREM LastSaveAlwaysStands == Spec => []LastSaveStands
  <1>1. IInv => LastSaveStands
    BY DEF IInv, PlaceInv, FollowInv, SavedInv, LastSaveStands, Saving
  <1> QED BY <1>1, IInvHolds, PTL

\* A stream acknowledges on a checkpoint of its own request and schema versions.
THEOREM OwnRequestAlways == Spec => []OwnRequestOnly
  <1>1. IInv => OwnRequestOnly
    <2> SUFFICES ASSUME IInv, place = "open" PROVE OwnRequestOnly
      BY DEF OwnRequestOnly
    <2>1. memory \in Checkpoint /\ path \in {memory, Succ(memory)}
      BY DEF IInv, Types, PlaceInv, FollowInv
    <2> QED
      BY <2>1, SuccType, NothingAssumption DEF IInv, OwnInv, OwnRequestOnly
  <1> QED BY <1>1, IInvHolds, PTL

\* Unless a reset was asked for or the power was lost, a stored checkpoint is only
\* followed by the next revision of the same search.
THEOREM SearchAlwaysGoesOn == Spec => SearchGoesOn
  <1>1. IInv /\ [Next]_vars
          => [ \/ PowerLoss \/ resets
               \/ path = Nothing \/ path' \in {Nothing, path}
               \/ path' = [path EXCEPT !.revision = @ + 1] ]_vars
    <2> SUFFICES ASSUME IInv, Next, ~PowerLoss, ~resets, path # Nothing,
                        path' \notin {Nothing, path}
                 PROVE  path' = Succ(path)
      BY DEF Succ
    <2>1. path' = pending /\ place \in {"writing", "synced"}
      BY DEF IInv, TempInv, Next, Open, OpenFresh, OpenNew, OpenStored, Save, Ack, ClearForReset,
         SaveAtOnce, WriteTemporary, SyncTemporary, ReplaceFile, SaveReturns, StepFails,
         Interrupted, Raises, Close, Clear, Kill, DirectoryIsWritten, AtBound, Enters, BeginSave,
         vars, disk, stream
    <2>2. memory # Nothing /\ pending = Succ(memory) /\ path \in {memory, Succ(memory)}
      BY <2>1 DEF IInv, PlaceInv, FollowInv, Saving
    <2> QED BY <2>1, <2>2
  <1> QED BY <1>1, IInvHolds, PTL DEF Spec, SearchGoesOn
================================================================================

-------------------------- MODULE MCCheckpointFile --------------------------
(***************************************************************************)
(* The instance of CheckpointFile that TLC checks.                         *)
(***************************************************************************)
EXTENDS CheckpointFile, TLC

CONSTANTS python, rust

RequestSymmetry == Permutations({python, rust})
===============================================================================

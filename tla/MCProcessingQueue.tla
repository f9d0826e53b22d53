-------------------------- MODULE MCProcessingQueue --------------------------
(***************************************************************************)
(* Instances of ProcessingQueue for TLC.                                   *)
(***************************************************************************)
EXTENDS QueueLifecycle, TLC

WorkerSymmetry == Permutations(Workers)
=============================================================================

------------------------------ MODULE MCBatch -------------------------------
(* Instances of Batch: the definitions are in the .cfg files. *)
EXTENDS Batch
=============================================================================

------------------------------- MODULE MCCdc --------------------------------
(* Instances of Cdc: the definitions are in the .cfg files. *)
EXTENDS Cdc
=============================================================================

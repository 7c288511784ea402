---------------------------- MODULE MCMarkSweep ----------------------------
(* Instances of MarkSweep for TLC. *)
EXTENDS MarkSweep
CONSTANT oblistvar
=============================================================================

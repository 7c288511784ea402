------------------------------ MODULE MCCopyGC ------------------------------
(* Instances of CopyGC for TLC. *)
EXTENDS CopyGC
CONSTANTS oblistvar, sym_errobj
=============================================================================

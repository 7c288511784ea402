-------------------------- MODULE MCMarkSweepTrace --------------------------
(* An instance of MarkSweepTrace for TLC. *)
EXTENDS MarkSweepTrace
=============================================================================

----------------------------- MODULE MCControl -----------------------------
(* Instances of Control for TLC: the two tags that take errors, and one that *)
(* does not.                                                                *)
EXTENDS Control
CONSTANT other
=============================================================================

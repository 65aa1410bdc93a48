---------------------------- MODULE MCCoalescer ----------------------------
(* Coalescer for TLC. *)
EXTENDS Coalescer, TLC
=============================================================================

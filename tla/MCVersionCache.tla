--------------------------- MODULE MCVersionCache ---------------------------
(* VersionCache for TLC. *)
EXTENDS VersionCache, TLC
=============================================================================

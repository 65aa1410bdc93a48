----------------------------- MODULE MCEndpoints -----------------------------
(* Endpoints for TLC. *)
EXTENDS Endpoints
=============================================================================

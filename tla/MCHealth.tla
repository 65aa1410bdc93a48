------------------------------ MODULE MCHealth ------------------------------
(* Health for TLC: requests are interchangeable.                            *)
EXTENDS Health, TLC

MCSymmetry == Permutations(Requests)
=============================================================================

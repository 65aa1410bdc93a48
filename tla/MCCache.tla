------------------------------ MODULE MCCache ------------------------------
(* Cache for TLC: more keys than places, clocks past every expiry.          *)
EXTENDS Cache, TLC

MCSymmetry == Permutations(Users) \cup Permutations(Keys) \cup Permutations(Bodies)
=============================================================================

---------------------------- MODULE MCRestClient ----------------------------
(* Instance of RestClient for TLC. *)
EXTENDS RestClient, TLC

Symmetry == Permutations(Operations) \cup Permutations(Legs)
=============================================================================

----------------------------- MODULE MCHttpGate -----------------------------
(* Instance of HttpGate for TLC. *)
EXTENDS HttpGate, TLC

Symmetry == Permutations(Workers) \cup Permutations(Users)
=============================================================================

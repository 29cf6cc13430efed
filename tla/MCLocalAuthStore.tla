-------------------------- MODULE MCLocalAuthStore --------------------------
(* Instance of LocalAuthStore for TLC. *)
EXTENDS LocalAuthStore, TLC

Symmetry == Permutations(Commands) \cup Permutations(Clients) \cup Permutations(Tokens)
            \cup Permutations(Outputs) \cup Permutations(Users) \cup Permutations(Readers)
=============================================================================

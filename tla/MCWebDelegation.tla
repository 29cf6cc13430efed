-------------------------- MODULE MCWebDelegation --------------------------
(* Instance of WebDelegation for TLC. *)
EXTENDS WebDelegation, TLC

(* Workers, delegation tokens and users are interchangeable in every safety *)
(* property; backend tokens are too.                                        *)
Symmetry == Permutations(Workers) \cup Permutations(Tokens)
            \cup Permutations(Users) \cup Permutations(Backends)
=============================================================================

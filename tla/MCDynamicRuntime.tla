-------------------------- MODULE MCDynamicRuntime --------------------------
(* Instance of DynamicRuntime for TLC. *)
EXTENDS DynamicRuntime, TLC

CONSTANTS d1, d2, d3, b1, b2, alpha, beta, gamma, delta, static,
          first, second, broken

(* Three documents.  The second redefines alpha, changes only the binding of *)
(* beta, drops gamma, adds a delta that AddTool rejects, and claims a static *)
(* name; the last is refused by Parse or Build.                              *)
T(d, b) == [def |-> d, bind |-> b]
MCOffered ==
    (first  :> (alpha :> T(d1, b1) @@ beta :> T(d1, b1) @@ gamma :> T(d1, b1) @@ delta :> None
                @@ static :> None)) @@
    (second :> (alpha :> T(d2, b1) @@ beta :> T(d1, b2) @@ gamma :> None @@ delta :> T(d3, b1)
                @@ static :> T(d1, b1))) @@
    (broken :> [n \in Names |-> None])

(* The first document comes without a usable ETag. *)
MCETag == (first :> NoETag) @@ (second :> "e2") @@ (broken :> "e3")
=============================================================================

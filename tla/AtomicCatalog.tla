--------------------------- MODULE AtomicCatalog ---------------------------
(***************************************************************************)
(* What a client of tools/list is promised while contracts are replaced:   *)
(* there is one catalog at a time, it is the whole catalog of one contract *)
(* that passed validation, and a list shows the whole of it.               *)
(***************************************************************************)
CONSTANTS
    Catalogs,  \* the catalogs of the contracts that pass validation
    Nothing,   \* the catalog before the first contract
    Clients,
    None

VARIABLES
    visible,   \* the catalog in service
    seen       \* seen[k]: the list client k received last

Init == visible = Nothing /\ seen = [k \in Clients |-> None]

Publish == visible' \in Catalogs /\ UNCHANGED seen

List(k) == seen' = [seen EXCEPT ![k] = visible] /\ UNCHANGED visible

Next == Publish \/ \E k \in Clients : List(k)

Spec == Init /\ [][Next]_<<visible, seen>>
=============================================================================

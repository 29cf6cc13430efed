------------------------ MODULE DelegationLifecycle ------------------------
(***************************************************************************)
(* What the delegation store promises, whatever its locking: a delegation  *)
(* is granted once, to one user, while fewer than the limits are active,   *)
(* and once it is retired (by expiry or revocation) it never returns.      *)
(***************************************************************************)
EXTENDS Naturals, FiniteSets

CONSTANTS Users, Tokens, MaxEntries, PerUser

VARIABLES
    active,   \* delegations that can authenticate a request
    retired   \* tokens of delegations that no longer can

Of(S, u) == {d \in S : d.user = u}

Init == active = {} /\ retired = {}

(* Delegations may leave at any time, and several at once (a purge). *)
Retire(gone) ==
    /\ active' = active \ gone
    /\ retired' = retired \cup {d.token : d \in gone}

(* A grant first retires what has expired, then needs room under both limits. *)
Grant(gone, t, u) ==
    LET kept == active \ gone IN
    /\ t \notin retired /\ \A d \in active : d.token # t
    /\ Cardinality(kept) < MaxEntries
    /\ Cardinality(Of(kept, u)) < PerUser
    /\ active' = kept \cup {[token |-> t, user |-> u]}
    /\ retired' = retired \cup {d.token : d \in gone}

Next ==
    \E gone \in SUBSET active :
        \/ Retire(gone)
        \/ \E t \in Tokens, u \in Users : Grant(gone, t, u)

Spec == Init /\ [][Next]_<<active, retired>>
=============================================================================

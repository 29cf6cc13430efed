------------------------- MODULE CredentialRegistry -------------------------
(***************************************************************************)
(* What an administrator of the local credentials is promised: a client    *)
(* has at most one token, enrolling and revoking are single steps that     *)
(* touch one client only, and a token that was revoked never comes back.   *)
(***************************************************************************)
CONSTANTS Clients, Tokens, None

VARIABLES
    active,     \* active[c]: the token of client c, None when it has none
    used        \* every token that was ever given out

Init ==
    /\ active = [c \in Clients |-> None]
    /\ used = {}

Enroll(c, t) ==
    /\ active[c] = None /\ t \notin used
    /\ active' = [active EXCEPT ![c] = t]
    /\ used' = used \cup {t}

Revoke(c) ==
    /\ active' = [active EXCEPT ![c] = None]
    /\ UNCHANGED used

Next == \E c \in Clients : Revoke(c) \/ \E t \in Tokens : Enroll(c, t)

Spec == Init /\ [][Next]_<<active, used>>
=============================================================================

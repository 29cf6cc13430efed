------------------------------ MODULE HttpGate ------------------------------
(***************************************************************************)
(* What a request passes before and after the MCP transport serves it      *)
(* (internal/mcpserver/http.go, internal_delegation.go): the budget of     *)
(* authentication failures of its peer, the global slots, authentication,  *)
(* the rate and the slots of its user, and the release of both slots.      *)
(*                                                                         *)
(* Each step below takes at most one lock.  Authenticate, Issue and the    *)
(* transport run without any, for up to RequestTimeout.                    *)
(***************************************************************************)
EXTENDS Naturals, FiniteSets

CONSTANTS
    Workers,        \* request goroutines
    Peers,          \* peerKey: the IP address of a loopback peer
    Users,
    MaxConcurrent,  \* global slots
    PerUser,        \* MaxConcurrentPerUser
    FailLimit,      \* MaxAuthFailuresPerPeerPerWindow
    RateLimit,      \* MaxRequestsPerUserPerWindow
    Window,         \* RateLimitWindow, in seconds
    MaxKeys,        \* MaxRateLimitEntries
    None,
    MaxClock        \* bound of the model: the clock stops here

ASSUME GateAssumption ==
    /\ MaxConcurrent \in Nat \ {0} /\ PerUser \in Nat \ {0}
    /\ FailLimit \in Nat \ {0} /\ RateLimit \in Nat \ {0} /\ Window \in Nat \ {0}
    /\ MaxKeys \in Nat \ {0} /\ MaxClock \in Nat
    /\ IsFiniteSet(Workers) /\ IsFiniteSet(Peers) /\ IsFiniteSet(Users)
    /\ None \notin Peers \cup Users
    /\ None \notin [tokens : Nat, seen : Nat]

Failures == INSTANCE TokenBucket WITH Keys <- Peers, Limit <- FailLimit, Absent <- None
Requests == INSTANCE TokenBucket WITH Keys <- Users, Limit <- RateLimit, Absent <- None

VARIABLES
    clock,      \* seconds, monotonic
    global,     \* len(global): slots taken
    users,      \* users[u]; the code deletes the key at 0
    failures,   \* authFailures
    requests,   \* userRequests
    req,        \* req[w]: the request goroutine w handles
    failed      \* history: failed[p], rejected credentials of peer p

vars == <<clock, global, users, failures, requests, req, failed>>

Idle == [pc |-> "idle", peer |-> None, user |-> None]

(* Where a request is: past the failure budget; in the delegation endpoint; *)
(* at the bearer; in Authenticate; about to be counted as a failure; at the *)
(* user's rate; at the user's slots; in the transport; at the two releases. *)
Holding == {"internal", "bearer", "auth", "penalize", "rate", "slot", "serving", "leaveUser", "leave"}
PCs == {"idle", "admitted", "done"} \cup Holding

TypeOK ==
    /\ clock \in Nat
    /\ global \in Nat
    /\ users \in [Users -> Nat]
    /\ failures \in Failures!Tables /\ requests \in Requests!Tables
    /\ req \in [Workers -> [pc : PCs, peer : Peers \cup {None}, user : Users \cup {None}]]
    /\ failed \in [Peers -> Nat]

Init ==
    /\ clock = 0 /\ global = 0
    /\ users = [u \in Users |-> 0]
    /\ failures = Failures!Empty /\ requests = Requests!Empty
    /\ req = [w \in Workers |-> Idle]
    /\ failed = [p \in Peers |-> 0]

At(w, pc) == req[w].pc = pc
Goto(w, pc) == req' = [req EXCEPT ![w].pc = pc]

-----------------------------------------------------------------------------
(* Mutated form: the budget is not looked at before the credential. *)
ArriveUnchecked(w, p) ==
    /\ At(w, "idle")
    /\ req' = [req EXCEPT ![w] = [Idle EXCEPT !.pc = "admitted", !.peer = p]]
    /\ UNCHANGED <<clock, global, users, failures, requests, failed>>

(* A request whose host, headers and peer are in order is stopped when its *)
(* peer has no failure left in its budget (permitted).                     *)
Arrive(w, p) ==
    /\ At(w, "idle")
    /\ \E table \in Failures!Touched(failures, p, clock) :
         /\ failures' = table
         /\ req' = [req EXCEPT ![w] = [Idle EXCEPT !.pc = IF Failures!HasToken(table, p) THEN "admitted" ELSE "done",
                                                   !.peer = p]]
    /\ UNCHANGED <<clock, global, users, requests, failed>>

(* healthz, readyz, preflights, unknown paths and refused origins take no slot. *)
Unguarded(w) ==
    /\ At(w, "admitted")
    /\ Goto(w, "done")
    /\ UNCHANGED <<clock, global, users, failures, requests, failed>>

(* /internal/ and /mcp need a global slot and do not wait for one. *)
TakeGlobal(w) ==
    /\ At(w, "admitted")
    /\ \/ global < MaxConcurrent /\ global' = global + 1 /\ \E pc \in {"internal", "bearer"} : Goto(w, pc)
       \/ global >= MaxConcurrent /\ Goto(w, "done") /\ UNCHANGED global
    /\ UNCHANGED <<clock, users, failures, requests, failed>>

(* The delegation endpoint answers.  Only a wrong shared secret counts as an *)
(* authentication failure; a refused backend session does not.               *)
InternalReply(w) ==
    /\ At(w, "internal")
    /\ \/ Goto(w, "leave") /\ UNCHANGED failed
       \/ Goto(w, "penalize") /\ failed' = [failed EXCEPT ![req[w].peer] = @ + 1]
    /\ UNCHANGED <<clock, global, users, failures, requests>>

Bearer(w) ==
    /\ At(w, "bearer")
    /\ \/ Goto(w, "auth") /\ UNCHANGED failed
       \/ Goto(w, "penalize") /\ failed' = [failed EXCEPT ![req[w].peer] = @ + 1]
    /\ UNCHANGED <<clock, global, users, failures, requests>>

(* Mutated form: a backend that could not be asked counts as a failure. *)
AuthenticatedStrict(w) ==
    /\ At(w, "auth")
    /\ \/ \E u \in Users : req' = [req EXCEPT ![w].pc = "rate", ![w].user = u]
       \/ Goto(w, "penalize")
    /\ UNCHANGED <<clock, global, users, failures, requests, failed>>

(* Authenticate returns a user, a rejection (401 or 403, or a principal that *)
(* is not complete), or 503, 504 or 408 when the backend could not be asked. *)
Authenticated(w) ==
    /\ At(w, "auth")
    /\ \/ \E u \in Users : req' = [req EXCEPT ![w].pc = "rate", ![w].user = u] /\ UNCHANGED failed
       \/ Goto(w, "penalize") /\ failed' = [failed EXCEPT ![req[w].peer] = @ + 1]
       \/ Goto(w, "leave") /\ UNCHANGED failed
    /\ UNCHANGED <<clock, global, users, failures, requests>>

Penalize(w) ==
    /\ At(w, "penalize")
    /\ \E table \in Failures!Touched(failures, req[w].peer, clock) :
         failures' = Failures!Charged(table, req[w].peer)
    /\ Goto(w, "leave")
    /\ UNCHANGED <<clock, global, users, requests, failed>>

(* userRequests.allow *)
Rate(w) ==
    /\ At(w, "rate")
    /\ \E table \in Requests!Touched(requests, req[w].user, clock) :
         /\ requests' = Requests!Charged(table, req[w].user)
         /\ Goto(w, IF Requests!HasToken(table, req[w].user) THEN "slot" ELSE "leave")
    /\ UNCHANGED <<clock, global, users, failures, failed>>

(* Mutated form: the limit is read before, and not with, the increment. *)
TakeUserSlotLate(w) ==
    /\ At(w, "slot")
    /\ users' = [users EXCEPT ![req[w].user] = @ + 1]
    /\ Goto(w, "serving")
    /\ UNCHANGED <<clock, global, failures, requests, failed>>

(* Under usersMu: refuse, or count the request. *)
TakeUserSlot(w) ==
    /\ At(w, "slot")
    /\ LET u == req[w].user IN
       \/ users[u] >= PerUser /\ Goto(w, "leave") /\ UNCHANGED users
       \/ users[u] < PerUser /\ users' = [users EXCEPT ![u] = @ + 1] /\ Goto(w, "serving")
    /\ UNCHANGED <<clock, global, failures, requests, failed>>

(* The method, the body and its content are refused, or the transport ends, *)
(* by itself or because the request was canceled or timed out.              *)
Served(w) ==
    /\ At(w, "serving")
    /\ Goto(w, "leaveUser")
    /\ UNCHANGED <<clock, global, users, failures, requests, failed>>

(* The deferred releases run in reverse order of the acquisitions. *)
LeaveUser(w) ==
    /\ At(w, "leaveUser")
    /\ users' = [users EXCEPT ![req[w].user] = @ - 1]
    /\ Goto(w, "leave")
    /\ UNCHANGED <<clock, global, failures, requests, failed>>

Leave(w) ==
    /\ At(w, "leave")
    /\ global' = global - 1
    /\ Goto(w, "done")
    /\ UNCHANGED <<clock, users, failures, requests, failed>>

Done(w) ==
    /\ At(w, "done")
    /\ req' = [req EXCEPT ![w] = Idle]
    /\ UNCHANGED <<clock, global, users, failures, requests, failed>>

Tick == clock < MaxClock /\ clock' = clock + 1 /\ UNCHANGED <<global, users, failures, requests, req, failed>>

Handle(w) ==
    \/ Unguarded(w) \/ TakeGlobal(w) \/ InternalReply(w) \/ Bearer(w) \/ Authenticated(w) \/ Penalize(w)
    \/ Rate(w) \/ TakeUserSlot(w) \/ Served(w) \/ LeaveUser(w) \/ Leave(w) \/ Done(w)

Next == (\E w \in Workers : Handle(w) \/ \E p \in Peers : Arrive(w, p)) \/ Tick

Spec == Init /\ [][Next]_vars

-----------------------------------------------------------------------------
(* Properties *)

(* Whatever way a request ends, and in whatever order requests enter and     *)
(* leave, the slots taken are those of the requests in progress; neither     *)
(* limit is ever exceeded and no slot is lost or returned twice.  (With it,  *)
(* the type invariant.)                                                      *)
SlotsAccounted ==
    /\ TypeOK
    /\ global = Cardinality({w \in Workers : req[w].pc \in Holding})
    /\ global <= MaxConcurrent
    /\ \A u \in Users :
         /\ users[u] = Cardinality({w \in Workers : req[w].pc \in {"serving", "leaveUser"} /\ req[w].user = u})
         /\ users[u] <= PerUser

(* The budget is looked at when a request arrives and charged after its      *)
(* credential was rejected, so requests in flight together may share one     *)
(* token.  Even so a peer's rejected credentials are bounded: the burst, and *)
(* for every token restored one per request in flight.                       *)
FailuresBounded ==
    \A p \in Peers :
        failed[p] + 1 <= FailLimit + Cardinality(Workers) * (1 + (clock * FailLimit) \div Window)

(* Only rejected credentials use up a peer's budget: an outage of the        *)
(* backend, or refused sessions at the delegation endpoint, lock nobody out. *)
OutageLocksNobodyOut ==
    \A p \in Peers : Failures!Full <= Failures!Level(failures, p, clock) + Window * failed[p]
=============================================================================

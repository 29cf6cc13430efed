--------------------------- MODULE WebDelegation ---------------------------
(***************************************************************************)
(* The in-memory delegation store (internal/webdelegation/store.go) and    *)
(* the backend sessions it checks.                                         *)
(*                                                                         *)
(* Issue and Authenticate call the backend (verify) without holding the    *)
(* store's mutex, and read the clock before they take it.  Each operation  *)
(* is therefore split at those two points; what the code does under the    *)
(* mutex is one action.  Workers are the goroutines of HTTP requests.      *)
(***************************************************************************)
EXTENDS Naturals, FiniteSets

CONSTANTS
    Users,       \* valid user ids (validID)
    Backends,    \* backend session tokens (validBackendToken)
    Tokens,      \* delegation tokens crypto/rand may produce, never twice the same
    Workers,     \* request goroutines
    Malformed,   \* a bearer that is no delegation token (ValidToken is false)
    BadId,       \* a user id that is no valid id (the empty string)
    None,        \* nothing: no value read yet
    TTL,         \* lifetime of a delegation
    MaxEntries,  \* maxEntries, 4096 in the code
    PerUser,     \* Store.perUser
    MaxClock     \* bound of the model: the clock stops here

ASSUME StoreAssumption ==
    /\ TTL \in Nat \ {0} /\ MaxEntries \in Nat /\ PerUser \in Nat /\ MaxClock \in Nat
    /\ None \notin Users \cup Backends \cup Tokens
    /\ BadId \notin Users
    /\ Malformed \notin Tokens

(***************************************************************************)
(* What the backend says of a session token: the user, or that the session *)
(* is over.  A call may also fail for reasons that say nothing about the   *)
(* session (timeout, canceled and backend_unavailable are handled alike).  *)
(***************************************************************************)
SessionFailures == {"authentication_required", "access_denied"}
Transient == {"backend_unavailable"}

Sessions == Users \cup {BadId} \cup SessionFailures
Answers  == Sessions \cup Transient
Codes    == {"ok", "authentication_required", "backend_authentication_required", "access_denied",
             "backend_unavailable", "invalid_delegation_request", "delegation_limit", "delegation_unavailable"}

ASSUME AnswerAssumption ==
    /\ (Users \cup {BadId, None}) \cap (SessionFailures \cup Transient) = {}
    /\ BadId # None /\ None \notin Codes

Entry == [token : Tokens, user : Users, backend : Backends, issuedAt : Nat, expiresAt : Nat]

VARIABLES
    clock,    \* time.Now, which Go keeps monotonic
    session,  \* session[b]: how the backend resolves token b at present
    tainted,  \* history: backend tokens whose session was ever taken from its user
    entries,  \* Store.entries
    ledger,   \* history: every entry Issue ever inserted
    op,       \* op[w]: the call worker w is executing
    live      \* history: workers in Authenticate for whom the session belonged to the
              \* delegation's user at some moment since the lookup

vars == <<clock, session, tainted, entries, ledger, op, live>>

(* A call's local variables. *)
Idle == [pc |-> "idle", bearer |-> None, backend |-> None, user |-> None,
         now |-> 0, answer |-> None, code |-> None]

PCs == {"idle", "issueVerify", "issueInsert", "issueDone", "authLookup", "authVerify", "authDone"}

Ops == [pc : PCs, bearer : Tokens \cup {Malformed, None}, backend : Backends \cup {None},
        user : Users \cup {None}, now : Nat,
        answer : Answers \cup {None}, code : Codes \cup {None}]

(* One type invariant; Len and the two limits count finite sets. *)
TypeOK ==
    /\ clock \in Nat
    /\ session \in [Backends -> Sessions]
    /\ tainted \subseteq Backends
    /\ entries \subseteq Entry /\ IsFiniteSet(entries)
    /\ ledger \subseteq Entry
    /\ op \in [Workers -> Ops]
    /\ live \subseteq Workers

Init ==
    /\ clock = 0
    /\ session \in [Backends -> {"authentication_required"}]
    /\ tainted = {}
    /\ entries = {}
    /\ ledger = {}
    /\ op = [w \in Workers |-> Idle]
    /\ live = {}

-----------------------------------------------------------------------------
(* Helpers of the store. *)

(* Mutated form: an entry is still good in the instant it expires. *)
AliveInclusive(e, now) == now <= e.expiresAt
Alive(e, now) == now < e.expiresAt
Unexpired(now) == {e \in entries : Alive(e, now)}          \* what purgeExpiredLocked leaves
CountUser(S, u) == Cardinality({e \in S : e.user = u})
Without(S, t) == {e \in S : e.token # t}
(* Mutated forms: only 401 ends a session; every error does. *)
SessionFailure401(answer) == answer = "authentication_required"
SessionFailureAny(answer) == answer \in SessionFailures \cup Transient
IsSessionFailure(answer) == answer \in SessionFailures
BackendError(answer) ==
    IF answer = "authentication_required" THEN "backend_authentication_required" ELSE answer

(* Mutated form: an off-by-one. *)
AtLimitOffByOne(S, u) == Cardinality(S) > MaxEntries \/ CountUser(S, u) > PerUser
(* Mutated form: one limit for all. *)
AtLimitShared(S, u) == Cardinality(S) >= MaxEntries
AtLimit(S, u) == Cardinality(S) >= MaxEntries \/ CountUser(S, u) >= PerUser

Fresh == {t \in Tokens : \A e \in ledger : e.token # t}

Finish(w, pc, code) == op' = [op EXCEPT ![w] = [@ EXCEPT !.pc = pc, !.code = code, !.answer = None]]

-----------------------------------------------------------------------------
(* Issue *)

(* The request arrives with a credential.  A value with the prefix of one of *)
(* the server's own tokens is refused before the backend is asked.           *)
IssueBegin(w, b) ==
    /\ op[w].pc = "idle"
    /\ IF b \in Backends
       THEN op' = [op EXCEPT ![w] = [@ EXCEPT !.pc = "issueVerify", !.backend = b]]
       ELSE Finish(w, "issueDone", "invalid_delegation_request")
    /\ UNCHANGED <<clock, session, tainted, entries, ledger, live>>

(* verify has returned: refuse, or draw a token, which may fail, and read the clock. *)
IssueVerified(w) ==
    /\ op[w].pc = "issueVerify" /\ op[w].answer # None
    /\ LET answer == op[w].answer IN
       \/ /\ answer \in SessionFailures \cup Transient
          /\ Finish(w, "issueDone", BackendError(answer))
       \/ /\ answer = BadId
          /\ Finish(w, "issueDone", "invalid_delegation_request")
       \/ /\ answer \in Users
          /\ Finish(w, "issueDone", "delegation_unavailable")
       \/ /\ answer \in Users
          /\ op' = [op EXCEPT ![w] = [@ EXCEPT !.pc = "issueInsert", !.user = answer, !.now = clock,
                                   !.answer = None]]
    /\ UNCHANGED <<clock, session, tainted, entries, ledger, live>>

(* Under the mutex: purge, check both limits, insert. *)
IssueInsert(w) ==
    /\ op[w].pc = "issueInsert"
    /\ LET now == op[w].now
           kept == Unexpired(now)
       IN \/ /\ AtLimit(kept, op[w].user)
             /\ entries' = kept
             /\ Finish(w, "issueDone", "delegation_limit")
             /\ UNCHANGED ledger
          \/ /\ ~AtLimit(kept, op[w].user)
             /\ \E t \in Fresh :
                  LET e == [token |-> t, user |-> op[w].user, backend |-> op[w].backend,
                            issuedAt |-> now, expiresAt |-> now + TTL]
                  IN /\ entries' = kept \cup {e}
                     /\ ledger' = ledger \cup {e}
                     /\ op' = [op EXCEPT ![w] = [@ EXCEPT !.pc = "issueDone", !.code = "ok", !.bearer = t]]
    /\ UNCHANGED <<clock, session, tainted, live>>

-----------------------------------------------------------------------------
(* Authenticate *)

(* A bearer arrives; its form is checked and the clock is read. *)
AuthBegin(w, t) ==
    /\ op[w].pc = "idle"
    /\ IF t = Malformed
       THEN op' = [op EXCEPT ![w] = [@ EXCEPT !.pc = "authDone", !.bearer = t,
                                   !.code = "authentication_required"]]
       ELSE op' = [op EXCEPT ![w] = [@ EXCEPT !.pc = "authLookup", !.bearer = t, !.now = clock]]
    /\ UNCHANGED <<clock, session, tainted, entries, ledger, live>>

(* Mutated form: an unexpired entry is good enough. *)
AuthLookupTrusting(w) ==
    /\ op[w].pc = "authLookup"
    /\ \E e \in Unexpired(op[w].now) :
         /\ e.token = op[w].bearer
         /\ op' = [op EXCEPT ![w] = [@ EXCEPT !.pc = "authDone", !.code = "ok", !.user = e.user,
                                   !.backend = e.backend]]
         /\ live' = live \cup {x \in {w} : session[e.backend] = e.user}
    /\ UNCHANGED <<clock, session, tainted, entries, ledger>>

(* Under the mutex: purge and copy the entry out. *)
AuthLookup(w) ==
    /\ op[w].pc = "authLookup"
    /\ LET now == op[w].now
           kept == Unexpired(now)
           found == {e \in kept : e.token = op[w].bearer /\ Alive(e, now) /\ now >= e.issuedAt}
       IN /\ entries' = kept
          /\ \/ /\ found = {}
                /\ Finish(w, "authDone", "authentication_required")
                /\ UNCHANGED live
             \/ \E e \in found :
                  /\ op' = [op EXCEPT ![w] = [@ EXCEPT !.pc = "authVerify", !.user = e.user,
                                   !.backend = e.backend]]
                  /\ live' = live \cup {x \in {w} : session[e.backend] = e.user}
    /\ UNCHANGED <<clock, session, tainted, ledger>>

(* verify has returned and the request is refused: the delegation goes when *)
(* its session is over or is another user's, and stays when the backend     *)
(* could not be asked.                                                      *)
AuthRefused(w) ==
    /\ op[w].pc = "authVerify" /\ op[w].answer \notin {None, op[w].user}
    /\ LET answer == op[w].answer IN
       \/ /\ IsSessionFailure(answer)
          /\ entries' = Without(entries, op[w].bearer)
          /\ Finish(w, "authDone", BackendError(answer))
       \/ /\ answer \in SessionFailures \cup Transient /\ ~IsSessionFailure(answer)
          /\ Finish(w, "authDone", BackendError(answer))
          /\ UNCHANGED entries
       \/ /\ answer \in Users \cup {BadId}
          /\ entries' = Without(entries, op[w].bearer)
          /\ Finish(w, "authDone", "authentication_required")
    /\ UNCHANGED <<clock, session, tainted, ledger, live>>

(* Mutated form: the copy read before the backend call is written back. *)
AuthAcceptedTouching(w) ==
    /\ op[w].pc = "authVerify" /\ op[w].answer = op[w].user
    /\ entries' = entries \cup {e \in ledger : e.token = op[w].bearer}
    /\ Finish(w, "authDone", "ok")
    /\ UNCHANGED <<clock, session, tainted, ledger, live>>

(* verify has named the delegation's own user. *)
AuthAccepted(w) ==
    /\ op[w].pc = "authVerify" /\ op[w].answer = op[w].user
    /\ Finish(w, "authDone", "ok")
    /\ UNCHANGED <<clock, session, tainted, entries, ledger, live>>

-----------------------------------------------------------------------------
(* The response goes out and the goroutine serves the next request. *)
Return(w) ==
    /\ op[w].pc \in {"issueDone", "authDone"}
    /\ op' = [op EXCEPT ![w] = Idle]
    /\ live' = live \ {w}
    /\ UNCHANGED <<clock, session, tainted, entries, ledger>>

(* Len purges before it counts. *)
CountEntries ==
    /\ entries' = Unexpired(clock)
    /\ UNCHANGED <<clock, session, tainted, ledger, op, live>>

(* The backend answers a verify call by its session of that moment, or the *)
(* call fails on the way.                                                  *)
BackendAnswers(w) ==
    /\ op[w].pc \in {"issueVerify", "authVerify"} /\ op[w].answer = None
    /\ \E answer \in {session[op[w].backend]} \cup Transient :
         op' = [op EXCEPT ![w] = [@ EXCEPT !.answer = answer]]
    /\ UNCHANGED <<clock, session, tainted, entries, ledger, live>>

(* A login, a logout, a blocked account, or a token that starts to name *)
(* someone else.                                                        *)
SessionChanges(b, s) ==
    /\ session[b] # s
    /\ session' = [session EXCEPT ![b] = s]
    /\ tainted' = IF session[b] \in Users THEN tainted \cup {b} ELSE tainted
    /\ live' = live \cup {w \in Workers : /\ op[w].pc = "authVerify"
                                          /\ op[w].backend = b /\ op[w].user = s}
    /\ UNCHANGED <<clock, entries, ledger, op>>

Tick == clock < MaxClock /\ clock' = clock + 1 /\ UNCHANGED <<session, tainted, entries, ledger, op, live>>

(* Credentials and bearers a caller can present: a delegation token may be *)
(* fed back as a credential, and a bearer is one the store handed out.     *)
HandedOut == {e.token : e \in ledger}

Worker(w) ==
    \/ \E b \in Backends \cup HandedOut : IssueBegin(w, b)
    \/ \E t \in HandedOut \cup {Malformed} : AuthBegin(w, t)
    \/ IssueVerified(w) \/ IssueInsert(w) \/ AuthLookup(w) \/ AuthRefused(w) \/ AuthAccepted(w) \/ Return(w)
    \/ BackendAnswers(w)

Next ==
    \/ \E w \in Workers : Worker(w)
    \/ \E b \in Backends, s \in Sessions : SessionChanges(b, s)
    \/ CountEntries
    \/ Tick

Spec == Init /\ [][Next]_vars

-----------------------------------------------------------------------------
(* Properties *)

(* However many Issue calls overlap around their backend check, the store    *)
(* never holds more than maxEntries delegations, nor more than perUser of    *)
(* one user: one user cannot keep the others from being issued any.          *)
WithinLimits ==
    /\ Cardinality(entries) <= MaxEntries
    /\ \A u \in Users : CountUser(entries, u) <= PerUser

(* Authenticate does not trust the TTL: a request it lets through names the  *)
(* user the delegation was issued to, and the backend session belonged to    *)
(* that user at some moment of this very request.  So a logout shows at the  *)
(* next request, whatever happened to the entry meanwhile.                   *)
ServedWasLive ==
    \A w \in Workers : op[w].pc = "authDone" /\ op[w].code = "ok" =>
        /\ w \in live
        /\ \E e \in ledger : /\ e.token = op[w].bearer
                             /\ e.user = op[w].user /\ e.backend = op[w].backend

(* No request that arrives TTL or more after the issue is let through, though *)
(* expiry is judged against a clock read before the mutex was taken.          *)
ServedInTime ==
    \A w \in Workers : op[w].pc = "authDone" /\ op[w].code = "ok" =>
        \A e \in ledger : e.token = op[w].bearer => op[w].now < e.issuedAt + TTL

(* A request refused because its delegation is not valid (unknown, expired,  *)
(* session over, access denied, someone else's) leaves no such delegation in *)
(* the store: the refusal is final.                                          *)
RefusedMeansGone ==
    \A w \in Workers :
        /\ op[w].pc = "authDone"
        /\ op[w].code \in {"authentication_required", "backend_authentication_required", "access_denied"}
        => \A e \in entries : e.token # op[w].bearer

(* A delegation leaves the store only when its lifetime is over or when its  *)
(* session was at some time taken from the user: no outage of the backend,   *)
(* and no late answer to another request, costs a user a valid delegation.   *)
OutageKeepsDelegation ==
    \A e \in ledger \ entries : e.expiresAt <= clock \/ e.backend \in tainted

(* One user cannot keep the others from being issued any (store.go:44, 150): when a  *)
(* call is refused for a limit although its user has fewer than perUser delegations,  *)
(* as many users as can share maxEntries among them hold one that is still alive,     *)
(* whatever calls of theirs overlapped and however old the clock reading is.          *)
NobodyIsCrowdedOut ==
    [][\A w \in Workers :
         op[w].pc = "issueInsert" /\ op'[w].code = "delegation_limit" =>
            LET alive == {e \in entries : op[w].now < e.expiresAt}
            IN \/ Cardinality({e \in alive : e.user = op[w].user}) >= PerUser
               \/ PerUser * Cardinality({e.user : e \in alive}) >= MaxEntries]_vars

(* What the store maps to: the tokens and users of its entries, and the *)
(* tokens of those that left it.                                        *)
Lifecycle == INSTANCE DelegationLifecycle WITH
    active  <- {[token |-> e.token, user |-> e.user] : e \in entries},
    retired <- {e.token : e \in ledger \ entries}

(* The store implements the life of delegations: each is granted once, within *)
(* the limits, retired once, and never comes back.                            *)
ImplementsLifecycle == Lifecycle!Spec
=============================================================================

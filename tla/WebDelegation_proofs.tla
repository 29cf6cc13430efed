------------------------ MODULE WebDelegation_proofs ------------------------
(* Proofs about WebDelegation, for every value of its constants. *)
EXTENDS WebDelegation, TLAPS, FiniteSetTheorems, WellFoundedInduction

(* The actions of a worker, for case splits. *)
LEMMA NextCases ==
    ASSUME Next
    PROVE  \/ \E w \in Workers : \E b \in Backends \cup HandedOut : IssueBegin(w, b)
           \/ \E w \in Workers : \E t \in HandedOut \cup {Malformed} : AuthBegin(w, t)
           \/ \E w \in Workers : IssueVerified(w)
           \/ \E w \in Workers : IssueInsert(w)
           \/ \E w \in Workers : AuthLookup(w)
           \/ \E w \in Workers : AuthRefused(w)
           \/ \E w \in Workers : AuthAccepted(w)
           \/ \E w \in Workers : Return(w)
           \/ \E w \in Workers : BackendAnswers(w)
           \/ \E b \in Backends, s \in Sessions : SessionChanges(b, s)
           \/ CountEntries
           \/ Tick
  BY DEF Next, Worker

(* The entry Issue inserts, and the step that inserts it. *)
NewEntry(w, t) ==
    [token |-> t, user |-> op[w].user, backend |-> op[w].backend,
     issuedAt |-> op[w].now, expiresAt |-> op[w].now + TTL]

Granted(w, t) ==
    /\ entries' = Unexpired(op[w].now) \cup {NewEntry(w, t)}
    /\ ledger' = ledger \cup {NewEntry(w, t)}
    /\ op' = [op EXCEPT ![w] = [@ EXCEPT !.pc = "issueDone", !.code = "ok", !.bearer = t]]

(* The step of a lookup that finds entry e. *)
Found(w, e) ==
    /\ e.token = op[w].bearer /\ Alive(e, op[w].now) /\ op[w].now >= e.issuedAt
    /\ op' = [op EXCEPT ![w] = [@ EXCEPT !.pc = "authVerify", !.user = e.user, !.backend = e.backend]]
    /\ live' = live \cup {x \in {w} : session[e.backend] = e.user}

(* Purging, revoking and inserting keep the store a finite set of entries. *)
LEMMA StoreFinite ==
    ASSUME IsFiniteSet(entries), entries \subseteq Entry
    PROVE  /\ \A now : Unexpired(now) \subseteq Entry /\ IsFiniteSet(Unexpired(now))
           /\ \A t : Without(entries, t) \subseteq Entry /\ IsFiniteSet(Without(entries, t))
           /\ \A now, e : IsFiniteSet(Unexpired(now) \cup {e})
  <1>1. \A now : Unexpired(now) \subseteq entries BY DEF Unexpired
  <1>2. \A t : Without(entries, t) \subseteq entries BY DEF Without
  <1>3. \A now : IsFiniteSet(Unexpired(now)) BY <1>1, FS_Subset
  <1>4. \A t : IsFiniteSet(Without(entries, t)) BY <1>2, FS_Subset
  <1>5. \A now, e : IsFiniteSet(Unexpired(now) \cup {e}) BY <1>3, FS_AddElement
  <1> QED BY <1>1, <1>2, <1>3, <1>4, <1>5

(* A call's own type, beyond its fields: past the backend check of Issue, *)
(* and past the lookup of Authenticate, it holds a session token and a     *)
(* user.  Issue builds an entry from these, so TypeOK needs them.  A call  *)
(* judges expiry by a clock reading that may be old, never by a later one. *)
GoodCall(o) ==
    /\ o \in Ops
    /\ o.now <= clock
    /\ o.pc \notin {"issueVerify", "authVerify"} => o.answer = None
    /\ o.pc \in {"issueVerify", "issueInsert", "authVerify"} => o.backend \in Backends
    /\ o.pc \in {"issueInsert", "authVerify"} => o.user \in Users

Locals == \A w \in Workers : GoodCall(op[w])

TInv == TypeOK /\ Locals

(* A step that replaces one worker's call. *)
LEMMA UpdateCall ==
    ASSUME TInv, NEW w \in Workers, NEW r, GoodCall(r), clock' = clock,
           op' = [op EXCEPT ![w] = r]
    PROVE  op' \in [Workers -> Ops] /\ Locals'
  BY DEF TInv, TypeOK, Locals, GoodCall

(* A call that finishes. *)
LEMMA FinishCall ==
    ASSUME TInv, NEW w \in Workers, NEW pc \in {"issueDone", "authDone"}, NEW code \in Codes,
           clock' = clock, Finish(w, pc, code)
    PROVE  op' \in [Workers -> Ops] /\ Locals'
  <1> DEFINE r == [op[w] EXCEPT !.pc = pc, !.code = code, !.answer = None]
  <1>1. op[w] \in Ops /\ op[w].now <= clock BY DEF TInv, TypeOK, Locals, GoodCall
  <1>2. r \in Ops /\ r.pc = pc /\ r.now = op[w].now BY <1>1 DEF Ops, PCs
  <1>3. GoodCall(r) BY <1>1, <1>2 DEF GoodCall
  <1>4. op' = [op EXCEPT ![w] = r] BY DEF Finish
  <1> QED BY <1>3, <1>4, UpdateCall

LEMMA TypeInit == Init => TInv
  BY FS_EmptySet, StoreAssumption DEF Init, TInv, Locals, GoodCall, TypeOK, Idle, Ops, PCs, Sessions, SessionFailures

LEMMA TypeStep == TInv /\ [Next]_vars => TInv'
  <1> SUFFICES ASSUME TInv, [Next]_vars PROVE TInv' OBVIOUS
  <1>t. TypeOK /\ Locals /\ \A w \in Workers : op[w] \in Ops /\ GoodCall(op[w])
    BY DEF TInv, TypeOK, Locals
  <1>c. clock \in Nat /\ clock <= clock BY <1>t DEF TypeOK
  <1>0. CASE UNCHANGED vars BY <1>0 DEF vars, TInv, TypeOK, Locals, GoodCall
  <1>1. ASSUME NEW w \in Workers, NEW b \in Backends \cup HandedOut, IssueBegin(w, b) PROVE TInv'
    <2>1. CASE b \in Backends
      <3> DEFINE r == [op[w] EXCEPT !.pc = "issueVerify", !.backend = b]
      <3>1. GoodCall(r) BY <1>t, <2>1 DEF GoodCall, Ops, PCs
      <3> QED BY <1>1, <1>t, <2>1, <3>1, UpdateCall DEF IssueBegin, TInv, TypeOK
    <2>2. CASE b \notin Backends
      <3>1. "invalid_delegation_request" \in Codes BY DEF Codes
      <3> QED BY <1>1, <1>t, <2>2, <3>1, FinishCall DEF IssueBegin, TInv, TypeOK
    <2> QED BY <2>1, <2>2
  <1>2. ASSUME NEW w \in Workers, NEW t \in HandedOut \cup {Malformed}, AuthBegin(w, t) PROVE TInv'
    <2>1. t \in Tokens \cup {Malformed} BY <1>t DEF HandedOut, Entry, TypeOK
    <2> DEFINE r == IF t = Malformed
                    THEN [op[w] EXCEPT !.pc = "authDone", !.bearer = t, !.code = "authentication_required"]
                    ELSE [op[w] EXCEPT !.pc = "authLookup", !.bearer = t, !.now = clock]
    <2>4. op[w].pc = "idle" BY <1>2 DEF AuthBegin
    <2>2. GoodCall(r) BY <1>t, <1>c, <2>1, <2>4 DEF GoodCall, Ops, PCs, Codes
    <2>3. op' = [op EXCEPT ![w] = r] BY <1>2 DEF AuthBegin
    <2> QED BY <1>2, <1>t, <2>2, <2>3, UpdateCall DEF AuthBegin, TInv, TypeOK
  <1>3. ASSUME NEW w \in Workers, IssueVerified(w) PROVE TInv'
    <2>1. CASE op[w].answer \in Users /\ op[w].answer # BadId /\ op[w].answer \notin SessionFailures \cup Transient
      <3> DEFINE r == [op[w] EXCEPT !.pc = "issueInsert", !.user = op[w].answer, !.now = clock, !.answer = None]
      <3>1. op[w].pc = "issueVerify" BY <1>3 DEF IssueVerified
      <3>2. CASE op' = [op EXCEPT ![w] = r]
        <4>1. GoodCall(r) BY <1>t, <1>c, <2>1, <3>1 DEF GoodCall, Ops, PCs
        <4> QED BY <1>3, <1>t, <3>2, <4>1, UpdateCall DEF IssueVerified, TInv, TypeOK
      <3>3. CASE Finish(w, "issueDone", "delegation_unavailable")
        <4>1. "delegation_unavailable" \in Codes BY DEF Codes
        <4> QED BY <1>3, <1>t, <3>3, <4>1, FinishCall DEF IssueVerified, TInv, TypeOK
      <3> QED BY <1>3, <2>1, <3>2, <3>3 DEF IssueVerified
    <2>2. CASE op[w].answer \notin Users
      <3>1. PICK code \in Codes : Finish(w, "issueDone", code)
        BY <1>3, <2>2 DEF IssueVerified, BackendError, Codes, SessionFailures, Transient
      <3> QED BY <1>3, <1>t, <3>1, FinishCall DEF IssueVerified, TInv, TypeOK
    <2> QED BY <2>1, <2>2, StoreAssumption, AnswerAssumption
  <1>4. ASSUME NEW w \in Workers, IssueInsert(w) PROVE TInv'
    <2> DEFINE kept == Unexpired(op[w].now)
    <2>1. kept \subseteq Entry /\ IsFiniteSet(kept) BY <1>t, StoreFinite DEF TypeOK
    <2>2. CASE AtLimit(kept, op[w].user)
      <3>1. entries' = kept /\ ledger' = ledger /\ Finish(w, "issueDone", "delegation_limit")
        BY <1>4, <2>2 DEF IssueInsert
      <3>2. "delegation_limit" \in Codes BY DEF Codes
      <3>3. op' \in [Workers -> Ops] /\ Locals' BY <1>4, <3>1, <3>2, FinishCall DEF IssueInsert
      <3> QED BY <1>4, <1>t, <2>1, <3>1, <3>3 DEF IssueInsert, TInv, TypeOK
    <2>3. CASE ~AtLimit(kept, op[w].user)
      <3>1. PICK t \in Fresh : Granted(w, t) BY <1>4, <2>3 DEF IssueInsert, Granted, NewEntry
      <3>2. NewEntry(w, t) \in Entry
        <4>1. op[w].now \in Nat /\ op[w].user \in Users /\ op[w].backend \in Backends /\ t \in Tokens
          BY <1>4, <1>t DEF IssueInsert, GoodCall, Ops, Fresh
        <4> QED BY <4>1, StoreAssumption DEF NewEntry, Entry
      <3>3. entries' \subseteq Entry /\ IsFiniteSet(entries') /\ ledger' \subseteq Entry
        BY <1>t, <2>1, <3>1, <3>2, StoreFinite DEF Granted, TypeOK
      <3> DEFINE r == [op[w] EXCEPT !.pc = "issueDone", !.code = "ok", !.bearer = t]
      <3>6. op[w].pc = "issueInsert" BY <1>4 DEF IssueInsert
      <3>4. GoodCall(r) BY <1>t, <3>6 DEF GoodCall, Ops, PCs, Codes, Fresh
      <3>5. op' \in [Workers -> Ops] /\ Locals' BY <1>4, <3>1, <3>4, UpdateCall DEF Granted, IssueInsert
      <3> QED BY <1>4, <1>t, <3>3, <3>5 DEF IssueInsert, TInv, TypeOK
    <2> QED BY <2>2, <2>3
  <1>5. ASSUME NEW w \in Workers, AuthLookup(w) PROVE TInv'
    <2>1. entries' \subseteq Entry /\ IsFiniteSet(entries') /\ live' \subseteq Workers
      BY <1>5, <1>t, StoreFinite DEF AuthLookup, TypeOK
    <2>2. CASE Finish(w, "authDone", "authentication_required")
      <3>1. "authentication_required" \in Codes BY DEF Codes
      <3> QED BY <1>5, <1>t, <2>1, <2>2, <3>1, FinishCall DEF AuthLookup, TInv, TypeOK
    <2>3. ASSUME NEW e \in Unexpired(op[w].now), Found(w, e) PROVE  TInv'
      <3> DEFINE r == [op[w] EXCEPT !.pc = "authVerify", !.user = e.user, !.backend = e.backend]
      <3>1. e.user \in Users /\ e.backend \in Backends BY <1>t DEF Unexpired, Entry, TypeOK
      <3>2. GoodCall(r) BY <1>t, <3>1 DEF GoodCall, Ops, PCs
      <3> QED BY <1>5, <1>t, <2>1, <2>3, <3>2, UpdateCall DEF AuthLookup, Found, TInv, TypeOK
    <2> QED BY <1>5, <2>2, <2>3 DEF AuthLookup, Found
  <1>6. ASSUME NEW w \in Workers, AuthRefused(w) PROVE TInv'
    <2>1. entries' \subseteq Entry /\ IsFiniteSet(entries') BY <1>6, <1>t, StoreFinite DEF AuthRefused, TypeOK
    <2>2. \A a \in SessionFailures \cup Transient : BackendError(a) \in Codes
      BY DEF BackendError, Codes, SessionFailures, Transient
    <2>3. "authentication_required" \in Codes BY DEF Codes
    <2>4. PICK code \in Codes : Finish(w, "authDone", code)
      BY <1>6, <2>2, <2>3 DEF AuthRefused, IsSessionFailure
    <2> QED BY <1>6, <1>t, <2>1, <2>4, FinishCall DEF AuthRefused, TInv, TypeOK
  <1>7. ASSUME NEW w \in Workers, AuthAccepted(w) PROVE TInv'
    <2>1. "ok" \in Codes BY DEF Codes
    <2> QED BY <1>7, <1>t, <2>1, FinishCall DEF AuthAccepted, TInv, TypeOK
  <1>8. ASSUME NEW w \in Workers, Return(w) PROVE TInv'
    <2>1. GoodCall(Idle) BY <1>t, StoreAssumption DEF GoodCall, Idle, Ops, PCs, TypeOK
    <2> QED BY <1>8, <1>t, <2>1, UpdateCall DEF Return, TInv, TypeOK
  <1>9. ASSUME NEW w \in Workers, BackendAnswers(w) PROVE TInv'
    <2>1. PICK a \in {session[op[w].backend]} \cup Transient : op' = [op EXCEPT ![w] = [op[w] EXCEPT !.answer = a]]
      BY <1>9 DEF BackendAnswers
    <2>2. a \in Answers BY <1>9, <1>t DEF BackendAnswers, Answers, GoodCall, TypeOK
    <2>4. op[w].pc \in {"issueVerify", "authVerify"} BY <1>9 DEF BackendAnswers
    <2>3. GoodCall([op[w] EXCEPT !.answer = a]) BY <1>t, <2>2, <2>4 DEF GoodCall, Ops
    <2> QED BY <1>9, <1>t, <2>1, <2>3, UpdateCall DEF BackendAnswers, TInv, TypeOK
  <1>10. ASSUME NEW b \in Backends, NEW s \in Sessions, SessionChanges(b, s) PROVE TInv'
    BY <1>10, <1>t DEF SessionChanges, TInv, TypeOK, Locals, GoodCall
  <1>11. CASE CountEntries
    BY <1>11, <1>t, StoreFinite DEF CountEntries, TInv, TypeOK, Locals, GoodCall
  <1>12. CASE Tick
    <2>1. clock' = clock + 1 /\ clock \in Nat /\ \A w \in Workers : op[w].now \in Nat
      BY <1>12, <1>t DEF Tick, TypeOK, Ops
    <2>2. \A w \in Workers : GoodCall(op[w])' BY <1>12, <1>t, <2>1 DEF Tick, GoodCall
    <2> QED BY <1>12, <1>t, <2>1, <2>2 DEF Tick, TInv, TypeOK, Locals
  <1> QED BY <1>0, <1>1, <1>2, <1>3, <1>4, <1>5, <1>6, <1>7, <1>8, <1>9, <1>10, <1>11, <1>12, NextCases

(* Every behaviour of the store keeps its types: in particular the map is a *)
(* finite set of well-formed entries, so that both limits count something.  *)
THEOREM TypeCorrect == Spec => []TypeOK
  <1>1. TInv => TypeOK BY DEF TInv
  <1> QED BY TypeInit, TypeStep, <1>1, PTL DEF Spec

-----------------------------------------------------------------------------
(* What any step does to the store: it drops entries, or inserts one granted *)
(* entry with a token never used before.                                     *)
LEMMA StoreEffects ==
    ASSUME TInv, [Next]_vars
    PROVE  \/ entries' \subseteq entries /\ ledger' = ledger
           \/ \E w \in Workers, t \in Fresh :
                 /\ op[w].pc = "issueInsert" /\ clock' = clock
                 /\ ~AtLimit(Unexpired(op[w].now), op[w].user)
                 /\ Granted(w, t)
  <1>1. \A now : Unexpired(now) \subseteq entries BY DEF Unexpired
  <1>2. \A t : Without(entries, t) \subseteq entries BY DEF Without
  <1>3. ASSUME NEW w \in Workers, IssueInsert(w)
        PROVE  \/ entries' \subseteq entries /\ ledger' = ledger
               \/ \E t \in Fresh : /\ op[w].pc = "issueInsert" /\ clock' = clock
                                   /\ ~AtLimit(Unexpired(op[w].now), op[w].user)
                                   /\ Granted(w, t)
    BY <1>1, <1>3 DEF IssueInsert, Granted, NewEntry
  <1>4. CASE UNCHANGED vars BY <1>4 DEF vars
  <1> QED BY <1>1, <1>2, <1>3, <1>4, NextCases
          DEF IssueBegin, AuthBegin, IssueVerified, AuthLookup, AuthRefused, AuthAccepted,
              Return, BackendAnswers, SessionChanges, CountEntries, Tick

(* The clock never runs backwards. *)
LEMMA ClockMonotone ==
    ASSUME TInv, [Next]_vars PROVE clock \in Nat /\ clock' \in Nat /\ clock <= clock'
  <1>1. clock \in Nat /\ clock <= clock /\ clock <= clock + 1 BY DEF TInv, TypeOK
  <1>2. clock' = clock \/ clock' = clock + 1
    BY NextCases DEF IssueBegin, AuthBegin, IssueVerified, IssueInsert, AuthLookup, AuthRefused,
        AuthAccepted, Return, BackendAnswers, SessionChanges, CountEntries, Tick, vars
  <1> QED BY <1>1, <1>2

-----------------------------------------------------------------------------
(* The limits *)

LEMMA AddOne ==
    ASSUME NEW S, IsFiniteSet(S), NEW x
    PROVE  /\ Cardinality(S) \in Nat /\ Cardinality(S \cup {x}) \in Nat
           /\ Cardinality(S \cup {x}) <= Cardinality(S) + 1
  <1>1. IsFiniteSet(S \cup {x})
        /\ Cardinality(S \cup {x}) = IF x \in S THEN Cardinality(S) ELSE Cardinality(S) + 1
    BY FS_AddElement
  <1>2. Cardinality(S) \in Nat /\ Cardinality(S \cup {x}) \in Nat BY <1>1, FS_CardinalityType
  <1> QED BY <1>1, <1>2

(* A set is at least as large as its image by a function. *)
LEMMA ImageCardinality ==
    ASSUME NEW S, IsFiniteSet(S), NEW g, DOMAIN g = S, g = [e \in S |-> g[e]]
    PROVE  Cardinality({g[e] : e \in S}) <= Cardinality(S)
           /\ Cardinality({g[e] : e \in S}) \in Nat /\ Cardinality(S) \in Nat
  <1> DEFINE T == {g[e] : e \in S}
  <1>1. g \in [S -> T] OBVIOUS
  <1>2. \A t \in T : \E e \in S : g[e] = t OBVIOUS
  <1>3. g \in Surjection(S, T) BY <1>1, <1>2 DEF Surjection
  <1>4. IsFiniteSet(T) /\ Cardinality(T) <= Cardinality(S) BY <1>3, FS_Surjection
  <1> QED BY <1>4, FS_CardinalityType

LEMMA LimitsStep ==
    ASSUME TInv, WithinLimits, [Next]_vars PROVE WithinLimits'
  <1> DEFINE Of(S, u) == {e \in S : e.user = u}
  <1>1. IsFiniteSet(entries) /\ MaxEntries \in Nat /\ PerUser \in Nat
    BY StoreAssumption DEF TInv, TypeOK
  <1>2. CASE entries' \subseteq entries
    <2>1. Cardinality(entries') <= Cardinality(entries) /\ IsFiniteSet(entries') BY <1>1, <1>2, FS_Subset
    <2>2. \A u \in Users : /\ Of(entries', u) \subseteq Of(entries, u)
                           /\ IsFiniteSet(Of(entries, u))
      BY <1>1, <1>2, FS_Subset
    <2>3. \A u \in Users : Cardinality(Of(entries', u)) <= Cardinality(Of(entries, u)) /\ IsFiniteSet(Of(entries', u))
      BY <2>2, FS_Subset
    <2>4. \A S : IsFiniteSet(S) => Cardinality(S) \in Nat BY FS_CardinalityType
    <2>5. Cardinality(entries') <= MaxEntries
      BY <1>1, <2>1, <2>4 DEF WithinLimits
    <2>6. ASSUME NEW u \in Users PROVE Cardinality(Of(entries', u)) <= PerUser
      <3>1. Cardinality(Of(entries, u)) <= PerUser BY DEF WithinLimits, CountUser
      <3> HIDE DEF Of
      <3>2. Cardinality(Of(entries, u)) \in Nat /\ Cardinality(Of(entries', u)) \in Nat
        BY <2>2, <2>3, <2>4
      <3> QED BY <1>1, <2>3, <3>1, <3>2
    <2> QED BY <2>5, <2>6 DEF WithinLimits, CountUser
  <1>3. ASSUME NEW w \in Workers, NEW t \in Fresh,
               ~AtLimit(Unexpired(op[w].now), op[w].user), Granted(w, t)
        PROVE  WithinLimits'
    <2> DEFINE kept == Unexpired(op[w].now)
               e == NewEntry(w, t)
    <2>1. kept \subseteq entries /\ IsFiniteSet(kept) BY <1>1, FS_Subset DEF Unexpired
    <2>2. entries' = kept \cup {e} /\ e.user = op[w].user BY <1>3 DEF Granted, NewEntry
    <2>3. ~(Cardinality(kept) >= MaxEntries) /\ ~(Cardinality(Of(kept, e.user)) >= PerUser)
      BY <1>3, <2>2 DEF AtLimit, CountUser
    <2>4. Cardinality(kept) \in Nat BY <2>1, FS_CardinalityType
    <2>5. Cardinality(entries') \in Nat /\ Cardinality(entries') <= Cardinality(kept) + 1
      BY <2>1, <2>2, AddOne
    <2>7. Cardinality(entries') <= MaxEntries BY <1>1, <2>3, <2>4, <2>5
    <2>8. ASSUME NEW u \in Users PROVE Cardinality(Of(entries', u)) <= PerUser
      <3>1. IsFiniteSet(Of(kept, u)) /\ IsFiniteSet(Of(entries, u)) BY <1>1, <2>1, FS_Subset
      <3>2. Cardinality(Of(kept, u)) \in Nat /\ Cardinality(Of(entries, u)) \in Nat
        BY <3>1, FS_CardinalityType
      <3>3. CASE u = e.user
        <4>1. Of(entries', u) = Of(kept, u) \cup {e} BY <2>2, <3>3
        <4> HIDE DEF Of
        <4>2. /\ Cardinality(Of(entries', u)) \in Nat
              /\ Cardinality(Of(entries', u)) <= Cardinality(Of(kept, u)) + 1
          BY <3>1, <4>1, AddOne
        <4> QED BY <1>1, <2>3, <3>2, <3>3, <4>2
      <3>4. CASE u # e.user
        <4>1. Of(entries', u) = Of(kept, u) BY <2>2, <3>4
        <4>2. Of(kept, u) \subseteq Of(entries, u) BY <2>1
        <4>3. Cardinality(Of(kept, u)) <= Cardinality(Of(entries, u)) BY <3>1, <4>2, FS_Subset
        <4> QED BY <1>1, <3>2, <4>1, <4>3 DEF WithinLimits, CountUser
      <3> QED BY <3>3, <3>4
    <2> QED BY <2>7, <2>8 DEF WithinLimits, CountUser
  <1> QED BY <1>2, <1>3, StoreEffects

(* Both limits hold always, however many Issue calls overlap: the check and *)
(* the insert are one step, and nothing else adds an entry.                 *)
THEOREM LimitsHold == Spec => []WithinLimits
  <1>1. Init => WithinLimits
    <2>1. ASSUME Init PROVE \A u \in Users : {e \in entries : e.user = u} = {} BY <2>1 DEF Init
    <2> QED BY <2>1, FS_EmptySet, StoreAssumption DEF Init, WithinLimits, CountUser
  <1>2. TInv /\ WithinLimits /\ [Next]_vars => WithinLimits' BY LimitsStep
  <1> QED BY <1>1, <1>2, TypeInit, TypeStep, PTL DEF Spec

-----------------------------------------------------------------------------
(* The ledger: entries carry distinct tokens, were stamped in the past, and  *)
(* live for exactly TTL.                                                     *)
LedgerInv ==
    /\ entries \subseteq ledger
    /\ \A e, f \in ledger : e.token = f.token => e = f
    /\ \A e \in ledger : e.issuedAt <= clock /\ e.expiresAt = e.issuedAt + TTL

LEMMA LedgerStep ==
    ASSUME TInv, LedgerInv, [Next]_vars PROVE LedgerInv'
  <1>t. /\ entries \subseteq Entry /\ ledger \subseteq Entry
        /\ \A w \in Workers : op[w].now \in Nat /\ op[w].now <= clock
    BY DEF TInv, TypeOK, Locals, GoodCall, Ops
  <1>c. clock \in Nat /\ clock' \in Nat /\ clock <= clock' BY ClockMonotone
  <1>1. CASE entries' \subseteq entries /\ ledger' = ledger
    BY <1>1, <1>t, <1>c DEF LedgerInv, Entry
  <1>2. ASSUME NEW w \in Workers, NEW t \in Fresh, clock' = clock, Granted(w, t) PROVE LedgerInv'
    <2> DEFINE e == NewEntry(w, t)
    <2>1. ledger' = ledger \cup {e} /\ entries' \subseteq entries \cup {e}
      BY <1>2 DEF Granted, Unexpired
    <2>2. e.token = t /\ e.issuedAt = op[w].now /\ e.expiresAt = op[w].now + TTL BY DEF NewEntry
    <2>3. \A f \in ledger : f.token # t BY DEF Fresh
    <2> HIDE DEF e
    <2>4. entries' \subseteq ledger' BY <2>1 DEF LedgerInv
    <2>5. \A f, g \in ledger' : f.token = g.token => f = g BY <2>1, <2>2, <2>3 DEF LedgerInv
    <2>6. \A f \in ledger' : f.issuedAt <= clock' /\ f.expiresAt = f.issuedAt + TTL
      BY <1>2, <1>t, <2>1, <2>2 DEF LedgerInv
    <2> QED BY <2>4, <2>5, <2>6 DEF LedgerInv
  <1> QED BY <1>1, <1>2, StoreEffects

(* What an Authenticate call knows at each of its points. *)
Refusals == {"authentication_required", "backend_authentication_required", "access_denied"}

Knows(w) ==
    \E e \in ledger : /\ e.token = op[w].bearer /\ e.user = op[w].user
                      /\ e.backend = op[w].backend /\ op[w].now < e.expiresAt

AuthInv(w) ==
    /\ op[w].pc \in {"authLookup", "authVerify", "authDone"} =>
          op[w].bearer \in HandedOut \cup {Malformed}
    /\ op[w].pc = "authLookup" => \A e \in ledger : e.token = op[w].bearer => e.issuedAt <= op[w].now
    /\ op[w].pc = "authVerify" =>
          /\ Knows(w)
          /\ op[w].answer = op[w].user \/ session[op[w].backend] = op[w].user => w \in live
    /\ op[w].pc = "authDone" /\ op[w].code = "ok" => Knows(w) /\ w \in live
    /\ op[w].pc = "authDone" /\ op[w].code \in Refusals => \A e \in entries : e.token # op[w].bearer

(* Steps of others: nothing they do to the store or to the sessions changes  *)
(* what w knows.                                                             *)
LEMMA AuthOther ==
    ASSUME TInv, LedgerInv, [Next]_vars, NEW w \in Workers, AuthInv(w), op'[w] = op[w],
           session' = session, w \in live => w \in live'
    PROVE  AuthInv(w)'
  <1>1. /\ ledger \subseteq ledger'
        /\ \A e \in ledger' : e \in ledger \/ e.token \notin HandedOut \cup {Malformed}
        /\ \A e \in entries' : e \in entries \/ e.token \notin HandedOut \cup {Malformed}
    <2>1. CASE entries' \subseteq entries /\ ledger' = ledger BY <2>1
    <2>2. ASSUME NEW x \in Workers, NEW t \in Fresh, Granted(x, t)
          PROVE  /\ ledger \subseteq ledger'
                 /\ \A e \in ledger' : e \in ledger \/ e.token \notin HandedOut \cup {Malformed}
                 /\ \A e \in entries' : e \in entries \/ e.token \notin HandedOut \cup {Malformed}
      <3>1. NewEntry(x, t).token = t BY DEF NewEntry
      <3>2. t \notin HandedOut \cup {Malformed} BY StoreAssumption DEF Fresh, HandedOut
      <3> QED BY <2>2, <3>1, <3>2 DEF Granted, Unexpired
    <2> QED BY <2>1, <2>2, StoreEffects
  <1>2. HandedOut \subseteq HandedOut' BY <1>1 DEF HandedOut
  <1>3. Knows(w) => Knows(w)' BY <1>1 DEF Knows
  <1> QED BY <1>1, <1>2, <1>3 DEF AuthInv

(* The steps of w itself. *)
LEMMA AuthOwn ==
    ASSUME TInv, LedgerInv, NEW w \in Workers, AuthInv(w), Worker(w)
    PROVE  AuthInv(w)'
  <1>t. op \in [Workers -> Ops] /\ op[w] \in Ops /\ GoodCall(op[w]) /\ clock \in Nat /\ entries \subseteq ledger
    BY DEF TInv, TypeOK, Locals, LedgerInv
  <1>1. ASSUME NEW b, IssueBegin(w, b) PROVE AuthInv(w)'
    <2>1. CASE b \in Backends
      <3>1. op'[w].pc = "issueVerify" BY <1>1, <1>t, <2>1 DEF IssueBegin, Ops
      <3> QED BY <3>1 DEF AuthInv
    <2>2. CASE b \notin Backends
      <3>1. Finish(w, "issueDone", "invalid_delegation_request") BY <1>1, <2>2 DEF IssueBegin
      <3>2. op'[w].pc = "issueDone" BY <1>t, <3>1 DEF Finish, Ops
      <3> QED BY <3>2 DEF AuthInv
    <2> QED BY <2>1, <2>2
  <1>2. ASSUME NEW t \in HandedOut \cup {Malformed}, AuthBegin(w, t) PROVE AuthInv(w)'
    <2>1. entries' = entries /\ ledger' = ledger BY <1>2 DEF AuthBegin
    <2>2. CASE t = Malformed
      <3>1. op'[w].pc = "authDone" /\ op'[w].code = "authentication_required" /\ op'[w].bearer = t
        <4> DEFINE r == [op[w] EXCEPT !.pc = "authDone", !.bearer = t, !.code = "authentication_required"]
        <4>1. op' = [op EXCEPT ![w] = r] BY <1>2, <2>2 DEF AuthBegin
        <4>2. r.pc = "authDone" /\ r.code = "authentication_required" /\ r.bearer = t BY <1>t DEF Ops
        <4> HIDE DEF r
        <4> QED BY <1>t, <4>1, <4>2
      <3>2. \A e \in entries : e.token # Malformed BY StoreAssumption DEF TInv, TypeOK, Entry
      <3> QED BY <2>1, <2>2, <3>1, <3>2 DEF AuthInv
    <2>3. CASE t # Malformed
      <3>1. op'[w].pc = "authLookup" /\ op'[w].now = clock /\ op'[w].bearer = t
        BY <1>2, <1>t, <2>3 DEF AuthBegin, Ops
      <3>2. HandedOut' = HandedOut BY <2>1 DEF HandedOut
      <3> QED BY <2>1, <3>1, <3>2 DEF AuthInv, LedgerInv
    <2> QED BY <2>2, <2>3
  <1>3. CASE IssueVerified(w)
    <2>1. ASSUME NEW code, Finish(w, "issueDone", code) PROVE AuthInv(w)'
      <3>1. op'[w].pc = "issueDone" BY <1>t, <2>1 DEF Finish, Ops
      <3> QED BY <3>1 DEF AuthInv
    <2>2. ASSUME op' = [op EXCEPT ![w] = [op[w] EXCEPT !.pc = "issueInsert", !.user = op[w].answer,
                                                       !.now = clock, !.answer = None]]
          PROVE AuthInv(w)'
      <3>1. op'[w].pc = "issueInsert" BY <1>t, <2>2 DEF Ops
      <3> QED BY <3>1 DEF AuthInv
    <2> QED BY <1>3, <2>1, <2>2 DEF IssueVerified
  <1>4. CASE IssueInsert(w)
    <2>1. CASE Finish(w, "issueDone", "delegation_limit")
      <3>1. op'[w].pc = "issueDone" BY <1>t, <2>1 DEF Finish, Ops
      <3> QED BY <3>1 DEF AuthInv
    <2>2. ASSUME NEW t, Granted(w, t) PROVE AuthInv(w)'
      <3>1. op'[w].pc = "issueDone" BY <1>t, <2>2 DEF Granted, Ops
      <3> QED BY <3>1 DEF AuthInv
    <2> QED BY <1>4, <2>1, <2>2 DEF IssueInsert, Granted, NewEntry
  <1>5. CASE AuthLookup(w)
    <2> DEFINE kept == Unexpired(op[w].now)
               found == {e \in kept : e.token = op[w].bearer /\ Alive(e, op[w].now) /\ op[w].now >= e.issuedAt}
    <2>1. entries' = kept /\ ledger' = ledger /\ session' = session /\ op[w].pc = "authLookup"
          /\ kept \subseteq entries
      BY <1>5 DEF AuthLookup, Unexpired
    <2>2. HandedOut' = HandedOut /\ op[w].bearer \in HandedOut \cup {Malformed}
      BY <2>1 DEF HandedOut, AuthInv
    <2>3. CASE found = {} /\ Finish(w, "authDone", "authentication_required")
      <3>1. op'[w].pc = "authDone" /\ op'[w].code = "authentication_required" /\ op'[w].bearer = op[w].bearer
        BY <2>3, <1>t DEF Finish, Ops
      <3>2. \A e \in kept : e.token # op[w].bearer
        <4>1. \A e \in kept : e \in ledger /\ Alive(e, op[w].now) BY <1>t, <2>1 DEF Unexpired
        <4>2. \A e \in kept : e.token = op[w].bearer => e.issuedAt <= op[w].now
          BY <2>1, <4>1 DEF AuthInv
        <4>3. \A e \in kept : e.issuedAt \in Nat /\ op[w].now \in Nat
          BY <1>t, <2>1 DEF TInv, TypeOK, Entry, Ops
        <4> QED BY <2>3, <4>1, <4>2, <4>3
      <3> QED BY <2>1, <2>2, <3>1, <3>2 DEF AuthInv
    <2>4. ASSUME NEW e \in kept, Found(w, e) PROVE AuthInv(w)'
      <3>1. /\ op'[w].pc = "authVerify" /\ op'[w].bearer = op[w].bearer /\ op'[w].user = e.user
            /\ op'[w].backend = e.backend /\ op'[w].now = op[w].now /\ op'[w].answer = op[w].answer
        BY <2>4, <1>t DEF Found, Ops
      <3>2. Knows(w)' BY <1>t, <2>1, <2>4, <3>1 DEF Knows, Found, Alive
      <3>3. session[e.backend] = e.user => w \in live' BY <2>4 DEF Found
      <3>4. op[w].answer = None BY <1>t, <2>1 DEF GoodCall
      <3>5. e.user # None BY <1>t, <2>1, StoreAssumption DEF TInv, TypeOK, Entry
      <3> QED BY <2>1, <2>2, <3>1, <3>2, <3>3, <3>4, <3>5 DEF AuthInv
    <2> QED BY <1>5, <2>3, <2>4 DEF AuthLookup, Found
  <1>6. CASE AuthRefused(w)
    <2>1. \A a \in SessionFailures \cup Transient :
             /\ BackendError(a) # "ok"
             /\ ~IsSessionFailure(a) => BackendError(a) \notin Refusals
      BY DEF BackendError, SessionFailures, Transient, IsSessionFailure, Refusals
    <2>2. PICK code : /\ Finish(w, "authDone", code) /\ code # "ok"
                      /\ entries' = Without(entries, op[w].bearer) \/ (entries' = entries /\ code \notin Refusals)
      BY <1>6, <2>1 DEF AuthRefused, IsSessionFailure
    <2>3. op'[w].pc = "authDone" /\ op'[w].code = code /\ op'[w].bearer = op[w].bearer
      BY <2>2, <1>t DEF Finish, Ops
    <2>4. HandedOut' = HandedOut /\ op[w].bearer \in HandedOut \cup {Malformed}
      BY <1>6 DEF AuthRefused, HandedOut, AuthInv
    <2>5. \A e \in Without(entries, op[w].bearer) : e.token # op[w].bearer BY DEF Without
    <2> QED BY <2>2, <2>3, <2>4, <2>5 DEF AuthInv
  <1>7. CASE AuthAccepted(w)
    <2>1. op'[w].pc = "authDone" /\ op'[w].code = "ok" /\ op'[w].bearer = op[w].bearer
          /\ op'[w].user = op[w].user /\ op'[w].backend = op[w].backend /\ op'[w].now = op[w].now
      BY <1>7, <1>t DEF AuthAccepted, Finish, Ops
    <2>2. Knows(w) /\ w \in live /\ ledger' = ledger /\ live' = live
          /\ op[w].bearer \in HandedOut \cup {Malformed}
      BY <1>7 DEF AuthAccepted, AuthInv
    <2>3. Knows(w)' /\ HandedOut' = HandedOut BY <2>1, <2>2 DEF Knows, HandedOut
    <2> QED BY <2>1, <2>2, <2>3 DEF AuthInv, Refusals
  <1>8. CASE Return(w)
    <2>1. op'[w].pc = "idle" BY <1>8, <1>t DEF Return, Idle
    <2> QED BY <2>1 DEF AuthInv
  <1>9. CASE BackendAnswers(w)
    <2>1. PICK a \in {session[op[w].backend]} \cup Transient : op' = [op EXCEPT ![w] = [op[w] EXCEPT !.answer = a]]
      BY <1>9 DEF BackendAnswers
    <2>2. /\ op'[w].pc = op[w].pc /\ op'[w].answer = a /\ op'[w].user = op[w].user
          /\ op'[w].backend = op[w].backend /\ op'[w].bearer = op[w].bearer /\ op'[w].now = op[w].now
          /\ op'[w].pc \in {"issueVerify", "authVerify"}
      BY <1>9, <2>1, <1>t DEF BackendAnswers, Ops
    <2>3. UNCHANGED <<entries, ledger, session, live>> BY <1>9 DEF BackendAnswers
    <2>4. HandedOut' = HandedOut /\ (Knows(w) => Knows(w)') BY <2>2, <2>3 DEF HandedOut, Knows
    <2>5. op[w].pc = "authVerify" => op[w].user \notin Transient
      BY <1>t, AnswerAssumption DEF GoodCall
    <2> QED BY <2>1, <2>2, <2>3, <2>4, <2>5 DEF AuthInv
  <1> QED BY <1>1, <1>2, <1>3, <1>4, <1>5, <1>6, <1>7, <1>8, <1>9 DEF Worker

IInv == TInv /\ LedgerInv /\ \A w \in Workers : AuthInv(w)

LEMMA IInvStep ==
    ASSUME IInv, [Next]_vars PROVE IInv'
  <1>1. TInv' /\ LedgerInv' BY TypeStep, LedgerStep DEF IInv
  <1>2. ASSUME NEW w \in Workers PROVE AuthInv(w)'
    <2>1. ASSUME NEW x \in Workers, Worker(x) PROVE AuthInv(w)'
      <3>1. CASE x = w BY <2>1, <3>1, AuthOwn DEF IInv
      <3>2. CASE x # w
        <4>1. op'[w] = op[w] /\ session' = session /\ (w \in live => w \in live')
          BY <2>1, <3>2 DEF IInv, TInv, TypeOK, Worker, IssueBegin, AuthBegin, IssueVerified, IssueInsert,
             AuthLookup, AuthRefused, AuthAccepted, Return, BackendAnswers, Finish
        <4> QED BY <4>1, AuthOther DEF IInv
      <3> QED BY <3>1, <3>2
    <2>2. ASSUME NEW b \in Backends, NEW s \in Sessions, SessionChanges(b, s) PROVE AuthInv(w)'
      <3>1. session \in [Backends -> Sessions] /\ GoodCall(op[w]) BY DEF IInv, TInv, TypeOK, Locals
      <3>2. UNCHANGED <<clock, entries, ledger, op>> BY <2>2 DEF SessionChanges
      <3>3. w \in live => w \in live' BY <2>2 DEF SessionChanges
      <3>4. op[w].pc = "authVerify" /\ session'[op[w].backend] = op[w].user => w \in live'
        <4>1. SUFFICES ASSUME op[w].pc = "authVerify", session'[op[w].backend] = op[w].user PROVE w \in live'
          OBVIOUS
        <4>2. CASE op[w].backend = b BY <2>2, <3>1, <4>1, <4>2 DEF SessionChanges
        <4>3. CASE op[w].backend # b
          <5>1. session[op[w].backend] = op[w].user
            BY <2>2, <3>1, <4>1, <4>3 DEF SessionChanges, GoodCall
          <5> QED BY <3>3, <4>1, <5>1 DEF IInv, AuthInv
        <4> QED BY <4>2, <4>3
      <3>5. AuthInv(w) BY DEF IInv
      <3>6. HandedOut' = HandedOut /\ (Knows(w) => Knows(w)') BY <3>2 DEF HandedOut, Knows
      <3> QED BY <3>2, <3>3, <3>4, <3>5, <3>6 DEF AuthInv
    <2>3. CASE CountEntries \/ Tick \/ UNCHANGED vars
      <3>1. op'[w] = op[w] /\ session' = session /\ live' = live
        BY <2>3 DEF CountEntries, Tick, vars
      <3> QED BY <3>1, AuthOther DEF IInv
    <2> QED BY <2>1, <2>2, <2>3 DEF Next
  <1> QED BY <1>1, <1>2 DEF IInv

LEMMA IInvInit == Init => IInv
  <1> SUFFICES ASSUME Init PROVE IInv OBVIOUS
  <1>1. TInv BY TypeInit
  <1>2. \A w \in Workers : op[w].pc = "idle" BY DEF Init, Idle
  <1>3. LedgerInv BY DEF Init, LedgerInv
  <1> QED BY <1>1, <1>2, <1>3 DEF IInv, AuthInv

(* What the invariant gives: a served request was backed by a live session   *)
(* and came in time, and a refusal for an invalid delegation is final.       *)
LEMMA IInvImplies == IInv => ServedWasLive /\ ServedInTime /\ RefusedMeansGone
  <1> SUFFICES ASSUME IInv PROVE ServedWasLive /\ ServedInTime /\ RefusedMeansGone OBVIOUS
  <1>1. ServedWasLive BY DEF IInv, AuthInv, Knows, ServedWasLive
  <1>2. ServedInTime
    <2> SUFFICES ASSUME NEW w \in Workers, op[w].pc = "authDone", op[w].code = "ok",
                        NEW e \in ledger, e.token = op[w].bearer
                 PROVE  op[w].now < e.issuedAt + TTL
      BY DEF ServedInTime
    <2>1. PICK f \in ledger : f.token = op[w].bearer /\ op[w].now < f.expiresAt BY DEF IInv, AuthInv, Knows
    <2>2. e = f BY <2>1 DEF IInv, LedgerInv
    <2> QED BY <2>1, <2>2 DEF IInv, LedgerInv
  <1>3. RefusedMeansGone BY DEF IInv, AuthInv, Refusals, RefusedMeansGone
  <1> QED BY <1>1, <1>2, <1>3

(* Authenticate lets a request through only if the backend session belonged  *)
(* to the delegation's user during the request.                              *)
THEOREM LogoutShows == Spec => []ServedWasLive
  BY IInvInit, IInvStep, IInvImplies, PTL DEF Spec

(* No request is let through TTL or more after the delegation was issued.    *)
THEOREM ExpiryHolds == Spec => []ServedInTime
  BY IInvInit, IInvStep, IInvImplies, PTL DEF Spec

(* A delegation a request was refused for is not in the store, nor will be.  *)
THEOREM RefusalFinal == Spec => []RefusedMeansGone
  BY IInvInit, IInvStep, IInvImplies, PTL DEF Spec

-----------------------------------------------------------------------------
(* Outages.  While a backend token was never taken from its user, every      *)
(* delegation made with it names the session's user, and every answer a call *)
(* holds about it is that user or no answer at all.                          *)
SessionInv ==
    /\ \A e \in ledger : e.backend \notin tainted => session[e.backend] = e.user
    /\ \A w \in Workers : op[w].backend \in Backends \ tainted =>
          /\ op[w].pc = "issueVerify" /\ op[w].answer \in Users => session[op[w].backend] = op[w].answer
          /\ op[w].pc = "issueInsert" => session[op[w].backend] = op[w].user
          /\ op[w].pc = "authVerify" => op[w].answer \in {None, op[w].user} \cup Transient

OInv == IInv /\ SessionInv /\ OutageKeepsDelegation

LEMMA OInvStep ==
    ASSUME OInv, [Next]_vars PROVE SessionInv' /\ OutageKeepsDelegation'
  <1>t. /\ op \in [Workers -> Ops] /\ session \in [Backends -> Sessions] /\ clock \in Nat
        /\ entries \subseteq ledger /\ ledger \subseteq Entry
        /\ \A w \in Workers : op[w] \in Ops /\ GoodCall(op[w])
        /\ SessionInv
    BY DEF OInv, IInv, TInv, TypeOK, Locals, LedgerInv
  <1>c. clock \in Nat /\ clock' \in Nat /\ clock <= clock' BY ClockMonotone DEF OInv, IInv
  (* Entries that leave in this step. *)
  <1>o. ASSUME tainted \subseteq tainted', ledger \subseteq ledger',
               \A e \in ledger' \ ledger : e \in entries',
               \A e \in entries \ entries' : e.expiresAt <= clock \/ e.backend \in tainted
        PROVE  OutageKeepsDelegation'
    <2> SUFFICES ASSUME NEW e \in ledger' \ entries' PROVE e.expiresAt <= clock' \/ e.backend \in tainted'
      BY DEF OutageKeepsDelegation
    <2>1. e \in ledger /\ e.expiresAt \in Nat BY <1>o, <1>t DEF Entry
    <2>2. e.expiresAt <= clock \/ e.backend \in tainted BY <1>o, <2>1 DEF OInv, OutageKeepsDelegation
    <2> QED BY <1>o, <1>c, <2>1, <2>2
  <1>p. \A w \in Workers : \A e \in entries \ Unexpired(op[w].now) : e.expiresAt <= clock
    BY <1>t DEF Unexpired, Alive, GoodCall, Ops, Entry
  (* A step of worker w that leaves sessions, ledger and taints alone. *)
  <1>s. ASSUME NEW w \in Workers, UNCHANGED <<session, ledger, tainted>>,
               \A x \in Workers : x # w => op'[x] = op[x],
               op'[w].backend \in Backends \ tainted =>
                 /\ op'[w].pc = "issueVerify" /\ op'[w].answer \in Users => session[op'[w].backend] = op'[w].answer
                 /\ op'[w].pc = "issueInsert" => session[op'[w].backend] = op'[w].user
                 /\ op'[w].pc = "authVerify" => op'[w].answer \in {None, op'[w].user} \cup Transient
        PROVE  SessionInv'
    BY <1>s, <1>t DEF SessionInv
  <1>d. ASSUME NEW w \in Workers, UNCHANGED <<session, ledger, tainted>>,
               NEW pc \in {"issueDone", "authDone"}, NEW code, Finish(w, pc, code)
        PROVE  SessionInv'
    <2>1. op'[w].pc = pc /\ \A x \in Workers : x # w => op'[x] = op[x] BY <1>d, <1>t DEF Finish, Ops
    <2> QED BY <1>d, <1>s, <2>1
  <1>0. CASE UNCHANGED vars BY <1>0, <1>t DEF vars, SessionInv, OInv, OutageKeepsDelegation
  <1>1. ASSUME NEW w \in Workers, NEW b \in Backends \cup HandedOut, IssueBegin(w, b)
        PROVE SessionInv' /\ OutageKeepsDelegation'
    <2>0. UNCHANGED <<session, ledger, tainted, entries>> BY <1>1 DEF IssueBegin
    <2>1. CASE b \in Backends
      <3> DEFINE r == [op[w] EXCEPT !.pc = "issueVerify", !.backend = b]
      <3>1. op' = [op EXCEPT ![w] = r] BY <1>1, <2>1 DEF IssueBegin
      <3>2. op[w].answer = None BY <1>1, <1>t DEF IssueBegin, GoodCall
      <3>3. r.pc = "issueVerify" /\ r.answer = None BY <1>t, <3>2 DEF Ops
      <3>4. op'[w] = r /\ \A x \in Workers : x # w => op'[x] = op[x] BY <1>t, <3>1
      <3> QED BY <1>s, <1>o, <2>0, <3>3, <3>4, StoreAssumption
    <2>2. CASE b \notin Backends
      <3>1. Finish(w, "issueDone", "invalid_delegation_request") BY <1>1, <2>2 DEF IssueBegin
      <3> QED BY <1>d, <1>o, <2>0, <3>1
    <2> QED BY <2>1, <2>2
  <1>2. ASSUME NEW w \in Workers, NEW t, AuthBegin(w, t) PROVE SessionInv' /\ OutageKeepsDelegation'
    <2>0. UNCHANGED <<session, ledger, tainted, entries>> BY <1>2 DEF AuthBegin
    <2> DEFINE r == IF t = Malformed
                    THEN [op[w] EXCEPT !.pc = "authDone", !.bearer = t, !.code = "authentication_required"]
                    ELSE [op[w] EXCEPT !.pc = "authLookup", !.bearer = t, !.now = clock]
    <2>1. op' = [op EXCEPT ![w] = r] BY <1>2 DEF AuthBegin
    <2>2. r.pc \in {"authDone", "authLookup"} BY <1>t DEF Ops
    <2>3. op'[w] = r /\ \A x \in Workers : x # w => op'[x] = op[x] BY <1>t, <2>1
    <2> QED BY <1>s, <1>o, <2>0, <2>2, <2>3
  <1>3. ASSUME NEW w \in Workers, IssueVerified(w) PROVE SessionInv' /\ OutageKeepsDelegation'
    <2>0. UNCHANGED <<session, ledger, tainted, entries>> BY <1>3 DEF IssueVerified
    <2> DEFINE r == [op[w] EXCEPT !.pc = "issueInsert", !.user = op[w].answer, !.now = clock, !.answer = None]
    <2>1. CASE op[w].answer \in Users /\ op' = [op EXCEPT ![w] = r]
      <3>1. op'[w] = r /\ \A x \in Workers : x # w => op'[x] = op[x] BY <1>t, <2>1
      <3>2. r.pc = "issueInsert" /\ r.user = op[w].answer /\ r.backend = op[w].backend BY <1>t DEF Ops
      <3>3. r.backend \in Backends \ tainted => session[r.backend] = r.user
        BY <1>3, <1>t, <2>1, <3>2 DEF IssueVerified, SessionInv
      <3> QED BY <1>s, <1>o, <2>0, <3>1, <3>2, <3>3
    <2>2. ASSUME NEW code, Finish(w, "issueDone", code) PROVE SessionInv' /\ OutageKeepsDelegation'
      BY <1>d, <1>o, <2>0, <2>2
    <2> QED BY <1>3, <2>1, <2>2 DEF IssueVerified
  <1>4. ASSUME NEW w \in Workers, IssueInsert(w) PROVE SessionInv' /\ OutageKeepsDelegation'
    <2>0. UNCHANGED <<session, tainted>> BY <1>4 DEF IssueInsert
    <2>1. CASE entries' = Unexpired(op[w].now) /\ ledger' = ledger /\ Finish(w, "issueDone", "delegation_limit")
      BY <1>d, <1>o, <1>p, <2>0, <2>1
    <2>2. ASSUME NEW t \in Fresh, Granted(w, t) PROVE SessionInv' /\ OutageKeepsDelegation'
      <3> DEFINE e == NewEntry(w, t)
                 r == [op[w] EXCEPT !.pc = "issueDone", !.code = "ok", !.bearer = t]
      <3>1. e.user = op[w].user /\ e.backend = op[w].backend BY DEF NewEntry
      <3>2. op'[w] = r /\ (\A x \in Workers : x # w => op'[x] = op[x]) /\ r.pc = "issueDone"
        BY <1>t, <2>2 DEF Granted, Ops
      <3>3. op[w].backend \notin tainted => session[op[w].backend] = op[w].user
        BY <1>4, <1>t DEF IssueInsert, SessionInv, GoodCall
      <3>4. ledger' = ledger \cup {e} /\ entries' = Unexpired(op[w].now) \cup {e} BY <2>2 DEF Granted
      <3> HIDE DEF e, r
      <3>5. SessionInv' BY <1>t, <2>0, <3>1, <3>2, <3>3, <3>4 DEF SessionInv
      <3>6. OutageKeepsDelegation' BY <1>o, <1>p, <2>0, <3>4
      <3> QED BY <3>5, <3>6
    <2> QED BY <1>4, <2>1, <2>2 DEF IssueInsert, Granted, NewEntry
  <1>5. ASSUME NEW w \in Workers, AuthLookup(w) PROVE SessionInv' /\ OutageKeepsDelegation'
    <2>0. UNCHANGED <<session, ledger, tainted>> /\ entries' = Unexpired(op[w].now) /\ op[w].answer = None
      BY <1>5, <1>t DEF AuthLookup, GoodCall
    <2>1. OutageKeepsDelegation' BY <1>o, <1>p, <2>0
    <2>2. CASE Finish(w, "authDone", "authentication_required") BY <1>d, <2>0, <2>1, <2>2
    <2>3. ASSUME NEW e, Found(w, e) PROVE SessionInv'
      <3> DEFINE r == [op[w] EXCEPT !.pc = "authVerify", !.user = e.user, !.backend = e.backend]
      <3>1. op'[w] = r /\ \A x \in Workers : x # w => op'[x] = op[x] BY <1>t, <2>3 DEF Found
      <3>2. r.pc = "authVerify" /\ r.answer = None BY <1>t, <2>0 DEF Ops
      <3> QED BY <1>s, <2>0, <3>1, <3>2
    <2> QED BY <1>5, <2>1, <2>2, <2>3 DEF AuthLookup, Found
  <1>6. ASSUME NEW w \in Workers, AuthRefused(w) PROVE SessionInv' /\ OutageKeepsDelegation'
    <2>0. UNCHANGED <<session, ledger, tainted>> /\ entries' \subseteq entries
          /\ op[w].pc = "authVerify" /\ op[w].answer \notin {None, op[w].user}
      BY <1>6 DEF AuthRefused, Without
    <2>1. PICK code : Finish(w, "authDone", code) BY <1>6 DEF AuthRefused
    <2>2. SessionInv' BY <1>d, <2>0, <2>1
    <2>3. entries' = entries
          \/ (entries' = Without(entries, op[w].bearer) /\ op[w].answer \notin Transient)
      BY <1>6, AnswerAssumption DEF AuthRefused, IsSessionFailure, SessionFailures, Transient
    <2>4. \A e \in entries \ entries' : e.backend \in tainted
      <3> SUFFICES ASSUME NEW e \in entries \ entries' PROVE e.backend \in tainted OBVIOUS
      <3>1. e.token = op[w].bearer /\ op[w].answer \notin Transient BY <2>3 DEF Without
      <3>2. PICK f \in ledger : f.token = op[w].bearer /\ f.backend = op[w].backend
        BY <2>0 DEF OInv, IInv, AuthInv, Knows
      <3>3. e = f BY <1>t, <3>1, <3>2 DEF OInv, IInv, LedgerInv
      <3>4. op[w].backend \in Backends BY <1>t, <2>0 DEF GoodCall
      <3> QED BY <1>t, <2>0, <3>1, <3>2, <3>3, <3>4 DEF SessionInv
    <2> QED BY <1>o, <2>0, <2>2, <2>4
  <1>7. ASSUME NEW w \in Workers, AuthAccepted(w) PROVE SessionInv' /\ OutageKeepsDelegation'
    <2>0. UNCHANGED <<session, ledger, tainted, entries>> /\ Finish(w, "authDone", "ok")
      BY <1>7 DEF AuthAccepted
    <2> QED BY <1>d, <1>o, <2>0
  <1>8. ASSUME NEW w \in Workers, Return(w) PROVE SessionInv' /\ OutageKeepsDelegation'
    <2>0. UNCHANGED <<session, ledger, tainted, entries>> /\ op' = [op EXCEPT ![w] = Idle]
      BY <1>8 DEF Return
    <2>1. op'[w].pc = "idle" /\ \A x \in Workers : x # w => op'[x] = op[x] BY <1>t, <2>0 DEF Idle
    <2> QED BY <1>s, <1>o, <2>0, <2>1
  <1>9. ASSUME NEW w \in Workers, BackendAnswers(w) PROVE SessionInv' /\ OutageKeepsDelegation'
    <2>0. UNCHANGED <<session, ledger, tainted, entries>> /\ op[w].pc \in {"issueVerify", "authVerify"}
      BY <1>9 DEF BackendAnswers
    <2>1. PICK a \in {session[op[w].backend]} \cup Transient : op' = [op EXCEPT ![w] = [op[w] EXCEPT !.answer = a]]
      BY <1>9 DEF BackendAnswers
    <2> DEFINE r == [op[w] EXCEPT !.answer = a]
    <2>2. op'[w] = r /\ \A x \in Workers : x # w => op'[x] = op[x] BY <1>t, <2>1
    <2>3. r.pc = op[w].pc /\ r.answer = a /\ r.user = op[w].user /\ r.backend = op[w].backend
      BY <1>t DEF Ops
    <2>4. op[w].pc = "authVerify" /\ op[w].backend \notin tainted => session[op[w].backend] = op[w].user
      BY <1>t DEF OInv, IInv, AuthInv, Knows, SessionInv
    <2>5. a \in Users => a \notin Transient BY AnswerAssumption
    <2> HIDE DEF r
    <2>6. SessionInv' BY <1>s, <2>0, <2>1, <2>2, <2>3, <2>4, <2>5
    <2> QED BY <1>o, <2>0, <2>6
  <1>10. ASSUME NEW b \in Backends, NEW v \in Sessions, SessionChanges(b, v)
         PROVE SessionInv' /\ OutageKeepsDelegation'
    <2>0. UNCHANGED <<ledger, entries, op>> /\ tainted \subseteq tainted' /\ session' = [session EXCEPT ![b] = v]
      BY <1>10 DEF SessionChanges
    <2>1. OutageKeepsDelegation' BY <1>o, <2>0
    <2>2. ASSUME NEW x \in Backends \ tainted', session[x] \in Users
          PROVE  session'[x] = session[x] /\ x \notin tainted
      BY <1>10, <1>t, <2>0, <2>2 DEF SessionChanges
    <2>3. ASSUME NEW e \in ledger, e.backend \notin tainted' PROVE session'[e.backend] = e.user
      <3>1. e.backend \in Backends \ tainted' /\ e.user \in Users BY <1>t, <2>3 DEF Entry
      <3>2. session[e.backend] = e.user BY <1>t, <2>0, <2>3 DEF SessionInv
      <3> QED BY <2>2, <3>1, <3>2
    <2>4. ASSUME NEW w \in Workers, op[w].backend \in Backends \ tainted'
          PROVE /\ op[w].pc = "issueVerify" /\ op[w].answer \in Users => session'[op[w].backend] = op[w].answer
                /\ op[w].pc = "issueInsert" => session'[op[w].backend] = op[w].user
                /\ op[w].pc = "authVerify" => op[w].answer \in {None, op[w].user} \cup Transient
      <3>1. op[w].backend \in Backends \ tainted BY <2>0, <2>4
      <3>2. op[w].pc = "issueVerify" /\ op[w].answer \in Users => session'[op[w].backend] = op[w].answer
        BY <1>t, <2>2, <2>4, <3>1 DEF SessionInv
      <3>3. op[w].pc = "issueInsert" => session'[op[w].backend] = op[w].user
        BY <1>t, <2>2, <2>4, <3>1 DEF SessionInv, GoodCall
      <3> QED BY <1>t, <3>1, <3>2, <3>3 DEF SessionInv
    <2> QED BY <2>0, <2>1, <2>3, <2>4 DEF SessionInv
  <1>11. CASE CountEntries
    <2>1. UNCHANGED <<session, ledger, tainted, op>> /\ entries' = Unexpired(clock) BY <1>11 DEF CountEntries
    <2>2. \A e \in entries \ Unexpired(clock) : e.expiresAt <= clock
      BY <1>t DEF Unexpired, Alive, Entry
    <2> QED BY <1>o, <1>t, <2>1, <2>2 DEF SessionInv
  <1>12. CASE Tick
    <2>1. UNCHANGED <<session, ledger, tainted, op, entries>> BY <1>12 DEF Tick
    <2> QED BY <1>o, <1>t, <2>1 DEF SessionInv
  <1> QED BY <1>0, <1>1, <1>2, <1>3, <1>4, <1>5, <1>6, <1>7, <1>8, <1>9, <1>10, <1>11, <1>12, NextCases

(* Only the end of its lifetime or the loss of its session removes a          *)
(* delegation; a backend outage never does.                                   *)
THEOREM OutageHarmless == Spec => []OutageKeepsDelegation
  <1>1. Init => OInv
    <2> SUFFICES ASSUME Init PROVE SessionInv /\ OutageKeepsDelegation BY IInvInit DEF OInv
    <2>1. ledger = {} /\ \A w \in Workers : op[w].pc = "idle" BY DEF Init, Idle
    <2> QED BY <2>1 DEF SessionInv, OutageKeepsDelegation
  <1>2. OInv /\ [Next]_vars => OInv' BY OInvStep, IInvStep DEF OInv
  <1>3. OInv => OutageKeepsDelegation BY DEF OInv
  <1> QED BY <1>1, <1>2, <1>3, PTL DEF Spec

-----------------------------------------------------------------------------
(* The store implements the life of delegations. *)

Active(S) == {[token |-> e.token, user |-> e.user] : e \in S}
TokensOf(S) == {e.token : e \in S}

LEMMA TokensOfUnion == \A A, B : TokensOf(A \cup B) = TokensOf(A) \cup TokensOf(B)
  <1> TAKE A, B
  <1>1. ASSUME NEW x \in TokensOf(A \cup B) PROVE x \in TokensOf(A) \cup TokensOf(B) BY DEF TokensOf
  <1>2. ASSUME NEW x \in TokensOf(A) \cup TokensOf(B) PROVE x \in TokensOf(A \cup B) BY DEF TokensOf
  <1> QED BY <1>1, <1>2

(* The abstract module counts with the same Cardinality. *)
LEMMA SameCardinality == \A S : Lifecycle!Cardinality(S) = Cardinality(S)
  BY DEF Lifecycle!Cardinality, Cardinality

LEMMA LifecycleStep ==
    ASSUME TInv, LedgerInv, [Next]_vars
    PROVE  [Lifecycle!Next]_<<Active(entries), TokensOf(ledger \ entries)>>
  <1> DEFINE gone == Active(entries \ entries')
  <1>t. entries \subseteq ledger /\ ledger \subseteq Entry /\ IsFiniteSet(entries)
    BY DEF TInv, TypeOK, LedgerInv
  <1>u. \A e, f \in ledger : e.token = f.token => e = f BY DEF LedgerInv
  <1>1. gone \in SUBSET Active(entries) BY DEF Active
  (* A set of entries and its image differ by as much, tokens being unique. *)
  <1>2. \A S : S \subseteq entries => Active(entries) \ Active(entries \ S) = Active(S)
    BY <1>t, <1>u DEF Active
  <1>3. \A S : {d.token : d \in Active(S)} = TokensOf(S)
    <2> TAKE S
    <2>1. \A e \in S : [token |-> e.token, user |-> e.user] \in Active(S) BY DEF Active
    <2>2. \A d \in Active(S) : \E e \in S : d.token = e.token BY DEF Active
    <2>3. \A e \in S : e.token \in {d.token : d \in Active(S)}
      <3> TAKE e \in S
      <3> DEFINE d == [token |-> e.token, user |-> e.user]
      <3>1. d \in Active(S) /\ d.token = e.token BY <2>1
      <3> QED BY <3>1
    <2>4. \A d \in Active(S) : d.token \in TokensOf(S) BY <2>2 DEF TokensOf
    <2> QED BY <2>3, <2>4 DEF TokensOf
  <1>4. CASE entries' \subseteq entries /\ ledger' = ledger
    <2>1. entries \ (entries \ entries') = entries' BY <1>4
    <2>2. Active(entries)' = Active(entries) \ gone BY <1>2, <1>4, <2>1 DEF Active
    <2>3. TokensOf(ledger \ entries)' = TokensOf(ledger \ entries) \cup {d.token : d \in gone}
      <3>1. ledger' \ entries' = (ledger \ entries) \cup (entries \ entries') BY <1>4, <1>t
      <3>2. {d.token : d \in gone} = TokensOf(entries \ entries') BY <1>3
      <3>3. TokensOf(ledger \ entries)' = TokensOf(ledger' \ entries') BY DEF TokensOf
      <3> HIDE DEF gone
      <3> QED BY <3>1, <3>2, <3>3, TokensOfUnion
    <2> QED BY <1>1, <2>2, <2>3 DEF Lifecycle!Next, Lifecycle!Retire, Active, TokensOf
  <1>5. ASSUME NEW w \in Workers, NEW t \in Fresh, op[w].pc = "issueInsert",
               ~AtLimit(Unexpired(op[w].now), op[w].user), Granted(w, t)
        PROVE  Lifecycle!Next
    <2> DEFINE kept == Unexpired(op[w].now)
               e == NewEntry(w, t)
               u == op[w].user
               out == Active(entries \ kept)
    <2>1. kept \subseteq entries /\ entries' = kept \cup {e} /\ ledger' = ledger \cup {e}
      BY <1>5 DEF Granted, Unexpired
    <2>2. e.token = t /\ e.user = u /\ t \in Tokens /\ u \in Users
      BY <1>5 DEF NewEntry, Fresh, TInv, Locals, GoodCall
    <2>3. \A f \in ledger : f.token # t BY DEF Fresh
    <2> HIDE DEF e, u
    <2>4. entries \ (entries \ kept) = kept BY <2>1
    <2>5. Active(entries) \ out = Active(kept) BY <1>2, <2>4
    <2>6. Active(entries)' = (Active(entries) \ out) \cup {[token |-> t, user |-> u]}
      BY <2>1, <2>2, <2>5 DEF Active
    <2>7. TokensOf(ledger \ entries)' = TokensOf(ledger \ entries) \cup {d.token : d \in out}
      <3>1. e \notin ledger BY <2>2, <2>3
      <3>2. ledger' \ entries' = (ledger \ entries) \cup (entries \ kept) BY <1>t, <2>1, <3>1
      <3>3. {d.token : d \in out} = TokensOf(entries \ kept) BY <1>3
      <3>4. TokensOf(ledger \ entries)' = TokensOf(ledger' \ entries') BY DEF TokensOf
      <3> HIDE DEF out, kept
      <3> QED BY <3>2, <3>3, <3>4, TokensOfUnion
    <2>8. t \notin TokensOf(ledger \ entries) /\ \A d \in Active(entries) : d.token # t
      BY <1>t, <2>3 DEF TokensOf, Active
    <2>9. Cardinality(Active(kept)) < MaxEntries
          /\ Cardinality({d \in Active(kept) : d.user = u}) < PerUser
      <3>1. IsFiniteSet(kept) /\ IsFiniteSet({f \in kept : f.user = u}) BY <1>t, <2>1, FS_Subset
      <3>2. \A S : IsFiniteSet(S) =>
                 Cardinality(Active(S)) <= Cardinality(S)
                 /\ Cardinality(Active(S)) \in Nat /\ Cardinality(S) \in Nat
        <4> TAKE S
        <4> DEFINE g == [f \in S |-> [token |-> f.token, user |-> f.user]]
        <4>1. Active(S) = {g[f] : f \in S} BY DEF Active
        <4>2. DOMAIN g = S /\ g = [f \in S |-> g[f]] OBVIOUS
        <4> HIDE DEF g
        <4> SUFFICES ASSUME IsFiniteSet(S) PROVE Cardinality(Active(S)) <= Cardinality(S)
                 /\ Cardinality(Active(S)) \in Nat /\ Cardinality(S) \in Nat
          OBVIOUS
        <4>3. Cardinality({g[f] : f \in S}) <= Cardinality(S)
              /\ Cardinality({g[f] : f \in S}) \in Nat /\ Cardinality(S) \in Nat
          BY <4>2, ImageCardinality
        <4> QED BY <4>1, <4>3
      <3>3. {d \in Active(kept) : d.user = u} = Active({f \in kept : f.user = u})
        BY DEF Active
      <3>4. Cardinality(Active(kept)) <= Cardinality(kept)
            /\ Cardinality(Active({f \in kept : f.user = u})) <= Cardinality({f \in kept : f.user = u})
            /\ Cardinality(Active(kept)) \in Nat /\ Cardinality(Active({f \in kept : f.user = u})) \in Nat
        BY <3>1, <3>2
      <3>5. Cardinality(kept) \in Nat /\ Cardinality({f \in kept : f.user = u}) \in Nat
        BY <3>1, FS_CardinalityType
      <3>6. ~(Cardinality(kept) >= MaxEntries) /\ ~(Cardinality({f \in kept : f.user = u}) >= PerUser)
        BY <1>5 DEF AtLimit, CountUser, u
      <3>7. MaxEntries \in Nat /\ PerUser \in Nat BY StoreAssumption
      <3>8. \A a, c, m \in Nat : a <= c /\ ~(c >= m) => a < m OBVIOUS
      <3> HIDE DEF kept
      <3>9. Cardinality(Active(kept)) < MaxEntries BY <3>4, <3>5, <3>6, <3>7, <3>8
      <3>10. Cardinality(Active({f \in kept : f.user = u})) < PerUser BY <3>4, <3>5, <3>6, <3>7, <3>8
      <3> QED BY <3>3, <3>9, <3>10
    <2>10. out \in SUBSET Active(entries) BY DEF Active
    <2>11. /\ t \notin TokensOf(ledger \ entries) /\ \A d \in Active(entries) : d.token # t
           /\ Cardinality(Active(entries) \ out) < MaxEntries
           /\ Cardinality(Lifecycle!Of(Active(entries) \ out, u)) < PerUser
      BY <2>5, <2>8, <2>9 DEF Lifecycle!Of
    <2> HIDE DEF out, kept
    <2>12. Lifecycle!Grant(out, t, u)
      <3> DEFINE act == {[token |-> f.token, user |-> f.user] : f \in entries}
                 ret == {f.token : f \in ledger \ entries}
      <3>1. act = Active(entries) /\ act' = Active(entries)' BY DEF Active
      <3>2. ret = TokensOf(ledger \ entries) /\ ret' = TokensOf(ledger \ entries)' BY DEF TokensOf
      <3>3. t \notin ret /\ \A d \in act : d.token # t BY <2>11, <3>1, <3>2
      <3>4. act' = (act \ out) \cup {[token |-> t, user |-> u]} BY <2>6, <3>1
      <3>5. ret' = ret \cup {d.token : d \in out} BY <2>7, <3>2
      <3>6. Lifecycle!Cardinality(act \ out) < MaxEntries BY <2>11, <3>1, SameCardinality
      <3>7. Lifecycle!Cardinality(Lifecycle!Of(act \ out, u)) < PerUser BY <2>11, <3>1, SameCardinality
      <3> QED BY <3>3, <3>4, <3>5, <3>6, <3>7 DEF Lifecycle!Grant
    <2>13. out \in SUBSET {[token |-> f.token, user |-> f.user] : f \in entries} BY <2>10 DEF Active
    <2>14. t \in Tokens /\ u \in Users BY <2>2
    <2> HIDE DEF u
    <2> QED BY <2>12, <2>13, <2>14 DEF Lifecycle!Next, Lifecycle!Grant
  <1> QED BY <1>4, <1>5, StoreEffects

(* Every behaviour of the store is one of the abstract life of delegations:  *)
(* a delegation is granted once, within the limits, and never comes back.    *)
THEOREM LifecycleImplemented == Spec => ImplementsLifecycle
  <1>1. Init => Lifecycle!Init BY DEF Init, Lifecycle!Init
  <1>2. IInv /\ [Next]_vars => [Lifecycle!Next]_<<Active(entries), TokensOf(ledger \ entries)>>
    BY LifecycleStep DEF IInv
  <1>3. Active(entries) = {[token |-> e.token, user |-> e.user] : e \in entries}
        /\ TokensOf(ledger \ entries) = {e.token : e \in ledger \ entries}
    BY DEF Active, TokensOf
  <1> QED BY <1>1, <1>2, <1>3, IInvInit, IInvStep, PTL DEF Spec, ImplementsLifecycle, Lifecycle!Spec, Active, TokensOf

-----------------------------------------------------------------------------
(* A call that has not come to its end has no code yet. *)
CodeInv == \A w \in Workers : op[w].pc \in {"idle", "issueVerify", "issueInsert"} => op[w].code = None

LEMMA CodeMoves ==
    ASSUME TInv, CodeInv, NEW w \in Workers, NEW r, op' = [op EXCEPT ![w] = r],
           r.pc \in {"idle", "issueVerify", "issueInsert"} => r.code = None
    PROVE  CodeInv'
  BY DEF CodeInv, TInv, TypeOK

LEMMA CodeStep == TInv /\ CodeInv /\ [Next]_vars => CodeInv'
  <1> SUFFICES ASSUME TInv, CodeInv, [Next]_vars PROVE CodeInv' OBVIOUS
  <1>t. \A w \in Workers : op[w] \in Ops BY DEF TInv, TypeOK
  <1>0. CASE UNCHANGED op BY <1>0 DEF CodeInv
  <1>1. ASSUME NEW w \in Workers, NEW r, r \in Ops, op' = [op EXCEPT ![w] = r],
               \/ r.pc \notin {"idle", "issueVerify", "issueInsert"}
               \/ r.code = None
        PROVE  CodeInv'
    BY <1>1, CodeMoves
  <1>2. ASSUME NEW w \in Workers, NEW pc \in {"issueDone", "authDone"}, NEW code, Finish(w, pc, code) PROVE CodeInv'
    <2>1. op' = [op EXCEPT ![w] = [op[w] EXCEPT !.pc = pc, !.code = code, !.answer = None]] BY <1>2 DEF Finish
    <2>2. [op[w] EXCEPT !.pc = pc, !.code = code, !.answer = None].pc = pc BY <1>t DEF Ops
    <2> QED BY <2>1, <2>2, CodeMoves
  <1>3. ASSUME NEW w \in Workers, NEW b \in Backends \cup HandedOut, IssueBegin(w, b) PROVE CodeInv'
    <2> DEFINE r == [op[w] EXCEPT !.pc = "issueVerify", !.backend = b]
    <2>1. op[w].code = None BY <1>3 DEF IssueBegin, CodeInv
    <2>2. r.code = None BY <1>t, <2>1 DEF Ops
    <2>3. CASE b \in Backends
      <3>1. op' = [op EXCEPT ![w] = r] BY <1>3, <2>3 DEF IssueBegin
      <3> HIDE DEF r
      <3> QED BY <2>2, <3>1, CodeMoves
    <2>4. CASE b \notin Backends BY <1>2, <1>3, <2>4 DEF IssueBegin
    <2> QED BY <2>3, <2>4
  <1>4. ASSUME NEW w \in Workers, NEW t \in HandedOut \cup {Malformed}, AuthBegin(w, t) PROVE CodeInv'
    <2> DEFINE r == IF t = Malformed
                    THEN [op[w] EXCEPT !.pc = "authDone", !.bearer = t, !.code = "authentication_required"]
                    ELSE [op[w] EXCEPT !.pc = "authLookup", !.bearer = t, !.now = clock]
    <2>1. r.pc \in {"authDone", "authLookup"} BY <1>t DEF Ops
    <2>2. op' = [op EXCEPT ![w] = r] BY <1>4 DEF AuthBegin
    <2> HIDE DEF r
    <2> QED BY <2>1, <2>2, CodeMoves
  <1>5. ASSUME NEW w \in Workers, IssueVerified(w) PROVE CodeInv'
    <2> DEFINE r == [op[w] EXCEPT !.pc = "issueInsert", !.user = op[w].answer, !.now = clock, !.answer = None]
    <2>1. op[w].code = None BY <1>5 DEF IssueVerified, CodeInv
    <2>2. r.code = None BY <1>t, <2>1 DEF Ops
    <2>3. op' = [op EXCEPT ![w] = r] \/ \E code : Finish(w, "issueDone", code) BY <1>5 DEF IssueVerified
    <2> HIDE DEF r
    <2>4. ASSUME NEW code, Finish(w, "issueDone", code) PROVE CodeInv' BY <1>2, <2>4
    <2> QED BY <2>2, <2>3, <2>4, CodeMoves
  <1>6. ASSUME NEW w \in Workers, IssueInsert(w) PROVE CodeInv'
    <2>1. ASSUME NEW t, op' = [op EXCEPT ![w] = [op[w] EXCEPT !.pc = "issueDone", !.code = "ok", !.bearer = t]]
          PROVE  CodeInv'
      <3>1. [op[w] EXCEPT !.pc = "issueDone", !.code = "ok", !.bearer = t].pc = "issueDone" BY <1>t DEF Ops
      <3> QED BY <2>1, <3>1, CodeMoves
    <2> QED BY <1>2, <1>6, <2>1 DEF IssueInsert
  <1>7. ASSUME NEW w \in Workers, AuthLookup(w) PROVE CodeInv'
    <2>1. ASSUME NEW e, op' = [op EXCEPT ![w] = [op[w] EXCEPT !.pc = "authVerify", !.user = e.user, !.backend = e.backend]]
          PROVE  CodeInv'
      <3>1. [op[w] EXCEPT !.pc = "authVerify", !.user = e.user, !.backend = e.backend].pc = "authVerify"
        BY <1>t DEF Ops
      <3> QED BY <2>1, <3>1, CodeMoves
    <2> QED BY <1>2, <1>7, <2>1 DEF AuthLookup
  <1>8. ASSUME NEW w \in Workers, AuthRefused(w) \/ AuthAccepted(w) PROVE CodeInv'
    <2>1. \E code : Finish(w, "authDone", code) BY <1>8 DEF AuthRefused, AuthAccepted
    <2> QED BY <1>2, <2>1
  <1>9. ASSUME NEW w \in Workers, Return(w) PROVE CodeInv'
    <2>1. op' = [op EXCEPT ![w] = Idle] /\ Idle.code = None BY <1>9 DEF Return, Idle
    <2> QED BY <2>1, CodeMoves
  <1>10. ASSUME NEW w \in Workers, BackendAnswers(w) PROVE CodeInv'
    <2>1. PICK answer : op' = [op EXCEPT ![w] = [op[w] EXCEPT !.answer = answer]] BY <1>10 DEF BackendAnswers
    <2>2. /\ [op[w] EXCEPT !.answer = answer].pc = op[w].pc
          /\ [op[w] EXCEPT !.answer = answer].code = op[w].code
      BY <1>t DEF Ops
    <2> QED BY <2>1, <2>2, CodeMoves DEF CodeInv
  <1> QED
    BY <1>0, <1>3, <1>4, <1>5, <1>6, <1>7, <1>8, <1>9, <1>10, NextCases
    DEF vars, SessionChanges, CountEntries, Tick

(* A set of naturals that is not empty has a least element. *)
LEMMA Least == ASSUME NEW T \in SUBSET Nat, T # {} PROVE \E x \in T : \A y \in T : ~(y < x)
  <1> DEFINE R == OpToRel(<, Nat)
  <1>1. IsWellFoundedOn(R, Nat) BY NatLessThanWellFounded
  <1>2. R = {ss \in Nat \X Nat : ss[1] < ss[2]} BY DEF OpToRel
  <1> HIDE DEF R
  <1>3. PICK x \in T : \A y \in T : ~(<<y, x>> \in R) BY <1>1, WFMin
  <1> QED BY <1>2, <1>3

(* A store in which nobody holds more than a share needs many users to be full:    *)
(* otherwise some least number of users would hold more than a share each together. *)
LEMMA SharesAddUp ==
    ASSUME NEW S, IsFiniteSet(S), NEW share \in Nat,
           \A e \in S : Cardinality({f \in S : f.user = e.user}) <= share
    PROVE  /\ Cardinality({e.user : e \in S}) \in Nat
           /\ Cardinality(S) <= share * Cardinality({e.user : e \in S})
  <1> DEFINE holders == {e.user : e \in S}
             HeldBy(V) == {e \in S : e.user \in V}
             Fair(V) == Cardinality(HeldBy(V)) <= share * Cardinality(V)
             T == {n \in Nat : \E V \in SUBSET holders : Cardinality(V) = n /\ ~Fair(V)}
  <1>1. IsFiniteSet(holders)
    <2> DEFINE g == [e \in S |-> e.user]
    <2>1. g \in [S -> holders] OBVIOUS
    <2>2. \A u \in holders : \E e \in S : g[e] = u OBVIOUS
    <2>3. g \in Surjection(S, holders) BY <2>1, <2>2 DEF Surjection
    <2> HIDE DEF g, holders
    <2> QED BY <2>3, FS_Surjection
  <1>2. \A V \in SUBSET holders : /\ IsFiniteSet(V) /\ Cardinality(V) \in Nat
                                  /\ IsFiniteSet(HeldBy(V)) /\ Cardinality(HeldBy(V)) \in Nat
    <2>1. \A V : HeldBy(V) \subseteq S OBVIOUS
    <2> HIDE DEF holders, HeldBy
    <2> QED BY <1>1, <2>1, FS_Subset, FS_CardinalityType
  <1>3. T = {}
    <2> SUFFICES ASSUME T # {} PROVE FALSE OBVIOUS
    <2>1. T \in SUBSET Nat OBVIOUS
    <2> HIDE DEF T
    <2>2. PICK n \in T : \A m \in T : ~(m < n) BY <2>1, Least
    <2> USE DEF T
    <2>3. PICK V \in SUBSET holders : Cardinality(V) = n /\ ~Fair(V) BY <2>2
    <2>4. V # {}
      <3> SUFFICES ASSUME V = {} PROVE Fair(V) BY <2>3
      <3>1. HeldBy(V) = {} OBVIOUS
      <3>2. Cardinality({}) = 0 BY FS_EmptySet
      <3>3. share * 0 = 0 OBVIOUS
      <3>4. Cardinality(HeldBy(V)) = 0 BY <3>1, <3>2
      <3>5. Cardinality(V) = 0 BY <3>2
      <3> HIDE DEF HeldBy
      <3> QED BY <3>3, <3>4, <3>5
    <2>5. PICK u \in V : TRUE BY <2>4
    <2> DEFINE W == V \ {u}
               own == {f \in S : f.user = u}
    <2>6. W \in SUBSET holders /\ Cardinality(W) = n - 1 /\ n - 1 \in Nat
      <3>1. IsFiniteSet(V) BY <1>2
      <3>2. Cardinality(W) = Cardinality(V) - 1 BY <2>5, <3>1, FS_RemoveElement
      <3>3. W \in SUBSET holders BY <2>3
      <3> HIDE DEF W
      <3>4. Cardinality(W) \in Nat BY <1>2, <3>3
      <3> QED BY <2>3, <3>2, <3>3, <3>4
    <2>7. Fair(W)
      <3>1. n - 1 < n /\ n \in Nat BY <2>2
      <3> HIDE DEF W, Fair
      <3> QED BY <2>2, <2>6, <3>1
    <2>8. HeldBy(V) = HeldBy(W) \cup own BY <2>5
    <2>9. own \subseteq S /\ IsFiniteSet(own) /\ Cardinality(own) \in Nat
      <3>1. own \subseteq S OBVIOUS
      <3> HIDE DEF own
      <3> QED BY <3>1, FS_Subset, FS_CardinalityType
    <2>10. Cardinality(own) <= share
      <3>1. PICK e \in S : e.user = u BY <2>3, <2>5
      <3> QED BY <3>1
    <2> DEFINE a == Cardinality(HeldBy(W))
               b == Cardinality(own)
               c == Cardinality(HeldBy(V))
    <2>11. c <= a + b
      <3>1. IsFiniteSet(HeldBy(W)) /\ Cardinality(HeldBy(W)) \in Nat BY <1>2, <2>6
      <3>2. IsFiniteSet(HeldBy(W) \cap own) BY <2>9, FS_Intersection
      <3> HIDE DEF HeldBy, own, W
      <3>3. Cardinality(HeldBy(W) \cup own)
              = Cardinality(HeldBy(W)) + Cardinality(own) - Cardinality(HeldBy(W) \cap own)
        BY <2>9, <3>1, FS_Union
      <3>4. Cardinality(HeldBy(W) \cap own) \in Nat BY <3>2, FS_CardinalityType
      <3>5. Cardinality(HeldBy(V)) = Cardinality(HeldBy(W) \cup own) BY <2>8
      <3> QED BY <2>9, <3>1, <3>3, <3>4, <3>5
    <2>12. a <= share * (n - 1) BY <2>6, <2>7
    <2>13. a \in Nat /\ b \in Nat /\ c \in Nat /\ n \in Nat BY <1>2, <2>2, <2>3, <2>6, <2>9
    <2>14. ~(c <= share * n) BY <2>3
    <2>15. b <= share BY <2>10
    <2> HIDE DEF a, b, c, T
    <2>16. share * (n - 1) + share = share * n /\ share * (n - 1) \in Nat BY <2>6, <2>13
    <2> QED BY <2>11, <2>12, <2>13, <2>14, <2>15, <2>16
  <1>4. Fair(holders)
    <2>1. Cardinality(holders) \in Nat /\ holders \in SUBSET holders BY <1>2
    <2> HIDE DEF Fair, holders
    <2> QED BY <1>3, <2>1
  <1>5. HeldBy(holders) = S OBVIOUS
  <1> QED BY <1>2, <1>4, <1>5

(* However many Issue calls overlap, a user below the limit of one user is refused a *)
(* delegation only when maxEntries are held by as many users as can share them: the   *)
(* limits of LimitsHold are what keeps one user from filling the store (store.go:44). *)
THEOREM NobodyIsEverCrowdedOut == Spec => NobodyIsCrowdedOut
  <1> DEFINE Shared(w) ==
        op[w].pc = "issueInsert" /\ op'[w].code = "delegation_limit" =>
            LET alive == {e \in entries : op[w].now < e.expiresAt}
            IN \/ Cardinality({e \in alive : e.user = op[w].user}) >= PerUser
               \/ PerUser * Cardinality({e.user : e \in alive}) >= MaxEntries
  <1>1. Init => CodeInv BY DEF Init, CodeInv, Idle
  <1>2. TInv /\ CodeInv /\ WithinLimits /\ [Next]_vars => [\A w \in Workers : Shared(w)]_vars
    <2> SUFFICES ASSUME TInv, CodeInv, WithinLimits, Next, NEW w \in Workers,
                        op[w].pc = "issueInsert", op'[w].code = "delegation_limit"
                 PROVE  LET alive == {e \in entries : op[w].now < e.expiresAt}
                        IN \/ Cardinality({e \in alive : e.user = op[w].user}) >= PerUser
                           \/ PerUser * Cardinality({e.user : e \in alive}) >= MaxEntries
      OBVIOUS
    <2> DEFINE alive == {e \in entries : op[w].now < e.expiresAt}
    <2>1. op[w].code = None /\ None # "delegation_limit" /\ op \in [Workers -> Ops]
      BY AnswerAssumption DEF CodeInv, Codes, TInv, TypeOK
    <2>2. op'[w] # op[w] BY <2>1
    <2>3. ASSUME NEW v \in Workers, NEW r, op' = [op EXCEPT ![v] = r] PROVE v = w
      BY <2>1, <2>2, <2>3
    <2>4. IssueInsert(w)
      <3>1. op' # op BY <2>2
      <3>2. \E v \in Workers : Worker(v) BY <3>1 DEF Next, SessionChanges, CountEntries, Tick
      <3>3. PICK v \in Workers : Worker(v) BY <3>2
      <3>4. \E r : op' = [op EXCEPT ![v] = r]
        BY <3>3 DEF Worker, IssueBegin, AuthBegin, IssueVerified, IssueInsert, AuthLookup, AuthRefused,
                    AuthAccepted, Return, BackendAnswers, Finish
      <3>5. v = w BY <2>3, <3>4
      <3> QED BY <3>3, <3>5 DEF Worker, IssueBegin, AuthBegin, IssueVerified, AuthLookup, AuthRefused,
                                AuthAccepted, Return, BackendAnswers
    <2>5. AtLimit(alive, op[w].user)
      <3> SUFFICES ASSUME ~AtLimit(alive, op[w].user) PROVE FALSE OBVIOUS
      <3>1. alive = Unexpired(op[w].now) BY DEF Unexpired, Alive
      <3> HIDE DEF alive
      <3>2. PICK t \in Fresh : op' = [op EXCEPT ![w] = [op[w] EXCEPT !.pc = "issueDone", !.code = "ok", !.bearer = t]]
        BY <2>4, <3>1 DEF IssueInsert
      <3>3. op[w] \in Ops BY <2>1
      <3>4. [op[w] EXCEPT !.pc = "issueDone", !.code = "ok", !.bearer = t].code = "ok" BY <3>3 DEF Ops
      <3> QED BY <2>1, <3>2, <3>4
    <2>6. CASE Cardinality({e \in alive : e.user = op[w].user}) >= PerUser BY <2>6
    <2>7. CASE Cardinality(alive) >= MaxEntries
      <3>1. alive \subseteq entries /\ IsFiniteSet(alive) /\ PerUser \in Nat /\ MaxEntries \in Nat
        BY FS_Subset, StoreAssumption DEF TInv, TypeOK
      <3>2. ASSUME NEW e \in alive PROVE Cardinality({f \in alive : f.user = e.user}) <= PerUser
        <4> DEFINE own == {f \in alive : f.user = e.user}
                   all == {f \in entries : f.user = e.user}
        <4>1. e.user \in Users BY <3>1 DEF TInv, TypeOK, Entry
        <4>2. Cardinality(all) <= PerUser BY <4>1 DEF WithinLimits, CountUser
        <4>3. own \subseteq all /\ IsFiniteSet(all) BY <3>1, FS_Subset DEF TInv, TypeOK
        <4> HIDE DEF own, all
        <4>4. Cardinality(own) <= Cardinality(all) /\ Cardinality(own) \in Nat /\ Cardinality(all) \in Nat
          BY <4>3, FS_Subset, FS_CardinalityType
        <4>5. Cardinality(own) <= PerUser BY <3>1, <4>2, <4>4
        <4> QED BY <4>5 DEF own
      <3> DEFINE n == Cardinality({e.user : e \in alive})
      <3> HIDE DEF alive
      <3>3. n \in Nat /\ Cardinality(alive) <= PerUser * n BY <3>1, <3>2, SharesAddUp
      <3>4. Cardinality(alive) \in Nat BY <3>1, FS_CardinalityType
      <3> HIDE DEF n
      <3>5. PerUser * n \in Nat BY <3>1, <3>3
      <3>6. PerUser * n >= MaxEntries BY <2>7, <3>1, <3>3, <3>4, <3>5
      <3> QED BY <3>6 DEF n, alive
    <2> QED BY <2>5, <2>6, <2>7 DEF AtLimit, CountUser
  <1>3. Init => WithinLimits
    <2>1. ASSUME Init PROVE \A u \in Users : {e \in entries : e.user = u} = {} BY <2>1 DEF Init
    <2> QED BY <2>1, FS_EmptySet, StoreAssumption DEF Init, WithinLimits, CountUser
  <1>4. TInv /\ WithinLimits /\ [Next]_vars => WithinLimits' BY LimitsStep
  <1> QED BY <1>1, <1>2, <1>3, <1>4, TypeInit, TypeStep, CodeStep, PTL DEF Spec, NobodyIsCrowdedOut
=============================================================================

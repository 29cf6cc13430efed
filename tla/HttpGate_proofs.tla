-------------------------- MODULE HttpGate_proofs --------------------------
(* Proofs about HttpGate, for every value of its constants. *)
EXTENDS HttpGate, TLAPS, FiniteSetTheorems

-----------------------------------------------------------------------------
(* The two tables. *)

(* No bucket was last used in the future, so that recovery never takes tokens away. *)
FailureTable(t, at) == t \in Failures!Tables /\ \A k \in Peers : t[k] # None => t[k].seen <= at

(* Recovery, eviction and charging keep a table of Peers a table. *)
LEMMA FailureRecovers ==
    ASSUME NEW at \in Nat, NEW e \in Failures!Bucket, e.seen <= at
    PROVE  Failures!Recovered(e, at) \in 0 .. Failures!Full
  <1> DEFINE gain == (at - e.seen) * FailLimit
  <1>1. e.tokens \in Nat /\ e.tokens <= Failures!Full /\ at - e.seen \in Nat BY DEF Failures!Bucket
  <1>2. Failures!Full \in Nat BY GateAssumption DEF Failures!Full
  <1>3. gain \in Nat BY <1>1, GateAssumption
  <1>4. Failures!Recovered(e, at) = IF e.tokens + gain < Failures!Full THEN e.tokens + gain ELSE Failures!Full
    BY DEF Failures!Recovered
  <1> HIDE DEF gain
  <1> QED BY <1>1, <1>2, <1>3, <1>4

LEMMA FailureTouched ==
    ASSUME NEW at \in Nat, NEW t, FailureTable(t, at), NEW k \in Peers, NEW u \in Failures!Touched(t, k, at)
    PROVE  FailureTable(u, at) /\ FailureTable(Failures!Charged(u, k), at)
  <1>1. t \in [Peers -> Failures!Bucket \cup {None}] BY DEF FailureTable, Failures!Tables
  <1>2. Failures!Full \in Nat /\ Window \in Nat BY GateAssumption DEF Failures!Full
  <1>3. None \notin Failures!Bucket BY <1>2, GateAssumption DEF Failures!Bucket
  <1>4. PICK b \in Failures!Bucket, s \in [Peers -> Failures!Bucket \cup {None}] :
             /\ u = [s EXCEPT ![k] = b] /\ b.seen = at
             /\ \A j \in Peers : s[j] \in {t[j], None}
    <2>1. CASE t[k] # None
      <3>1. t[k] \in Failures!Bucket /\ t[k].seen <= at BY <1>1, <2>1 DEF FailureTable
      <3>2. Failures!Recovered(t[k], at) \in 0 .. Failures!Full BY <3>1, FailureRecovers
      <3>3. [tokens |-> Failures!Recovered(t[k], at), seen |-> at] \in Failures!Bucket BY <3>2 DEF Failures!Bucket
      <3>4. u = [t EXCEPT ![k] = [tokens |-> Failures!Recovered(t[k], at), seen |-> at]] BY <2>1 DEF Failures!Touched
      <3> QED BY <1>1, <3>3, <3>4
    <2>2. CASE t[k] = None
      <3>1. PICK s \in Failures!Evicted(t, at) : u = [s EXCEPT ![k] = [tokens |-> Failures!Full, seen |-> at]]
        BY <2>2 DEF Failures!Touched
      <3>2. s = t \/ \E S : s = Failures!Keep(t, S) BY DEF Failures!Evicted
      <3>3. s \in [Peers -> Failures!Bucket \cup {None}] /\ \A j \in Peers : s[j] \in {t[j], None}
        BY <1>1, <3>2 DEF Failures!Keep
      <3>4. [tokens |-> Failures!Full, seen |-> at] \in Failures!Bucket BY <1>2 DEF Failures!Bucket
      <3> QED BY <3>1, <3>3, <3>4
    <2> QED BY <2>1, <2>2
  <1>5. u \in [Peers -> Failures!Bucket \cup {None}] /\ u[k] = b /\ \A j \in Peers : j # k => u[j] \in {t[j], None}
    BY <1>4
  <1>6. FailureTable(u, at) BY <1>3, <1>4, <1>5 DEF FailureTable, Failures!Tables
  <1>7. CASE Failures!HasToken(u, k)
    <2> DEFINE c == [b EXCEPT !.tokens = b.tokens - Window]
    <2>1. Failures!Charged(u, k) = [u EXCEPT ![k] = c] BY <1>5, <1>7 DEF Failures!Charged, Failures!Spent
    <2>2. b.tokens \in 0 .. Failures!Full /\ b.tokens >= Window BY <1>5, <1>7 DEF Failures!HasToken, Failures!Bucket
    <2>3. b.tokens - Window \in 0 .. Failures!Full BY <1>2, <2>2
    <2>4. c \in Failures!Bucket /\ c.seen = at BY <1>4, <2>3 DEF Failures!Bucket
    <2> HIDE DEF c
    <2>5. [u EXCEPT ![k] = c] \in [Peers -> Failures!Bucket \cup {None}] BY <1>5, <2>4
    <2>6. \A j \in Peers : [u EXCEPT ![k] = c][j] # None => [u EXCEPT ![k] = c][j].seen <= at
      BY <1>5, <1>6, <2>4 DEF FailureTable
    <2> QED BY <1>6, <2>1, <2>5, <2>6 DEF FailureTable, Failures!Tables
  <1>8. CASE ~Failures!HasToken(u, k) BY <1>6, <1>8 DEF Failures!Charged
  <1> QED BY <1>6, <1>7, <1>8

(* No bucket was last used in the future, so that recovery never takes tokens away. *)
RequestTable(t, at) == t \in Requests!Tables /\ \A k \in Users : t[k] # None => t[k].seen <= at

(* Recovery, eviction and charging keep a table of Users a table. *)
LEMMA RequestRecovers ==
    ASSUME NEW at \in Nat, NEW e \in Requests!Bucket, e.seen <= at
    PROVE  Requests!Recovered(e, at) \in 0 .. Requests!Full
  <1> DEFINE gain == (at - e.seen) * RateLimit
  <1>1. e.tokens \in Nat /\ e.tokens <= Requests!Full /\ at - e.seen \in Nat BY DEF Requests!Bucket
  <1>2. Requests!Full \in Nat BY GateAssumption DEF Requests!Full
  <1>3. gain \in Nat BY <1>1, GateAssumption
  <1>4. Requests!Recovered(e, at) = IF e.tokens + gain < Requests!Full THEN e.tokens + gain ELSE Requests!Full
    BY DEF Requests!Recovered
  <1> HIDE DEF gain
  <1> QED BY <1>1, <1>2, <1>3, <1>4

LEMMA RequestTouched ==
    ASSUME NEW at \in Nat, NEW t, RequestTable(t, at), NEW k \in Users, NEW u \in Requests!Touched(t, k, at)
    PROVE  RequestTable(u, at) /\ RequestTable(Requests!Charged(u, k), at)
  <1>1. t \in [Users -> Requests!Bucket \cup {None}] BY DEF RequestTable, Requests!Tables
  <1>2. Requests!Full \in Nat /\ Window \in Nat BY GateAssumption DEF Requests!Full
  <1>3. None \notin Requests!Bucket BY <1>2, GateAssumption DEF Requests!Bucket
  <1>4. PICK b \in Requests!Bucket, s \in [Users -> Requests!Bucket \cup {None}] :
             /\ u = [s EXCEPT ![k] = b] /\ b.seen = at
             /\ \A j \in Users : s[j] \in {t[j], None}
    <2>1. CASE t[k] # None
      <3>1. t[k] \in Requests!Bucket /\ t[k].seen <= at BY <1>1, <2>1 DEF RequestTable
      <3>2. Requests!Recovered(t[k], at) \in 0 .. Requests!Full BY <3>1, RequestRecovers
      <3>3. [tokens |-> Requests!Recovered(t[k], at), seen |-> at] \in Requests!Bucket BY <3>2 DEF Requests!Bucket
      <3>4. u = [t EXCEPT ![k] = [tokens |-> Requests!Recovered(t[k], at), seen |-> at]] BY <2>1 DEF Requests!Touched
      <3> QED BY <1>1, <3>3, <3>4
    <2>2. CASE t[k] = None
      <3>1. PICK s \in Requests!Evicted(t, at) : u = [s EXCEPT ![k] = [tokens |-> Requests!Full, seen |-> at]]
        BY <2>2 DEF Requests!Touched
      <3>2. s = t \/ \E S : s = Requests!Keep(t, S) BY DEF Requests!Evicted
      <3>3. s \in [Users -> Requests!Bucket \cup {None}] /\ \A j \in Users : s[j] \in {t[j], None}
        BY <1>1, <3>2 DEF Requests!Keep
      <3>4. [tokens |-> Requests!Full, seen |-> at] \in Requests!Bucket BY <1>2 DEF Requests!Bucket
      <3> QED BY <3>1, <3>3, <3>4
    <2> QED BY <2>1, <2>2
  <1>5. u \in [Users -> Requests!Bucket \cup {None}] /\ u[k] = b /\ \A j \in Users : j # k => u[j] \in {t[j], None}
    BY <1>4
  <1>6. RequestTable(u, at) BY <1>3, <1>4, <1>5 DEF RequestTable, Requests!Tables
  <1>7. CASE Requests!HasToken(u, k)
    <2> DEFINE c == [b EXCEPT !.tokens = b.tokens - Window]
    <2>1. Requests!Charged(u, k) = [u EXCEPT ![k] = c] BY <1>5, <1>7 DEF Requests!Charged, Requests!Spent
    <2>2. b.tokens \in 0 .. Requests!Full /\ b.tokens >= Window BY <1>5, <1>7 DEF Requests!HasToken, Requests!Bucket
    <2>3. b.tokens - Window \in 0 .. Requests!Full BY <1>2, <2>2
    <2>4. c \in Requests!Bucket /\ c.seen = at BY <1>4, <2>3 DEF Requests!Bucket
    <2> HIDE DEF c
    <2>5. [u EXCEPT ![k] = c] \in [Users -> Requests!Bucket \cup {None}] BY <1>5, <2>4
    <2>6. \A j \in Users : [u EXCEPT ![k] = c][j] # None => [u EXCEPT ![k] = c][j].seen <= at
      BY <1>5, <1>6, <2>4 DEF RequestTable
    <2> QED BY <1>6, <2>1, <2>5, <2>6 DEF RequestTable, Requests!Tables
  <1>8. CASE ~Requests!HasToken(u, k) BY <1>6, <1>8 DEF Requests!Charged
  <1> QED BY <1>6, <1>7, <1>8

-----------------------------------------------------------------------------
(* The inductive invariant. *)

Requested == [pc : PCs, peer : Peers \cup {None}, user : Users \cup {None}]
InService == {"serving", "leaveUser"}
Holders == {w \in Workers : req[w].pc \in Holding}
ServedFor(u) == {w \in Workers : req[w].pc \in InService /\ req[w].user = u}

(* A request past its arrival has a peer, and one past authentication a user: *)
(* the tables are asked about keys they may have.                             *)
LocalOK(r) ==
    /\ r.pc # "idle" => r.peer \in Peers
    /\ r.pc \in {"rate", "slot", "serving", "leaveUser"} => r.user \in Users
Locals == \A w \in Workers : LocalOK(req[w])

TablesOK == FailureTable(failures, clock) /\ RequestTable(requests, clock)

GlobalCounted == global = Cardinality(Holders) /\ global <= MaxConcurrent
UsersCounted == \A u \in Users : users[u] = Cardinality(ServedFor(u)) /\ users[u] <= PerUser

IInv == TypeOK /\ Locals /\ TablesOK /\ GlobalCounted /\ UsersCounted

-----------------------------------------------------------------------------
(* Counting requests while one of them moves. *)

LEMMA SetsFinite ==
    /\ IsFiniteSet(Holders) /\ Cardinality(Holders) \in Nat
    /\ \A u : IsFiniteSet(ServedFor(u)) /\ Cardinality(ServedFor(u)) \in Nat
  <1>1. Holders \subseteq Workers /\ \A u : ServedFor(u) \subseteq Workers BY DEF Holders, ServedFor
  <1>2. IsFiniteSet(Holders) /\ \A u : IsFiniteSet(ServedFor(u)) BY <1>1, GateAssumption, FS_Subset
  <1> QED BY <1>2, FS_CardinalityType

(* Goroutine w is the only one whose request changes. *)
Moves(w) ==
    /\ req' \in [Workers -> Requested]
    /\ \A v \in Workers : v # w => req'[v] = req[v]

LEMMA GotoMoves ==
    ASSUME TypeOK, NEW w \in Workers, NEW pc \in PCs, Goto(w, pc)
    PROVE  /\ Moves(w)
           /\ req'[w].pc = pc /\ req'[w].peer = req[w].peer /\ req'[w].user = req[w].user
  <1>1. req \in [Workers -> Requested] BY DEF TypeOK, Requested
  <1>2. req'[w] = [req[w] EXCEPT !.pc = pc] /\ \A v \in Workers : v # w => req'[v] = req[v]
    BY <1>1 DEF Goto
  <1>3. req[w] \in Requested BY <1>1
  <1>4. req'[w] \in Requested /\ req'[w].pc = pc /\ req'[w].peer = req[w].peer /\ req'[w].user = req[w].user
    BY <1>2, <1>3 DEF Requested
  <1>5. req' \in [Workers -> Requested] BY <1>1, <1>2, <1>4 DEF Goto
  <1> QED BY <1>2, <1>4, <1>5 DEF Moves

LEMMA HoldersMoved ==
    ASSUME NEW w \in Workers, Moves(w)
    PROVE  Cardinality(Holders') = Cardinality(Holders) + (IF req'[w].pc \in Holding THEN 1 ELSE 0)
                                                       - (IF req[w].pc \in Holding THEN 1 ELSE 0)
  <1>1. \A v \in Workers : v # w => (v \in Holders' <=> v \in Holders) BY DEF Moves, Holders
  <1>2. (w \in Holders <=> req[w].pc \in Holding) /\ (w \in Holders' <=> req'[w].pc \in Holding) BY DEF Holders
  <1>3. Holders \subseteq Workers /\ Holders' \subseteq Workers BY DEF Holders
  <1>4. Holders' = IF req'[w].pc \in Holding THEN Holders \cup {w} ELSE Holders \ {w} BY <1>1, <1>2, <1>3
  <1>5. /\ Cardinality(Holders) \in Nat
        /\ Cardinality(Holders \cup {w}) = IF w \in Holders THEN Cardinality(Holders) ELSE Cardinality(Holders) + 1
        /\ Cardinality(Holders \ {w}) = IF w \in Holders THEN Cardinality(Holders) - 1 ELSE Cardinality(Holders)
    BY SetsFinite, FS_AddElement, FS_RemoveElement
  <1> QED BY <1>2, <1>4, <1>5

IsServed(r, u) == r.pc \in InService /\ r.user = u

LEMMA ServedMoved ==
    ASSUME NEW w \in Workers, Moves(w), NEW u
    PROVE  Cardinality(ServedFor(u)') = Cardinality(ServedFor(u)) + (IF IsServed(req'[w], u) THEN 1 ELSE 0)
                                                              - (IF IsServed(req[w], u) THEN 1 ELSE 0)
  <1>1. \A v \in Workers : v # w => (v \in ServedFor(u)' <=> v \in ServedFor(u)) BY DEF Moves, ServedFor
  <1>2. (w \in ServedFor(u) <=> IsServed(req[w], u)) /\ (w \in ServedFor(u)' <=> IsServed(req'[w], u))
    BY DEF ServedFor, IsServed
  <1>3. ServedFor(u) \subseteq Workers /\ ServedFor(u)' \subseteq Workers BY DEF ServedFor
  <1>4. ServedFor(u)' = IF IsServed(req'[w], u) THEN ServedFor(u) \cup {w} ELSE ServedFor(u) \ {w} BY <1>1, <1>2, <1>3
  <1>5. /\ Cardinality(ServedFor(u)) \in Nat
        /\ Cardinality(ServedFor(u) \cup {w}) =
             IF w \in ServedFor(u) THEN Cardinality(ServedFor(u)) ELSE Cardinality(ServedFor(u)) + 1
        /\ Cardinality(ServedFor(u) \ {w}) =
             IF w \in ServedFor(u) THEN Cardinality(ServedFor(u)) - 1 ELSE Cardinality(ServedFor(u))
    BY SetsFinite, FS_AddElement, FS_RemoveElement
  <1>6. Cardinality(ServedFor(u)') =
          Cardinality(IF IsServed(req'[w], u) THEN ServedFor(u) \cup {w} ELSE ServedFor(u) \ {w}) BY <1>4
  <1> QED BY <1>2, <1>5, <1>6

(* Nobody enters or leaves service, or the set of slots. *)
LEMMA CountsKept ==
    ASSUME IInv, NEW w \in Workers, Moves(w), global' = global, users' = users,
           req'[w].pc \in Holding <=> req[w].pc \in Holding,
           \A u \in Users : IsServed(req'[w], u) <=> IsServed(req[w], u)
    PROVE  GlobalCounted' /\ UsersCounted'
  <1>1. Cardinality(Holders') = Cardinality(Holders) BY SetsFinite, HoldersMoved
  <1>2. \A u \in Users : Cardinality(ServedFor(u)') = Cardinality(ServedFor(u)) BY SetsFinite, ServedMoved
  <1>3. GlobalCounted' BY <1>1 DEF IInv, GlobalCounted
  <1>4. UsersCounted' BY <1>2 DEF IInv, UsersCounted
  <1> QED BY <1>3, <1>4

-----------------------------------------------------------------------------
(* The steps. *)

(* All of the invariant but the counts, when one request moves. *)
LEMMA RestKept ==
    ASSUME IInv, NEW w \in Workers, Moves(w), LocalOK(req'[w]), clock' = clock,
           failures' = failures \/ FailureTable(failures', clock),
           requests' = requests \/ RequestTable(requests', clock),
           failed' = failed \/ failed' = [failed EXCEPT ![req[w].peer] = @ + 1],
           req[w].pc = "idle" => failed' = failed,
           global' \in Nat, users' \in [Users -> Nat]
    PROVE  TypeOK' /\ Locals' /\ TablesOK'
  <1>1. FailureTable(failures', clock) /\ RequestTable(requests', clock) BY DEF IInv, TablesOK
  <1>2. TablesOK' BY <1>1 DEF TablesOK, FailureTable, RequestTable
  <1>3. failures' \in Failures!Tables /\ requests' \in Requests!Tables BY <1>1 DEF FailureTable, RequestTable
  <1>4. Locals' BY DEF IInv, Locals, Moves
  <1>5. req[w].pc = "idle" \/ req[w].peer \in Peers BY DEF IInv, Locals, LocalOK
  <1>6. failed' \in [Peers -> Nat] BY <1>5 DEF IInv, TypeOK
  <1>7. clock' \in Nat BY DEF IInv, TypeOK
  <1> QED BY <1>2, <1>3, <1>4, <1>6, <1>7 DEF TypeOK, Moves, Requested

LEMMA CountsTyped ==
    ASSUME IInv
    PROVE  /\ global \in Nat /\ users \in [Users -> Nat]
           /\ \A w \in Workers : req[w].pc \in Holding => global - 1 \in Nat
           /\ \A w \in Workers : req[w].pc \in InService => users[req[w].user] - 1 \in Nat
  <1>1. global \in Nat /\ users \in [Users -> Nat] BY DEF IInv, TypeOK
  <1>2. ASSUME NEW w \in Workers, req[w].pc \in Holding PROVE global - 1 \in Nat
    <2>1. w \in Holders BY <1>2 DEF Holders
    <2>2. Cardinality(Holders) # 0 BY <2>1, SetsFinite, FS_EmptySet
    <2> QED BY <2>2, SetsFinite DEF IInv, GlobalCounted
  <1>3. ASSUME NEW w \in Workers, req[w].pc \in InService PROVE users[req[w].user] - 1 \in Nat
    <2>1. w \in ServedFor(req[w].user) BY <1>3 DEF ServedFor
    <2>2. Cardinality(ServedFor(req[w].user)) # 0 BY <2>1, SetsFinite, FS_EmptySet
    <2>3. req[w].user \in Users BY <1>3 DEF IInv, Locals, LocalOK, InService
    <2> QED BY <2>2, <2>3, SetsFinite DEF IInv, UsersCounted
  <1> QED BY <1>1, <1>2, <1>3

(* Requests that move among the places that hold a slot, or among those that *)
(* hold none, and outside of the transport.                                  *)
LEMMA QuietStep ==
    ASSUME IInv, NEW w \in Workers,
           \/ \E p \in Peers : Arrive(w, p)
           \/ Unguarded(w) \/ InternalReply(w) \/ Bearer(w) \/ Authenticated(w)
           \/ Penalize(w) \/ Rate(w) \/ Served(w) \/ Done(w)
    PROVE  IInv'
  <1> USE DEF At
  <1>0. /\ TypeOK /\ LocalOK(req[w]) /\ req \in [Workers -> Requested]
        /\ FailureTable(failures, clock) /\ RequestTable(requests, clock) /\ clock \in Nat
    BY DEF IInv, Locals, TablesOK, TypeOK, Requested
  (* What is left to show of each step: where the request goes. *)
  <1>1. ASSUME Moves(w), LocalOK(req'[w]), UNCHANGED <<clock, global, users>>,
               failures' = failures \/ FailureTable(failures', clock),
               requests' = requests \/ RequestTable(requests', clock),
               failed' = failed \/ failed' = [failed EXCEPT ![req[w].peer] = @ + 1],
               req[w].pc = "idle" => failed' = failed,
               req'[w].pc \in Holding <=> req[w].pc \in Holding,
               \A u \in Users : IsServed(req'[w], u) <=> IsServed(req[w], u)
        PROVE  IInv'
    <2>1. TypeOK' /\ Locals' /\ TablesOK' BY <1>1, CountsTyped, RestKept
    <2>2. GlobalCounted' /\ UsersCounted' BY <1>1, CountsKept
    <2> QED BY <2>1, <2>2 DEF IInv
  <1>2. ASSUME NEW p \in Peers, Arrive(w, p) PROVE IInv'
    <2>1. PICK table \in Failures!Touched(failures, p, clock), pc \in {"admitted", "done"} :
             /\ failures' = table
             /\ req' = [req EXCEPT ![w] = [pc |-> pc, peer |-> p, user |-> None]]
      BY <1>2 DEF Arrive, Idle
    <2>2. FailureTable(failures', clock) BY <1>0, <2>1, FailureTouched
    <2>3. req'[w] = [pc |-> pc, peer |-> p, user |-> None] /\ \A v \in Workers : v # w => req'[v] = req[v]
      BY <1>0, <2>1
    <2>4. [pc |-> pc, peer |-> p, user |-> None] \in Requested BY DEF Requested, PCs
    <2>5. Moves(w) BY <1>0, <2>1, <2>3, <2>4 DEF Moves
    <2>6. LocalOK(req'[w]) BY <2>3 DEF LocalOK
    <2>7. req[w].pc = "idle" /\ failed' = failed /\ requests' = requests /\ UNCHANGED <<clock, global, users>>
      BY <1>2 DEF Arrive
    <2> QED BY <1>1, <2>2, <2>3, <2>5, <2>6, <2>7 DEF Holding, IsServed, InService
  <1>3. CASE Unguarded(w)
    <2>1. Goto(w, "done") BY <1>3 DEF Unguarded
    <2> QED BY <1>0, <1>1, <1>3, <2>1, GotoMoves DEF Unguarded, PCs, Holding, LocalOK, IsServed, InService
  <1>4. CASE InternalReply(w) \/ Bearer(w)
    <2>1. PICK pc \in {"leave", "penalize", "auth"} : Goto(w, pc) BY <1>4 DEF InternalReply, Bearer
    <2>2. req[w].pc \in {"internal", "bearer"} /\ UNCHANGED <<clock, global, users, failures, requests>>
      BY <1>4 DEF InternalReply, Bearer
    <2>3. failed' = failed \/ failed' = [failed EXCEPT ![req[w].peer] = @ + 1] BY <1>4 DEF InternalReply, Bearer
    <2> QED BY <1>0, <1>1, <2>1, <2>2, <2>3, GotoMoves DEF PCs, Holding, LocalOK, IsServed, InService
  <1>5. CASE Authenticated(w)
    <2>1. req[w].pc = "auth" /\ UNCHANGED <<clock, global, users, failures, requests>> BY <1>5 DEF Authenticated
    <2>2. CASE \E u \in Users : req' = [req EXCEPT ![w].pc = "rate", ![w].user = u] /\ UNCHANGED failed
      <3>1. PICK u \in Users : req' = [req EXCEPT ![w].pc = "rate", ![w].user = u] /\ failed' = failed BY <2>2
      <3>2. req'[w] = [req[w] EXCEPT !.pc = "rate", !.user = u] /\ \A v \in Workers : v # w => req'[v] = req[v]
        BY <1>0, <3>1
      <3>3. req[w] \in Requested BY <1>0
      <3>4. req'[w] \in Requested /\ req'[w].pc = "rate" /\ req'[w].user = u /\ req'[w].peer = req[w].peer
        BY <3>2, <3>3 DEF Requested, PCs, Holding
      <3>5. DOMAIN req' = Workers /\ req' = [v \in Workers |-> req'[v]] BY <1>0, <3>1
      <3>6. Moves(w) BY <1>0, <3>2, <3>4, <3>5 DEF Moves
      <3>7. LocalOK(req'[w]) BY <1>0, <2>1, <3>4 DEF LocalOK
      <3> QED BY <1>1, <2>1, <3>1, <3>4, <3>6, <3>7 DEF Holding, IsServed, InService
    <2>3. CASE Goto(w, "penalize") /\ failed' = [failed EXCEPT ![req[w].peer] = @ + 1]
      BY <1>0, <1>1, <2>1, <2>3, GotoMoves DEF PCs, Holding, LocalOK, IsServed, InService
    <2>4. CASE Goto(w, "leave") /\ failed' = failed
      BY <1>0, <1>1, <2>1, <2>4, GotoMoves DEF PCs, Holding, LocalOK, IsServed, InService
    <2> QED BY <1>5, <2>2, <2>3, <2>4 DEF Authenticated
  <1>6. CASE Penalize(w)
    <2>1. PICK table \in Failures!Touched(failures, req[w].peer, clock) :
             failures' = Failures!Charged(table, req[w].peer)
      BY <1>6 DEF Penalize
    <2>2. /\ req[w].pc = "penalize" /\ Goto(w, "leave") /\ UNCHANGED <<clock, global, users, requests, failed>>
      BY <1>6 DEF Penalize
    <2>3. req[w].peer \in Peers BY <1>0, <2>2 DEF LocalOK
    <2>4. FailureTable(failures', clock) BY <1>0, <2>1, <2>3, FailureTouched
    <2> QED BY <1>0, <1>1, <2>2, <2>4, GotoMoves DEF PCs, Holding, LocalOK, IsServed, InService
  <1>7. CASE Rate(w)
    <2>1. PICK table \in Requests!Touched(requests, req[w].user, clock), pc \in {"slot", "leave"} :
             requests' = Requests!Charged(table, req[w].user) /\ Goto(w, pc)
      BY <1>7 DEF Rate
    <2>2. req[w].pc = "rate" /\ UNCHANGED <<clock, global, users, failures, failed>> BY <1>7 DEF Rate
    <2>3. req[w].user \in Users BY <1>0, <2>2 DEF LocalOK
    <2>4. RequestTable(requests', clock) BY <1>0, <2>1, <2>3, RequestTouched
    <2> QED BY <1>0, <1>1, <2>1, <2>2, <2>4, GotoMoves DEF PCs, Holding, LocalOK, IsServed, InService
  <1>8. CASE Served(w)
    <2>1. /\ req[w].pc = "serving" /\ Goto(w, "leaveUser")
          /\ UNCHANGED <<clock, global, users, failures, requests, failed>>
      BY <1>8 DEF Served
    <2> QED BY <1>0, <1>1, <2>1, GotoMoves DEF PCs, Holding, LocalOK, IsServed, InService
  <1>9. CASE Done(w)
    <2>1. req'[w] = Idle /\ \A v \in Workers : v # w => req'[v] = req[v] BY <1>0, <1>9 DEF Done
    <2>2. Idle \in Requested BY DEF Idle, Requested, PCs
    <2>3. Moves(w) BY <1>0, <1>9, <2>1, <2>2 DEF Moves, Done
    <2>4. req[w].pc = "done" /\ UNCHANGED <<clock, global, users, failures, requests, failed>> BY <1>9 DEF Done
    <2> QED BY <1>1, <2>1, <2>3, <2>4 DEF Idle, Holding, LocalOK, IsServed, InService
  <1> QED BY <1>2, <1>3, <1>4, <1>5, <1>6, <1>7, <1>8, <1>9
(* The four steps that take or return a slot, or are refused one. *)
LEMMA CountedStep ==
    ASSUME IInv, NEW w \in Workers, TakeGlobal(w) \/ TakeUserSlot(w) \/ LeaveUser(w) \/ Leave(w)
    PROVE  IInv'
  <1> USE DEF At
  <1>0. /\ TypeOK /\ LocalOK(req[w])
        /\ global \in Nat /\ users \in [Users -> Nat] /\ MaxConcurrent \in Nat /\ PerUser \in Nat
    BY GateAssumption DEF IInv, Locals, TypeOK
  (* What is left to show of each step: where the request goes, and the counts. *)
  <1>1. ASSUME NEW pc \in PCs, Goto(w, pc), LocalOK(req'[w]), UNCHANGED <<clock, failures, requests, failed>>,
               global' \in Nat, users' \in [Users -> Nat], GlobalCounted', UsersCounted'
        PROVE  IInv'
    BY <1>0, <1>1, GotoMoves, RestKept DEF IInv
  <1>2. CASE TakeGlobal(w)
    <2>1. req[w].pc = "admitted" /\ UNCHANGED <<clock, users, failures, requests, failed>> BY <1>2 DEF TakeGlobal
    <2>2. ASSUME NEW pc \in {"internal", "bearer"}, Goto(w, pc), global < MaxConcurrent, global' = global + 1
          PROVE  IInv'
      <3>1. pc \in PCs /\ pc \in Holding BY DEF PCs, Holding
      <3>2. Moves(w) /\ req'[w].pc = pc /\ req'[w].peer = req[w].peer BY <1>0, <2>2, <3>1, GotoMoves
      <3>3. "admitted" \notin Holding BY DEF Holding
      <3>4. Cardinality(Holders') = Cardinality(Holders) + 1
        BY <2>1, <3>1, <3>2, <3>3, SetsFinite, HoldersMoved
      <3>5. GlobalCounted' BY <1>0, <2>2, <3>4 DEF IInv, GlobalCounted
      <3>6. UsersCounted'
        BY <2>1, <2>2, <3>2, ServedMoved, SetsFinite DEF IsServed, InService, IInv, UsersCounted
      <3>7. LocalOK(req'[w]) BY <1>0, <2>1, <2>2, <3>2 DEF LocalOK
      <3> QED BY <1>0, <1>1, <2>1, <2>2, <3>1, <3>5, <3>6, <3>7
    <2>3. CASE Goto(w, "done") /\ UNCHANGED global
      <3>1. Moves(w) /\ req'[w].pc = "done" /\ req'[w].peer = req[w].peer BY <1>0, <2>3, GotoMoves DEF PCs
      <3>2. GlobalCounted' /\ UsersCounted'
        BY <2>1, <2>3, <3>1, CountsKept DEF IsServed, InService, Holding
      <3>3. LocalOK(req'[w]) BY <1>0, <2>1, <3>1 DEF LocalOK
      <3> QED BY <1>0, <1>1, <2>1, <2>3, <3>2, <3>3 DEF PCs
    <2> QED BY <1>2, <2>2, <2>3 DEF TakeGlobal
  <1>3. CASE TakeUserSlot(w)
    <2> DEFINE u == req[w].user
    <2>1. /\ req[w].pc = "slot" /\ UNCHANGED <<clock, global, failures, requests, failed>> /\ u \in Users
      BY <1>0, <1>3 DEF TakeUserSlot, LocalOK
    <2>2. CASE Goto(w, "serving") /\ users[u] < PerUser /\ users' = [users EXCEPT ![u] = @ + 1]
      <3>1. Moves(w) /\ req'[w].pc = "serving" /\ req'[w].peer = req[w].peer /\ req'[w].user = u
        BY <1>0, <2>2, GotoMoves DEF PCs, Holding
      <3>2. GlobalCounted' BY <2>1, <3>1, HoldersMoved, SetsFinite DEF Holding, IInv, GlobalCounted
      <3>3. ASSUME NEW v \in Users
            PROVE  Cardinality(ServedFor(v)') = Cardinality(ServedFor(v)) + (IF v = u THEN 1 ELSE 0)
        BY <2>1, <3>1, ServedMoved, SetsFinite DEF IsServed, InService
      <3>4. users' \in [Users -> Nat] /\ \A v \in Users : users'[v] = users[v] + (IF v = u THEN 1 ELSE 0)
        BY <1>0, <2>1, <2>2
      <3>5. UsersCounted'
        <4> SUFFICES ASSUME NEW v \in Users
                     PROVE  users'[v] = Cardinality(ServedFor(v)') /\ users'[v] <= PerUser
          BY DEF UsersCounted
        <4>1. users[v] = Cardinality(ServedFor(v)) /\ users[v] <= PerUser BY DEF IInv, UsersCounted
        <4> QED BY <1>0, <2>2, <3>3, <3>4, <4>1
      <3>6. LocalOK(req'[w]) BY <1>0, <2>1, <3>1 DEF LocalOK
      <3> QED BY <1>0, <1>1, <2>1, <2>2, <3>2, <3>4, <3>5, <3>6 DEF PCs, Holding
    <2>3. CASE Goto(w, "leave") /\ UNCHANGED users
      <3>1. Moves(w) /\ req'[w].pc = "leave" /\ req'[w].peer = req[w].peer
        BY <1>0, <2>3, GotoMoves DEF PCs, Holding
      <3>2. GlobalCounted' /\ UsersCounted'
        BY <2>1, <2>3, <3>1, CountsKept DEF IsServed, InService, Holding
      <3>3. LocalOK(req'[w]) BY <1>0, <2>1, <3>1 DEF LocalOK
      <3> QED BY <1>0, <1>1, <2>1, <2>3, <3>2, <3>3 DEF PCs, Holding
    <2> QED BY <1>3, <2>2, <2>3 DEF TakeUserSlot
  <1>4. CASE LeaveUser(w)
    <2> DEFINE u == req[w].user
    <2>1. /\ req[w].pc = "leaveUser" /\ UNCHANGED <<clock, global, failures, requests, failed>> /\ u \in Users
          /\ Goto(w, "leave") /\ users' = [users EXCEPT ![u] = @ - 1]
      BY <1>0, <1>4 DEF LeaveUser, LocalOK
    <2>2. Moves(w) /\ req'[w].pc = "leave" /\ req'[w].peer = req[w].peer
      BY <1>0, <2>1, GotoMoves DEF PCs, Holding
    <2>3. GlobalCounted' BY <2>1, <2>2, HoldersMoved, SetsFinite DEF Holding, IInv, GlobalCounted
    <2>4. ASSUME NEW v \in Users
          PROVE  Cardinality(ServedFor(v)') = Cardinality(ServedFor(v)) - (IF v = u THEN 1 ELSE 0)
      BY <2>1, <2>2, ServedMoved, SetsFinite DEF IsServed, InService
    <2>5. users[u] - 1 \in Nat BY <2>1, CountsTyped DEF InService
    <2>6. users' \in [Users -> Nat] /\ \A v \in Users : users'[v] = users[v] - (IF v = u THEN 1 ELSE 0)
      BY <1>0, <2>1, <2>5
    <2>7. UsersCounted'
      <3> SUFFICES ASSUME NEW v \in Users
                   PROVE  users'[v] = Cardinality(ServedFor(v)') /\ users'[v] <= PerUser
        BY DEF UsersCounted
      <3>1. users[v] = Cardinality(ServedFor(v)) /\ users[v] <= PerUser /\ users[v] \in Nat
        BY <1>0 DEF IInv, UsersCounted
      <3> QED BY <1>0, <2>4, <2>6, <3>1
    <2>8. LocalOK(req'[w]) BY <1>0, <2>1, <2>2 DEF LocalOK
    <2> QED BY <1>0, <1>1, <2>1, <2>3, <2>6, <2>7, <2>8 DEF PCs, Holding
  <1>5. CASE Leave(w)
    <2>1. /\ req[w].pc = "leave" /\ UNCHANGED <<clock, users, failures, requests, failed>>
          /\ Goto(w, "done") /\ global' = global - 1
      BY <1>5 DEF Leave
    <2>2. Moves(w) /\ req'[w].pc = "done" /\ req'[w].peer = req[w].peer BY <1>0, <2>1, GotoMoves DEF PCs
    <2>3. Cardinality(Holders') = Cardinality(Holders) - 1
      BY <2>1, <2>2, HoldersMoved, SetsFinite DEF Holding
    <2>4. global - 1 \in Nat BY <2>1, CountsTyped DEF Holding
    <2>5. GlobalCounted' BY <1>0, <2>1, <2>3 DEF IInv, GlobalCounted
    <2>6. UsersCounted' BY <2>1, <2>2, ServedMoved, SetsFinite DEF IsServed, InService, IInv, UsersCounted
    <2>7. LocalOK(req'[w]) BY <1>0, <2>1, <2>2 DEF LocalOK
    <2> QED BY <1>0, <1>1, <2>1, <2>4, <2>5, <2>6, <2>7 DEF PCs
  <1> QED BY <1>2, <1>3, <1>4, <1>5

(* Time passes: the tables were last used no later than now. *)
LEMMA TickStep ==
    ASSUME IInv, Tick
    PROVE  IInv'
  <1>1. UNCHANGED <<global, users, failures, requests, req, failed>> /\ clock \in Nat /\ clock' = clock + 1
    BY DEF Tick, IInv, TypeOK
  <1>2. ASSUME NEW k \in Peers, failures[k] # None PROVE failures[k].seen <= clock + 1
    <2>1. failures[k] \in Failures!Bucket /\ failures[k].seen <= clock
      BY <1>2 DEF IInv, TablesOK, FailureTable, Failures!Tables
    <2> QED BY <1>1, <2>1 DEF Failures!Bucket
  <1>3. ASSUME NEW k \in Users, requests[k] # None PROVE requests[k].seen <= clock + 1
    <2>1. requests[k] \in Requests!Bucket /\ requests[k].seen <= clock
      BY <1>3 DEF IInv, TablesOK, RequestTable, Requests!Tables
    <2> QED BY <1>1, <2>1 DEF Requests!Bucket
  <1>4. TablesOK' BY <1>1, <1>2, <1>3 DEF IInv, TablesOK, FailureTable, RequestTable
  <1>5. TypeOK' BY <1>1 DEF IInv, TypeOK
  <1>6. Locals' BY <1>1 DEF IInv, Locals
  <1>7. GlobalCounted' /\ UsersCounted' BY <1>1 DEF IInv, GlobalCounted, UsersCounted, Holders, ServedFor
  <1> QED BY <1>4, <1>5, <1>6, <1>7 DEF IInv

LEMMA Stutter == IInv /\ UNCHANGED vars => IInv'
  <1> SUFFICES ASSUME IInv, UNCHANGED vars PROVE IInv' OBVIOUS
  <1>1. UNCHANGED <<clock, global, users, failures, requests, req, failed>> BY DEF vars
  <1>2. TypeOK' BY <1>1 DEF IInv, TypeOK
  <1>3. TablesOK' BY <1>1 DEF IInv, TablesOK, FailureTable, RequestTable
  <1>4. Locals' BY <1>1 DEF IInv, Locals
  <1>5. GlobalCounted' /\ UsersCounted' BY <1>1 DEF IInv, GlobalCounted, UsersCounted, Holders, ServedFor
  <1> QED BY <1>2, <1>3, <1>4, <1>5 DEF IInv

(* At the start no request holds a slot and no table has a bucket. *)
LEMMA Start == Init => IInv
  <1> SUFFICES ASSUME Init PROVE IInv OBVIOUS
  <1>1. \A w \in Workers : req[w] = Idle BY DEF Init
  <1>2. Holders = {} /\ \A u : ServedFor(u) = {} BY <1>1 DEF Holders, ServedFor, Idle, Holding, InService
  <1>3. Cardinality(Holders) = 0 /\ \A u : Cardinality(ServedFor(u)) = 0 BY <1>2, FS_EmptySet
  <1>4. GlobalCounted /\ UsersCounted BY <1>3, GateAssumption DEF Init, GlobalCounted, UsersCounted
  <1>5. Locals BY <1>1 DEF Locals, LocalOK, Idle
  <1>6. failures = [k \in Peers |-> None] /\ requests = [k \in Users |-> None]
    BY DEF Init, Failures!Empty, Requests!Empty
  <1>7. TablesOK BY <1>6 DEF TablesOK, FailureTable, RequestTable, Failures!Tables, Requests!Tables
  <1>8. Idle \in Requested BY DEF Idle, Requested, PCs
  <1>9. req \in [Workers -> Requested] BY <1>8 DEF Init
  <1>10. failures \in Failures!Tables /\ requests \in Requests!Tables BY <1>7 DEF TablesOK, FailureTable, RequestTable
  <1>11. TypeOK BY <1>9, <1>10 DEF Init, TypeOK, Requested
  <1> QED BY <1>4, <1>5, <1>7, <1>11 DEF IInv

-----------------------------------------------------------------------------
(* Every request is where its peer and its user are known, no bucket is from *)
(* the future, and both counts are those of the requests in progress.        *)
THEOREM Invariance == Spec => []IInv
  <1>1. IInv /\ [Next]_vars => IInv'
    <2> SUFFICES ASSUME IInv, [Next]_vars PROVE IInv' OBVIOUS
    <2>1. CASE \E w \in Workers : Handle(w) \/ \E p \in Peers : Arrive(w, p)
      BY <2>1, QuietStep, CountedStep DEF Handle
    <2> QED BY <2>1, TickStep, Stutter DEF Next
  <1> QED BY Start, <1>1, PTL DEF Spec

(* However many requests run at once, and however each of them ends, the     *)
(* slots taken are those of the requests in progress: the limits hold, and   *)
(* no slot is lost or returned twice (the deferred releases of ServeHTTP).   *)
THEOREM SlotsAreAccounted == Spec => []SlotsAccounted
  <1>1. IInv => SlotsAccounted
    BY DEF IInv, SlotsAccounted, GlobalCounted, UsersCounted, Holders, ServedFor, InService
  <1> QED BY <1>1, Invariance, PTL

-----------------------------------------------------------------------------
(* The budget of authentication failures. *)

(* What peer p could spend now. *)
Level(p) == Failures!Level(failures, p, clock)

(* The requests of p that its budget let in and whose credential may still be, *)
(* or has just been, rejected.                                                 *)
Exposed == {"admitted", "internal", "bearer", "auth", "penalize"}
InFlight(p) == {w \in Workers : req[w].peer = p /\ req[w].pc \in Exposed}
Rejected(p) == {w \in Workers : req[w].peer = p /\ req[w].pc = "penalize"}

(* No bucket is dropped before it has recovered: there is one for every peer. *)
Roomy == Cardinality(Peers) <= MaxKeys

LEMMA FailuresTyped == Failures!Full \in Nat /\ FailLimit \in Nat /\ Window \in Nat \ {0} /\ None \notin Failures!Bucket
  BY GateAssumption DEF Failures!Full, Failures!Bucket

LEMMA BucketRecovers ==
    ASSUME NEW at \in Nat, NEW e \in Failures!Bucket, e.seen <= at
    PROVE  /\ e.seen = at => Failures!Recovered(e, at) = e.tokens
           /\ Failures!Recovered(e, at + 1) =
                IF Failures!Recovered(e, at) + FailLimit < Failures!Full
                THEN Failures!Recovered(e, at) + FailLimit ELSE Failures!Full
  <1> DEFINE gain == (at - e.seen) * FailLimit
  <1>1. e.tokens \in Nat /\ e.tokens <= Failures!Full /\ e.seen \in Nat BY FailuresTyped DEF Failures!Bucket
  <1>2. gain \in Nat BY <1>1, FailuresTyped
  <1>3. ((at + 1) - e.seen) * FailLimit = gain + FailLimit
    <2>1. ASSUME NEW d \in Nat, NEW m \in Nat PROVE (d + 1) * m = d * m + m OBVIOUS
    <2>2. at - e.seen \in Nat /\ (at + 1) - e.seen = (at - e.seen) + 1 BY <1>1
    <2> QED BY <2>1, <2>2, FailuresTyped
  <1>4. e.seen = at => gain = 0 BY FailuresTyped
  <1>5. Failures!Recovered(e, at) = IF e.tokens + gain < Failures!Full THEN e.tokens + gain ELSE Failures!Full
    BY DEF Failures!Recovered
  <1>6. Failures!Recovered(e, at + 1) =
          IF e.tokens + (gain + FailLimit) < Failures!Full THEN e.tokens + (gain + FailLimit) ELSE Failures!Full
    BY <1>3 DEF Failures!Recovered
  <1> HIDE DEF gain
  <1> QED BY <1>1, <1>2, <1>4, <1>5, <1>6, FailuresTyped

LEMMA LevelTyped ==
    ASSUME NEW at \in Nat, NEW t, FailureTable(t, at), NEW j \in Peers
    PROVE  /\ Failures!Level(t, j, at) \in 0 .. Failures!Full
           /\ Failures!Level(t, j, at + 1) =
                IF Failures!Level(t, j, at) + FailLimit < Failures!Full
                THEN Failures!Level(t, j, at) + FailLimit ELSE Failures!Full
  <1>1. CASE t[j] = None BY <1>1, FailuresTyped DEF Failures!Level
  <1>2. CASE t[j] # None
    <2>1. t[j] \in Failures!Bucket /\ t[j].seen <= at BY <1>2 DEF FailureTable, Failures!Tables
    <2> QED BY <1>2, <2>1, BucketRecovers, FailureRecovers DEF Failures!Level
  <1> QED BY <1>1, <1>2

(* The cardinality that the table of failures counts its buckets with. *)
LEMMA SameCount == ASSUME NEW S PROVE Failures!Cardinality(S) = Cardinality(S)
  BY DEF Failures!Cardinality, Cardinality

(* Looking at a budget takes nothing from anyone; it may give a peer whose *)
(* bucket is dropped a full one, but not when there is room for all.       *)
LEMMA TouchedLevels ==
    ASSUME NEW at \in Nat, NEW t, FailureTable(t, at), NEW k \in Peers, NEW u \in Failures!Touched(t, k, at)
    PROVE  /\ u[k] = [tokens |-> Failures!Level(t, k, at), seen |-> at]
           /\ \A j \in Peers \ {k} : u[j] \in {t[j], None}
           /\ Roomy => \A j \in Peers \ {k} : u[j] = t[j]
  <1> DEFINE b == [tokens |-> Failures!Level(t, k, at), seen |-> at]
  <1>1. t \in [Peers -> Failures!Bucket \cup {None}] BY DEF FailureTable, Failures!Tables
  <1>2. CASE t[k] # None
    <2>1. u = [t EXCEPT ![k] = b] BY <1>2 DEF Failures!Touched, Failures!Level
    <2> HIDE DEF b
    <2>2. u[k] = b /\ \A j \in Peers \ {k} : u[j] = t[j] BY <1>1, <2>1
    <2> QED BY <2>2 DEF b
  <1>3. CASE t[k] = None
    <2>1. b = [tokens |-> Failures!Full, seen |-> at] BY <1>3 DEF Failures!Level
    <2>2. PICK s \in Failures!Evicted(t, at) : u = [s EXCEPT ![k] = b] BY <1>3, <2>1 DEF Failures!Touched
    <2>3. s = t \/ \E S : s = Failures!Keep(t, S) BY <2>2 DEF Failures!Evicted
    <2>4. DOMAIN s = Peers /\ \A j \in Peers : s[j] \in {t[j], None} BY <1>1, <2>3 DEF Failures!Keep
    <2>5. Roomy => s = t
      <3> SUFFICES ASSUME Roomy PROVE s = t OBVIOUS
      <3>1. Failures!Present(t) \subseteq Peers \ {k} BY <1>3 DEF Failures!Present
      <3>2. /\ IsFiniteSet(Peers) /\ Cardinality(Peers) \in Nat /\ MaxKeys \in Nat
            /\ IsFiniteSet(Peers \ {k}) /\ Cardinality(Peers \ {k}) = Cardinality(Peers) - 1
        BY GateAssumption, FS_CardinalityType, FS_RemoveElement
      <3>3. /\ Cardinality(Failures!Present(t)) <= Cardinality(Peers \ {k})
            /\ Cardinality(Failures!Present(t)) \in Nat
        BY <3>1, <3>2, FS_Subset, FS_CardinalityType
      <3>4. Cardinality(Failures!Present(t)) < MaxKeys BY <3>2, <3>3 DEF Roomy
      <3>5. Failures!Evicted(t, at) = {t} BY <3>4, SameCount DEF Failures!Evicted
      <3> QED BY <3>5
    <2> HIDE DEF b
    <2>6. u[k] = b /\ \A j \in Peers \ {k} : u[j] = s[j] BY <2>2, <2>4
    <2> QED BY <2>4, <2>5, <2>6 DEF b
  <1> QED BY <1>2, <1>3

LEMMA RoomyTouched ==
    ASSUME NEW at \in Nat, NEW t, FailureTable(t, at), NEW k \in Peers, NEW u \in Failures!Touched(t, k, at),
           Roomy, NEW j \in Peers, j # k
    PROVE  u[j] = t[j]
  <1>1. /\ u[k] = [tokens |-> Failures!Level(t, k, at), seen |-> at]
        /\ \A i \in Peers \ {k} : u[i] \in {t[i], None}
        /\ Roomy => \A i \in Peers \ {k} : u[i] = t[i]
    BY TouchedLevels
  <1> QED BY <1>1

Charge(n) == IF n >= Window THEN n - Window ELSE n

LEMMA ChargedLevels ==
    ASSUME NEW at \in Nat, NEW u \in [Peers -> Failures!Bucket \cup {None}], NEW k \in Peers, NEW n \in 0 .. Failures!Full,
           u[k] = [tokens |-> n, seen |-> at]
    PROVE  /\ Failures!Charged(u, k)[k] = [tokens |-> Charge(n), seen |-> at]
           /\ \A j \in Peers \ {k} : Failures!Charged(u, k)[j] = u[j]
           /\ Failures!HasToken(u, k) <=> n >= Window
           /\ Charge(n) \in 0 .. Failures!Full
  <1>0. Charge(n) \in 0 .. Failures!Full BY FailuresTyped DEF Charge
  <1>1. Failures!HasToken(u, k) <=> n >= Window BY DEF Failures!HasToken
  <1>2. CASE n >= Window
    <2> DEFINE c == [tokens |-> n - Window, seen |-> at]
    <2>1. Failures!Charged(u, k) = [u EXCEPT ![k] = c]
      <3>1. [u[k] EXCEPT !.tokens = @ - Window] = c OBVIOUS
      <3>2. Failures!Charged(u, k) = [u EXCEPT ![k] = [u[k] EXCEPT !.tokens = @ - Window]]
        BY <1>1, <1>2 DEF Failures!Charged, Failures!Spent
      <3> QED BY <3>1, <3>2
    <2>2. Charge(n) = n - Window BY <1>2 DEF Charge
    <2> HIDE DEF c
    <2>3. Failures!Charged(u, k)[k] = c /\ \A j \in Peers \ {k} : Failures!Charged(u, k)[j] = u[j] BY <2>1
    <2> QED BY <1>0, <1>1, <2>2, <2>3 DEF c
  <1>3. CASE ~(n >= Window)
    <2>1. Failures!Charged(u, k) = u /\ Charge(n) = n BY <1>1, <1>3 DEF Failures!Charged, Charge
    <2> QED BY <1>0, <1>1, <1>3, <2>1
  <1> QED BY <1>2, <1>3

-----------------------------------------------------------------------------
(* What a step does to the budget of a peer and to its requests in flight. *)

LEMMA CountMoved ==
    ASSUME NEW w \in Workers, NEW S, NEW T, S \subseteq Workers, T \subseteq Workers,
           \A v \in Workers : v # w => (v \in T <=> v \in S)
    PROVE  /\ Cardinality(S) \in Nat /\ Cardinality(T) \in Nat
           /\ Cardinality(T) = Cardinality(S) + (IF w \in T THEN 1 ELSE 0) - (IF w \in S THEN 1 ELSE 0)
  <1>1. IsFiniteSet(S) /\ IsFiniteSet(T) BY GateAssumption, FS_Subset
  <1>2. Cardinality(S) \in Nat /\ Cardinality(T) \in Nat BY <1>1, FS_CardinalityType
  <1>3. T = IF w \in T THEN S \cup {w} ELSE S \ {w} OBVIOUS
  <1>4. /\ Cardinality(S \cup {w}) = IF w \in S THEN Cardinality(S) ELSE Cardinality(S) + 1
        /\ Cardinality(S \ {w}) = IF w \in S THEN Cardinality(S) - 1 ELSE Cardinality(S)
    BY <1>1, FS_AddElement, FS_RemoveElement
  <1>5. CASE w \in T
    <2>1. T = S \cup {w} BY <1>3, <1>5
    <2> QED BY <1>2, <1>4, <1>5, <2>1
  <1>6. CASE w \notin T
    <2>1. T = S \ {w} BY <1>3, <1>6
    <2> QED BY <1>2, <1>4, <1>6, <2>1
  <1> QED BY <1>2, <1>5, <1>6

Flying(r, p) == r.peer = p /\ r.pc \in Exposed
Condemned(r, p) == r.peer = p /\ r.pc = "penalize"

LEMMA FlightMoved ==
    ASSUME NEW w \in Workers, Moves(w), NEW p \in Peers
    PROVE  /\ Cardinality(InFlight(p)) \in Nat /\ Cardinality(InFlight(p)') \in Nat
           /\ Cardinality(Rejected(p)) \in Nat /\ Cardinality(Rejected(p)') \in Nat
           /\ Cardinality(InFlight(p)') = Cardinality(InFlight(p)) + (IF Flying(req'[w], p) THEN 1 ELSE 0)
                                                                 - (IF Flying(req[w], p) THEN 1 ELSE 0)
           /\ Cardinality(Rejected(p)') = Cardinality(Rejected(p)) + (IF Condemned(req'[w], p) THEN 1 ELSE 0)
                                                                 - (IF Condemned(req[w], p) THEN 1 ELSE 0)
           /\ Cardinality(InFlight(p)) <= Cardinality(Workers)
           /\ Cardinality(Rejected(p)) <= Cardinality(Workers) /\ Cardinality(Workers) \in Nat
  <1>1. /\ InFlight(p) \subseteq Workers /\ InFlight(p)' \subseteq Workers
        /\ Rejected(p) \subseteq Workers /\ Rejected(p)' \subseteq Workers
    BY DEF InFlight, Rejected
  <1>2. /\ \A v \in Workers : v # w => (v \in InFlight(p)' <=> v \in InFlight(p))
        /\ \A v \in Workers : v # w => (v \in Rejected(p)' <=> v \in Rejected(p))
    BY DEF Moves, InFlight, Rejected
  <1>3. /\ w \in InFlight(p) <=> Flying(req[w], p)
        /\ w \in InFlight(p)' <=> Flying(req'[w], p)
        /\ w \in Rejected(p) <=> Condemned(req[w], p)
        /\ w \in Rejected(p)' <=> Condemned(req'[w], p)
    BY DEF InFlight, Rejected, Flying, Condemned
  <1>4. /\ Cardinality(InFlight(p)) \in Nat /\ Cardinality(InFlight(p)') \in Nat
        /\ Cardinality(InFlight(p)') = Cardinality(InFlight(p)) + (IF Flying(req'[w], p) THEN 1 ELSE 0)
                                                              - (IF Flying(req[w], p) THEN 1 ELSE 0)
    BY <1>1, <1>2, <1>3, CountMoved
  <1>5. /\ Cardinality(Rejected(p)) \in Nat /\ Cardinality(Rejected(p)') \in Nat
        /\ Cardinality(Rejected(p)') = Cardinality(Rejected(p)) + (IF Condemned(req'[w], p) THEN 1 ELSE 0)
                                                              - (IF Condemned(req[w], p) THEN 1 ELSE 0)
    BY <1>1, <1>2, <1>3, CountMoved
  <1>6. /\ Cardinality(InFlight(p)) <= Cardinality(Workers) /\ Cardinality(Rejected(p)) <= Cardinality(Workers)
        /\ Cardinality(Workers) \in Nat
    BY <1>1, GateAssumption, FS_Subset, FS_CardinalityType
  <1> QED BY <1>4, <1>5, <1>6

(* The three things a step of a request can mean to peer p: nobody is rejected *)
(* (and who is let in found a token), a credential is rejected, or the peer is *)
(* charged for one that was.                                                   *)
LevelKept(p) == Level(p)' >= Level(p) /\ (Roomy => Level(p)' = Level(p))

Calm(p) ==
    /\ LevelKept(p) /\ failed'[p] = failed[p]
    /\ Cardinality(Rejected(p)') = Cardinality(Rejected(p))
    /\ \/ Cardinality(InFlight(p)') <= Cardinality(InFlight(p))
       \/ Level(p) >= Window

Rejects(p) ==
    /\ Level(p)' = Level(p) /\ failed'[p] = failed[p] + 1
    /\ Cardinality(Rejected(p)') = Cardinality(Rejected(p)) + 1
    /\ Cardinality(InFlight(p)') = Cardinality(InFlight(p))

Charges(p) ==
    /\ Level(p)' = Charge(Level(p)) /\ failed'[p] = failed[p]
    /\ Cardinality(Rejected(p)') = Cardinality(Rejected(p)) - 1
    /\ Cardinality(InFlight(p)') = Cardinality(InFlight(p)) - 1

Budgeted(p) == Calm(p) \/ Rejects(p) \/ Charges(p)

(* The budget is as it was, or the table was looked at for peer q. *)
LEMMA LevelsAfter ==
    ASSUME IInv, IInv', NEW q \in Peers, NEW n \in Nat, clock' = clock,
           \/ failures' = failures /\ n = Level(q)
           \/ failures' \in Failures!Touched(failures, q, clock) /\ n = Level(q)
           \/ n = Charge(Level(q))
              /\ \E table \in Failures!Touched(failures, q, clock) : failures' = Failures!Charged(table, q)
    PROVE  Level(q)' = n /\ \A p \in Peers \ {q} : LevelKept(p)
  <1>0. /\ clock \in Nat /\ FailureTable(failures, clock) /\ FailureTable(failures', clock)
        /\ \A p \in Peers : Level(p) \in 0 .. Failures!Full
    BY LevelTyped DEF IInv, TypeOK, TablesOK, Level
  <1>1. \A p \in Peers : Level(p)' = Failures!Level(failures', p, clock)
    BY DEF Level, Failures!Level, Failures!Recovered
  <1>2. CASE failures' = failures /\ n = Level(q)
    <2>1. \A p \in Peers : Level(p)' = Level(p) BY <1>1, <1>2 DEF Level
    <2> QED BY <1>0, <1>2, <2>1 DEF LevelKept
  (* In both of the other cases the others' buckets are those of a table that was looked at. *)
  <1>3. ASSUME NEW u \in Failures!Touched(failures, q, clock), \A p \in Peers \ {q} : failures'[p] = u[p]
        PROVE  \A p \in Peers \ {q} : LevelKept(p)
    <2> SUFFICES ASSUME NEW p \in Peers \ {q} PROVE LevelKept(p) OBVIOUS
    <2>1. clock \in Nat /\ FailureTable(failures, clock) /\ p \in Peers \ {q} /\ failures'[p] = u[p] BY <1>0, <1>3
    <2>2. u[p] \in {failures[p], None} BY <2>1, TouchedLevels
    <2>3. ASSUME Roomy PROVE u[p] = failures[p] BY <2>1, <2>3, RoomyTouched
    <2>4. CASE failures'[p] = failures[p]
      <3>1. Level(p)' = Level(p) BY <1>1, <2>4 DEF Level, Failures!Level
      <3> QED BY <1>0, <3>1 DEF LevelKept
    <2>5. CASE failures'[p] = None /\ ~Roomy
      <3>1. Level(p)' = Failures!Full BY <1>1, <2>5 DEF Failures!Level
      <3> QED BY <1>0, <2>5, <3>1, FailuresTyped DEF LevelKept
    <2>6. Roomy \/ ~Roomy OBVIOUS
    <2> QED BY <2>1, <2>2, <2>3, <2>4, <2>5, <2>6
  <1>4. ASSUME NEW m \in 0 .. Failures!Full, failures'[q] = [tokens |-> m, seen |-> clock]
        PROVE  Level(q)' = m
    <2> DEFINE b == [tokens |-> m, seen |-> clock]
    <2>1. b \in Failures!Bucket /\ b.seen = clock /\ b.tokens = m BY <1>0 DEF Failures!Bucket
    <2> HIDE DEF b
    <2>2. Failures!Recovered(b, clock) = m BY <1>0, <2>1, BucketRecovers
    <2>3. failures'[q] = b /\ b # None BY <1>4, <2>1, FailuresTyped DEF b
    <2> QED BY <1>1, <2>2, <2>3 DEF Failures!Level
  <1>5. CASE failures' \in Failures!Touched(failures, q, clock) /\ n = Level(q)
    <2>1. failures'[q] = [tokens |-> n, seen |-> clock] BY <1>0, <1>5, TouchedLevels DEF Level
    <2> QED BY <1>0, <1>3, <1>4, <1>5, <2>1
  <1>6. CASE n = Charge(Level(q))
             /\ \E table \in Failures!Touched(failures, q, clock) : failures' = Failures!Charged(table, q)
    <2>1. PICK u \in Failures!Touched(failures, q, clock) : failures' = Failures!Charged(u, q) BY <1>6
    <2>2. u[q] = [tokens |-> Level(q), seen |-> clock] BY <1>0, TouchedLevels DEF Level
    <2>3. u \in [Peers -> Failures!Bucket \cup {None}]
      BY <1>0, FailureTouched DEF FailureTable, Failures!Tables
    <2>4. /\ failures'[q] = [tokens |-> n, seen |-> clock]
          /\ \A p \in Peers \ {q} : failures'[p] = u[p]
          /\ n \in 0 .. Failures!Full
      BY <1>0, <1>6, <2>1, <2>2, <2>3, ChargedLevels
    <2> QED BY <1>3, <1>4, <2>4
  <1> QED BY <1>2, <1>5, <1>6

LEMMA LevelSame ==
    ASSUME IInv, failures' = failures, clock' = clock, NEW p \in Peers
    PROVE  LevelKept(p) /\ Level(p)' = Level(p) /\ Level(p) \in 0 .. Failures!Full
  <1>1. Level(p)' = Level(p) BY DEF Level, Failures!Level, Failures!Recovered
  <1>2. Level(p) \in 0 .. Failures!Full BY LevelTyped DEF IInv, TypeOK, TablesOK, Level
  <1> QED BY <1>1, <1>2 DEF LevelKept

(* A request that goes on, or away, without a rejected credential. *)
LEMMA CalmMove ==
    ASSUME IInv, NEW w \in Workers, Moves(w), failures' = failures, clock' = clock, failed' = failed,
           req'[w].pc # "penalize", req[w].pc # "penalize",
           req'[w].pc \in Exposed => req[w].pc \in Exposed /\ req'[w].peer = req[w].peer,
           NEW p \in Peers
    PROVE  Calm(p)
  <1>1. ~Condemned(req'[w], p) /\ ~Condemned(req[w], p) BY DEF Condemned
  <1>2. Flying(req'[w], p) => Flying(req[w], p) BY DEF Flying
  <1>3. Cardinality(Rejected(p)') = Cardinality(Rejected(p)) BY <1>1, FlightMoved
  <1>4. Cardinality(InFlight(p)') <= Cardinality(InFlight(p)) BY <1>2, FlightMoved
  <1>5. LevelKept(p) BY LevelSame
  <1> QED BY <1>3, <1>4, <1>5 DEF Calm

(* A request whose credential is rejected. *)
LEMMA RejectMove ==
    ASSUME IInv, NEW w \in Workers, Moves(w), failures' = failures, clock' = clock,
           failed' = [failed EXCEPT ![req[w].peer] = @ + 1], req'[w].peer = req[w].peer, req'[w].pc = "penalize",
           req[w].pc \in {"internal", "bearer", "auth"}, NEW p \in Peers
    PROVE  Rejects(p) \/ Calm(p)
  <1>1. failed \in [Peers -> Nat] BY DEF IInv, TypeOK
  <1>2. LevelKept(p) /\ Level(p)' = Level(p) BY LevelSame
  <1>3. Flying(req'[w], p) <=> Flying(req[w], p) BY DEF Flying, Exposed
  <1>4. Cardinality(InFlight(p)') = Cardinality(InFlight(p)) /\ Cardinality(InFlight(p)) \in Nat BY <1>3, FlightMoved
  <1>5. CASE p = req[w].peer
    <2>1. Condemned(req'[w], p) /\ ~Condemned(req[w], p) BY <1>5 DEF Condemned
    <2>2. Cardinality(Rejected(p)') = Cardinality(Rejected(p)) + 1 BY <2>1, FlightMoved
    <2>3. failed'[p] = failed[p] + 1 BY <1>1, <1>5
    <2> QED BY <1>2, <1>4, <2>2, <2>3 DEF Rejects
  <1>6. CASE p # req[w].peer
    <2>1. ~Condemned(req'[w], p) /\ ~Condemned(req[w], p) BY <1>6 DEF Condemned
    <2>2. Cardinality(Rejected(p)') = Cardinality(Rejected(p)) BY <2>1, FlightMoved
    <2>3. failed'[p] = failed[p] BY <1>1, <1>6
    <2> QED BY <1>2, <1>4, <2>2, <2>3 DEF Calm
  <1> QED BY <1>5, <1>6

(* A request that is let in found a token. *)
LEMMA ArriveMove ==
    ASSUME IInv, IInv', NEW w \in Workers, NEW q \in Peers, Arrive(w, q), NEW p \in Peers
    PROVE  Calm(p)
  <1>0. clock \in Nat /\ FailureTable(failures, clock) /\ req \in [Workers -> Requested]
    BY DEF IInv, TypeOK, TablesOK, Requested
  <1>1. PICK u \in Failures!Touched(failures, q, clock) :
          /\ failures' = u
          /\ req' = [req EXCEPT ![w] = [pc |-> IF Failures!HasToken(u, q) THEN "admitted" ELSE "done",
                                        peer |-> q, user |-> None]]
    BY DEF Arrive, Idle
  <1>2. /\ req[w].pc = "idle" /\ failed' = failed /\ clock' = clock
        /\ req'[w] = [pc |-> IF Failures!HasToken(u, q) THEN "admitted" ELSE "done", peer |-> q, user |-> None]
        /\ \A v \in Workers : v # w => req'[v] = req[v]
    BY <1>0, <1>1 DEF Arrive, At
  <1>3. Moves(w)
    <2>1. req' \in [Workers -> Requested] BY DEF IInv, TypeOK, Requested
    <2> QED BY <1>2, <2>1 DEF Moves
  <1>4. Level(q) \in 0 .. Failures!Full /\ Level(q) \in Nat BY <1>0, LevelTyped, FailuresTyped DEF Level
  <1>5. Level(q)' = Level(q) /\ \A j \in Peers \ {q} : LevelKept(j) BY <1>1, <1>2, <1>4, LevelsAfter
  <1>6. LevelKept(p) BY <1>4, <1>5 DEF LevelKept
  <1>7. ~Condemned(req'[w], p) /\ ~Condemned(req[w], p) /\ ~Flying(req[w], p)
    BY <1>2 DEF Condemned, Flying, Exposed
  <1>8. Cardinality(Rejected(p)') = Cardinality(Rejected(p)) BY <1>3, <1>7, FlightMoved
  <1>9. CASE Flying(req'[w], p)
    <2>1. p = q /\ Failures!HasToken(u, q) BY <1>2, <1>9 DEF Flying, Exposed
    <2>2. u[q] = [tokens |-> Level(q), seen |-> clock] BY <1>0, TouchedLevels DEF Level
    <2>3. Level(p) >= Window BY <2>1, <2>2 DEF Failures!HasToken
    <2> QED BY <1>2, <1>6, <1>8, <2>3 DEF Calm
  <1>10. CASE ~Flying(req'[w], p)
    <2>1. Cardinality(InFlight(p)') <= Cardinality(InFlight(p)) BY <1>3, <1>7, <1>10, FlightMoved
    <2> QED BY <1>2, <1>6, <1>8, <2>1 DEF Calm
  <1> QED BY <1>9, <1>10

LEMMA PenalizeMove ==
    ASSUME IInv, IInv', NEW w \in Workers, Penalize(w), NEW p \in Peers
    PROVE  Charges(p) \/ Calm(p)
  <1>9. PICK q \in Peers : req[w].peer = q BY DEF IInv, Locals, LocalOK, Penalize, At
  <1>0. /\ clock \in Nat /\ FailureTable(failures, clock) /\ TypeOK /\ req[w].pc = "penalize"
        /\ Goto(w, "leave") /\ failed' = failed /\ clock' = clock
        /\ \E table \in Failures!Touched(failures, q, clock) : failures' = Failures!Charged(table, q)
    BY <1>9 DEF IInv, TypeOK, TablesOK, Penalize, At
  <1>1. Moves(w) /\ req'[w].pc = "leave" /\ req'[w].peer = q BY <1>9, <1>0, GotoMoves DEF PCs, Holding
  <1>2. Level(q) \in 0 .. Failures!Full BY <1>0, LevelTyped DEF Level
  <1>3. PICK n \in Nat : n = Charge(Level(q)) BY <1>2, FailuresTyped DEF Charge
  <1>4. Level(q)' = n /\ \A j \in Peers \ {q} : LevelKept(j) BY <1>0, <1>3, LevelsAfter
  <1>5. ~Flying(req'[w], p) /\ ~Condemned(req'[w], p) BY <1>1 DEF Flying, Condemned, Exposed
  <1>6. CASE p = q
    <2>1. Flying(req[w], p) /\ Condemned(req[w], p) BY <1>9, <1>0, <1>6 DEF Flying, Condemned, Exposed
    <2>2. /\ Cardinality(InFlight(p)') = Cardinality(InFlight(p)) - 1
          /\ Cardinality(Rejected(p)') = Cardinality(Rejected(p)) - 1
      BY <1>1, <1>5, <2>1, FlightMoved
    <2> QED BY <1>0, <1>3, <1>4, <1>6, <2>2 DEF Charges
  <1>7. CASE p # q
    <2>1. ~Flying(req[w], p) /\ ~Condemned(req[w], p) BY <1>9, <1>7 DEF Flying, Condemned
    <2>2. /\ Cardinality(InFlight(p)') = Cardinality(InFlight(p))
          /\ Cardinality(Rejected(p)') = Cardinality(Rejected(p)) /\ Cardinality(InFlight(p)) \in Nat
      BY <1>1, <1>5, <2>1, FlightMoved
    <2> QED BY <1>0, <1>4, <1>7, <2>2 DEF Calm
  <1> QED BY <1>6, <1>7

LEMMA RequestBudgeted ==
    ASSUME IInv, IInv', NEW w \in Workers, Handle(w) \/ \E q \in Peers : Arrive(w, q), NEW p \in Peers
    PROVE  Budgeted(p)
  <1> USE DEF At
  <1>0. TypeOK /\ req' \in [Workers -> Requested] BY DEF IInv, TypeOK, Requested
  <1>1. CASE \E q \in Peers : Arrive(w, q) BY <1>1, ArriveMove DEF Budgeted
  <1>2. CASE Penalize(w) BY <1>2, PenalizeMove DEF Budgeted
  <1>3. CASE Done(w)
    <2>1. req'[w] = Idle /\ \A v \in Workers : v # w => req'[v] = req[v] BY <1>0, <1>3 DEF Done, TypeOK
    <2>2. Moves(w) BY <1>0, <2>1 DEF Moves
    <2> QED BY <1>3, <2>1, <2>2, CalmMove DEF Done, Idle, Exposed, Budgeted
  <1>4. CASE InternalReply(w) \/ Bearer(w) \/ Authenticated(w)
    <2>1. CASE Goto(w, "penalize") /\ failed' = [failed EXCEPT ![req[w].peer] = @ + 1]
      <3>1. Moves(w) /\ req'[w].pc = "penalize" /\ req'[w].peer = req[w].peer BY <1>0, <2>1, GotoMoves DEF PCs, Holding
      <3>2. req[w].pc \in {"internal", "bearer", "auth"} /\ failures' = failures /\ clock' = clock
        BY <1>4 DEF InternalReply, Bearer, Authenticated
      <3> QED BY <2>1, <3>1, <3>2, RejectMove DEF Budgeted
    <2>2. CASE \E pc \in {"leave", "auth"} : Goto(w, pc) /\ failed' = failed
      <3>1. PICK pc \in {"leave", "auth"} : Goto(w, pc) /\ failed' = failed BY <2>2
      <3>2. Moves(w) /\ req'[w].pc = pc /\ req'[w].peer = req[w].peer BY <1>0, <3>1, GotoMoves DEF PCs, Holding
      <3>3. req[w].pc \in {"internal", "bearer", "auth"} /\ failures' = failures /\ clock' = clock
        BY <1>4 DEF InternalReply, Bearer, Authenticated
      <3> QED BY <3>1, <3>2, <3>3, CalmMove DEF Exposed, Budgeted
    <2>3. CASE \E u \in Users : req' = [req EXCEPT ![w].pc = "rate", ![w].user = u] /\ failed' = failed /\ Authenticated(w)
      <3>1. req'[w].pc = "rate" /\ \A v \in Workers : v # w => req'[v] = req[v] BY <1>0, <2>3 DEF TypeOK
      <3>2. Moves(w) BY <1>0, <3>1 DEF Moves
      <3>3. req[w].pc = "auth" /\ failures' = failures /\ clock' = clock /\ failed' = failed BY <2>3 DEF Authenticated
      <3> QED BY <3>1, <3>2, <3>3, CalmMove DEF Exposed, Budgeted
    <2> QED BY <1>4, <2>1, <2>2, <2>3 DEF InternalReply, Bearer, Authenticated
  <1>5. CASE Unguarded(w) \/ TakeGlobal(w) \/ Rate(w) \/ TakeUserSlot(w) \/ Served(w) \/ LeaveUser(w) \/ Leave(w)
    <2>1. /\ failures' = failures /\ clock' = clock /\ failed' = failed /\ req[w].pc # "penalize"
          /\ \E pc \in {"done", "internal", "bearer", "slot", "leave", "serving", "leaveUser"} :
               Goto(w, pc) /\ (pc \in {"internal", "bearer"} => req[w].pc = "admitted")
      BY <1>5 DEF Unguarded, TakeGlobal, Rate, TakeUserSlot, Served, LeaveUser, Leave
    <2>2. PICK pc \in {"done", "internal", "bearer", "slot", "leave", "serving", "leaveUser"} :
               Goto(w, pc) /\ (pc \in {"internal", "bearer"} => req[w].pc = "admitted")
      BY <2>1
    <2>3. Moves(w) /\ req'[w].pc = pc /\ req'[w].peer = req[w].peer BY <1>0, <2>2, GotoMoves DEF PCs, Holding
    <2>4. pc \in Exposed => req[w].pc \in Exposed BY <2>2 DEF Exposed
    <2> QED BY <2>1, <2>2, <2>3, <2>4, CalmMove DEF Budgeted
  <1> QED BY <1>1, <1>2, <1>3, <1>4, <1>5 DEF Handle

-----------------------------------------------------------------------------
(* What was taken from a budget was taken for rejected credentials. *)

(* Tokens that are missing, and those about to be, are no more than the *)
(* credentials of the peer that were rejected.                          *)
OutageInv ==
    \A p \in Peers : Failures!Full + Window * Cardinality(Rejected(p)) <= Level(p) + Window * failed[p]

LEMMA RejectedTyped ==
    ASSUME IInv, NEW p \in Peers
    PROVE  /\ Cardinality(Rejected(p)) \in Nat /\ Cardinality(InFlight(p)) \in Nat
           /\ Level(p) \in 0 .. Failures!Full /\ Level(p) \in Nat /\ failed[p] \in Nat /\ clock \in Nat
  <1>1. Rejected(p) \subseteq Workers /\ InFlight(p) \subseteq Workers BY DEF Rejected, InFlight
  <1>2. Cardinality(Rejected(p)) \in Nat /\ Cardinality(InFlight(p)) \in Nat
    BY <1>1, GateAssumption, FS_Subset, FS_CardinalityType
  <1>3. Level(p) \in 0 .. Failures!Full BY LevelTyped DEF IInv, TypeOK, TablesOK, Level
  <1> QED BY <1>2, <1>3, FailuresTyped DEF IInv, TypeOK

(* A second restores FailLimit units, up to a full bucket. *)
LEMMA TickBudget ==
    ASSUME IInv, Tick, NEW p \in Peers
    PROVE  /\ Level(p)' = IF Level(p) + FailLimit < Failures!Full THEN Level(p) + FailLimit ELSE Failures!Full
           /\ Rejected(p)' = Rejected(p) /\ InFlight(p)' = InFlight(p) /\ failed' = failed /\ clock' = clock + 1
  <1>1. clock \in Nat /\ FailureTable(failures, clock) BY DEF IInv, TypeOK, TablesOK
  <1>2. clock' = clock + 1 /\ UNCHANGED <<global, users, failures, requests, req, failed>> BY DEF Tick
  <1>3. Level(p)' = Failures!Level(failures, p, clock + 1) BY <1>2 DEF Level, Failures!Level, Failures!Recovered
  <1>4. Level(p)' = IF Level(p) + FailLimit < Failures!Full THEN Level(p) + FailLimit ELSE Failures!Full
    BY <1>1, <1>3, LevelTyped DEF Level
  <1>5. Rejected(p)' = Rejected(p) /\ InFlight(p)' = InFlight(p) BY <1>2 DEF Rejected, InFlight
  <1> QED BY <1>2, <1>4, <1>5

LEMMA OutageStep ==
    ASSUME IInv, IInv', NEW p \in Peers, Budgeted(p),
           Failures!Full + Window * Cardinality(Rejected(p)) <= Level(p) + Window * failed[p]
    PROVE  Failures!Full + Window * Cardinality(Rejected(p)') <= Level(p)' + Window * failed'[p]
  <1> DEFINE r == Cardinality(Rejected(p))
             l == Level(p)
             f == failed[p]
  <1>1. r \in Nat /\ l \in Nat /\ f \in Nat BY RejectedTyped
  <1>2. /\ Cardinality(Rejected(p)') \in Nat /\ Level(p)' \in Nat /\ failed'[p] \in Nat
    <2>1. Rejected(p)' \subseteq Workers BY DEF Rejected
    <2>2. Level(p)' \in 0 .. Failures!Full BY LevelTyped DEF IInv, TypeOK, TablesOK, Level
    <2> QED BY <2>1, <2>2, GateAssumption, FailuresTyped, FS_Subset, FS_CardinalityType DEF IInv, TypeOK
  <1>3. Failures!Full + Window * r <= l + Window * f OBVIOUS
  <1>4. Window * (r + 1) = Window * r + Window /\ Window * (f + 1) = Window * f + Window
        /\ Window * (r - 1) = Window * r - Window /\ Window * r \in Nat /\ Window * f \in Nat
    BY <1>1, FailuresTyped
  <1>5. CASE Calm(p) BY <1>1, <1>2, <1>3, <1>4, <1>5, FailuresTyped DEF Calm, LevelKept
  <1>6. CASE Rejects(p) BY <1>1, <1>2, <1>3, <1>4, <1>6, FailuresTyped DEF Rejects
  <1>7. CASE Charges(p) BY <1>1, <1>2, <1>3, <1>4, <1>7, FailuresTyped DEF Charges, Charge
  <1> QED BY <1>5, <1>6, <1>7 DEF Budgeted

LEMMA InvStep == IInv /\ [Next]_vars => IInv'
  <1> SUFFICES ASSUME IInv, [Next]_vars PROVE IInv' OBVIOUS
  <1>1. CASE \E w \in Workers : Handle(w) \/ \E p \in Peers : Arrive(w, p)
    BY <1>1, QuietStep, CountedStep DEF Handle
  <1> QED BY <1>1, TickStep, Stutter DEF Next

(* Only rejected credentials use up the budget of a peer: neither an outage  *)
(* of the backend nor refused sessions lock anybody out, in whatever order   *)
(* the requests in flight come to their end.                                 *)
THEOREM OutageNeverLocksOut == Spec => []OutageLocksNobodyOut
  <1>1. Init => OutageInv
    <2> SUFFICES ASSUME Init, NEW p \in Peers
                 PROVE  Failures!Full + Window * Cardinality(Rejected(p)) <= Level(p) + Window * failed[p]
      BY DEF OutageInv
    <2>1. \A w \in Workers : req[w] = Idle BY DEF Init
    <2>2. Rejected(p) = {} BY <2>1 DEF Rejected, Idle
    <2>3. Cardinality(Rejected(p)) = 0 BY <2>2, FS_EmptySet
    <2>4. failures[p] = None /\ failed[p] = 0 BY DEF Init, Failures!Empty
    <2>5. Level(p) = Failures!Full BY <2>4 DEF Level, Failures!Level
    <2> QED BY <2>3, <2>4, <2>5, FailuresTyped
  <1>2. OutageInv /\ IInv /\ IInv' /\ [Next]_vars => OutageInv'
    <2> SUFFICES ASSUME OutageInv, IInv, IInv', [Next]_vars, NEW p \in Peers
                 PROVE  Failures!Full + Window * Cardinality(Rejected(p)') <= Level(p)' + Window * failed'[p]
      BY DEF OutageInv
    <2>1. Failures!Full + Window * Cardinality(Rejected(p)) <= Level(p) + Window * failed[p] BY DEF OutageInv
    <2>2. CASE \E w \in Workers : Handle(w) \/ \E q \in Peers : Arrive(w, q)
      BY <2>1, <2>2, RequestBudgeted, OutageStep
    <2>3. CASE Tick
      <3>1. Level(p)' >= Level(p) BY <2>3, TickBudget, RejectedTyped, FailuresTyped
      <3>2. Cardinality(Rejected(p)') = Cardinality(Rejected(p)) /\ failed'[p] = failed[p] BY <2>3, TickBudget
      <3>3. Window * Cardinality(Rejected(p)) \in Nat /\ Window * failed[p] \in Nat BY RejectedTyped, FailuresTyped
      <3>4. Level(p)' \in Nat BY <2>3, TickBudget, RejectedTyped, FailuresTyped
      <3> QED BY <2>1, <3>1, <3>2, <3>3, <3>4, RejectedTyped, FailuresTyped
    <2>4. CASE UNCHANGED vars
      <3>1. UNCHANGED <<clock, failures, req, failed>> BY <2>4 DEF vars
      <3>2. Rejected(p)' = Rejected(p) BY <3>1 DEF Rejected
      <3>3. Level(p)' = Level(p) BY <3>1, LevelSame
      <3> QED BY <2>1, <3>1, <3>2, <3>3
    <2> QED BY <2>2, <2>3, <2>4 DEF Next
  <1>3. OutageInv /\ IInv => OutageLocksNobodyOut
    <2> SUFFICES ASSUME OutageInv, IInv, NEW p \in Peers
                 PROVE  Failures!Full <= Failures!Level(failures, p, clock) + Window * failed[p]
      BY DEF OutageLocksNobodyOut
    <2>1. Failures!Full + Window * Cardinality(Rejected(p)) <= Level(p) + Window * failed[p] BY DEF OutageInv
    <2>2. Window * Cardinality(Rejected(p)) \in Nat /\ Window * failed[p] \in Nat BY RejectedTyped, FailuresTyped
    <2>3. Failures!Full <= Level(p) + Window * failed[p] BY <2>1, <2>2, RejectedTyped, FailuresTyped
    <2> QED BY <2>3 DEF Level
  <1> QED BY <1>1, <1>2, <1>3, Invariance, InvStep, PTL DEF Spec

-----------------------------------------------------------------------------
(* How many credentials a peer can have rejected. *)

LEMMA Quotient ==
    ASSUME NEW x \in Nat
    PROVE  \E q, r \in Nat : q = x \div Window /\ x = q * Window + r /\ r < Window
  <1>1. x \div Window \in Nat BY FailuresTyped
  <1>2. x % Window \in Nat /\ x % Window < Window BY FailuresTyped
  <1>3. x % Window = x - Window * (x \div Window) BY FailuresTyped
  <1>4. PICK q \in Nat : q = x \div Window BY <1>1
  <1>5. PICK r \in Nat : r = x % Window BY <1>2
  <1>6. r = x - Window * q BY <1>3, <1>4, <1>5
  <1>7. x = q * Window + r BY <1>6, FailuresTyped
  <1>8. r < Window BY <1>2, <1>5
  <1> QED BY <1>4, <1>7, <1>8

LEMMA Divided ==
    ASSUME NEW x \in Nat
    PROVE  \E q, r \in Nat : x = q * Window + r /\ r < Window
  BY Quotient

LEMMA TokensOrdered ==
    ASSUME NEW a \in Nat, NEW r \in Nat, NEW b \in Nat, NEW s \in Nat, s < Window,
           a * Window + r <= b * Window + s
    PROVE  a <= b
  <1> SUFFICES ASSUME b + 1 <= a PROVE FALSE OBVIOUS
  <1>1. PICK d \in Nat : a = b + 1 + d
    <2>1. a - (b + 1) \in Nat /\ a = b + 1 + (a - (b + 1)) OBVIOUS
    <2> QED BY <2>1
  <1>2. a * Window = b * Window + Window + d * Window /\ d * Window \in Nat BY <1>1, FailuresTyped
  <1>3. b * Window \in Nat BY FailuresTyped
  <1> QED BY <1>2, <1>3, FailuresTyped

LEMMA Multiplied ==
    ASSUME NEW a \in Nat, NEW b \in Nat, NEW n \in Nat, a <= b
    PROVE  a * n <= b * n /\ a * n \in Nat /\ b * n \in Nat
  <1>1. PICK d \in Nat : b = a + d
    <2>1. b - a \in Nat /\ b = a + (b - a) OBVIOUS
    <2> QED BY <2>1
  <1>2. b * n = a * n + d * n /\ d * n \in Nat /\ a * n \in Nat BY <1>1
  <1> QED BY <1>2

LEMMA RestoredTokens ==
    ASSUME NEW a \in Nat, NEW g \in Nat, a * Window <= g
    PROVE  a <= g \div Window
  <1>1. PICK q \in Nat, r \in Nat : q = g \div Window /\ g = q * Window + r /\ r < Window BY Quotient
  <1>2. a * Window + 0 <= q * Window + r /\ r < Window BY <1>1, FailuresTyped
  <1>3. a <= q BY <1>2, TokensOrdered
  <1> QED BY <1>1, <1>3

(* Why the failures of a peer are bounded.  Every rejected credential but those  *)
(* about to be charged was charged a token, or was free, since the bucket had    *)
(* none left.  What was charged is no more than a full bucket and what time has  *)
(* restored.  A free one was in flight when the bucket ran dry, as nobody is let *)
(* in while it is, and each time no more than the others were; for the bucket to *)
(* run dry again a token must be restored.                                       *)
Others == Cardinality(Workers) - 1

Account(p, tokens, part, charged, free, dry) ==
    /\ Level(p) = tokens * Window + part /\ part < Window
    /\ failed[p] = charged + free + Cardinality(Rejected(p))
    /\ charged * Window + Level(p) <= Failures!Full + clock * FailLimit
    /\ tokens = 0 => /\ dry >= 1 /\ (dry - 1) * Window + part <= clock * FailLimit
                     /\ free + Cardinality(InFlight(p)) <= Others * dry
    /\ tokens > 0 => dry * Window + part <= clock * FailLimit /\ free <= Others * dry

BudgetInv ==
    \A p \in Peers :
        /\ Workers = {} => failed[p] = 0
        /\ \E tokens, part, charged, free, dry \in Nat : Account(p, tokens, part, charged, free, dry)

LEMMA WorkersCounted ==
    /\ Cardinality(Workers) \in Nat /\ Others \in Int /\ Cardinality(Workers) = Others + 1
    /\ Workers # {} => Others \in Nat
  <1>1. Cardinality(Workers) \in Nat BY GateAssumption, FS_CardinalityType
  <1>2. Workers # {} => Cardinality(Workers) # 0 BY GateAssumption, FS_EmptySet
  <1> QED BY <1>1, <1>2 DEF Others

LEMMA FlightTyped ==
    ASSUME NEW p \in Peers
    PROVE  /\ Cardinality(Rejected(p)) \in Nat /\ Cardinality(InFlight(p)) \in Nat
           /\ Cardinality(Rejected(p)) <= Cardinality(InFlight(p))
           /\ Cardinality(InFlight(p)) <= Cardinality(Workers)
  <1>1. Rejected(p) \subseteq InFlight(p) /\ InFlight(p) \subseteq Workers BY DEF Rejected, InFlight, Exposed
  <1>2. IsFiniteSet(InFlight(p)) BY <1>1, GateAssumption, FS_Subset
  <1> QED BY <1>1, <1>2, GateAssumption, FS_Subset, FS_CardinalityType

(* A step of a request, for one peer. *)
LEMMA AccountStep ==
    ASSUME Roomy, IInv, IInv', clock' = clock, NEW p \in Peers, Budgeted(p),
           NEW tokens \in Nat, NEW part \in Nat, NEW charged \in Nat, NEW free \in Nat, NEW dry \in Nat,
           Account(p, tokens, part, charged, free, dry)
    PROVE  \E t2, c2, f2, d2 \in Nat : Account(p, t2, part, c2, f2, d2)'
  <1> DEFINE r == Cardinality(Rejected(p))
             n == Cardinality(InFlight(p))
             r2 == Cardinality(Rejected(p)')
             n2 == Cardinality(InFlight(p)')
             gain == clock * FailLimit
  <1>1. /\ r \in Nat /\ n \in Nat /\ n <= Cardinality(Workers)
        /\ Level(p) \in Nat /\ failed[p] \in Nat /\ gain \in Nat
    BY FlightTyped, RejectedTyped, FailuresTyped
  <1>2. /\ Level(p) = tokens * Window + part /\ part < Window
        /\ failed[p] = charged + free + r
        /\ charged * Window + Level(p) <= Failures!Full + gain
        /\ tokens = 0 => dry >= 1 /\ (dry - 1) * Window + part <= gain /\ free + n <= Others * dry
        /\ tokens > 0 => dry * Window + part <= gain /\ free <= Others * dry
    BY DEF Account
  (* What is left to show: that the new values fit what the step does. *)
  <1>3. ASSUME NEW t2 \in Nat, NEW c2 \in Nat, NEW f2 \in Nat, NEW d2 \in Nat,
               Level(p)' = t2 * Window + part, failed'[p] = c2 + f2 + r2,
               c2 * Window + Level(p)' <= Failures!Full + gain,
               t2 = 0 => d2 >= 1 /\ (d2 - 1) * Window + part <= gain /\ f2 + n2 <= Others * d2,
               t2 > 0 => d2 * Window + part <= gain /\ f2 <= Others * d2
        PROVE  Account(p, t2, part, c2, f2, d2)'
    BY <1>2, <1>3 DEF Account
  <1>4. n2 \in Nat
    <2>1. InFlight(p)' \subseteq Workers BY DEF InFlight
    <2> QED BY <2>1, GateAssumption, FS_Subset, FS_CardinalityType
  <1> HIDE DEF r, n, r2, n2, gain
  <1>5. CASE Calm(p)
    <2>1. Level(p)' = Level(p) /\ failed'[p] = failed[p] /\ r2 = r BY <1>5 DEF Calm, LevelKept, r, r2
    <2>2. n2 <= n \/ Level(p) >= Window BY <1>5 DEF Calm, n, n2
    <2>3. tokens = 0 => free + n2 <= Others * dry
      <3> SUFFICES ASSUME tokens = 0 PROVE free + n2 <= Others * dry OBVIOUS
      <3>1. Level(p) = part BY <1>2, FailuresTyped
      <3>2. n2 <= n BY <1>2, <2>2, <3>1, FailuresTyped
      <3>3. Others * dry \in Int BY WorkersCounted
      <3> QED BY <1>1, <1>2, <1>4, <3>2, <3>3
    <2>4. Account(p, tokens, part, charged, free, dry)' BY <1>2, <1>3, <2>1, <2>3
    <2> QED BY <2>4
  <1>6. CASE Rejects(p)
    <2>1. Level(p)' = Level(p) /\ failed'[p] = failed[p] + 1 /\ r2 = r + 1 /\ n2 = n
      BY <1>6 DEF Rejects, r, r2, n, n2
    <2>2. failed'[p] = charged + free + r2 BY <1>1, <1>2, <2>1
    <2>3. Account(p, tokens, part, charged, free, dry)' BY <1>2, <1>3, <2>1, <2>2
    <2> QED BY <2>3
  <1>7. CASE Charges(p) /\ tokens = 0
    <2>1. Level(p)' = Charge(Level(p)) /\ failed'[p] = failed[p] /\ r2 = r - 1 /\ n2 = n - 1
      BY <1>7 DEF Charges, r, r2, n, n2
    <2>2. Level(p) = part BY <1>2, <1>7, FailuresTyped
    <2>3. Level(p)' = Level(p) BY <1>2, <2>1, <2>2, FailuresTyped DEF Charge
    <2>4. failed'[p] = charged + (free + 1) + r2 /\ (free + 1) + n2 = free + n BY <1>1, <1>2, <2>1
    <2>5. Account(p, tokens, part, charged, free + 1, dry)' BY <1>2, <1>3, <1>7, <2>3, <2>4
    <2> QED BY <2>5
  <1>8. CASE Charges(p) /\ tokens > 0
    <2>1. Level(p)' = Charge(Level(p)) /\ failed'[p] = failed[p] /\ r2 = r - 1 /\ n2 = n - 1
      BY <1>8 DEF Charges, r, r2, n, n2
    <2>2. tokens - 1 \in Nat /\ tokens * Window = (tokens - 1) * Window + Window /\ (tokens - 1) * Window \in Nat
      <3>1. tokens - 1 \in Nat BY <1>8
      <3> QED BY <3>1, FailuresTyped
    <2>3. Level(p)' = (tokens - 1) * Window + part /\ Level(p)' = Level(p) - Window
      BY <1>2, <2>1, <2>2, FailuresTyped DEF Charge
    <2>4. failed'[p] = (charged + 1) + free + r2 BY <1>1, <1>2, <2>1
    <2>5. (charged + 1) * Window + Level(p)' <= Failures!Full + gain
      <3>1. (charged + 1) * Window = charged * Window + Window /\ charged * Window \in Nat BY FailuresTyped
      <3> QED BY <1>1, <1>2, <2>3, <3>1, FailuresTyped
    <2>6. CASE tokens - 1 > 0
      <3>1. Account(p, tokens - 1, part, charged + 1, free, dry)' BY <1>2, <1>3, <1>8, <2>2, <2>3, <2>4, <2>5, <2>6
      <3> QED BY <2>2, <3>1
    <2>7. CASE tokens - 1 = 0
      <3>1. Others * (dry + 1) = Others * dry + Others /\ Others * dry \in Int BY WorkersCounted
      <3>2. free + n2 <= Others * (dry + 1)
        BY <1>1, <1>2, <1>4, <1>8, <2>1, <3>1, WorkersCounted
      <3>3. dry + 1 >= 1 /\ ((dry + 1) - 1) * Window + part <= gain BY <1>2, <1>8, FailuresTyped
      <3>4. charged + 1 \in Nat /\ dry + 1 \in Nat /\ ~(tokens - 1 > 0) BY <2>7
      <3>5. Account(p, tokens - 1, part, charged + 1, free, dry + 1)'
        BY <1>2, <1>3, <2>2, <2>3, <2>4, <2>5, <3>2, <3>3, <3>4
      <3> QED BY <2>2, <3>4, <3>5
    <2> QED BY <2>2, <2>6, <2>7
  <1> QED BY <1>5, <1>6, <1>7, <1>8 DEF Budgeted

(* A second restores FailLimit units to every peer, or fewer. *)
LEMMA AccountTick ==
    ASSUME IInv, Tick, NEW p \in Peers,
           NEW tokens \in Nat, NEW part \in Nat, NEW charged \in Nat, NEW free \in Nat, NEW dry \in Nat,
           Account(p, tokens, part, charged, free, dry)
    PROVE  \E t2, p2 \in Nat : Account(p, t2, p2, charged, free, dry)'
  <1> DEFINE r == Cardinality(Rejected(p))
             n == Cardinality(InFlight(p))
             gain == clock * FailLimit
  <1>1. /\ r \in Nat /\ n \in Nat /\ Level(p) \in Nat /\ Level(p) <= Failures!Full
        /\ failed[p] \in Nat /\ gain \in Nat /\ clock \in Nat
    <2>1. Level(p) <= Failures!Full BY RejectedTyped, FailuresTyped
    <2> QED BY <2>1, FlightTyped, RejectedTyped, FailuresTyped
  <1>2. /\ Level(p) = tokens * Window + part /\ part < Window
        /\ failed[p] = charged + free + r
        /\ charged * Window + Level(p) <= Failures!Full + gain
        /\ tokens = 0 => dry >= 1 /\ (dry - 1) * Window + part <= gain /\ free + n <= Others * dry
        /\ tokens > 0 => dry * Window + part <= gain /\ free <= Others * dry
    BY DEF Account
  <1>3. /\ Level(p)' = IF Level(p) + FailLimit < Failures!Full THEN Level(p) + FailLimit ELSE Failures!Full
        /\ Rejected(p)' = Rejected(p) /\ InFlight(p)' = InFlight(p) /\ failed' = failed /\ clock' = clock + 1
    BY TickBudget
  <1>4. /\ Level(p)' \in Nat /\ Level(p) <= Level(p)' /\ Level(p)' <= Level(p) + FailLimit
    BY <1>1, <1>3, FailuresTyped
  <1>5. (clock + 1) * FailLimit = gain + FailLimit BY <1>1, FailuresTyped
  <1>6. PICK l2 \in Nat : l2 = Level(p)' BY <1>4
  <1>7. PICK t2 \in Nat, p2 \in Nat : l2 = t2 * Window + p2 /\ p2 < Window BY Divided
  (* What is left to show: that what is owed fits the tokens there are now. *)
  <1>8. ASSUME charged * Window + l2 <= Failures!Full + gain + FailLimit,
               t2 = 0 => dry >= 1 /\ (dry - 1) * Window + p2 <= gain + FailLimit /\ free + n <= Others * dry,
               t2 > 0 => dry * Window + p2 <= gain + FailLimit /\ free <= Others * dry
        PROVE  Account(p, t2, p2, charged, free, dry)'
    <2>1. Level(p)' = t2 * Window + p2 /\ p2 < Window BY <1>6, <1>7
    <2>2. failed'[p] = charged + free + Cardinality(Rejected(p)') BY <1>2, <1>3
    <2>3. charged * Window + Level(p)' <= Failures!Full + clock' * FailLimit
      <3>1. charged * Window \in Nat BY FailuresTyped
      <3>2. charged * Window + l2 <= Failures!Full + (gain + FailLimit) BY <1>1, <1>8, <3>1, FailuresTyped
      <3> QED BY <1>3, <1>5, <1>6, <3>2
    <2>4. t2 = 0 => /\ dry >= 1 /\ (dry - 1) * Window + p2 <= clock' * FailLimit
                    /\ free + Cardinality(InFlight(p)') <= Others * dry
      BY <1>3, <1>5, <1>8
    <2>5. t2 > 0 => dry * Window + p2 <= clock' * FailLimit /\ free <= Others * dry BY <1>3, <1>5, <1>8
    <2> QED BY <2>1, <2>2, <2>3, <2>4, <2>5 DEF Account
  <1> HIDE DEF r, n, gain
  <1>9. charged * Window + l2 <= Failures!Full + gain + FailLimit
    <2>1. charged * Window \in Nat BY FailuresTyped
    <2> QED BY <1>1, <1>2, <1>4, <1>6, <2>1, FailuresTyped
  <1>10. Others * dry \in Int BY WorkersCounted
  <1>11. /\ t2 * Window \in Nat /\ dry * Window \in Nat
         /\ dry >= 1 => (dry - 1) * Window \in Nat /\ dry * Window = (dry - 1) * Window + Window
    <2>1. dry >= 1 => dry - 1 \in Nat OBVIOUS
    <2> QED BY <2>1, FailuresTyped
  <1>12. CASE tokens = 0
    <2>1. Level(p) = part BY <1>2, <1>12, FailuresTyped
    <2>2. l2 <= part + FailLimit BY <1>4, <1>6, <2>1
    <2>3. CASE t2 = 0
      <3>1. l2 = p2 BY <1>7, <2>3, FailuresTyped
      <3>2. (dry - 1) * Window + p2 <= gain + FailLimit
        BY <1>1, <1>2, <1>11, <1>12, <2>2, <3>1, FailuresTyped
      <3> QED BY <1>2, <1>8, <1>9, <1>12, <2>3, <3>2
    <2>4. CASE t2 > 0
      <3>1. t2 * Window >= Window
        <4>1. 1 * Window <= t2 * Window BY <2>4, FailuresTyped, Multiplied
        <4> QED BY <4>1, FailuresTyped
      <3>2. Window + p2 <= part + FailLimit BY <1>7, <1>11, <2>2, <3>1, FailuresTyped
      <3>3. dry * Window + p2 <= gain + FailLimit BY <1>1, <1>2, <1>11, <1>12, <3>2, FailuresTyped
      <3>4. free <= Others * dry BY <1>1, <1>2, <1>10, <1>12
      <3> QED BY <1>8, <1>9, <2>4, <3>3, <3>4
    <2> QED BY <2>3, <2>4
  <1>13. CASE tokens > 0
    <2>1. tokens * Window + part <= t2 * Window + p2 BY <1>2, <1>4, <1>6, <1>7
    <2>2. tokens <= t2 BY <1>7, <2>1, TokensOrdered
    <2>3. tokens * Window <= t2 * Window /\ tokens * Window \in Nat BY <2>2, FailuresTyped, Multiplied
    <2>4. p2 <= part + FailLimit BY <1>2, <1>4, <1>6, <1>7, <1>11, <2>3, FailuresTyped
    <2>5. dry * Window + p2 <= gain + FailLimit BY <1>1, <1>2, <1>11, <1>13, <2>4, FailuresTyped
    <2>6. t2 > 0 BY <1>13, <2>2
    <2> QED BY <1>2, <1>8, <1>9, <1>13, <2>5, <2>6
  <1> QED BY <1>12, <1>13

(* What an account allows, when a gain of g restores R tokens. *)
LEMMA AccountBounds ==
    ASSUME IInv, NEW p \in Peers, Workers # {},
           NEW tokens \in Nat, NEW part \in Nat, NEW charged \in Nat, NEW free \in Nat, NEW dry \in Nat,
           Account(p, tokens, part, charged, free, dry),
           NEW R \in Nat, \A a \in Nat : a * Window <= clock * FailLimit => a <= R
    PROVE  failed[p] + 1 <= FailLimit + Cardinality(Workers) * (1 + R)
  <1> DEFINE r == Cardinality(Rejected(p))
             n == Cardinality(InFlight(p))
             gain == clock * FailLimit
  <1>1. r \in Nat /\ n \in Nat /\ r <= n /\ n <= Others + 1 /\ gain \in Nat /\ Others \in Nat
    BY FlightTyped, RejectedTyped, FailuresTyped, WorkersCounted
  <1>2. /\ Level(p) = tokens * Window + part /\ failed[p] = charged + free + r
        /\ charged * Window + Level(p) <= FailLimit * Window + gain
        /\ tokens = 0 => dry >= 1 /\ (dry - 1) * Window + part <= gain /\ free + n <= Others * dry
        /\ tokens > 0 => dry * Window + part <= gain /\ free <= Others * dry
    BY DEF Account, Failures!Full
  <1>3. \A a \in Nat : a * Window <= gain => a <= R OBVIOUS
  <1>4. Cardinality(Workers) * (1 + R) = Others * (R + 1) + R + 1 /\ Others * (R + 1) = Others * R + Others
    BY <1>1, WorkersCounted
  <1> HIDE DEF r, n, gain
  (* A full bucket and what was restored. *)
  <1>5. ASSUME NEW a \in Nat, a * Window <= FailLimit * Window + gain PROVE a <= FailLimit + R
    <2>1. CASE a <= FailLimit BY <2>1, FailuresTyped
    <2>2. CASE a > FailLimit
      <3>1. PICK d \in Nat : a = FailLimit + d
        <4>1. a - FailLimit \in Nat /\ a = FailLimit + (a - FailLimit) BY <2>2, FailuresTyped
        <4> QED BY <4>1
      <3>2. a * Window = FailLimit * Window + d * Window /\ FailLimit * Window \in Nat /\ d * Window \in Nat
        BY <3>1, FailuresTyped
      <3>3. d * Window <= gain BY <1>1, <1>5, <3>2
      <3>4. d <= R BY <1>3, <3>3
      <3> QED BY <3>1, <3>4, FailuresTyped
    <2> QED BY <2>1, <2>2, FailuresTyped
  <1>6. charged * Window \in Nat /\ tokens * Window \in Nat /\ dry * Window \in Nat /\ FailLimit * Window \in Nat
    BY FailuresTyped
  <1>7. CASE tokens = 0
    <2>1. dry - 1 \in Nat /\ (dry - 1) * Window \in Nat
      <3>1. dry - 1 \in Nat BY <1>2, <1>7
      <3> QED BY <3>1, FailuresTyped
    <2>2. (dry - 1) * Window <= gain BY <1>1, <1>2, <1>7, <2>1
    <2>3. dry <= R + 1 BY <1>3, <2>1, <2>2
    <2>4. Others * dry <= Others * (R + 1)
      <3>1. dry * Others <= (R + 1) * Others BY <1>1, <2>3, Multiplied
      <3> QED BY <1>1, <3>1
    <2>5. charged <= FailLimit + R
      <3>1. charged * Window <= FailLimit * Window + gain BY <1>1, <1>2, <1>6, FailuresTyped
      <3> QED BY <1>5, <3>1
    <2>6. Others * dry \in Nat /\ Others * (R + 1) \in Nat BY <1>1
    <2>7. free + r <= Others * (R + 1) BY <1>1, <1>2, <1>7, <2>4, <2>6
    <2> QED BY <1>1, <1>2, <1>4, <2>5, <2>6, <2>7, FailuresTyped
  <1>8. CASE tokens > 0
    <2>1. dry * Window <= gain BY <1>1, <1>2, <1>6, <1>8
    <2>2. dry <= R BY <1>3, <2>1
    <2>3. Others * dry <= Others * R
      <3>1. dry * Others <= R * Others BY <1>1, <2>2, Multiplied
      <3> QED BY <1>1, <3>1
    <2>4. charged + 1 <= FailLimit + R
      <3>1. 1 * Window <= tokens * Window BY <1>8, FailuresTyped, Multiplied
      <3>2. (charged + 1) * Window = charged * Window + Window BY FailuresTyped
      <3>3. (charged + 1) * Window <= FailLimit * Window + gain BY <1>1, <1>2, <1>6, <3>1, <3>2, FailuresTyped
      <3>4. charged + 1 \in Nat OBVIOUS
      <3> QED BY <1>5, <3>3, <3>4
    <2>5. Others * dry \in Nat /\ Others * R \in Nat BY <1>1
    <2>6. free + r <= Others * R + Others + 1 BY <1>1, <1>2, <1>8, <2>3, <2>5
    <2> QED BY <1>1, <1>2, <1>4, <2>4, <2>5, <2>6, FailuresTyped
  <1> QED BY <1>7, <1>8

LEMMA BudgetStart ==
    ASSUME Init, NEW p \in Peers
    PROVE  failed[p] = 0 /\ Account(p, FailLimit, 0, 0, 0, 0)
  <1>1. \A w \in Workers : req[w] = Idle BY DEF Init
  <1>2. Rejected(p) = {} /\ InFlight(p) = {} BY <1>1 DEF Rejected, InFlight, Idle, Exposed
  <1>3. Cardinality(Rejected(p)) = 0 BY <1>2, FS_EmptySet
  <1>4. failures[p] = None /\ failed[p] = 0 /\ clock = 0 BY DEF Init, Failures!Empty
  <1>5. Level(p) = FailLimit * Window BY <1>4 DEF Level, Failures!Level, Failures!Full
  <1>6. Others * 0 = 0 BY WorkersCounted
  <1>7. FailLimit \in Nat \ {0} /\ Window \in Nat \ {0} BY GateAssumption
  <1> QED BY <1>3, <1>4, <1>5, <1>6, <1>7 DEF Account, Failures!Full

(* However many requests of a peer are in flight together, and whatever the   *)
(* order they are rejected and charged in, its rejected credentials are       *)
(* bounded, as long as no bucket is dropped before it has recovered.          *)
THEOREM FailuresAreBounded == ASSUME Roomy PROVE Spec => []FailuresBounded
  <1>1. Init => BudgetInv
    <2> SUFFICES ASSUME Init, NEW p \in Peers
                 PROVE  /\ Workers = {} => failed[p] = 0
                        /\ \E tokens, part, charged, free, dry \in Nat : Account(p, tokens, part, charged, free, dry)
      BY DEF BudgetInv
    <2>1. failed[p] = 0 /\ Account(p, FailLimit, 0, 0, 0, 0) BY BudgetStart
    <2> QED BY <2>1, FailuresTyped
  <1>2. BudgetInv /\ IInv /\ IInv' /\ [Next]_vars => BudgetInv'
    <2> SUFFICES ASSUME BudgetInv, IInv, IInv', [Next]_vars, NEW p \in Peers
                 PROVE  /\ Workers = {} => failed'[p] = 0
                        /\ \E tokens, part, charged, free, dry \in Nat : Account(p, tokens, part, charged, free, dry)'
      BY DEF BudgetInv
    <2>1. /\ Workers = {} => failed[p] = 0
          /\ \E tokens, part, charged, free, dry \in Nat : Account(p, tokens, part, charged, free, dry)
      BY DEF BudgetInv
    <2>2. PICK tokens \in Nat, part \in Nat, charged \in Nat, free \in Nat, dry \in Nat :
            Account(p, tokens, part, charged, free, dry)
      BY <2>1
    <2>3. CASE \E w \in Workers : Handle(w) \/ \E q \in Peers : Arrive(w, q)
      <3>1. Workers # {} /\ Budgeted(p) BY <2>3, RequestBudgeted
      <3>2. clock' = clock
        BY <2>3 DEF Handle, Arrive, Unguarded, TakeGlobal, InternalReply, Bearer, Authenticated, Penalize,
                    Rate, TakeUserSlot, Served, LeaveUser, Leave, Done
      <3>3. \E t2, c2, f2, d2 \in Nat : Account(p, t2, part, c2, f2, d2)' BY <2>2, <3>1, <3>2, AccountStep
      <3> QED BY <3>1, <3>3
    <2>4. CASE Tick
      <3>1. \E t2, p2 \in Nat : Account(p, t2, p2, charged, free, dry)' BY <2>2, <2>4, AccountTick
      <3>2. failed' = failed BY <2>4, TickBudget
      <3> QED BY <2>1, <3>1, <3>2
    <2>5. CASE UNCHANGED vars
      <3>1. UNCHANGED <<clock, failures, req, failed>> BY <2>5 DEF vars
      <3>2. Rejected(p)' = Rejected(p) /\ InFlight(p)' = InFlight(p) BY <3>1 DEF Rejected, InFlight
      <3>3. Level(p)' = Level(p) BY <3>1, LevelSame
      <3>4. Account(p, tokens, part, charged, free, dry)' BY <2>2, <3>1, <3>2, <3>3 DEF Account
      <3> QED BY <2>1, <3>1, <3>4
    <2> QED BY <2>3, <2>4, <2>5 DEF Next
  <1>3. BudgetInv /\ IInv => FailuresBounded
    <2> SUFFICES ASSUME BudgetInv, IInv, NEW p \in Peers
                 PROVE  failed[p] + 1 <= FailLimit + Cardinality(Workers) * (1 + (clock * FailLimit) \div Window)
      BY DEF FailuresBounded
    <2>1. /\ Workers = {} => failed[p] = 0
          /\ \E tokens, part, charged, free, dry \in Nat : Account(p, tokens, part, charged, free, dry)
      BY DEF BudgetInv
    <2>2. clock * FailLimit \in Nat BY RejectedTyped, FailuresTyped
    <2>3. PICK R \in Nat : R = (clock * FailLimit) \div Window BY <2>2, Quotient
    <2>4. \A a \in Nat : a * Window <= clock * FailLimit => a <= R BY <2>2, <2>3, RestoredTokens
    <2>5. CASE Workers = {}
      <3>1. failed[p] = 0 /\ Cardinality(Workers) = 0 /\ FailLimit \in Nat \ {0}
        BY <2>1, <2>5, FS_EmptySet, GateAssumption
      <3>2. Cardinality(Workers) * (1 + R) = 0 BY <3>1
      <3>3. failed[p] + 1 <= FailLimit + Cardinality(Workers) * (1 + R) BY <3>1, <3>2
      <3> QED BY <2>3, <3>3
    <2>6. CASE Workers # {}
      <3>1. failed[p] + 1 <= FailLimit + Cardinality(Workers) * (1 + R) BY <2>1, <2>4, <2>6, AccountBounds
      <3> QED BY <2>3, <3>1
    <2> QED BY <2>5, <2>6
  <1> QED BY <1>1, <1>2, <1>3, Invariance, InvStep, PTL DEF Spec
=============================================================================

------------------------- MODULE RestClient_proofs -------------------------
(* Proofs about RestClient and about the stages an answer goes through (MCAnswers), for *)
(* every value of their constants.                                                       *)
EXTENDS RestClient, MCAnswers, Integers, Sequences, TLAPS, FiniteSetTheorems, SequenceTheorems,
        WellFoundedInduction

(* The actions, for case splits. *)
LEMMA NextCases ==
    ASSUME Next
    PROVE  \E o \in Operations :
              \/ Begin(o) \/ ContextEnds(o) \/ Return(o)
              \/ \E l \in Legs : Reserve(o, l)
              \/ \E l \in Legs : Refuse(o, l)
              \/ \E l \in Legs : Grant(o, l)
              \/ \E l \in Legs : GiveUp(o, l)
              \/ \E l \in Legs : Send(o, l)
              \/ \E l \in Legs : Reply(o, l)
              \/ \E l \in Legs : Abandon(o, l)
              \/ \E l \in Legs : NextRequest(o, l)
  BY DEF Next, Request

-----------------------------------------------------------------------------
(* The inductive invariant. *)

(* Goroutines that hold a slot, and those that reserved a request and have *)
(* not sent it yet.                                                        *)
Flying == {x \in Operations \X Legs : leg[x[1]][x[2]] \in InFlight}
Waiting == {"queued", "granted", "grantedLate"}
Pending(o) == {l \in Legs : leg[o][l] \in Waiting}

(* A goroutine works for a running operation, so Begin finds none of its own *)
(* with a slot.                                                              *)
LegsRun == \A o \in Operations, l \in Legs : leg[o][l] # "ended" => op[o].pc = "running"

SlotsCounted == slots = Cardinality(Flying) /\ slots <= MaxConcurrentRequests

(* The counter may pass the budget, since a refused request counts as well; *)
(* the requests sent and those that still may be sent do not.               *)
Budget ==
    \A o \in Operations :
        /\ sent[o] + Cardinality(Pending(o)) <= op[o].count
        /\ sent[o] + Cardinality(Pending(o)) <= MaxOperationRequests

(* A slot granted late is one of an operation whose context stays ended. *)
LateKnown == \A o \in Operations, l \in Legs : leg[o][l] = "grantedLate" => Ended(o)

IInv == TypeOK /\ LegsRun /\ SlotsCounted /\ Budget /\ LateKnown /\ ~late

-----------------------------------------------------------------------------
(* Counting goroutines while one of them moves. *)

LEMMA SetsFinite ==
    /\ IsFiniteSet(Flying) /\ Cardinality(Flying) \in Nat
    /\ \A o \in Operations : IsFiniteSet(Pending(o)) /\ Cardinality(Pending(o)) \in Nat
  <1>1. IsFiniteSet(Operations \X Legs) BY ClientAssumption, FS_Product
  <1>2. Flying \subseteq Operations \X Legs BY DEF Flying
  <1>3. \A o \in Operations : Pending(o) \subseteq Legs BY DEF Pending
  <1>4. IsFiniteSet(Flying) BY <1>1, <1>2, FS_Subset
  <1>5. \A o \in Operations : IsFiniteSet(Pending(o)) BY <1>3, ClientAssumption, FS_Subset
  <1> QED BY <1>4, <1>5, FS_CardinalityType

(* A goroutine that moves is the only one to do so. *)
LEMMA LegMoved ==
    ASSUME TypeOK, NEW o \in Operations, NEW l \in Legs, NEW pc, Goto(o, l, pc)
    PROVE  /\ leg'[o][l] = pc
           /\ \A p \in Operations, k \in Legs : p # o \/ k # l => leg'[p][k] = leg[p][k]
  BY DEF TypeOK, Goto

(* The number of goroutines with a slot follows the one that moves. *)
LEMMA FlyingMoved ==
    ASSUME TypeOK, NEW o \in Operations, NEW l \in Legs, NEW pc, Goto(o, l, pc)
    PROVE  Cardinality(Flying') =
             Cardinality(Flying) + (IF pc \in InFlight THEN 1 ELSE 0)
                                 - (IF leg[o][l] \in InFlight THEN 1 ELSE 0)
  <1> DEFINE x == <<o, l>>
  <1>1. x \in Operations \X Legs /\ x[1] = o /\ x[2] = l OBVIOUS
  <1>2. \A y \in Operations \X Legs : y # x => (y \in Flying' <=> y \in Flying)
    <2> SUFFICES ASSUME NEW y \in Operations \X Legs, y # x PROVE leg'[y[1]][y[2]] = leg[y[1]][y[2]]
      BY DEF Flying
    <2>1. y[1] \in Operations /\ y[2] \in Legs /\ (y[1] # o \/ y[2] # l) OBVIOUS
    <2> QED BY <2>1, LegMoved
  <1>3. (x \in Flying <=> leg[o][l] \in InFlight) /\ (x \in Flying' <=> pc \in InFlight)
    BY <1>1, LegMoved DEF Flying
  <1>4. Flying \subseteq Operations \X Legs /\ Flying' \subseteq Operations \X Legs BY DEF Flying
  <1>5. Flying' = IF pc \in InFlight THEN Flying \cup {x} ELSE Flying \ {x}
    BY <1>1, <1>2, <1>3, <1>4
  <1> HIDE DEF x
  <1>6. /\ Cardinality(Flying) \in Nat
        /\ Cardinality(Flying \cup {x}) = IF x \in Flying THEN Cardinality(Flying) ELSE Cardinality(Flying) + 1
        /\ Cardinality(Flying \ {x}) = IF x \in Flying THEN Cardinality(Flying) - 1 ELSE Cardinality(Flying)
    BY SetsFinite, FS_AddElement, FS_RemoveElement
  <1> QED BY <1>3, <1>5, <1>6

(* So does the number of requests still to be sent, in its operation only. *)
LEMMA PendingMoved ==
    ASSUME TypeOK, NEW o \in Operations, NEW l \in Legs, NEW pc, Goto(o, l, pc)
    PROVE  /\ Cardinality(Pending(o)') =
                 Cardinality(Pending(o)) + (IF pc \in Waiting THEN 1 ELSE 0)
                                         - (IF leg[o][l] \in Waiting THEN 1 ELSE 0)
           /\ \A p \in Operations : p # o => Pending(p)' = Pending(p)
  <1>1. \A k \in Legs : k # l => (k \in Pending(o)' <=> k \in Pending(o)) BY LegMoved DEF Pending
  <1>2. (l \in Pending(o) <=> leg[o][l] \in Waiting) /\ (l \in Pending(o)' <=> pc \in Waiting)
    BY LegMoved DEF Pending
  <1>3. Pending(o) \subseteq Legs /\ Pending(o)' \subseteq Legs BY DEF Pending
  <1>4. Pending(o)' = IF pc \in Waiting THEN Pending(o) \cup {l} ELSE Pending(o) \ {l}
    BY <1>1, <1>2, <1>3
  <1>5. /\ Cardinality(Pending(o)) \in Nat
        /\ Cardinality(Pending(o) \cup {l}) =
             IF l \in Pending(o) THEN Cardinality(Pending(o)) ELSE Cardinality(Pending(o)) + 1
        /\ Cardinality(Pending(o) \ {l}) =
             IF l \in Pending(o) THEN Cardinality(Pending(o)) - 1 ELSE Cardinality(Pending(o))
    BY SetsFinite, FS_AddElement, FS_RemoveElement
  <1>6. ASSUME NEW p \in Operations, p # o PROVE Pending(p)' = Pending(p)
    BY <1>6, LegMoved DEF Pending
  <1>7. Cardinality(Pending(o)') = Cardinality(IF pc \in Waiting THEN Pending(o) \cup {l} ELSE Pending(o) \ {l})
    BY <1>4
  <1> QED BY <1>2, <1>5, <1>6, <1>7

-----------------------------------------------------------------------------
(* What the steps of a goroutine do to the types. *)

OpState == [pc : {"idle", "running"}, ctx : {"live", "ended"}, count : Nat]
LegState == {"start", "queued", "ended"} \cup InFlight

LEMMA LegTyped ==
    ASSUME TypeOK, NEW o \in Operations, NEW l \in Legs, NEW pc \in LegState, Goto(o, l, pc)
    PROVE  leg' \in [Operations -> [Legs -> LegState]]
  BY DEF TypeOK, Goto, LegState

LEMMA FinishTyped ==
    ASSUME TypeOK, NEW o \in Operations, NEW l \in Legs, Finish(o, l, "failed")
    PROVE  /\ leg' \in [Operations -> [Legs -> LegState]]
           /\ result' \in [Operations -> [Legs -> {"ok", "failed"}]]
  <1>1. leg' \in [Operations -> [Legs -> LegState]] BY LegTyped DEF Finish, LegState
  <1>2. result' \in [Operations -> [Legs -> {"ok", "failed"}]] BY DEF TypeOK, Finish
  <1> QED BY <1>1, <1>2

(* A request at most counts. *)
LEMMA Counted ==
    ASSUME TypeOK, NEW o \in Operations, op' = op \/ op' = [op EXCEPT ![o].count = @ + 1]
    PROVE  /\ op' \in [Operations -> OpState]
           /\ \A p \in Operations : op'[p].pc = op[p].pc /\ op'[p].ctx = op[p].ctx
           /\ \A p \in Operations : op'[p].count \in {op[p].count, op[p].count + 1}
  <1>1. op \in [Operations -> OpState] BY DEF TypeOK, OpState
  <1>2. CASE op' = op BY <1>1, <1>2
  <1>3. CASE op' = [op EXCEPT ![o].count = @ + 1]
    <2>1. op'[o] = [op[o] EXCEPT !.count = op[o].count + 1] BY <1>1, <1>3
    <2>2. \A p \in Operations : p # o => op'[p] = op[p] BY <1>1, <1>3
    <2>3. op[o] \in OpState BY <1>1
    <2>4. op'[o] \in OpState /\ op'[o].pc = op[o].pc /\ op'[o].ctx = op[o].ctx /\ op'[o].count = op[o].count + 1
      BY <2>1, <2>3 DEF OpState
    <2>5. op' \in [Operations -> OpState] BY <1>1, <1>3, <2>2, <2>4
    <2> QED BY <2>2, <2>4, <2>5
  <1> QED BY <1>2, <1>3

-----------------------------------------------------------------------------
(* Each conjunct, step by step. *)

LEMMA TypeStep ==
    ASSUME IInv, [Next]_vars
    PROVE  TypeOK'
  <1> USE DEF IInv
  <1>1. CASE UNCHANGED vars BY <1>1 DEF TypeOK, vars
  <1>2. ASSUME NEW o \in Operations, Begin(o) PROVE TypeOK' BY <1>2 DEF TypeOK, Begin
  <1>3. ASSUME NEW o \in Operations, ContextEnds(o) PROVE TypeOK' BY <1>3 DEF TypeOK, ContextEnds
  <1>4. ASSUME NEW o \in Operations, Return(o) PROVE TypeOK' BY <1>4 DEF TypeOK, Return
  (* A goroutine that gives a slot back holds one, so the count stays natural. *)
  <1>5. ASSUME NEW o \in Operations, NEW l \in Legs, leg[o][l] \in InFlight PROVE slots - 1 \in Nat
    <2>1. <<o, l>> \in Flying BY <1>5 DEF Flying
    <2>2. Cardinality(Flying) # 0 BY <2>1, SetsFinite, FS_EmptySet
    <2> QED BY <2>2, SetsFinite DEF SlotsCounted
  <1>6. ASSUME NEW o \in Operations, NEW l \in Legs, Reserve(o, l) PROVE TypeOK'
    <2>1. op' = op \/ op' = [op EXCEPT ![o].count = @ + 1] BY <1>6 DEF Reserve
    <2>2. op' \in [Operations -> OpState] BY <2>1, Counted
    <2>3. (Goto(o, l, "queued") /\ result' = result) \/ Finish(o, l, "failed") BY <1>6 DEF Reserve
    <2>4. UNCHANGED <<slots, sent, late>> BY <1>6 DEF Reserve
    <2>5. leg' \in [Operations -> [Legs -> LegState]] /\ result' \in [Operations -> [Legs -> {"ok", "failed"}]]
      <3>1. CASE Goto(o, l, "queued") /\ result' = result BY <3>1, LegTyped DEF TypeOK, LegState
      <3>2. CASE Finish(o, l, "failed") BY <3>2, FinishTyped
      <3> QED BY <2>3, <3>1, <3>2
    <2> QED BY <2>2, <2>4, <2>5 DEF TypeOK, OpState, LegState
  <1>7. ASSUME NEW o \in Operations, NEW l \in Legs, Refuse(o, l) PROVE TypeOK'
    BY <1>7 DEF TypeOK, Refuse, Finish, Goto
  <1>8. ASSUME NEW o \in Operations, NEW l \in Legs, Grant(o, l) PROVE TypeOK'
    BY <1>8 DEF TypeOK, Grant, Goto, InFlight
  <1>9. ASSUME NEW o \in Operations, NEW l \in Legs, GiveUp(o, l) PROVE TypeOK'
    BY <1>9 DEF TypeOK, GiveUp, Finish, Goto
  <1>10. ASSUME NEW o \in Operations, NEW l \in Legs, Send(o, l) PROVE TypeOK'
    <2>1. slots - 1 \in Nat BY <1>10, <1>5 DEF Send, InFlight
    <2>2. /\ op' = op
          /\ \/ Finish(o, l, "failed") /\ slots' = slots - 1 /\ UNCHANGED <<sent, late>>
             \/ /\ Goto(o, l, "sent") /\ sent' = [sent EXCEPT ![o] = @ + 1] /\ late' \in BOOLEAN
                /\ UNCHANGED <<result, slots>>
      BY <1>10 DEF Send, TypeOK, At
    <2>3. slots' \in Nat /\ sent' \in [Operations -> Nat] /\ late' \in BOOLEAN BY <2>1, <2>2 DEF TypeOK
    <2>4. leg' \in [Operations -> [Legs -> LegState]] /\ result' \in [Operations -> [Legs -> {"ok", "failed"}]]
      <3>1. CASE Goto(o, l, "sent") /\ result' = result BY <3>1, LegTyped DEF TypeOK, LegState, InFlight
      <3>2. CASE Finish(o, l, "failed") BY <3>2, FinishTyped
      <3> QED BY <2>2, <3>1, <3>2
    <2> QED BY <2>2, <2>3, <2>4 DEF TypeOK, LegState
  <1>11. ASSUME NEW o \in Operations, NEW l \in Legs, Reply(o, l) PROVE TypeOK'
    BY <1>11, <1>5 DEF TypeOK, Reply, Finish, Goto, At, InFlight
  <1>12. ASSUME NEW o \in Operations, NEW l \in Legs, Abandon(o, l) PROVE TypeOK'
    BY <1>12, <1>5 DEF TypeOK, Abandon, Finish, Goto, At, InFlight
  <1>13. ASSUME NEW o \in Operations, NEW l \in Legs, NextRequest(o, l) PROVE TypeOK'
    BY <1>13 DEF TypeOK, NextRequest, Goto
  <1> QED BY <1>1, <1>2, <1>3, <1>4, <1>6, <1>7, <1>8, <1>9, <1>10, <1>11, <1>12, <1>13, NextCases

LEMMA RunStep ==
    ASSUME IInv, [Next]_vars
    PROVE  LegsRun'
  <1> USE DEF IInv
  <1>1. CASE UNCHANGED vars BY <1>1 DEF LegsRun, vars
  <1>2. ASSUME NEW o \in Operations, Begin(o) PROVE LegsRun'
    <2>1. op'[o].pc = "running" /\ \A p \in Operations : p # o => op'[p] = op[p] /\ leg'[p] = leg[p]
      BY <1>2 DEF TypeOK, Begin
    <2> QED BY <2>1 DEF LegsRun
  <1>3. ASSUME NEW o \in Operations, ContextEnds(o) PROVE LegsRun'
    <2>1. leg' = leg /\ \A p \in Operations : op'[p].pc = op[p].pc BY <1>3 DEF TypeOK, ContextEnds
    <2> QED BY <2>1 DEF LegsRun
  <1>4. ASSUME NEW o \in Operations, Return(o) PROVE LegsRun'
    <2>1. leg' = leg /\ \A p \in Operations : p # o => op'[p] = op[p] BY <1>4 DEF TypeOK, Return
    <2>2. \A l \in Legs : leg[o][l] = "ended" BY <1>4 DEF Return, At
    <2> QED BY <2>1, <2>2 DEF LegsRun
  (* Only a goroutine of a running operation moves, and none of these stops one. *)
  <1>5. ASSUME NEW o \in Operations, NEW l \in Legs, NEW pc, Goto(o, l, pc),
               op[o].pc = "running", \A p \in Operations : op'[p].pc = op[p].pc
        PROVE  LegsRun'
    BY <1>5, LegMoved DEF LegsRun
  <1>6. ASSUME NEW o \in Operations, NEW l \in Legs,
               \/ Reserve(o, l) \/ Refuse(o, l) \/ Grant(o, l) \/ GiveUp(o, l) \/ Send(o, l)
               \/ Reply(o, l) \/ Abandon(o, l) \/ NextRequest(o, l)
        PROVE  LegsRun'
    <2>0. op' = op \/ op' = [op EXCEPT ![o].count = @ + 1]
      BY <1>6 DEF Reserve, Refuse, Grant, GiveUp, Send, Reply, Abandon, NextRequest
    <2>1. \A p \in Operations : op'[p].pc = op[p].pc BY <2>0, Counted
    <2>2. leg[o][l] # "ended" \/ op[o].pc = "running"
      BY <1>6 DEF At, Reserve, Refuse, Grant, GiveUp, Send, Reply, Abandon, NextRequest
    <2>3. op[o].pc = "running" BY <2>2 DEF LegsRun
    <2>4. \E pc : Goto(o, l, pc)
      BY <1>6 DEF Finish, Reserve, Refuse, Grant, GiveUp, Send, Reply, Abandon, NextRequest
    <2> QED BY <2>1, <2>3, <2>4, <1>5
  <1> QED BY <1>1, <1>2, <1>3, <1>4, <1>6, NextCases

(* A slot goes with the goroutine that takes it or gives it back. *)
LEMMA SlotsStep ==
    ASSUME IInv, [Next]_vars
    PROVE  SlotsCounted'
  <1> USE DEF IInv
  <1> USE ClientAssumption
  <1>0. Cardinality(Flying) \in Nat /\ slots \in Nat BY SetsFinite DEF TypeOK
  <1>a. ASSUME leg' = leg, slots' = slots PROVE SlotsCounted'
    <2>1. Flying' = Flying BY <1>a DEF Flying
    <2> QED BY <1>a, <2>1 DEF SlotsCounted
  <1>1. CASE UNCHANGED vars BY <1>1, <1>a DEF vars
  <1>2. ASSUME NEW o \in Operations, Begin(o) PROVE SlotsCounted'
    <2>1. \A l \in Legs : leg[o][l] = "ended" /\ leg'[o][l] = "start" BY <1>2 DEF TypeOK, Begin, LegsRun
    <2>2. \A p \in Operations : p # o => leg'[p] = leg[p] BY <1>2 DEF TypeOK, Begin
    <2>3. \A p \in Operations, l \in Legs : leg'[p][l] \in InFlight <=> leg[p][l] \in InFlight
      BY <2>1, <2>2 DEF InFlight
    <2>4. Flying' = Flying BY <2>3 DEF Flying
    <2> QED BY <1>2, <2>4 DEF Begin, SlotsCounted
  <1>3. ASSUME NEW o \in Operations, ContextEnds(o) PROVE SlotsCounted' BY <1>3, <1>a DEF ContextEnds
  <1>4. ASSUME NEW o \in Operations, Return(o) PROVE SlotsCounted' BY <1>4, <1>a DEF Return
  (* No slot is taken or given back when neither place holds one. *)
  <1>5. ASSUME NEW o \in Operations, NEW l \in Legs, NEW pc, Goto(o, l, pc), slots' = slots,
               pc \in InFlight <=> leg[o][l] \in InFlight
        PROVE  SlotsCounted'
    BY <1>0, <1>5, FlyingMoved DEF SlotsCounted
  <1>6. ASSUME NEW o \in Operations, NEW l \in Legs, NEW pc, Goto(o, l, pc), slots' = slots - 1,
               pc \notin InFlight, leg[o][l] \in InFlight
        PROVE  SlotsCounted'
    BY <1>0, <1>6, FlyingMoved DEF SlotsCounted
  <1>7. ASSUME NEW o \in Operations, NEW l \in Legs, Reserve(o, l) PROVE SlotsCounted'
    <2>1. \E pc \in {"ended", "queued"} : Goto(o, l, pc) BY <1>7 DEF Reserve, Finish
    <2>2. leg[o][l] = "start" /\ slots' = slots BY <1>7 DEF Reserve, At
    <2> QED BY <2>1, <2>2, <1>5 DEF InFlight
  <1>8. ASSUME NEW o \in Operations, NEW l \in Legs, Refuse(o, l) PROVE SlotsCounted'
    BY <1>8, <1>5 DEF Refuse, Finish, At, InFlight
  <1>9. ASSUME NEW o \in Operations, NEW l \in Legs, Grant(o, l) PROVE SlotsCounted'
    <2>1. PICK pc \in {"granted", "grantedLate"} : Goto(o, l, pc) BY <1>9 DEF Grant
    <2>2. leg[o][l] = "queued" /\ slots < MaxConcurrentRequests /\ slots' = slots + 1 BY <1>9 DEF Grant, At
    <2>3. Cardinality(Flying') = Cardinality(Flying) + 1 BY <1>0, <2>1, <2>2, FlyingMoved DEF InFlight
    <2> QED BY <1>0, <2>2, <2>3 DEF SlotsCounted
  <1>10. ASSUME NEW o \in Operations, NEW l \in Legs, GiveUp(o, l) PROVE SlotsCounted'
    BY <1>10, <1>5 DEF GiveUp, Finish, At, InFlight
  <1>11. ASSUME NEW o \in Operations, NEW l \in Legs, Send(o, l) PROVE SlotsCounted'
    <2>1. leg[o][l] \in InFlight BY <1>11 DEF Send, InFlight
    <2>2. CASE Finish(o, l, "failed") /\ slots' = slots - 1 BY <2>1, <2>2, <1>6 DEF Finish, InFlight
    <2>3. CASE Goto(o, l, "sent") /\ slots' = slots BY <2>1, <2>3, <1>5 DEF InFlight
    <2> QED BY <1>11, <2>2, <2>3 DEF Send
  <1>12. ASSUME NEW o \in Operations, NEW l \in Legs, Reply(o, l) PROVE SlotsCounted'
    BY <1>12, <1>6 DEF Reply, Finish, At, InFlight
  <1>13. ASSUME NEW o \in Operations, NEW l \in Legs, Abandon(o, l) PROVE SlotsCounted'
    BY <1>13, <1>6 DEF Abandon, Finish, At, InFlight
  <1>14. ASSUME NEW o \in Operations, NEW l \in Legs, NextRequest(o, l) PROVE SlotsCounted'
    BY <1>14, <1>5 DEF NextRequest, At, InFlight
  <1> QED BY <1>1, <1>2, <1>3, <1>4, <1>7, <1>8, <1>9, <1>10, <1>11, <1>12, <1>13, <1>14, NextCases

(* Ending is final, and a goroutine learns of it with its slot. *)
LEMMA LateStep ==
    ASSUME IInv, [Next]_vars
    PROVE  LateKnown' /\ ~late'
  <1> USE DEF IInv
  <1>1. CASE UNCHANGED vars BY <1>1 DEF LateKnown, Ended, vars
  <1>2. ASSUME NEW o \in Operations, Begin(o) PROVE LateKnown' /\ ~late'
    <2>1. \A l \in Legs : leg'[o][l] = "start" BY <1>2 DEF TypeOK, Begin
    <2>2. \A p \in Operations : p # o => leg'[p] = leg[p] /\ op'[p] = op[p] BY <1>2 DEF TypeOK, Begin
    <2> QED BY <1>2, <2>1, <2>2 DEF LateKnown, Ended, Begin
  <1>3. ASSUME NEW o \in Operations, ContextEnds(o) PROVE LateKnown' /\ ~late'
    <2>1. op'[o].ctx = "ended" /\ \A p \in Operations : p # o => op'[p] = op[p] BY <1>3 DEF TypeOK, ContextEnds
    <2> QED BY <1>3, <2>1 DEF LateKnown, Ended, ContextEnds
  <1>4. ASSUME NEW o \in Operations, Return(o) PROVE LateKnown' /\ ~late'
    <2>1. \A l \in Legs : leg'[o][l] = "ended" BY <1>4 DEF Return, At
    <2>2. leg' = leg /\ late' = late /\ \A p \in Operations : p # o => op'[p] = op[p] BY <1>4 DEF TypeOK, Return
    <2> QED BY <2>1, <2>2 DEF LateKnown, Ended
  <1>5. ASSUME NEW o \in Operations, NEW l \in Legs, NEW pc, Goto(o, l, pc),
               pc = "grantedLate" => Ended(o), op' = op \/ op' = [op EXCEPT ![o].count = @ + 1]
        PROVE  LateKnown'
    <2>1. \A p \in Operations : op'[p].ctx = op[p].ctx BY <1>5, Counted
    <2> QED BY <1>5, <2>1, LegMoved DEF LateKnown, Ended
  <1>6. ASSUME NEW o \in Operations, NEW l \in Legs, Grant(o, l) PROVE LateKnown' /\ ~late'
    BY <1>6, <1>5 DEF Grant
  <1>7. ASSUME NEW o \in Operations, NEW l \in Legs, Send(o, l) PROVE LateKnown' /\ ~late'
    <2>1. CASE Ended(o) /\ Finish(o, l, "failed") /\ late' = late BY <1>7, <2>1, <1>5 DEF Finish, Send
    <2>2. CASE ~Ended(o) /\ Goto(o, l, "sent") /\ late' = (late \/ At(o, l, "grantedLate"))
      BY <1>7, <2>2, <1>5 DEF LateKnown, At, Send
    <2> QED BY <1>7, <2>1, <2>2 DEF Send
  <1>8. ASSUME NEW o \in Operations, NEW l \in Legs,
               \/ Reserve(o, l) \/ Refuse(o, l) \/ GiveUp(o, l)
               \/ Reply(o, l) \/ Abandon(o, l) \/ NextRequest(o, l)
        PROVE  LateKnown' /\ ~late'
    <2>1. op' = op \/ op' = [op EXCEPT ![o].count = @ + 1]
      BY <1>8 DEF Reserve, Refuse, GiveUp, Reply, Abandon, NextRequest
    <2>2. late' = late BY <1>8 DEF Reserve, Refuse, GiveUp, Reply, Abandon, NextRequest
    <2>3. \E pc \in {"start", "queued", "ended"} : Goto(o, l, pc)
      BY <1>8 DEF Finish, Reserve, Refuse, GiveUp, Reply, Abandon, NextRequest
    <2> QED BY <2>1, <2>2, <2>3, <1>5
  <1> QED BY <1>1, <1>2, <1>3, <1>4, <1>6, <1>7, <1>8, NextCases

(* A request is reserved before it waits, waits before it is sent, and is *)
(* counted once in either place.                                          *)
LEMMA BudgetStep ==
    ASSUME IInv, [Next]_vars
    PROVE  Budget'
  <1> USE DEF IInv
  <1> USE ClientAssumption
  <1>0. \A p \in Operations : /\ Cardinality(Pending(p)) \in Nat /\ sent[p] \in Nat /\ op[p].count \in Nat
                              /\ sent[p] + Cardinality(Pending(p)) <= op[p].count
                              /\ sent[p] + Cardinality(Pending(p)) <= MaxOperationRequests
    BY SetsFinite DEF TypeOK, Budget
  <1>1. CASE UNCHANGED vars
    <2>1. \A p \in Operations : Pending(p)' = Pending(p) BY <1>1 DEF Pending, vars
    <2> QED BY <1>1, <2>1 DEF Budget, vars
  <1>2. ASSUME NEW o \in Operations, Begin(o) PROVE Budget'
    <2>1. \A l \in Legs : leg'[o][l] = "start" BY <1>2 DEF TypeOK, Begin
    <2>2. Pending(o)' = {} BY <2>1 DEF Pending, Waiting
    <2>3. Cardinality(Pending(o)') = 0 BY <2>2, FS_EmptySet
    <2>4. \A p \in Operations : p # o => Pending(p)' = Pending(p) BY <1>2 DEF TypeOK, Begin, Pending
    <2>5. sent' = sent /\ \A p \in Operations : op'[p].count = op[p].count BY <1>2 DEF TypeOK, Begin
    <2> QED BY <1>0, <2>3, <2>4, <2>5 DEF Budget
  <1>3. ASSUME NEW o \in Operations, ContextEnds(o) PROVE Budget'
    <2>1. \A p \in Operations : Pending(p)' = Pending(p) BY <1>3 DEF Pending, ContextEnds
    <2>2. sent' = sent /\ \A p \in Operations : op'[p].count = op[p].count BY <1>3 DEF TypeOK, ContextEnds
    <2> QED BY <1>0, <2>1, <2>2 DEF Budget
  <1>4. ASSUME NEW o \in Operations, Return(o) PROVE Budget'
    <2>1. Pending(o)' = {} BY <1>4 DEF Return, At, Pending, Waiting
    <2>2. Cardinality(Pending(o)') = 0 BY <2>1, FS_EmptySet
    <2>3. \A p \in Operations : p # o => Pending(p)' = Pending(p) BY <1>4 DEF Pending, Return
    <2>4. /\ sent'[o] = 0 /\ op'[o].count = 0
          /\ \A p \in Operations : p # o => sent'[p] = sent[p] /\ op'[p] = op[p]
      BY <1>4 DEF TypeOK, Return
    <2> QED BY <1>0, <2>2, <2>3, <2>4 DEF Budget
  (* Nothing is added to what an operation sends and may send. *)
  <1>5. ASSUME NEW o \in Operations, NEW l \in Legs, NEW pc, Goto(o, l, pc), sent' = sent,
               op' = op \/ op' = [op EXCEPT ![o].count = @ + 1],
               pc \in Waiting => leg[o][l] \in Waiting
        PROVE  Budget'
    <2>1. Cardinality(Pending(o)') <= Cardinality(Pending(o)) /\ Cardinality(Pending(o)') \in Int
      BY <1>0, <1>5, PendingMoved
    <2>2. \A p \in Operations : p # o => Pending(p)' = Pending(p) BY <1>5, PendingMoved
    <2>3. \A p \in Operations : op'[p].count \in {op[p].count, op[p].count + 1} BY <1>5, Counted
    <2>4. \A p \in Operations : Cardinality(Pending(p)') <= Cardinality(Pending(p)) /\ Cardinality(Pending(p)') \in Int
      BY <1>0, <2>1, <2>2
    <2> QED BY <1>0, <1>5, <2>3, <2>4 DEF Budget
  <1>6. ASSUME NEW o \in Operations, NEW l \in Legs, Reserve(o, l) PROVE Budget'
    <2>1. leg[o][l] = "start" /\ sent' = sent BY <1>6 DEF Reserve, At
    <2>2. CASE Finish(o, l, "failed")
      <3>1. op' = op \/ op' = [op EXCEPT ![o].count = @ + 1] BY <1>6 DEF Reserve
      <3> QED BY <2>1, <2>2, <3>1, <1>5 DEF Finish, Waiting
    <2>3. CASE Goto(o, l, "queued") /\ op' = [op EXCEPT ![o].count = @ + 1] /\ op[o].count + 1 <= MaxOperationRequests
      <3>1. Cardinality(Pending(o)') = Cardinality(Pending(o)) + 1
        BY <1>0, <2>1, <2>3, PendingMoved DEF Waiting
      <3>2. \A p \in Operations : p # o => Pending(p)' = Pending(p) BY <2>3, PendingMoved
      <3>3. op'[o].count = op[o].count + 1 /\ \A p \in Operations : p # o => op'[p] = op[p] BY <2>3 DEF TypeOK
      <3> QED BY <1>0, <2>1, <2>3, <3>1, <3>2, <3>3 DEF Budget
    <2> QED BY <1>6, <2>2, <2>3 DEF Reserve
  <1>7. ASSUME NEW o \in Operations, NEW l \in Legs, Send(o, l) PROVE Budget'
    <2>1. leg[o][l] \in Waiting /\ op' = op BY <1>7 DEF Send, Waiting
    <2>2. CASE Finish(o, l, "failed") /\ sent' = sent BY <2>1, <2>2, <1>5 DEF Finish
    <2>3. CASE Goto(o, l, "sent") /\ sent' = [sent EXCEPT ![o] = @ + 1]
      <3>1. Cardinality(Pending(o)') = Cardinality(Pending(o)) - 1
        BY <1>0, <2>1, <2>3, PendingMoved DEF Waiting
      <3>2. \A p \in Operations : p # o => Pending(p)' = Pending(p) BY <2>3, PendingMoved
      <3>3. sent'[o] = sent[o] + 1 /\ \A p \in Operations : p # o => sent'[p] = sent[p] BY <2>3 DEF TypeOK
      <3> QED BY <1>0, <2>1, <3>1, <3>2, <3>3 DEF Budget
    <2> QED BY <1>7, <2>2, <2>3 DEF Send
  <1>8. ASSUME NEW o \in Operations, NEW l \in Legs,
               \/ Refuse(o, l) \/ Grant(o, l) \/ GiveUp(o, l)
               \/ Reply(o, l) \/ Abandon(o, l) \/ NextRequest(o, l)
        PROVE  Budget'
    <2>1. op' = op /\ sent' = sent BY <1>8 DEF Refuse, Grant, GiveUp, Reply, Abandon, NextRequest
    <2>2. \E pc : Goto(o, l, pc) /\ (pc \in Waiting => leg[o][l] \in Waiting)
      BY <1>8 DEF Finish, At, Waiting, Refuse, Grant, GiveUp, Reply, Abandon, NextRequest
    <2> QED BY <2>1, <2>2, <1>5
  <1> QED BY <1>1, <1>2, <1>3, <1>4, <1>6, <1>7, <1>8, NextCases

-----------------------------------------------------------------------------
(* Theorems *)

LEMMA Start ==
    ASSUME Init
    PROVE  IInv
  <1>1. TypeOK /\ LegsRun /\ LateKnown /\ ~late BY DEF Init, TypeOK, LegsRun, LateKnown, InFlight
  <1>2. Flying = {} /\ \A o \in Operations : Pending(o) = {} BY DEF Init, Flying, Pending, InFlight, Waiting
  <1>3. Cardinality(Flying) = 0 /\ \A o \in Operations : Cardinality(Pending(o)) = 0 BY <1>2, FS_EmptySet
  <1>4. SlotsCounted BY <1>3, ClientAssumption DEF Init, SlotsCounted
  <1>5. Budget BY <1>3, ClientAssumption DEF Init, Budget
  <1> QED BY <1>1, <1>4, <1>5 DEF IInv

(* Every behaviour of the client keeps its invariant. *)
THEOREM Invariance == Spec => []IInv
  <1>1. Init => IInv BY Start
  <1>2. IInv /\ [Next]_vars => IInv' BY TypeStep, RunStep, SlotsStep, BudgetStep, LateStep DEF IInv
  <1> QED BY <1>1, <1>2, PTL DEF Spec

(* The semaphore holds one token for each request between its grant and its  *)
(* end, and never more than MaxConcurrentRequests: client.go releases a slot *)
(* on every path that took one and on no other.                              *)
THEOREM SlotsAreExact == Spec => []SlotsExact
  <1>1. IInv => SlotsExact BY DEF IInv, SlotsCounted, SlotsExact, Flying
  <1> QED BY <1>1, Invariance, PTL

(* No operation sends more than MaxOperationRequests requests, however many   *)
(* goroutines it runs, and none that got its slot after its context had ended. *)
THEOREM SentStaysInBounds == Spec => []SentInBounds
  <1>1. IInv => SentInBounds
    <2> SUFFICES ASSUME IInv, NEW o \in Operations PROVE sent[o] <= MaxOperationRequests
      BY DEF IInv, SentInBounds
    <2>1. sent[o] + Cardinality(Pending(o)) <= MaxOperationRequests BY DEF IInv, Budget
    <2>2. sent[o] \in Nat /\ Cardinality(Pending(o)) \in Nat BY SetsFinite DEF IInv, TypeOK
    <2> QED BY <2>1, <2>2, ClientAssumption
  <1> QED BY <1>1, Invariance, PTL

-----------------------------------------------------------------------------
(* The status of a tool, for any counters and answers. *)

JoiningParts == Joining!Parts
(* What is asked is vouched for: a second part only after the first was answered well. *)
Vouched ==
    /\ tool = "issues" =>
         /\ asked # {} => "event_scope" \in asked
         /\ "issues" \in asked => Joining!Sent("event_scope")
    /\ tool \notin {"cluster_health", "issues"} =>
         /\ asked # {} => tool \in asked
         /\ asked \cap Joining!Optional[tool] # {} =>
              Joining!Sent(tool) /\ (tool = "asset_impact" => ~reply[tool].empty)
CallEnds == asked # {} /\ Joining!NextParts = {} /\ \A p \in asked : Joining!Answered(p)

(* What an envelope of status st and errors errs must be. *)
Honesty(st, errs) ==
    /\ st = "ok" =>
        /\ Joining!Main(tool) \cup include \subseteq asked
        /\ \A p \in asked : ~Joining!Doubtful(reply[p])
        /\ errs = {}
    /\ \A p \in asked : ~Joining!Sent(p) => p \in errs
Fair(st) ==
    tool = "cluster_health" =>
        (st = "error") =
            /\ ~Joining!Sent("connectivity") \/ ~reply["connectivity"].reachable
            /\ \/ ~Joining!Sent("partitions")
               \/ /\ reply["partitions"].st \in Joining!Failing
                  /\ reply["partitions"].total <= reply["partitions"].failed

JoiningInv ==
    /\ tool \in Joining!Tools /\ include \subseteq Joining!Optional[tool]
    /\ asked \subseteq (Joining!Main(tool) \cup include) \ Joining!Refused
    /\ DOMAIN reply = Joining!Parts
    /\ \A p \in Joining!Parts : reply[p] = None \/ (reply[p] \in Joining!Answers(p) /\ p \in asked)
    /\ Vouched
    /\ \/ status = None /\ errors = {}
       \/ /\ \A p \in asked : Joining!Answered(p)
          /\ status \in {"ok", "partial", "error"} /\ Honesty(status, errors) /\ Fair(status)

Offers(t) == CASE t = "asset_impact" -> {"impact"}
               [] t = "topic_detail" -> {"partitions"}
               [] t = "event_detail" -> {"occurrences", "actions", "issue", "playbook"}
               [] t = "attention_policy" -> {"attention_profile"}
               [] OTHER -> {}
LEMMA Menu ==
    /\ Joining!Tools = {"cluster_health", "group_lag", "lag_overview", "storage", "config_audit", "reassignments",
            "series", "snapshot", "scram_audit", "acl_risk", "requests", "event_summary", "issues",
            "asset_impact", "topic_detail", "event_detail", "attention_policy"}
    /\ \A t \in Joining!Tools : Joining!Optional[t] = Offers(t)
    /\ \A t \in Joining!Tools : Joining!Main(t) \cup Joining!Optional[t] \subseteq Joining!Parts
  <1>1. Joining!Tools = {"cluster_health", "group_lag", "lag_overview", "storage", "config_audit", "reassignments",
            "series", "snapshot", "scram_audit", "acl_risk", "requests", "event_summary", "issues",
            "asset_impact", "topic_detail", "event_detail", "attention_policy"}
    BY DEF Joining!Tools, Joining!Optional
  <1>2. \A t \in Joining!Tools : Joining!Optional[t] = Offers(t)
    BY DEF Joining!Tools, Joining!Optional, Offers
  <1>3. \A t \in Joining!Tools : Joining!Main(t) \cup Joining!Optional[t] \subseteq Joining!Parts
    BY DEF Joining!Parts
  <1> QED BY <1>1, <1>2, <1>3

(* The envelope a call ends with. *)
Honest == Honesty(Joining!Outcome.status, Joining!Outcome.errors)

(* What a finished call of a tool that has one main part stands on. *)
Single == Joining!Tools \ {"cluster_health", "issues"}

LEMMA Whole ==
    ASSUME JoiningInv, CallEnds, tool \in Single
    PROVE  /\ Joining!Main(tool) = {tool} /\ tool \in asked
           /\ asked \subseteq {tool} \cup (include \ Joining!Refused)
           /\ \A p \in asked : /\ reply[p] # None /\ reply[p] \in Joining!Answers(p)
                               /\ Joining!Sent(p) <=> reply[p].sent
  <1>1. tool \in Joining!Tools /\ tool \notin {"cluster_health", "issues"} BY DEF Single
  <1>2. Joining!Main(tool) = {tool} BY <1>1, Zenon DEF Joining!Main
  <1>3. tool \in asked BY <1>1 DEF JoiningInv, Vouched, CallEnds
  <1>4. asked \subseteq {tool} \cup (include \ Joining!Refused) BY <1>2 DEF JoiningInv
  <1>5. \A p \in asked : p \in Joining!Parts BY <1>1, <1>2, <1>4, Menu DEF JoiningInv
  <1>6. \A p \in asked : reply[p] # None /\ reply[p] \in Joining!Answers(p)
    BY <1>5 DEF JoiningInv, CallEnds, Joining!Answered
  <1>7. \A p \in asked : Joining!Sent(p) <=> reply[p].sent
    BY <1>6 DEF Joining!Sent, Joining!Answered
  <1> QED BY <1>2, <1>3, <1>4, <1>6, <1>7

LEMMA FailedHonest ==
    ASSUME JoiningInv, CallEnds, tool # "cluster_health", \E p \in Joining!Main(tool) \cap asked : ~Joining!Sent(p)
    PROVE  Honest
  <1>1. Joining!Outcome = Joining!Envelope("error", Joining!FailedParts)
    BY Zenon DEF Joining!Outcome
  <1>2. Joining!Outcome.status = "error" /\ Joining!Outcome.errors = Joining!FailedParts
    BY <1>1 DEF CallEnds, Joining!Envelope
  <1> QED BY <1>2 DEF Honest, Honesty, Joining!FailedParts

LEMMA SentWell ==
    ASSUME JoiningInv, CallEnds, tool \in Single, reply[tool].sent
    PROVE  ~(tool # "cluster_health" /\ \E p \in Joining!Main(tool) \cap asked : ~Joining!Sent(p))
  BY Whole

(* Tools that have no other part. *)
LEMMA AloneHonest ==
    ASSUME JoiningInv, CallEnds, tool \in Single, Joining!Optional[tool] = {}, reply[tool].sent,
           Joining!Outcome.status = "ok" =>
               ~Joining!Doubtful(reply[tool]) /\ Joining!Outcome.errors = {}
    PROVE  Honest
  <1>1. asked = {tool} /\ include = {} /\ Joining!Main(tool) = {tool} BY Whole DEF JoiningInv
  <1>2. Joining!Sent(tool) BY <1>1, Whole
  <1> QED BY <1>1, <1>2 DEF Honest, Honesty, CallEnds

LEMMA NotError == ~Joining!Error.sent
  BY DEF Joining!Error

LEMMA GroupLagHonest ==
    ASSUME JoiningInv, CallEnds, tool = "group_lag", reply[tool].sent, AnswersAssumption
    PROVE  Honest
  <1>0. tool \in Single /\ Joining!Optional[tool] = {} BY Menu DEF Single, Offers
  <1>1. reply[tool] \in [sent : {TRUE}, st : Joining!Probes, found : BOOLEAN, code : {"OK", "NOT_FOUND"},
                                counted : Counts, failed : Counts]
    <2>1. reply[tool] \in Joining!Answers("group_lag") BY <1>0, Whole
    <2>2. Joining!Answers("group_lag") = {Joining!Error} \cup [sent : {TRUE}, st : Joining!Probes, found : BOOLEAN,
              code : {"OK", "NOT_FOUND"}, counted : Counts, failed : Counts]
      BY DEF Joining!Answers
    <2> QED BY <2>1, <2>2, NotError
  <1>2. Joining!Outcome = Joining!groupLag BY <1>0, SentWell DEF Joining!Outcome
  <1>3. Counts \subseteq Nat BY DEF AnswersAssumption, Joining!OutcomeAssumption
  <1>4. Joining!groupLag.status = "ok" => /\ ~Joining!backendFailure(reply["group_lag"].st) /\ reply["group_lag"].found
                                          /\ ~(reply["group_lag"].failed > 0) /\ Joining!groupLag.errors = {}
    BY <1>1 DEF Joining!groupLag, Joining!Envelope
  <1>5. Joining!groupLag.status = "ok" => ~Joining!Doubtful(reply[tool])
    BY <1>1, <1>3, <1>4 DEF Joining!Doubtful, Joining!Field, Joining!backendFailure, Joining!Probes
  <1> QED BY <1>0, <1>2, <1>4, <1>5, AloneHonest

LEMMA LagOverviewHonest ==
    ASSUME JoiningInv, CallEnds, tool = "lag_overview", reply[tool].sent
    PROVE  Honest
  <1>0. tool \in Single /\ Joining!Optional[tool] = {} BY Menu DEF Single, Offers
  <1>1. reply[tool] \in [sent : {TRUE}, st : Joining!Probes, observed : BOOLEAN, partial : BOOLEAN,
                                   alerts : {"OK", "DISABLED", "UNAVAILABLE"}, synced : BOOLEAN]
    <2>1. reply[tool] \in Joining!Answers("lag_overview") BY <1>0, Whole
    <2>2. Joining!Answers("lag_overview") = {Joining!Error} \cup [sent : {TRUE}, st : Joining!Probes,
              observed : BOOLEAN, partial : BOOLEAN, alerts : {"OK", "DISABLED", "UNAVAILABLE"}, synced : BOOLEAN]
      BY DEF Joining!Answers
    <2> QED BY <2>1, <2>2, NotError
  <1>2. Joining!Outcome = Joining!lagOverview BY <1>0, SentWell DEF Joining!Outcome
  <1>3. Joining!lagOverview.status = "ok" =>
            /\ ~Joining!backendFailure(reply["lag_overview"].st) /\ ~reply["lag_overview"].partial
            /\ reply["lag_overview"].synced /\ reply["lag_overview"].alerts = "OK" /\ Joining!lagOverview.errors = {}
    BY <1>1 DEF Joining!lagOverview, Joining!Envelope, Joining!monitoringProbe, Joining!AlertsRead, Joining!PartialIf
  <1>4. Joining!lagOverview.status = "ok" => ~Joining!Doubtful(reply[tool])
    BY <1>1, <1>3 DEF Joining!Doubtful, Joining!Field, Joining!backendFailure, Joining!Probes
  <1> QED BY <1>0, <1>2, <1>3, <1>4, AloneHonest

LEMMA ProbesHonest ==
    ASSUME JoiningInv, CallEnds, tool \in {"storage", "config_audit", "reassignments"}, reply[tool].sent
    PROVE  Honest
  <1>0. tool \in Single /\ Joining!Optional[tool] = {} BY Menu DEF Single, Offers
  <1>1. /\ reply[tool] \in [sent : {TRUE}, st : Joining!Probes, observed : BOOLEAN, partial : BOOLEAN]
                           \cup [sent : {TRUE}, st : Joining!Probes, partial : BOOLEAN]
    <2>1. reply[tool] \in Joining!Answers(tool) BY <1>0, Whole
    <2>2. CASE tool \in {"storage", "config_audit"}
      <3>1. Joining!Answers(tool) = {Joining!Error} \cup
                [sent : {TRUE}, st : Joining!Probes, observed : BOOLEAN, partial : BOOLEAN]
        BY <2>2 DEF Joining!Answers
      <3> QED BY <2>1, <3>1, NotError
    <2>3. CASE tool = "reassignments"
      <3>1. Joining!Answers(tool) = {Joining!Error} \cup [sent : {TRUE}, st : Joining!Probes, partial : BOOLEAN]
        BY <2>3 DEF Joining!Answers
      <3> QED BY <2>1, <3>1, NotError
    <2> QED BY <2>2, <2>3
  <1>2. Joining!Outcome \in {Joining!monitoringProbe(tool, FALSE, reply[tool].partial),
                             Joining!monitoringProbe(tool, reply[tool].observed, reply[tool].partial)}
    BY <1>0, SentWell DEF Joining!Outcome
  <1>3. Joining!Outcome.status = "ok" =>
            ~Joining!backendFailure(reply[tool].st) /\ ~reply[tool].partial /\ Joining!Outcome.errors = {}
    BY <1>1, <1>2 DEF Joining!Envelope, Joining!monitoringProbe, Joining!PartialIf
  <1>4. ASSUME Joining!Outcome.status = "ok" PROVE ~Joining!Doubtful(reply[tool])
    <2>1. CASE reply[tool] \in [sent : {TRUE}, st : Joining!Probes, observed : BOOLEAN, partial : BOOLEAN]
      BY <2>1, <1>3, <1>4 DEF Joining!Doubtful, Joining!Field, Joining!backendFailure, Joining!Probes
    <2>2. CASE reply[tool] \in [sent : {TRUE}, st : Joining!Probes, partial : BOOLEAN]
      BY <2>2, <1>3, <1>4 DEF Joining!Doubtful, Joining!Field, Joining!backendFailure, Joining!Probes
    <2> QED BY <1>1, <2>1, <2>2
  <1> QED BY <1>0, <1>3, <1>4, AloneHonest

LEMMA SeriesHonest ==
    ASSUME JoiningInv, CallEnds, tool = "series", reply[tool].sent
    PROVE  Honest
  <1>0. tool \in Single /\ Joining!Optional[tool] = {} BY Menu DEF Single, Offers
  <1>1. reply[tool] \in [sent : {TRUE}, demo : BOOLEAN, lag : BOOLEAN, complete : BOOLEAN]
    <2>1. reply[tool] \in Joining!Answers("series") BY <1>0, Whole
    <2>2. Joining!Answers("series") =
              {Joining!Error} \cup [sent : {TRUE}, demo : BOOLEAN, lag : BOOLEAN, complete : BOOLEAN]
      BY DEF Joining!Answers
    <2> QED BY <2>1, <2>2, NotError
  <1>2. Joining!Outcome = Joining!metricSeries BY <1>0, SentWell DEF Joining!Outcome
  <1>3. Joining!metricSeries.errors = {} /\
        (Joining!metricSeries.status = "ok" => ~reply["series"].demo /\ reply["series"].complete)
    BY <1>1 DEF Joining!metricSeries, Joining!Envelope
  <1>4. Joining!metricSeries.status = "ok" => ~Joining!Doubtful(reply[tool])
    BY <1>1, <1>3 DEF Joining!Doubtful, Joining!Field
  <1> QED BY <1>0, <1>2, <1>3, <1>4, AloneHonest

LEMMA SnapshotHonest ==
    ASSUME JoiningInv, CallEnds, tool = "snapshot", reply[tool].sent
    PROVE  Honest
  <1>0. tool \in Single /\ Joining!Optional[tool] = {} BY Menu DEF Single, Offers
  <1>1. reply[tool] \in [sent : {TRUE}, synced : BOOLEAN]
    <2>1. reply[tool] \in Joining!Answers("snapshot") BY <1>0, Whole
    <2>2. Joining!Answers("snapshot") = {Joining!Error} \cup [sent : {TRUE}, synced : BOOLEAN]
      BY DEF Joining!Answers
    <2> QED BY <2>1, <2>2, NotError
  <1>2. Joining!Outcome = Joining!Envelope(IF reply[tool].synced THEN "ok" ELSE "partial", {})
    BY <1>0, SentWell DEF Joining!Outcome
  <1>3. Joining!Outcome.errors = {} /\ (Joining!Outcome.status = "ok" => reply[tool].synced)
    BY <1>1, <1>2 DEF Joining!Envelope
  <1>4. Joining!Outcome.status = "ok" => ~Joining!Doubtful(reply[tool])
    BY <1>1, <1>3 DEF Joining!Doubtful, Joining!Field
  <1> QED BY <1>0, <1>3, <1>4, AloneHonest

(* The audits and the requests are never more than partial. *)
LEMMA AuditsHonest ==
    ASSUME JoiningInv, CallEnds, tool \in {"acl_risk", "scram_audit", "requests"}, reply[tool].sent
    PROVE  Honest
  <1>0. tool \in Single /\ Joining!Optional[tool] = {} BY Menu DEF Single, Offers
  <1>1. Joining!Outcome = IF tool = "requests" THEN Joining!Envelope("partial", {tool}) ELSE Joining!audit
    BY <1>0, SentWell DEF Joining!Outcome
  <1>2. Joining!Outcome.status # "ok" BY <1>1 DEF Joining!Envelope, Joining!audit
  <1> QED BY <1>0, <1>2, AloneHonest

LEMMA SummaryHonest ==
    ASSUME JoiningInv, CallEnds, tool = "event_summary", reply[tool].sent
    PROVE  Honest
  <1>0. tool \in Single /\ Joining!Optional[tool] = {} BY Menu DEF Single, Offers
  <1>1. reply[tool] \in [sent : {TRUE}, enabled : BOOLEAN]
    <2>1. reply[tool] \in Joining!Answers("event_summary") BY <1>0, Whole
    <2>2. Joining!Answers("event_summary") = {Joining!Error} \cup [sent : {TRUE}, enabled : BOOLEAN]
      BY DEF Joining!Answers
    <2> QED BY <2>1, <2>2, NotError
  <1>2. Joining!Outcome = Joining!PartialIf(IF reply[tool].enabled THEN {} ELSE {"collection"})
    BY <1>0, SentWell DEF Joining!Outcome
  <1>3. Joining!Outcome.status = "ok" => reply[tool].enabled /\ Joining!Outcome.errors = {}
    BY <1>1, <1>2 DEF Joining!Envelope, Joining!PartialIf
  <1>4. Joining!Outcome.status = "ok" => ~Joining!Doubtful(reply[tool])
    BY <1>1, <1>3 DEF Joining!Doubtful, Joining!Field
  <1> QED BY <1>0, <1>3, <1>4, AloneHonest

(* Parts whose answers show nothing but that they came. *)
LEMMA PlainAnswers ==
    ASSUME NEW p \in {"impact", "occurrences", "playbook", "topic_detail", "event_detail"} \cup
                     (IF tool = "topic_detail" THEN {"partitions"} ELSE {}),
           NEW r \in Joining!Answers(p), r.sent
    PROVE  ~Joining!Doubtful(r)
  <1>1. Joining!Answers(p) = {Joining!Error} \cup {Joining!Plain}
    <2>1. CASE p = "partitions"
      BY <2>1, Zenon DEF Joining!Answers
    <2>2. CASE p # "partitions"
      BY <2>2 DEF Joining!Answers
    <2> QED BY <2>1, <2>2
  <1>2. r = [sent |-> TRUE] BY <1>1, NotError DEF Joining!Plain
  <1> QED BY <1>2 DEF Joining!Doubtful, Joining!Field

(* What is left of the optional parts when a call has ended. *)
LEMMA NothingLeft ==
    ASSUME JoiningInv, CallEnds, tool \in Single, reply[tool].sent,
           ~(tool = "asset_impact" /\ reply[tool].empty)
    PROVE  include \ (asked \cup Joining!Refused) = {}
  <1>1. tool \notin {"cluster_health", "issues"} /\ asked # {} /\ Joining!Sent(tool)
    BY Whole DEF Single
  <1>2. Joining!NextParts = {} /\ \A p \in asked : Joining!Answered(p) BY DEF CallEnds
  <1>3. CASE tool = "event_detail"
    <2>1. include \subseteq {"occurrences", "actions", "issue", "playbook"}
      BY <1>3, Menu DEF JoiningInv, Offers
    <2>2. ~("occurrences" \in include \ asked)
      BY <1>1, <1>2, <1>3 DEF Joining!NextParts
    <2>3. {"playbook"} \cap (include \ asked) = {}
      BY <1>1, <1>2, <1>3, <2>2 DEF Joining!NextParts
    <2> QED BY <2>1, <2>2, <2>3 DEF Joining!Refused
  <1>4. CASE tool # "event_detail"
    BY <1>1, <1>2, <1>4 DEF Joining!NextParts
  <1> QED BY <1>3, <1>4

LEMMA TopicHonest ==
    ASSUME JoiningInv, CallEnds, tool = "topic_detail", reply[tool].sent
    PROVE  Honest
  <1>0. tool \in Single /\ include \subseteq {"partitions"}
    BY Menu DEF Single, Offers, JoiningInv
  <1>1. Joining!Outcome = Joining!PartialIf(Joining!FailedParts)
    BY <1>0, SentWell DEF Joining!Outcome
  <1>2. Joining!Outcome.errors = Joining!FailedParts /\ (Joining!Outcome.status = "ok" => Joining!FailedParts = {})
    BY <1>1 DEF Joining!PartialIf, Joining!Envelope, CallEnds
  <1>3. include \subseteq asked BY <1>0, NothingLeft DEF Joining!Refused
  <1>4. asked \subseteq {"topic_detail", "partitions"} BY <1>0, Whole
  <1>5. \A p \in asked : Joining!Sent(p) => ~Joining!Doubtful(reply[p])
    BY <1>0, <1>4, Whole, PlainAnswers
  <1> QED BY <1>0, <1>2, <1>3, <1>5, Whole DEF Honest, Honesty, Joining!FailedParts

LEMMA EventHonest ==
    ASSUME JoiningInv, CallEnds, tool = "event_detail", reply[tool].sent
    PROVE  Honest
  <1>0. tool \in Single /\ include \subseteq {"occurrences", "actions", "issue", "playbook"}
    BY Menu DEF Single, Offers, JoiningInv
  <1>1. Joining!Outcome = Joining!PartialIf(Joining!FailedParts \cup (include \cap Joining!Refused))
    BY <1>0, SentWell DEF Joining!Outcome, Joining!eventDetail
  <1>2. /\ Joining!FailedParts \subseteq Joining!Outcome.errors
        /\ Joining!Outcome.status = "ok" => Joining!FailedParts = {} /\ include \cap Joining!Refused = {} /\ Joining!Outcome.errors = {}
    BY <1>1 DEF Joining!PartialIf, Joining!Envelope, CallEnds
  <1>3. include \ Joining!Refused \subseteq asked BY <1>0, NothingLeft
  <1>4. asked \subseteq {"event_detail", "occurrences", "playbook"} BY <1>0, Whole DEF Joining!Refused
  <1>5. \A p \in asked : Joining!Sent(p) => ~Joining!Doubtful(reply[p])
    BY <1>0, <1>4, Whole, PlainAnswers
  <1> QED BY <1>0, <1>2, <1>3, <1>5, Whole DEF Honest, Honesty, Joining!FailedParts

LEMMA ImpactHonest ==
    ASSUME JoiningInv, CallEnds, tool = "asset_impact", reply[tool].sent
    PROVE  Honest
  <1>0. tool \in Single /\ include \subseteq {"impact"}
    BY Menu DEF Single, Offers, JoiningInv
  <1>1. reply[tool] \in [sent : {TRUE}, errors : BOOLEAN, synced : BOOLEAN, empty : BOOLEAN]
    <2>1. reply[tool] \in Joining!Answers("asset_impact") BY <1>0, Whole
    <2>2. Joining!Answers("asset_impact") =
              {Joining!Error} \cup [sent : {TRUE}, errors : BOOLEAN, synced : BOOLEAN, empty : BOOLEAN]
      BY DEF Joining!Answers
    <2> QED BY <2>1, <2>2, NotError
  <1>2. Joining!Outcome = Joining!assetImpact BY <1>0, SentWell DEF Joining!Outcome
  <1>3. asked \subseteq {"asset_impact", "impact"} BY <1>0, Whole
  <1>4. \A p \in asked : ~Joining!Sent(p) => p \in Joining!assetImpact.errors
    BY <1>0, <1>3, Whole DEF Joining!assetImpact, Joining!Envelope, Joining!Answered
  <1>5. ASSUME Joining!assetImpact.status = "ok"
        PROVE  /\ Joining!assetImpact.errors = {} /\ ~reply[tool].errors
               /\ reply[tool].synced /\ ~reply[tool].empty
    BY <1>1, <1>5 DEF Joining!assetImpact, Joining!Envelope
  <1>6. ASSUME Joining!assetImpact.status = "ok"
        PROVE  include \subseteq asked /\ \A p \in asked : ~Joining!Doubtful(reply[p])
    <2>1. include \subseteq asked BY <1>0, <1>5, <1>6, NothingLeft DEF Joining!Refused
    <2>2. ~Joining!Doubtful(reply[tool]) BY <1>1, <1>5, <1>6 DEF Joining!Doubtful, Joining!Field
    <2>3. "impact" \in asked => ~Joining!Doubtful(reply["impact"])
      BY <1>0, <1>4, <1>5, <1>6, Whole, PlainAnswers
    <2> QED BY <1>3, <2>1, <2>2, <2>3
  <1> QED BY <1>0, <1>2, <1>4, <1>5, <1>6, Whole DEF Honest, Honesty, CallEnds

LEMMA PolicyHonest ==
    ASSUME JoiningInv, CallEnds, tool = "attention_policy", reply[tool].sent
    PROVE  Honest
  <1>0. tool \in Single BY Menu DEF Single
  <1>1. Joining!Outcome = Joining!attentionPolicy BY <1>0, SentWell DEF Joining!Outcome
  <1>2. Joining!Outcome.status = "partial" /\ Joining!FailedParts \subseteq Joining!Outcome.errors
    BY <1>1 DEF Joining!attentionPolicy, Joining!Envelope, CallEnds
  <1> QED BY <1>2 DEF Honest, Honesty, Joining!FailedParts

(* The tools of two main parts. *)
LEMMA IssuesHonest ==
    ASSUME JoiningInv, CallEnds, tool = "issues"
    PROVE  Honest
  <1>1. Joining!Main(tool) = {"event_scope", "issues"} /\ include = {}
    BY Menu, Zenon DEF JoiningInv, Joining!Main, Offers
  <1>2. asked \subseteq {"event_scope", "issues"} /\ asked # {} /\ "event_scope" \in asked
    BY <1>1 DEF JoiningInv, CallEnds, Vouched
  <1>3. CASE \E p \in Joining!Main(tool) \cap asked : ~Joining!Sent(p)
    BY <1>3, FailedHonest
  <1>4. CASE ~\E p \in Joining!Main(tool) \cap asked : ~Joining!Sent(p)
    <2>1. \A p \in asked : Joining!Sent(p) BY <1>1, <1>2, <1>4
    <2>2. {"issues"} \ asked = {}
      BY <1>2, <2>1 DEF CallEnds, Joining!NextParts
    <2>3. Joining!Outcome = Joining!issues
      BY <1>4 DEF Joining!Outcome
    <2>4. \A p \in asked : p \in Joining!Parts /\ reply[p] \in Joining!Answers(p) /\ reply[p].sent
      BY <1>1, <1>2, <2>1, Menu DEF JoiningInv, Joining!Sent, Joining!Answered
    <2>5. reply["issues"] \in [sent : {TRUE}, empty : BOOLEAN]
      <3>1. Joining!Answers("issues") = {Joining!Error} \cup [sent : {TRUE}, empty : BOOLEAN]
        BY DEF Joining!Answers
      <3> QED BY <3>1, <2>2, <2>4, NotError
    <2>6. reply["event_scope"] \in [sent : {TRUE}, enabled : BOOLEAN]
      <3>1. Joining!Answers("event_scope") = {Joining!Error} \cup [sent : {TRUE}, enabled : BOOLEAN]
        BY DEF Joining!Answers
      <3> QED BY <3>1, <1>2, <2>4, NotError
    <2>7. Joining!issues.status = "ok" =>
              ~reply["issues"].empty /\ reply["event_scope"].enabled /\ Joining!issues.errors = {}
      BY <2>5, <2>6 DEF Joining!issues, Joining!PartialIf, Joining!Envelope
    <2>8. Joining!issues.status = "ok" =>
              ~Joining!Doubtful(reply["issues"]) /\ ~Joining!Doubtful(reply["event_scope"])
      BY <2>5, <2>6, <2>7 DEF Joining!Doubtful, Joining!Field
    <2> QED BY <1>1, <1>2, <2>1, <2>2, <2>3, <2>7, <2>8 DEF Honest, Honesty, CallEnds
  <1> QED BY <1>3, <1>4

(* What the two requests of clusterHealth say together. *)
Observed ==
    \/ Joining!Sent("connectivity") /\ reply["connectivity"].reachable
    \/ Joining!Sent("partitions") /\ Joining!PartitionsSeen(reply["partitions"])
LEMMA HealthHonest ==
    ASSUME JoiningInv, CallEnds, tool = "cluster_health", AnswersAssumption
    PROVE  Honest /\ Fair(Joining!Outcome.status)
  <1>1. Joining!Main(tool) = {"connectivity", "partitions"} /\ include = {}
    BY Menu, Zenon DEF JoiningInv, Joining!Main, Offers
  <1>2. asked = {"connectivity", "partitions"}
    <2>1. asked \subseteq {"connectivity", "partitions"} BY <1>1 DEF JoiningInv
    <2>2. Joining!Main(tool) \ asked = {} BY DEF CallEnds, Joining!NextParts
    <2> QED BY <1>1, <2>1, <2>2
  <1>3. \A p \in asked : /\ reply[p] # None /\ reply[p] \in Joining!Answers(p)
                         /\ Joining!Sent(p) <=> reply[p].sent
    BY <1>1, <1>2, Menu DEF JoiningInv, CallEnds, Joining!Sent, Joining!Answered
  <1>4. Joining!Sent("connectivity") => reply["connectivity"] \in [sent : {TRUE}, reachable : BOOLEAN, metadata : BOOLEAN]
    <2>1. Joining!Answers("connectivity") =
              {Joining!Error} \cup [sent : {TRUE}, reachable : BOOLEAN, metadata : BOOLEAN]
      BY DEF Joining!Answers
    <2> QED BY <1>2, <1>3, <2>1, NotError
  <1>5. Joining!Sent("partitions") =>
            reply["partitions"] \in [sent : {TRUE}, st : Joining!Probes, total : Counts, failed : Counts]
    <2>1. Joining!Answers("partitions") =
              {Joining!Error} \cup [sent : {TRUE}, st : Joining!Probes, total : Counts, failed : Counts]
      BY DEF Joining!Answers
    <2> QED BY <1>2, <1>3, <2>1, NotError
  <1>6. Counts \subseteq Nat BY DEF AnswersAssumption, Joining!OutcomeAssumption
  <1>7. Joining!Outcome = Joining!clusterHealth BY DEF Joining!Outcome
  <1> DEFINE errs == Joining!clusterHealth.errors
  <1>8. /\ errs = (IF ~(reply["connectivity"].sent /\ reply["connectivity"].reachable) THEN {"connectivity"}
                    ELSE IF reply["connectivity"].metadata THEN {} ELSE {"cluster_metadata"})
                  \cup (IF reply["partitions"].sent /\ ~Joining!backendFailure(reply["partitions"].st)
                             /\ reply["partitions"].failed = 0 THEN {} ELSE {"partitions"})
        /\ Joining!clusterHealth.status = IF ~Observed THEN "error" ELSE IF errs = {} THEN "ok" ELSE "partial"
    BY <1>2, <1>3 DEF Joining!clusterHealth, Joining!Envelope, Joining!PartialIf, Observed
  <1>9. Joining!Outcome.status = Joining!clusterHealth.status /\ Joining!Outcome.errors = errs BY <1>7 DEF CallEnds
  <1>10. Fair(Joining!Outcome.status)
    <2>1. (Joining!Outcome.status = "error") = ~Observed BY <1>8, <1>9
    <2>2. Joining!Sent("partitions") =>
              (Joining!PartitionsSeen(reply["partitions"]) <=>
                  ~(/\ reply["partitions"].st \in Joining!Failing
                    /\ reply["partitions"].total <= reply["partitions"].failed))
      <3> SUFFICES ASSUME NEW r \in [sent : {TRUE}, st : Joining!Probes, total : Counts, failed : Counts]
                   PROVE  Joining!PartitionsSeen(r) <=>
                              ~(r.st \in Joining!Failing /\ r.total <= r.failed)
        BY <1>5
      <3>1. r.total \in Nat /\ r.failed \in Nat BY <1>6
      <3> QED BY <3>1 DEF Joining!PartitionsSeen, Joining!backendFailure
    <2> QED BY <2>1, <2>2 DEF Observed, Fair
  <1> HIDE DEF errs
  <1>11. \A p \in asked : ~Joining!Sent(p) => p \in Joining!Outcome.errors
    BY <1>2, <1>3, <1>8, <1>9
  <1>12. ASSUME Joining!Outcome.status = "ok" PROVE \A p \in asked : ~Joining!Doubtful(reply[p])
    <2>1. errs = {} BY <1>8, <1>9, <1>12
    <2>2. /\ Joining!Sent("connectivity") /\ reply["connectivity"].reachable /\ reply["connectivity"].metadata
          /\ Joining!Sent("partitions") /\ ~Joining!backendFailure(reply["partitions"].st)
          /\ reply["partitions"].failed = 0
      BY <1>2, <1>3, <1>4, <1>5, <1>8, <2>1
    <2>3. ~Joining!Doubtful(reply["connectivity"])
      <3> SUFFICES ASSUME NEW r \in [sent : {TRUE}, reachable : BOOLEAN, metadata : BOOLEAN],
                          r.reachable, r.metadata
                   PROVE  ~Joining!Doubtful(r)
        BY <1>4, <2>2
      <3> QED BY DEF Joining!Doubtful, Joining!Field
    <2>4. ~Joining!Doubtful(reply["partitions"])
      <3> SUFFICES ASSUME NEW r \in [sent : {TRUE}, st : Joining!Probes, total : Counts, failed : Counts],
                          ~Joining!backendFailure(r.st), r.failed = 0
                   PROVE  ~Joining!Doubtful(r)
        BY <1>5, <2>2
      <3>1. r = [sent |-> TRUE, st |-> r.st, total |-> r.total, failed |-> 0] OBVIOUS
      <3>2. DOMAIN r = {"sent", "st", "total", "failed"} BY <3>1
      <3>3. ~(r.failed > 0) OBVIOUS
      <3>4. r.sent OBVIOUS
      <3>5. r.st \notin Joining!Failing BY DEF Joining!backendFailure
      <3> QED BY <3>2, <3>3, <3>4, <3>5 DEF Joining!Doubtful, Joining!Field
    <2> QED BY <1>2, <2>3, <2>4
  <1> QED BY <1>1, <1>2, <1>8, <1>9, <1>10, <1>11, <1>12 DEF Honest, Honesty

LEMMA EndedHonest ==
    ASSUME JoiningInv, CallEnds, AnswersAssumption
    PROVE  Honest /\ Fair(Joining!Outcome.status)
  <1>1. CASE tool = "cluster_health" BY <1>1, HealthHonest
  <1>2. CASE tool = "issues" BY <1>2, IssuesHonest DEF Fair
  <1>3. CASE tool \in Single
    <2>1. CASE ~reply[tool].sent
      <3>1. ~Joining!Sent(tool) /\ tool \in Joining!Main(tool) \cap asked BY <1>3, <2>1, Whole
      <3> QED BY <1>3, <3>1, FailedHonest DEF Fair, Single
    <2>2. CASE reply[tool].sent
      <3>1. tool \in {"group_lag", "lag_overview", "storage", "config_audit", "reassignments",
                      "series", "snapshot", "scram_audit", "acl_risk", "requests", "event_summary",
                      "asset_impact", "topic_detail", "event_detail", "attention_policy"}
        BY <1>3, Menu DEF Single
      <3> QED BY <1>3, <2>2, <3>1, GroupLagHonest, LagOverviewHonest, ProbesHonest, SeriesHonest, SnapshotHonest,
              AuditsHonest, SummaryHonest, ImpactHonest, TopicHonest, EventHonest, PolicyHonest
              DEF Fair
    <2> QED BY <2>1, <2>2
  <1> QED BY <1>1, <1>2, <1>3 DEF JoiningInv, Single

LEMMA OutcomeStatus == Joining!Outcome.status \in {"ok", "partial", "error"}
  <1> DEFINE S == {"ok", "partial", "error"}
  <1>1. \A errs : Joining!PartialIf(errs).status \in S BY DEF Joining!PartialIf, Joining!Envelope
  <1>2. \A st \in S : \A errs : Joining!Envelope(st, errs).status \in S BY DEF Joining!Envelope
  <1>3. Joining!clusterHealth.status \in S BY <1>1, <1>2, Zenon DEF Joining!clusterHealth
  <1>4. Joining!groupLag.status \in S BY DEF Joining!groupLag, Joining!Envelope
  <1>5. \A p, o, r : Joining!monitoringProbe(p, o, r).status \in S
    BY <1>1 DEF Joining!monitoringProbe, Joining!Envelope
  <1>6. Joining!lagOverview.status \in S
    BY <1>5 DEF Joining!lagOverview, Joining!Envelope
  <1>7. Joining!metricSeries.status \in S BY DEF Joining!metricSeries, Joining!Envelope
  <1>8. Joining!assetImpact.status \in S BY DEF Joining!assetImpact, Joining!Envelope
  <1>9. Joining!eventDetail.status \in S BY <1>1 DEF Joining!eventDetail
  <1>10. Joining!issues.status \in S BY <1>1 DEF Joining!issues
  <1>11. Joining!attentionPolicy.status \in S BY <1>2 DEF Joining!attentionPolicy
  <1>12. Joining!audit.status \in S BY DEF Joining!audit, Joining!Envelope
  <1>13. \A b : Joining!Envelope(IF b THEN "ok" ELSE "partial", {}).status \in S BY DEF Joining!Envelope
  <1> HIDE DEF S
  <1>14. Joining!Outcome.status \in S
    <2>1. Joining!Envelope("error", Joining!FailedParts).status \in S
          /\ Joining!Envelope("partial", {tool}).status \in S
      BY <1>2 DEF S
    <2> QED BY <1>1, <1>3, <1>4, <1>5, <1>6, <1>7, <1>8, <1>9, <1>10, <1>11, <1>12, <1>13, <2>1
            DEF Joining!Outcome
  <1> QED BY <1>14 DEF S

LEMMA StatusFollows ==
    ASSUME JoiningInv, AnswersAssumption
    PROVE  StatusIsHonest
  <1>1. None \notin {"ok", "partial", "error"}
    BY DEF AnswersAssumption, Joining!OutcomeAssumption
  <1>2. status \in {None, "ok", "partial", "error"} BY DEF JoiningInv
  <1>3. Joining!TypeOK
    <2>1. \A p \in Joining!Parts : Joining!Answered(p) => p \in asked BY DEF JoiningInv, Joining!Answered
    <2> QED BY <1>2, <2>1 DEF JoiningInv, Joining!TypeOK
  <1>4. Joining!DetailFollowsMain
    BY DEF JoiningInv, Vouched, Joining!DetailFollowsMain
  <1>5. CASE status = None
    BY <1>1, <1>3, <1>4, <1>5 DEF StatusIsHonest, Joining!OkMeansComplete, Joining!HealthIsFair
  <1>6. CASE status # None
    <2>1. Honesty(status, errors) /\ Fair(status) BY <1>6 DEF JoiningInv
    <2> QED BY <1>3, <1>4, <2>1
            DEF StatusIsHonest, Joining!OkMeansComplete, Joining!HealthIsFair, Honesty, Fair
  <1> QED BY <1>5, <1>6

(* The invariant of joining. *)
LEMMA JoiningBegins ==
    ASSUME AnswersAssumption, Joining!Init \/ JoiningRests
    PROVE  JoiningInv
  <1>1. tool \in Joining!Tools /\ include \subseteq Joining!Optional[tool]
    BY Menu DEF Joining!Init, JoiningRests, Offers
  <1>2. reply = [p \in Joining!Parts |-> None] /\ asked = {} /\ status = None /\ errors = {}
    BY DEF Joining!Init, JoiningRests
  <1> QED BY <1>1, <1>2 DEF JoiningInv, Vouched

LEMMA JoiningKept ==
    ASSUME JoiningInv, UNCHANGED joiningVars
    PROVE  JoiningInv'
  <1>1. tool' = tool /\ include' = include /\ reply' = reply /\ asked' = asked /\ status' = status /\ errors' = errors
    BY DEF joiningVars
  <1>2. \A p : /\ Joining!Answered(p)' <=> Joining!Answered(p)
               /\ Joining!Sent(p)' <=> Joining!Sent(p)
               /\ Joining!Answers(p)' = Joining!Answers(p)
    BY <1>1 DEF Joining!Sent, Joining!Answered, Joining!Answers
  <1>3. Vouched' BY <1>1, <1>2 DEF JoiningInv, Vouched
  <1>4. Honesty(status, errors)' <=> Honesty(status, errors) BY <1>1, <1>2 DEF Honesty
  <1>5. Fair(status)' <=> Fair(status) BY <1>1, <1>2 DEF Fair
  <1> QED BY <1>1, <1>2, <1>3, <1>4, <1>5 DEF JoiningInv

LEMMA AskKeeps ==
    ASSUME JoiningInv, AnswersAssumption, NEW p \in Joining!Parts, Joining!Ask(p)
    PROVE  JoiningInv'
  <1>1. /\ tool' = tool /\ include' = include /\ reply' = reply /\ status' = status /\ errors' = errors
        /\ asked' = asked \cup {p} /\ status = None /\ p \in Joining!NextParts
    BY DEF Joining!Ask
  <1>2. errors = {}
    BY <1>1 DEF JoiningInv, AnswersAssumption, Joining!OutcomeAssumption
  <1>3. \A q : /\ Joining!Answered(q)' <=> Joining!Answered(q)
               /\ Joining!Sent(q)' <=> Joining!Sent(q)
               /\ Joining!Answers(q)' = Joining!Answers(q)
    BY <1>1 DEF Joining!Sent, Joining!Answered, Joining!Answers
  <1>4. CASE tool = "cluster_health"
    <2>1. p \in Joining!Main(tool) BY <1>1, <1>4 DEF Joining!NextParts
    <2>2. p \notin Joining!Refused BY <1>4, <2>1 DEF Joining!Main, Joining!Refused
    <2> QED BY <1>1, <1>2, <1>3, <1>4, <2>1, <2>2 DEF JoiningInv, Vouched
  <1>5. CASE tool = "issues"
    <2>1. Joining!Main(tool) = {"event_scope", "issues"} BY <1>5, Zenon DEF Joining!Main
    <2>2. p = "event_scope" \/ (p = "issues" /\ asked # {} /\ Joining!Sent("event_scope"))
      BY <1>1, <1>5 DEF Joining!NextParts
    <2>3. p \in Joining!Main(tool) \ Joining!Refused BY <2>1, <2>2 DEF Joining!Refused
    <2>4. Vouched' BY <1>1, <1>3, <1>5, <2>2 DEF JoiningInv, Vouched
    <2> QED BY <1>1, <1>2, <1>3, <2>3, <2>4 DEF JoiningInv
  <1>6. CASE tool \in Single
    <2>1. Joining!Main(tool) = {tool} /\ tool \in {"group_lag", "lag_overview", "storage", "config_audit",
              "reassignments", "series", "snapshot", "scram_audit", "acl_risk", "requests", "event_summary",
              "asset_impact", "topic_detail", "event_detail", "attention_policy"}
      BY <1>6, Menu DEF Single, Joining!Main
    <2>2. \/ p = tool /\ asked = {}
          \/ /\ p \in include \ Joining!Refused /\ asked # {} /\ Joining!Sent(tool)
             /\ tool = "asset_impact" => ~reply[tool].empty
      <3>1. CASE asked = {} BY <1>1, <2>1, <3>1 DEF Joining!NextParts
      <3>2. CASE asked # {}
        <4>1. Joining!Sent(tool) /\ (tool = "asset_impact" => ~reply[tool].empty)
          BY <1>1, <2>1, <3>2 DEF Joining!NextParts
        <4>2. p \in include \ Joining!Refused
          BY <1>1, <2>1, <3>2, <4>1 DEF Joining!NextParts, Joining!Refused
        <4> QED BY <3>2, <4>1, <4>2
      <3> QED BY <3>1, <3>2
    <2>3. tool \notin Joining!Refused /\ tool \notin Joining!Optional[tool]
      BY <2>1, Menu DEF Joining!Refused, Offers, Single
    <2>4. Vouched' BY <1>1, <1>3, <1>6, <2>1, <2>2, <2>3 DEF JoiningInv, Vouched, Single
    <2>5. p \in (Joining!Main(tool) \cup include) \ Joining!Refused BY <2>1, <2>2, <2>3
    <2> QED BY <1>1, <1>2, <1>3, <2>4, <2>5 DEF JoiningInv
  <1> QED BY <1>4, <1>5, <1>6 DEF JoiningInv, Single

LEMMA AnswerKeeps ==
    ASSUME JoiningInv, AnswersAssumption, NEW p \in Joining!Parts, Joining!Answer(p)
    PROVE  JoiningInv'
  <1> PICK a \in Joining!Answers(p) : reply' = [reply EXCEPT ![p] = a] BY DEF Joining!Answer
  <1>1. /\ tool' = tool /\ include' = include /\ asked' = asked /\ status' = status /\ errors' = errors
        /\ p \in asked /\ ~Joining!Answered(p)
    BY DEF Joining!Answer
  <1>2. status = None /\ errors = {} BY <1>1 DEF JoiningInv
  <1>3. DOMAIN reply' = Joining!Parts /\ reply'[p] = a /\ \A q \in Joining!Parts \ {p} : reply'[q] = reply[q]
    BY DEF JoiningInv
  <1>4. \A q : Joining!Answers(q)' = Joining!Answers(q) BY <1>1 DEF Joining!Answers
  <1>5. \A q \in Joining!Parts : Joining!Sent(q) => q # p /\ Joining!Sent(q)'
    BY <1>1, <1>3 DEF Joining!Sent, Joining!Answered
  <1>6. tool \in Joining!Tools /\ asked \subseteq Joining!Parts
    BY Menu DEF JoiningInv
  <1>7. Vouched'
    <2>1. tool = "issues" => "event_scope" \in Joining!Parts
      BY Menu, <1>6, Zenon DEF Joining!Main
    <2>2. tool \in Single => tool \in Joining!Parts
      <3>1. tool \in Single => Joining!Main(tool) = {tool} BY Zenon DEF Joining!Main, Single
      <3> QED BY <1>6, <3>1, Menu
    <2>3. ASSUME tool \in Single, Joining!Sent(tool), tool = "asset_impact" => ~reply[tool].empty
          PROVE  Joining!Sent(tool)' /\ (tool = "asset_impact" => ~reply'[tool].empty)
      <3>1. tool \in Joining!Parts /\ tool # p /\ Joining!Sent(tool)' BY <1>1, <1>5, <2>2, <2>3
      <3>2. reply'[tool] = reply[tool] BY <1>3, <3>1
      <3> QED BY <2>3, <3>1, <3>2
    <2> QED BY <1>1, <1>5, <1>6, <2>1, <2>3 DEF JoiningInv, Vouched, Single
  <1>8. \A q \in Joining!Parts : reply'[q] = None \/ (reply'[q] \in Joining!Answers(q)' /\ q \in asked')
    BY <1>1, <1>3, <1>4 DEF JoiningInv
  <1> QED BY <1>1, <1>2, <1>3, <1>7, <1>8 DEF JoiningInv

LEMMA FinishKeeps ==
    ASSUME JoiningInv, AnswersAssumption, Joining!Finish
    PROVE  JoiningInv'
  <1>1. /\ tool' = tool /\ include' = include /\ reply' = reply /\ asked' = asked /\ CallEnds
        /\ status' = Joining!Outcome.status /\ errors' = Joining!Outcome.errors
    BY DEF Joining!Finish, CallEnds
  <1>2. \A p : /\ Joining!Answered(p)' <=> Joining!Answered(p)
               /\ Joining!Sent(p)' <=> Joining!Sent(p)
               /\ Joining!Answers(p)' = Joining!Answers(p)
    BY <1>1 DEF Joining!Sent, Joining!Answered, Joining!Answers
  <1>3. Vouched' BY <1>1, <1>2 DEF JoiningInv, Vouched
  <1>4. Honest /\ Fair(Joining!Outcome.status) BY <1>1, EndedHonest
  <1>5. Honesty(status, errors)' BY <1>1, <1>2, <1>4 DEF Honesty, Honest
  <1>6. Fair(status)' BY <1>1, <1>2, <1>4 DEF Fair
  <1>7. status' \in {"ok", "partial", "error"} BY <1>1, OutcomeStatus
  <1> QED BY <1>1, <1>2, <1>3, <1>5, <1>6, <1>7 DEF JoiningInv, CallEnds

(* The status of a tool is honest at every step, whatever the backend counts. *)
THEOREM StatusAlwaysHonest == AnswersSpec => []StatusIsHonest
  <1>1. AnswersInit => JoiningInv
    BY AnswersAssumption, JoiningBegins DEF AnswersInit
  <1>2. JoiningInv /\ [AnswersNext]_answersVars => JoiningInv'
    <2> SUFFICES ASSUME JoiningInv, [AnswersNext]_answersVars PROVE JoiningInv'
      OBVIOUS
    <2>1. CASE UNCHANGED joiningVars BY <2>1, JoiningKept
    <2>2. CASE Joining!Next
      BY <2>2, AskKeeps, AnswerKeeps, FinishKeeps, AnswersAssumption DEF Joining!Next
    <2> QED BY <2>1, <2>2 DEF AnswersNext, answersVars
  <1>3. JoiningInv => StatusIsHonest BY AnswersAssumption, StatusFollows
  <1> QED BY <1>1, <1>2, <1>3, PTL DEF AnswersSpec

-----------------------------------------------------------------------------
(* Cutting one list: what the ends of a sequence are. *)

LEMMA FirstOf ==
    ASSUME NEW S, NEW s \in Seq(S), NEW n \in Nat
    PROVE  /\ Fitting!First(s, n) \in Seq(S)
           /\ Len(Fitting!First(s, n)) = IF n < Len(s) THEN n ELSE Len(s)
           /\ \A i \in 1 .. Len(Fitting!First(s, n)) : Fitting!First(s, n)[i] = s[i]
  <1> DEFINE m == IF n < Len(s) THEN n ELSE Len(s)
  <1>1. Len(s) \in Nat /\ m \in Nat /\ m <= Len(s) BY LenProperties
  <1>2. \A i \in 1 .. m : s[i] \in S BY <1>1, ElementOfSeq
  <1>3. Fitting!First(s, n) = SubSeq(s, 1, m) BY DEF Fitting!First
  <1> HIDE DEF m
  <1>4. SubSeq(s, 1, m) \in Seq(S) /\ Len(SubSeq(s, 1, m)) = m
        /\ \A i \in 1 .. m : SubSeq(s, 1, m)[i] = s[1 + i - 1]
    BY <1>1, <1>2, SubSeqProperties
  <1>5. \A i \in 1 .. m : SubSeq(s, 1, m)[i] = s[i] BY <1>1, <1>4
  <1> QED BY <1>3, <1>4, <1>5 DEF m

LEMMA LastOf ==
    ASSUME NEW S, NEW s \in Seq(S), NEW n \in Nat
    PROVE  /\ Fitting!Last(s, n) \in Seq(S)
           /\ Len(Fitting!Last(s, n)) = IF n < Len(s) THEN n ELSE Len(s)
           /\ \A i \in 1 .. Len(Fitting!Last(s, n)) :
                  Fitting!Last(s, n)[i] = s[Len(s) - Len(Fitting!Last(s, n)) + i]
  <1> DEFINE m == IF n < Len(s) THEN Len(s) - n + 1 ELSE 1
             k == IF n < Len(s) THEN n ELSE Len(s)
  <1>1. Len(s) \in Nat /\ m \in Int /\ m >= 1 /\ k \in Nat /\ k = Len(s) - m + 1 BY LenProperties
  <1>2. Fitting!Last(s, n) = SubSeq(s, m, Len(s)) BY DEF Fitting!Last
  <1> HIDE DEF m, k
  <1>3. \A i \in m .. Len(s) : s[i] \in S BY <1>1, ElementOfSeq
  <1>4. SubSeq(s, m, Len(s)) \in Seq(S)
        /\ Len(SubSeq(s, m, Len(s))) = (IF m <= Len(s) THEN Len(s) - m + 1 ELSE 0)
        /\ \A i \in 1 .. Len(s) - m + 1 : SubSeq(s, m, Len(s))[i] = s[m + i - 1]
    BY <1>1, <1>3, SubSeqProperties
  <1>5. Len(SubSeq(s, m, Len(s))) = k BY <1>1, <1>4
  <1>6. \A i \in 1 .. k : SubSeq(s, m, Len(s))[i] = s[Len(s) - k + i]
    <2> TAKE i \in 1 .. k
    <2>1. m + i - 1 = Len(s) - k + i BY <1>1
    <2>2. i \in 1 .. Len(s) - m + 1 BY <1>1
    <2> QED BY <2>1, <2>2, <1>4
  <1> QED BY <1>2, <1>4, <1>5, <1>6 DEF k

LEMMA SameSequence ==
    ASSUME NEW S, NEW s \in Seq(S), NEW t \in Seq(S), Len(s) = Len(t), \A i \in 1 .. Len(s) : s[i] = t[i]
    PROVE  s = t
  OBVIOUS

(* The head of a head is a head, the end of an end an end. *)
LEMMA FirstAgain ==
    ASSUME NEW S, NEW s \in Seq(S), NEW d \in Seq(S), NEW n \in Nat,
           d = Fitting!First(s, Len(d)), Len(d) <= Len(s)
    PROVE  Fitting!First(d, n) = Fitting!First(s, Len(Fitting!First(d, n)))
  <1> DEFINE e == Fitting!First(d, n)
  <1>1. Len(d) \in Nat /\ Len(s) \in Nat BY LenProperties
  <1>2. e \in Seq(S) /\ Len(e) <= Len(d) /\ Len(e) \in Nat /\ \A i \in 1 .. Len(e) : e[i] = d[i]
    BY <1>1, FirstOf
  <1>3. \A i \in 1 .. Len(d) : d[i] = s[i] BY <1>1, FirstOf
  <1> HIDE DEF e
  <1> DEFINE f == Fitting!First(s, Len(e))
  <1>4. f \in Seq(S) /\ Len(f) = Len(e) /\ \A i \in 1 .. Len(f) : f[i] = s[i]
    BY <1>1, <1>2, FirstOf
  <1> HIDE DEF f
  <1>5. \A i \in 1 .. Len(e) : e[i] = f[i] BY <1>1, <1>2, <1>3, <1>4
  <1>6. e = f BY <1>2, <1>4, <1>5, SameSequence
  <1> QED BY <1>6 DEF e, f

LEMMA LastAgain ==
    ASSUME NEW S, NEW s \in Seq(S), NEW d \in Seq(S), NEW n \in Nat,
           d = Fitting!Last(s, Len(d)), Len(d) <= Len(s)
    PROVE  Fitting!Last(d, n) = Fitting!Last(s, Len(Fitting!Last(d, n)))
  <1> DEFINE e == Fitting!Last(d, n)
  <1>1. Len(d) \in Nat /\ Len(s) \in Nat BY LenProperties
  <1>2. e \in Seq(S) /\ Len(e) <= Len(d) /\ Len(e) \in Nat
        /\ \A i \in 1 .. Len(e) : e[i] = d[Len(d) - Len(e) + i]
    BY <1>1, LastOf
  <1>3. \A i \in 1 .. Len(d) : d[i] = s[Len(s) - Len(d) + i] BY <1>1, LastOf
  <1> HIDE DEF e
  <1> DEFINE f == Fitting!Last(s, Len(e))
  <1>4. f \in Seq(S) /\ Len(f) = Len(e) /\ \A i \in 1 .. Len(f) : f[i] = s[Len(s) - Len(e) + i]
    <2>1. /\ f \in Seq(S) /\ Len(f) = IF Len(e) < Len(s) THEN Len(e) ELSE Len(s)
          /\ \A i \in 1 .. Len(f) : f[i] = s[Len(s) - Len(f) + i]
      BY <1>2, LastOf
    <2> HIDE DEF f
    <2>2. Len(f) = Len(e) BY <1>1, <1>2, <2>1
    <2> QED BY <2>1, <2>2
  <1> HIDE DEF f
  <1>5. \A i \in 1 .. Len(e) : e[i] = f[i]
    <2> TAKE i \in 1 .. Len(e)
    <2>1. Len(d) - Len(e) + i \in 1 .. Len(d) BY <1>1, <1>2
    <2>2. Len(s) - Len(d) + (Len(d) - Len(e) + i) = Len(s) - Len(e) + i BY <1>1, <1>2
    <2> QED BY <1>2, <1>3, <1>4, <2>1, <2>2
  <1>6. e = f BY <1>2, <1>4, <1>5, SameSequence
  <1> QED BY <1>6 DEF e, f

(* A set of naturals that is not empty has a least element. *)
LEMMA LeastOf == ASSUME NEW T \in SUBSET Nat, T # {} PROVE \E x \in T : \A y \in T : ~(y < x)
  <1> DEFINE R == OpToRel(<, Nat)
  <1>1. IsWellFoundedOn(R, Nat) BY NatLessThanWellFounded
  <1>2. R = {ss \in Nat \X Nat : ss[1] < ss[2]} BY DEF OpToRel
  <1> HIDE DEF R
  <1>3. PICK x \in T : \A y \in T : ~(<<y, x>> \in R) BY <1>1, WFMin
  <1> QED BY <1>2, <1>3

(* The edges kept of a list: each joins two of the nodes, and they are no more. *)
LEMMA EdgesKept ==
    ASSUME NEW S, NEW es \in Seq(S), NEW ns
    PROVE  /\ Fitting!EdgesAmong(es, ns) \in Seq(S)
           /\ Len(Fitting!EdgesAmong(es, ns)) <= Len(es)
           /\ \A k \in 1 .. Len(Fitting!EdgesAmong(es, ns)) :
                  Fitting!Joins(Fitting!EdgesAmong(es, ns)[k], ns)
  <1> DEFINE J(k) == Fitting!Joins(es[k], ns)
             Step(n, f) == [k \in 0 .. n |-> IF k = 0 THEN <<>>
                                             ELSE IF J(k) THEN Append(f[k - 1], es[k]) ELSE f[k - 1]]
             kept == CHOOSE f : f = Step(Len(es), f)
  <1>1. Len(es) \in Nat BY LenProperties
  <1>2. Fitting!EdgesAmong(es, ns) = kept[Len(es)]
    BY Zenon DEF Fitting!EdgesAmong
  <1>3. \A n \in Nat : \E f : f = Step(n, f)
    <2> DEFINE T == {n \in Nat : ~ \E f : f = Step(n, f)}
    <2> SUFFICES ASSUME T # {} PROVE FALSE OBVIOUS
    <2>1. T \in SUBSET Nat OBVIOUS
    <2> HIDE DEF T
    <2>2. PICK x \in T : \A y \in T : ~(y < x) BY <2>1, LeastOf
    <2> USE DEF T
    <2>3. x \in Nat /\ ~ \E f : f = Step(x, f) OBVIOUS
    <2>4. CASE x = 0
      <3> DEFINE f == [k \in 0 .. 0 |-> <<>>]
      <3>1. f = Step(0, f) OBVIOUS
      <3> QED BY <2>3, <2>4, <3>1, Zenon
    <2>5. CASE x # 0
      <3>1. x - 1 \in Nat /\ x - 1 < x BY <2>3, <2>5
      <3>2. PICK f : f = Step(x - 1, f) BY <2>2, <3>1
      <3> DEFINE g == [k \in 0 .. x |-> IF k < x THEN f[k] ELSE IF J(x) THEN Append(f[x - 1], es[x]) ELSE f[x - 1]]
      <3>3. \A k \in 0 .. x - 1 :
                f[k] = IF k = 0 THEN <<>> ELSE IF J(k) THEN Append(f[k - 1], es[k]) ELSE f[k - 1]
        BY <3>2
      <3>4. \A k \in 0 .. x - 1 : g[k] = f[k] BY <2>3
      <3>5. \A k \in 0 .. x :
                g[k] = IF k = 0 THEN <<>> ELSE IF J(k) THEN Append(g[k - 1], es[k]) ELSE g[k - 1]
        <4> TAKE k \in 0 .. x
        <4>1. CASE k < x
          <5>1. k \in 0 .. x - 1 /\ (k # 0 => k - 1 \in 0 .. x - 1) BY <2>3, <4>1
          <5> HIDE DEF g, J
          <5> QED BY <3>3, <3>4, <5>1
        <4>2. CASE k = x
          <5>1. x - 1 \in 0 .. x - 1 BY <3>1
          <5>2. g[x] = IF J(x) THEN Append(f[x - 1], es[x]) ELSE f[x - 1] BY <2>3
          <5> HIDE DEF g, J
          <5> QED BY <2>5, <3>4, <4>2, <5>1, <5>2
        <4> QED BY <2>3, <4>1, <4>2
      <3>6. g = Step(x, g)
        <4>1. g = [k \in 0 .. x |-> g[k]] OBVIOUS
        <4> HIDE DEF g, J
        <4> QED BY <3>5, <4>1
      <3> QED BY <2>3, <3>6, Zenon
    <2> QED BY <2>4, <2>5
  <1>4. kept = Step(Len(es), kept) BY <1>1, <1>3, Zenon
  <1> HIDE DEF kept
  <1>5. \A k \in 0 .. Len(es) :
            kept[k] = IF k = 0 THEN <<>> ELSE IF J(k) THEN Append(kept[k - 1], es[k]) ELSE kept[k - 1]
    BY <1>4
  <1> DEFINE Good(k) == /\ kept[k] \in Seq(S) /\ Len(kept[k]) <= k
                        /\ \A i \in 1 .. Len(kept[k]) : Fitting!Joins(kept[k][i], ns)
             T == {k \in 0 .. Len(es) : ~Good(k)}
  <1>6. T = {}
    <2> SUFFICES ASSUME T # {} PROVE FALSE OBVIOUS
    <2>1. T \in SUBSET Nat BY <1>1
    <2> HIDE DEF T
    <2>2. PICK x \in T : \A y \in T : ~(y < x) BY <2>1, LeastOf
    <2> USE DEF T
    <2>3. CASE x = 0
      <3>1. kept[0] = <<>> BY <1>1, <1>5
      <3>2. <<>> \in Seq(S) /\ Len(<<>>) = 0 BY EmptySeq
      <3>3. Good(0) BY <3>1, <3>2
      <3> QED BY <2>2, <2>3, <3>3
    <2>4. CASE x # 0
      <3>1. x - 1 \in 0 .. Len(es) /\ x - 1 < x /\ x \in 1 .. Len(es) BY <1>1, <2>4
      <3>2. Good(x - 1) BY <2>2, <3>1
      <3>3. kept[x] = IF J(x) THEN Append(kept[x - 1], es[x]) ELSE kept[x - 1] BY <1>5, <2>4, <3>1
      <3>4. es[x] \in S BY <3>1, ElementOfSeq
      <3>5. CASE ~J(x) BY <2>2, <3>1, <3>2, <3>3, <3>5
      <3>6. CASE J(x)
        <4>1. kept[x] = Append(kept[x - 1], es[x]) BY <3>3, <3>6
        <4>2. kept[x] \in Seq(S) /\ Len(kept[x]) = Len(kept[x - 1]) + 1
          BY <3>2, <3>4, <4>1
        <4>3. \A i \in 1 .. Len(kept[x]) : kept[x][i] = IF i = Len(kept[x]) THEN es[x] ELSE kept[x - 1][i]
          BY <3>2, <3>4, <4>1
        <4>4. Len(kept[x - 1]) \in Nat BY <3>2, LenProperties
        <4>5. \A i \in 1 .. Len(kept[x]) : Fitting!Joins(kept[x][i], ns)
          <5> TAKE i \in 1 .. Len(kept[x])
          <5>1. CASE i = Len(kept[x]) BY <3>6, <4>3, <5>1
          <5>2. CASE i # Len(kept[x])
            <6>1. i \in 1 .. Len(kept[x - 1]) BY <4>2, <4>4, <5>2
            <6> QED BY <3>2, <4>3, <5>2, <6>1
          <5> QED BY <5>1, <5>2
        <4>6. Len(kept[x]) <= x BY <3>1, <3>2, <4>2, <4>4
        <4> QED BY <2>2, <4>2, <4>5, <4>6
      <3> QED BY <3>5, <3>6
    <2> QED BY <2>3, <2>4
  <1>7. Good(Len(es)) BY <1>1, <1>6
  <1> QED BY <1>2, <1>7

(* What the backend answers and what is left of it. *)
Results == [main : Seq(Nat), aux : Seq(Nat), nodes : Seq(Nodes), edges : Seq(Nodes \X Nodes), impact : BOOLEAN]
Latest == {"history", "points"}
(* d is the part of s that the tool keeps: its head, or its latest entries. *)
Kept(d, s) ==
    /\ Len(d) <= Len(s)
    /\ d = IF shape \in Latest THEN Fitting!Last(s, Len(d)) ELSE Fitting!First(s, Len(d))
NoLonger(d, e) ==
    /\ Len(d.main) <= Len(e.main) /\ Len(d.aux) <= Len(e.aux)
    /\ Len(d.nodes) <= Len(e.nodes) /\ Len(d.edges) <= Len(e.edges)
Within(d, n) == Len(d.main) <= n /\ Len(d.aux) <= n /\ Len(d.nodes) <= n /\ Len(d.edges) <= n
Centred(d, e) == e.nodes # <<>> => d.nodes # <<>> /\ d.nodes[1] = Center
Joined(d) == \A k \in DOMAIN d.edges : Fitting!Joins(d.edges[k], d.nodes)

FittingInv ==
    /\ shape \in Fitting!Tools /\ limit \in 1 .. MaxLimit /\ stage \in {"cut", "bound", "sent", "failed"}
    /\ hasMore \in BOOLEAN /\ truncated \in BOOLEAN
    /\ received \in Results /\ data \in Results /\ NoLonger(data, received)
    /\ IF shape = "graph" THEN Len(received.main) = 0 /\ Len(received.aux) = 0
       ELSE Len(received.nodes) = 0 /\ Len(received.edges) = 0
    /\ returned = Len(data.main)
    /\ stage = "cut" => data = received
    /\ stage = "failed" => truncated
    /\ stage # "failed" => Kept(data.main, received.main)
    /\ stage # "cut" => Within(data, limit)
    /\ stage \in {"bound", "sent"} =>
        /\ ~truncated => NoLonger(received, data)
        /\ shape \in {"page", "occurrences"} /\ ~hasMore => Len(received.main) <= Len(data.main)
        /\ shape = "graph" => Centred(data, received) /\ Joined(data)

LEMMA Lengths ==
    ASSUME NEW d \in Results
    PROVE  /\ Len(d.main) \in Nat /\ Len(d.aux) \in Nat /\ Len(d.nodes) \in Nat /\ Len(d.edges) \in Nat
           /\ d.main \in Seq(Nat) /\ d.aux \in Seq(Nat) /\ d.nodes \in Seq(Nodes) /\ d.edges \in Seq(Nodes \X Nodes)
           /\ d.impact \in BOOLEAN
  <1>1. d.main \in Seq(Nat) /\ d.aux \in Seq(Nat) /\ d.nodes \in Seq(Nodes) /\ d.edges \in Seq(Nodes \X Nodes)
        /\ d.impact \in BOOLEAN
    BY DEF Results
  <1> QED BY <1>1, LenProperties

LEMMA ShorterIs ==
    ASSUME NEW d \in Results, NEW e \in Results
    PROVE  Fitting!Shorter(d, e) <=> ~NoLonger(e, d)
  <1>1. Fitting!Shorter(d, e) <=> \/ Len(d.main) < Len(e.main) \/ Len(d.aux) < Len(e.aux)
                                  \/ Len(d.nodes) < Len(e.nodes) \/ Len(d.edges) < Len(e.edges)
    BY DEF Fitting!Shorter
  <1>2. /\ Len(d.main) \in Nat /\ Len(d.aux) \in Nat /\ Len(d.nodes) \in Nat /\ Len(d.edges) \in Nat
        /\ Len(e.main) \in Nat /\ Len(e.aux) \in Nat /\ Len(e.nodes) \in Nat /\ Len(e.edges) \in Nat
    BY Lengths
  <1>3. NoLonger(e, d) <=> /\ Len(e.main) <= Len(d.main) /\ Len(e.aux) <= Len(d.aux)
                           /\ Len(e.nodes) <= Len(d.nodes) /\ Len(e.edges) <= Len(d.edges)
    BY Zenon DEF NoLonger
  <1>4. \A m, n \in Nat : m < n <=> ~(n <= m) OBVIOUS
  <1>5. /\ Len(d.main) < Len(e.main) <=> ~(Len(e.main) <= Len(d.main))
        /\ Len(d.aux) < Len(e.aux) <=> ~(Len(e.aux) <= Len(d.aux))
        /\ Len(d.nodes) < Len(e.nodes) <=> ~(Len(e.nodes) <= Len(d.nodes))
        /\ Len(d.edges) < Len(e.edges) <=> ~(Len(e.edges) <= Len(d.edges))
    BY <1>2, <1>4
  <1> QED BY <1>1, <1>3, <1>5, Zenon

LEMMA LossFollows ==
    ASSUME FittingInv
    PROVE  LossIsTold
  <1>1. data \in Results /\ received \in Results BY DEF FittingInv
  <1>2. Fitting!TypeOK
    BY <1>1, Lengths DEF FittingInv, Fitting!TypeOK, NoLonger, Within
  <1>3. stage \in {"sent", "failed"} /\ Fitting!Shorter(data, received) => truncated
    BY <1>1, ShorterIs DEF FittingInv
  <1>4. stage = "sent" /\ shape \in {"page", "occurrences"} /\ Len(data.main) < Len(received.main) => hasMore
    BY <1>1, Lengths DEF FittingInv
  <1>5. Fitting!LossIsTold
    BY <1>2, <1>3, <1>4 DEF FittingInv, Fitting!LossIsTold, Kept, Latest
  <1>6. Fitting!GraphIsWhole
    <2> SUFFICES ASSUME stage \in {"bound", "sent"}, shape = "graph"
                 PROVE  /\ received.nodes # <<>> => data.nodes # <<>> /\ data.nodes[1] = Center
                        /\ \A k \in DOMAIN data.edges : \A side \in {1, 2} :
                               \E i \in DOMAIN data.nodes : data.nodes[i] = data.edges[k][side]
      BY DEF Fitting!GraphIsWhole
    <2>1. Centred(data, received) /\ Joined(data) BY DEF FittingInv
    <2>2. ASSUME NEW k \in DOMAIN data.edges
          PROVE  \A side \in {1, 2} : \E i \in DOMAIN data.nodes : data.nodes[i] = data.edges[k][side]
      <3>1. PICK i \in DOMAIN data.nodes, j \in DOMAIN data.nodes : data.edges[k] = <<data.nodes[i], data.nodes[j]>>
        BY <2>1, <2>2 DEF Joined, Fitting!Joins
      <3> QED BY <3>1
    <2> QED BY <2>1, <2>2 DEF Centred
  <1> QED BY <1>5, <1>6 DEF LossIsTold

(* A list kept is cut again. *)
LEMMA AllKept ==
    ASSUME NEW S, NEW s \in Seq(S)
    PROVE  Kept(s, s)
  <1>1. Len(s) \in Nat BY LenProperties
  <1>2. Fitting!First(s, Len(s)) = s
    <2> DEFINE f == Fitting!First(s, Len(s))
    <2>1. f \in Seq(S) /\ Len(f) = Len(s) /\ \A i \in 1 .. Len(f) : f[i] = s[i] BY <1>1, FirstOf
    <2> HIDE DEF f
    <2>2. f = s BY <2>1, SameSequence
    <2> QED BY <2>2 DEF f
  <1>3. Fitting!Last(s, Len(s)) = s
    <2> DEFINE f == Fitting!Last(s, Len(s))
    <2>1. f \in Seq(S) /\ Len(f) = Len(s) /\ \A i \in 1 .. Len(f) : f[i] = s[Len(s) - Len(f) + i] BY <1>1, LastOf
    <2> HIDE DEF f
    <2>2. \A i \in 1 .. Len(f) : f[i] = s[i] BY <1>1, <2>1
    <2>3. f = s BY <2>1, <2>2, SameSequence
    <2> QED BY <2>3 DEF f
  <1> QED BY <1>1, <1>2, <1>3 DEF Kept

LEMMA KeptCut ==
    ASSUME NEW S, NEW s \in Seq(S), NEW d \in Seq(S), NEW n \in Nat, Kept(d, s),
           NEW e, e = IF shape \in Latest THEN Fitting!Last(d, n) ELSE Fitting!First(d, n)
    PROVE  e \in Seq(S) /\ Len(e) <= Len(d) /\ Len(e) <= n /\ Kept(e, s)
  <1>1. Len(d) \in Nat /\ Len(s) \in Nat /\ Len(d) <= Len(s) BY LenProperties DEF Kept
  <1>2. CASE shape \in Latest
    <2>1. e = Fitting!Last(d, n) /\ d = Fitting!Last(s, Len(d)) BY <1>2 DEF Kept
    <2>2. e \in Seq(S) /\ Len(e) = IF n < Len(d) THEN n ELSE Len(d) BY <2>1, LastOf
    <2>3. e = Fitting!Last(s, Len(e)) BY <1>1, <2>1, LastAgain
    <2> QED BY <1>1, <1>2, <2>2, <2>3 DEF Kept
  <1>3. CASE shape \notin Latest
    <2>1. e = Fitting!First(d, n) /\ d = Fitting!First(s, Len(d)) BY <1>3 DEF Kept
    <2>2. e \in Seq(S) /\ Len(e) = IF n < Len(d) THEN n ELSE Len(d) BY <2>1, FirstOf
    <2>3. e = Fitting!First(s, Len(e)) BY <1>1, <2>1, FirstAgain
    <2> QED BY <1>1, <1>3, <2>2, <2>3 DEF Kept
  <1> QED BY <1>2, <1>3

(* The centre leads what is left of a graph, and its edges join what is left. *)
LEMMA Trimmed ==
    ASSUME NEW d \in Results, NEW n \in Nat \ {0}, NEW e, e = Fitting!TrimGraph(d, n), Center \in Nodes
    PROVE  /\ e \in Results /\ e.main = d.main /\ e.aux = d.aux
           /\ NoLonger(e, d) /\ Len(e.nodes) <= n /\ Len(e.edges) <= n
           /\ d.nodes # <<>> => e.nodes # <<>> /\ e.nodes[1] = Center
           /\ Joined(e)
  <1> DEFINE c == Fitting!CenterFirst(d.nodes)
             nodes == IF d.nodes = <<>> THEN <<>> ELSE Fitting!First(c, n)
             among == Fitting!EdgesAmong(d.edges, nodes)
             edges == Fitting!First(among, n)
  <1>1. e = [d EXCEPT !.nodes = nodes, !.edges = edges] BY Zenon DEF Fitting!TrimGraph
  <1>2. d.nodes \in Seq(Nodes) /\ Len(d.nodes) \in Nat /\ d.edges \in Seq(Nodes \X Nodes) /\ Len(d.edges) \in Nat
        /\ DOMAIN d.nodes = 1 .. Len(d.nodes)
    BY Lengths
  <1>3. c \in Seq(Nodes) /\ Len(c) = Len(d.nodes) /\ (d.nodes # <<>> => c[1] = Center)
    <2>1. \A i \in 1 .. Len(d.nodes) : d.nodes[i] \in Nodes BY <1>2, ElementOfSeq
    <2>2. c = [i \in 1 .. Len(d.nodes) |->
                  IF i = 1 THEN Center ELSE IF d.nodes[i] = Center THEN d.nodes[1] ELSE d.nodes[i]]
      BY <1>2 DEF Fitting!CenterFirst
    <2>3. \A i \in 1 .. Len(d.nodes) : 1 \in 1 .. Len(d.nodes) BY <1>2
    <2>4. c \in [1 .. Len(d.nodes) -> Nodes] BY <2>1, <2>2, <2>3
    <2> HIDE DEF c
    <2>5. c \in Seq(Nodes) /\ Len(c) = Len(d.nodes) BY <1>2, <2>4
    <2>6. d.nodes # <<>> => 1 \in 1 .. Len(d.nodes) BY <1>2, EmptySeq
    <2> QED BY <2>2, <2>5, <2>6
  <1> HIDE DEF c
  <1>4. /\ nodes \in Seq(Nodes) /\ Len(nodes) <= n /\ Len(nodes) <= Len(d.nodes)
        /\ d.nodes # <<>> => nodes # <<>> /\ nodes[1] = Center
    <2>1. CASE d.nodes = <<>> BY <2>1, <1>2, EmptySeq
    <2>2. CASE d.nodes # <<>>
      <3>1. Len(c) # 0 /\ Len(c) \in Nat BY <1>2, <1>3, <2>2, EmptySeq
      <3>2. /\ Fitting!First(c, n) \in Seq(Nodes) /\ Len(Fitting!First(c, n)) = IF n < Len(c) THEN n ELSE Len(c)
            /\ \A i \in 1 .. Len(Fitting!First(c, n)) : Fitting!First(c, n)[i] = c[i]
        BY <1>3, FirstOf
      <3>3. 1 \in 1 .. Len(Fitting!First(c, n)) BY <3>1, <3>2
      <3>4. Fitting!First(c, n) # <<>> BY <3>1, <3>2, EmptySeq
      <3> QED BY <1>3, <2>2, <3>1, <3>2, <3>3, <3>4
    <2> QED BY <2>1, <2>2
  <1> HIDE DEF nodes
  <1>5. among \in Seq(Nodes \X Nodes) /\ Len(among) <= Len(d.edges)
        /\ \A k \in 1 .. Len(among) : Fitting!Joins(among[k], nodes)
    BY <1>2, EdgesKept
  <1> HIDE DEF among
  <1>6. Len(among) \in Nat BY <1>5, LenProperties
  <1>7. edges \in Seq(Nodes \X Nodes) /\ Len(edges) = (IF n < Len(among) THEN n ELSE Len(among))
        /\ \A k \in 1 .. Len(edges) : edges[k] = among[k]
    BY <1>5, FirstOf
  <1> HIDE DEF edges
  <1>8. Len(edges) <= n /\ Len(edges) <= Len(d.edges) BY <1>2, <1>5, <1>6, <1>7
  <1>9. \A k \in DOMAIN edges : Fitting!Joins(edges[k], nodes)
    <2>1. Len(edges) \in Nat /\ DOMAIN edges = 1 .. Len(edges) BY <1>7, LenProperties
    <2>2. \A k \in 1 .. Len(edges) : k \in 1 .. Len(among) BY <1>6, <1>7, <2>1
    <2> QED BY <1>5, <1>7, <2>1, <2>2
  <1>10. /\ e \in Results /\ e.main = d.main /\ e.aux = d.aux /\ e.nodes = nodes /\ e.edges = edges
    BY <1>1, <1>4, <1>7 DEF Results
  <1> QED BY <1>4, <1>8, <1>9, <1>10, Lengths DEF NoLonger, Joined

LEMMA FittingBegins ==
    ASSUME AnswersAssumption, Fitting!Init \/ FittingRests
    PROVE  FittingInv
  <1>1. \A S : <<>> \in Seq(S) /\ Len(<<>>) = 0 BY EmptySeq
  <1>2. MaxLimit \in Nat /\ MaxLimit >= 1 /\ MaxItems \in Nat /\ Center \in Nodes
    <2>1. Fitting!OutputAssumption BY DEF AnswersAssumption
    <2>2. Center \in Nodes BY <2>1, Zenon DEF Fitting!OutputAssumption
    <2>3. MaxItems \in Nat \ {0} /\ MaxLimit \in Nat \ {0} BY <2>1, Zenon DEF Fitting!OutputAssumption
    <2> QED BY <2>2, <2>3
  <1>3. CASE FittingRests
    <2>1. data = [main |-> <<>>, aux |-> <<>>, nodes |-> <<>>, edges |-> <<>>, impact |-> FALSE]
      BY <1>3 DEF FittingRests, Fitting!Answer, Fitting!NoGraph
    <2>2. data \in Results BY <1>1, <2>1 DEF Results
    <2>3. received = data /\ limit = 1 BY <1>3 DEF FittingRests
    <2>4. Len(data.main) = 0 /\ Len(data.aux) = 0 /\ Len(data.nodes) = 0 /\ Len(data.edges) = 0
      BY <1>1, <2>1
    <2>5. NoLonger(data, received) /\ Within(data, limit)
      BY <2>3, <2>4 DEF NoLonger, Within
    <2>6. /\ shape \in Fitting!Tools /\ limit \in 1 .. MaxLimit /\ stage = "failed" /\ returned = 0
          /\ hasMore = FALSE /\ truncated = TRUE
      <3>1. shape = "list" /\ stage = "failed" /\ returned = 0 /\ hasMore = FALSE /\ truncated = TRUE
        BY <1>3, Zenon DEF FittingRests
      <3> QED BY <1>2, <2>3, <3>1 DEF Fitting!Tools
    <2> QED BY <2>2, <2>3, <2>4, <2>5, <2>6 DEF FittingInv
  <1>4. CASE Fitting!Init
    <2>1. /\ received \in Results
          /\ IF shape = "graph" THEN Len(received.main) = 0 /\ Len(received.aux) = 0
             ELSE Len(received.nodes) = 0 /\ Len(received.edges) = 0
      <3>1. received \in Fitting!Answers(shape) BY <1>4 DEF Fitting!Init
      <3>2. CASE shape = "graph"
        <4>1. PICK g \in Fitting!Graphs, i \in BOOLEAN : received = Fitting!Answer(<<>>, <<>>, g, i)
          BY <3>1, <3>2 DEF Fitting!Answers
        <4>2. g[1] \in Seq(Nodes) /\ g[2] \in Seq(Nodes \X Nodes)
          <5>1. CASE g = Fitting!NoGraph
            <6>1. g[1] = <<>> /\ g[2] = <<>> BY <5>1 DEF Fitting!NoGraph
            <6> QED BY <1>1, <6>1
          <5>2. CASE g \in Fitting!NodeLists \X Fitting!EdgeLists
            <6>5. g[1] \in Fitting!NodeLists /\ g[2] \in Fitting!EdgeLists BY <5>2
            <6>2. PICK n \in 1 .. Fitting!Cardinality(Nodes) : g[1] \in [1 .. n -> Nodes]
              <7>1. \E n \in 1 .. Fitting!Cardinality(Nodes) : g[1] \in [1 .. n -> Nodes]
                BY <6>5 DEF Fitting!NodeLists
              <7> QED BY <7>1
            <6>3. PICK m \in 0 .. 2 : g[2] \in [1 .. m -> Nodes \X Nodes]
              BY <5>2 DEF Fitting!EdgeLists
            <6>4. n \in Nat /\ m \in Nat OBVIOUS
            <6> QED BY <6>2, <6>3, <6>4
          <5> QED BY <5>1, <5>2 DEF Fitting!Graphs
        <4> QED BY <1>1, <3>2, <4>1, <4>2 DEF Fitting!Answer, Results
      <3>3. CASE shape # "graph"
        <4>1. PICK n \in 0 .. MaxItems, m \in 0 .. MaxItems :
                  received = Fitting!Lists(n, m)
          <5>1. \A t : (IF t \in {"list", "page", "points"} THEN {0} ELSE 0 .. MaxItems) \subseteq 0 .. MaxItems
            BY <1>2
          <5>2. received \in {Fitting!Lists(n, m) :
                    n \in 0 .. MaxItems, m \in IF shape \in {"list", "page", "points"} THEN {0} ELSE 0 .. MaxItems}
            BY <3>1, <3>3 DEF Fitting!Answers
          <5>3. \E n \in 0 .. MaxItems, m \in IF shape \in {"list", "page", "points"} THEN {0} ELSE 0 .. MaxItems :
                    received = Fitting!Lists(n, m)
            BY <5>2
          <5> QED BY <5>1, <5>3, Zenon
        <4>2. n \in Nat /\ m \in Nat BY <1>2
        <4>3. Fitting!UpTo(n) \in Seq(Nat) /\ Fitting!UpTo(m) \in Seq(Nat)
          BY <4>2 DEF Fitting!UpTo
        <4> QED BY <1>1, <3>3, <4>1, <4>3 DEF Fitting!Answer, Fitting!Lists, Fitting!NoGraph, Results
      <3> QED BY <3>2, <3>3
    <2>2. NoLonger(received, received) /\ Kept(received.main, received.main)
      BY <2>1, Lengths, AllKept DEF NoLonger
    <2> QED BY <1>4, <2>1, <2>2 DEF FittingInv, Fitting!Init
  <1> QED BY <1>3, <1>4

(* The tool's own limits. *)
LEMMA CutIs ==
    ASSUME FittingInv, AnswersAssumption, NEW d, d = Fitting!CutLists
    PROVE  /\ d \in Results /\ NoLonger(d, received) /\ Within(d, limit) /\ Kept(d.main, received.main)
           /\ shape = "graph" => Centred(d, received) /\ Joined(d)
  <1> DEFINE s == received
  <1>1. limit \in Nat \ {0} /\ s \in Results /\ Center \in Nodes
    <2>1. Fitting!OutputAssumption BY DEF AnswersAssumption
    <2> QED BY <2>1 DEF Fitting!OutputAssumption, FittingInv
  <1>2. /\ Len(s.main) \in Nat /\ Len(s.aux) \in Nat /\ Len(s.nodes) \in Nat /\ Len(s.edges) \in Nat
        /\ s.main \in Seq(Nat) /\ s.aux \in Seq(Nat)
    BY <1>1, Lengths
  <1>3. Kept(s.main, s.main) BY <1>2, AllKept
  <1>4. CASE shape = "graph"
    <2>1. d = Fitting!TrimGraph(s, limit) BY <1>4 DEF Fitting!CutLists
    <2>2. /\ d \in Results /\ d.main = s.main /\ d.aux = s.aux
          /\ NoLonger(d, s) /\ Len(d.nodes) <= limit /\ Len(d.edges) <= limit
          /\ s.nodes # <<>> => d.nodes # <<>> /\ d.nodes[1] = Center
          /\ Joined(d)
      BY <1>1, <2>1, Trimmed
    <2>3. Len(s.main) = 0 /\ Len(s.aux) = 0 BY <1>4 DEF FittingInv
    <2> QED BY <1>1, <1>3, <2>2, <2>3 DEF Within, Centred
  <1>5. CASE shape # "graph"
    <2> DEFINE main == IF shape \in Latest THEN Fitting!Last(s.main, limit) ELSE Fitting!First(s.main, limit)
               aux == Fitting!First(s.aux, limit)
    <2>1. d = [s EXCEPT !.main = main, !.aux = aux] BY <1>5 DEF Fitting!CutLists, Latest
    <2>2. main \in Seq(Nat) /\ Len(main) <= Len(s.main) /\ Len(main) <= limit /\ Kept(main, s.main)
      <3> DEFINE m == main
      <3>1. m = IF shape \in Latest THEN Fitting!Last(s.main, limit) ELSE Fitting!First(s.main, limit)
        OBVIOUS
      <3> HIDE DEF m
      <3>2. m \in Seq(Nat) /\ Len(m) <= Len(s.main) /\ Len(m) <= limit /\ Kept(m, s.main)
        BY <1>1, <1>2, <1>3, <3>1, KeptCut
      <3> QED BY <3>2 DEF m
    <2>3. aux \in Seq(Nat) /\ Len(aux) <= Len(s.aux) /\ Len(aux) <= limit
      <3>1. aux \in Seq(Nat) /\ Len(aux) = IF limit < Len(s.aux) THEN limit ELSE Len(s.aux)
        BY <1>1, <1>2, FirstOf
      <3> HIDE DEF aux
      <3> QED BY <1>1, <1>2, <3>1
    <2> HIDE DEF main, aux
    <2>4. /\ d \in Results /\ d.main = main /\ d.aux = aux /\ d.nodes = s.nodes /\ d.edges = s.edges
      BY <1>1, <2>1, <2>2, <2>3 DEF Results
    <2>5. Len(s.nodes) = 0 /\ Len(s.edges) = 0 BY <1>5 DEF FittingInv
    <2> QED BY <1>1, <1>2, <1>5, <2>2, <2>3, <2>4, <2>5 DEF NoLonger, Within
  <1> QED BY <1>4, <1>5

LEMMA Halves == \A n \in Nat : /\ n \div 2 \in Nat /\ n \div 2 <= n
                               /\ n > 0 => n - n \div 2 - 1 \in Nat
                               /\ n - (n + 1) \div 2 \in Nat
                               /\ n > 1 => n \div 2 # 0
  OBVIOUS

(* One round of a shrink function. *)
LEMMA ShrunkIs ==
    ASSUME FittingInv, AnswersAssumption, stage = "bound", Fitting!CanShrink(data), NEW d, d = Fitting!Shrunk(data)
    PROVE  /\ d \in Results /\ NoLonger(d, data) /\ Kept(d.main, received.main)
           /\ shape = "graph" => Centred(d, received) /\ Joined(d)
           /\ data.main = <<>> => d.main = data.main
  <1>1. data \in Results /\ received \in Results /\ Center \in Nodes
    <2>1. Fitting!OutputAssumption BY DEF AnswersAssumption
    <2> QED BY <2>1 DEF Fitting!OutputAssumption, FittingInv
  <1>2. /\ Len(data.main) \in Nat /\ Len(data.aux) \in Nat /\ Len(data.nodes) \in Nat /\ Len(data.edges) \in Nat
        /\ data.main \in Seq(Nat) /\ data.aux \in Seq(Nat) /\ received.main \in Seq(Nat)
    BY <1>1, Lengths
  <1>3. Kept(data.main, received.main) /\ NoLonger(data, data) BY <1>2 DEF FittingInv, NoLonger
  <1>4. CASE shape = "graph"
    <2>0. Centred(data, received) /\ Joined(data) BY <1>4 DEF FittingInv
    <2>1. CASE Fitting!Longest(data) > 1
      <3> DEFINE n == Fitting!Longest(data) \div 2
      <3>1. Fitting!Longest(data) \in Nat BY <1>2 DEF Fitting!Longest
      <3>2. n \in Nat \ {0} BY <2>1, <3>1, Halves
      <3>3. d = Fitting!TrimGraph(data, n) BY <1>4, <2>1 DEF Fitting!Shrunk
      <3> HIDE DEF n
      <3>4. /\ d \in Results /\ d.main = data.main /\ NoLonger(d, data)
            /\ data.nodes # <<>> => d.nodes # <<>> /\ d.nodes[1] = Center
            /\ Joined(d)
        BY <1>1, <3>2, <3>3, Trimmed
      <3> QED BY <1>3, <2>0, <3>4 DEF Centred
    <2>2. CASE ~(Fitting!Longest(data) > 1)
      <3>1. d = [data EXCEPT !.impact = FALSE] BY <1>4, <2>2 DEF Fitting!Shrunk
      <3>2. /\ d \in Results /\ d.main = data.main /\ d.aux = data.aux
            /\ d.nodes = data.nodes /\ d.edges = data.edges
        BY <1>1, <3>1 DEF Results
      <3> QED BY <1>3, <2>0, <3>2 DEF NoLonger, Centred, Joined
    <2> QED BY <2>1, <2>2
  <1>5. CASE shape # "graph" /\ data.main # <<>>
    <2>1. d = Fitting!ShrunkMain(data) BY <1>5 DEF Fitting!Shrunk
    <2> DEFINE l == Len(data.main)
               n == IF shape = "history" THEN l - l \div 2 - 1
                    ELSE IF shape = "points" THEN l - (l + 1) \div 2 ELSE l \div 2
               main == IF shape \in Latest THEN Fitting!Last(data.main, n) ELSE Fitting!First(data.main, n)
    <2>2. l > 0 BY <1>2, <1>5, EmptySeq
    <2>3. n \in Nat BY <1>2, <2>2, Halves
    <2>4. d = [data EXCEPT !.main = main]
      BY <2>1 DEF Fitting!ShrunkMain, Fitting!ShrinkHistory, Fitting!ShrinkPoints, Fitting!shrinkItems, Latest
    <2>5. main \in Seq(Nat) /\ Len(main) <= Len(data.main) /\ Kept(main, received.main)
      <3> DEFINE m == main
      <3>1. m = IF shape \in Latest THEN Fitting!Last(data.main, n) ELSE Fitting!First(data.main, n)
        OBVIOUS
      <3> HIDE DEF m, n
      <3>2. m \in Seq(Nat) /\ Len(m) <= Len(data.main) /\ Kept(m, received.main)
        BY <1>2, <1>3, <2>3, <3>1, KeptCut
      <3> QED BY <3>2 DEF m
    <2> HIDE DEF main
    <2>6. d \in Results /\ d.main = main /\ d.aux = data.aux /\ d.nodes = data.nodes /\ d.edges = data.edges
      BY <1>1, <2>4, <2>5 DEF Results
    <2> QED BY <1>2, <1>5, <2>5, <2>6 DEF NoLonger
  <1>6. CASE shape # "graph" /\ data.main = <<>>
    <2> DEFINE n == Len(data.aux) \div 2
               aux == Fitting!First(data.aux, n)
    <2>1. d = [data EXCEPT !.aux = aux] BY <1>6 DEF Fitting!Shrunk, Fitting!shrinkItems
    <2>2. n \in Nat /\ n <= Len(data.aux) BY <1>2, Halves
    <2> HIDE DEF n
    <2>3. aux \in Seq(Nat) /\ Len(aux) <= Len(data.aux)
      <3>1. aux \in Seq(Nat) /\ Len(aux) = IF n < Len(data.aux) THEN n ELSE Len(data.aux)
        BY <1>2, <2>2, FirstOf
      <3> HIDE DEF aux
      <3> QED BY <1>2, <2>2, <3>1
    <2> HIDE DEF aux
    <2>4. d \in Results /\ d.main = data.main /\ d.aux = aux /\ d.nodes = data.nodes /\ d.edges = data.edges
      BY <1>1, <2>1, <2>3 DEF Results
    <2> QED BY <1>2, <1>3, <1>6, <2>3, <2>4 DEF NoLonger
  <1> QED BY <1>4, <1>5, <1>6

LEMMA ShorterStill ==
    ASSUME NEW d \in Results, NEW e \in Results, NEW f \in Results, NoLonger(d, e), NoLonger(e, f)
    PROVE  NoLonger(d, f) /\ \A n \in Nat : Within(e, n) => Within(d, n)
  <1>1. /\ Len(d.main) \in Nat /\ Len(d.aux) \in Nat /\ Len(d.nodes) \in Nat /\ Len(d.edges) \in Nat
        /\ Len(e.main) \in Nat /\ Len(e.aux) \in Nat /\ Len(e.nodes) \in Nat /\ Len(e.edges) \in Nat
        /\ Len(f.main) \in Nat /\ Len(f.aux) \in Nat /\ Len(f.nodes) \in Nat /\ Len(f.edges) \in Nat
    BY Lengths
  <1>2. NoLonger(d, f)
    <2>1. Len(d.main) <= Len(f.main) BY <1>1 DEF NoLonger
    <2>2. Len(d.aux) <= Len(f.aux) BY <1>1 DEF NoLonger
    <2>3. Len(d.nodes) <= Len(f.nodes) BY <1>1 DEF NoLonger
    <2>4. Len(d.edges) <= Len(f.edges) BY <1>1 DEF NoLonger
    <2> QED BY <2>1, <2>2, <2>3, <2>4 DEF NoLonger
  <1>3. ASSUME NEW n \in Nat, Within(e, n) PROVE Within(d, n)
    <2>1. Len(d.main) <= n BY <1>1, <1>3 DEF NoLonger, Within
    <2>2. Len(d.aux) <= n BY <1>1, <1>3 DEF NoLonger, Within
    <2>3. Len(d.nodes) <= n BY <1>1, <1>3 DEF NoLonger, Within
    <2>4. Len(d.edges) <= n BY <1>1, <1>3 DEF NoLonger, Within
    <2> QED BY <2>1, <2>2, <2>3, <2>4 DEF Within
  <1> QED BY <1>2, <1>3

LEMMA CutKeeps ==
    ASSUME FittingInv, AnswersAssumption, Fitting!Cut
    PROVE  FittingInv'
  <1>1. /\ data' = Fitting!CutLists /\ returned' = Len(data'.main) /\ stage' = "bound"
        /\ shape' = shape /\ limit' = limit /\ received' = received
        /\ hasMore' = (shape \in {"page", "occurrences"} /\ Len(data'.main) < Len(received.main))
        /\ truncated' = Fitting!Shorter(data', received)
    BY Zenon DEF Fitting!Cut, Fitting!Lost
  <1>2. /\ data' \in Results /\ NoLonger(data', received) /\ Within(data', limit)
        /\ Kept(data'.main, received.main)
        /\ shape = "graph" => Centred(data', received) /\ Joined(data')
    BY <1>1, CutIs
  <1>3. received \in Results BY DEF FittingInv
  <1>4. truncated' \in BOOLEAN /\ hasMore' \in BOOLEAN BY <1>1 DEF Fitting!Shorter
  <1>5. ~truncated' => NoLonger(received, data') BY <1>1, <1>2, <1>3, ShorterIs
  <1>6. shape \in {"page", "occurrences"} /\ ~hasMore' => Len(received.main) <= Len(data'.main)
    <2>1. Len(data'.main) \in Nat /\ Len(received.main) \in Nat BY <1>2, <1>3, Lengths
    <2>2. \A m, n \in Nat : ~(m < n) => n <= m OBVIOUS
    <2>3. shape \in {"page", "occurrences"} /\ ~hasMore' => ~(Len(data'.main) < Len(received.main))
      BY <1>1, Zenon
    <2> QED BY <2>1, <2>2, <2>3, Zenon
  <1>7. Kept(data.main, received.main)' /\ Centred(data, received)' = Centred(data', received)
        /\ Joined(data)' = Joined(data')
    BY <1>1, <1>2 DEF Kept, Centred, Joined, Fitting!Joins
  <1> QED BY <1>1, <1>2, <1>3, <1>4, <1>5, <1>6, <1>7 DEF FittingInv, NoLonger, Within

LEMMA ShrinkKeeps ==
    ASSUME FittingInv, AnswersAssumption, Fitting!Shrink
    PROVE  FittingInv'
  <1>1. /\ data' = Fitting!Shrunk(data) /\ returned' = Len(data'.main) /\ stage' = stage /\ stage = "bound"
        /\ shape' = shape /\ limit' = limit /\ received' = received
        /\ hasMore' = (hasMore \/ (shape \in {"page", "occurrences"} /\ data.main # <<>>))
        /\ truncated' = TRUE /\ Fitting!CanShrink(data)
    BY Zenon DEF Fitting!Shrink, Fitting!Count
  <1>2. /\ data' \in Results /\ NoLonger(data', data) /\ Kept(data'.main, received.main)
        /\ shape = "graph" => Centred(data', received) /\ Joined(data')
        /\ data.main = <<>> => data'.main = data.main
    BY <1>1, ShrunkIs
  <1>3. received \in Results /\ data \in Results /\ limit \in 1 .. MaxLimit BY DEF FittingInv
  <1>4. NoLonger(data', received) /\ Within(data', limit)
    <2>1. NoLonger(data, received) /\ Within(data, limit) BY <1>1 DEF FittingInv
    <2> QED BY <1>2, <1>3, <2>1, ShorterStill
  <1>5. ASSUME shape \in {"page", "occurrences"}, ~hasMore' PROVE Len(received.main) <= Len(data'.main)
    <2>1. ~hasMore /\ data.main = <<>> BY <1>1, <1>5, Zenon
    <2>2. Len(received.main) <= Len(data.main) BY <1>1, <1>5, <2>1 DEF FittingInv
    <2> QED BY <1>2, <2>1, <2>2
  <1>6. hasMore' \in BOOLEAN BY <1>1 DEF FittingInv
  <1>7. Kept(data.main, received.main)' /\ Centred(data, received)' = Centred(data', received)
        /\ Joined(data)' = Joined(data')
    BY <1>1, <1>2 DEF Kept, Centred, Joined, Fitting!Joins
  <1> QED BY <1>1, <1>2, <1>3, <1>4, <1>5, <1>6, <1>7 DEF FittingInv, NoLonger, Within

LEMMA SendKeeps ==
    ASSUME FittingInv, Fitting!Send
    PROVE  FittingInv'
  <1>1. /\ stage = "bound" /\ stage' = "sent" /\ shape' = shape /\ limit' = limit /\ received' = received
        /\ data' = data /\ returned' = returned /\ hasMore' = hasMore /\ truncated' = truncated
    BY DEF Fitting!Send
  <1>2. Kept(data.main, received.main)' = Kept(data.main, received.main)
        /\ Centred(data, received)' = Centred(data, received) /\ Joined(data)' = Joined(data)
        /\ NoLonger(data, received)' = NoLonger(data, received)
        /\ NoLonger(received, data)' = NoLonger(received, data) /\ Within(data, limit)' = Within(data, limit)
    BY <1>1 DEF Kept, Centred, Joined, Fitting!Joins, NoLonger, Within
  <1> QED BY <1>1, <1>2 DEF FittingInv

LEMMA TooLargeKeeps ==
    ASSUME FittingInv, Fitting!TooLarge
    PROVE  FittingInv'
  <1>1. /\ stage' = "failed" /\ shape' = shape /\ limit' = limit /\ received' = received
        /\ data' = Fitting!Answer(<<>>, <<>>, Fitting!NoGraph, FALSE)
        /\ returned' = 0 /\ hasMore' = hasMore /\ truncated' = TRUE
    BY DEF Fitting!TooLarge
  <1>2. data' = [main |-> <<>>, aux |-> <<>>, nodes |-> <<>>, edges |-> <<>>, impact |-> FALSE]
    BY <1>1 DEF Fitting!Answer, Fitting!NoGraph
  <1>3. \A S : <<>> \in Seq(S) /\ Len(<<>>) = 0 BY EmptySeq
  <1>4. data' \in Results BY <1>2, <1>3 DEF Results
  <1>5. received \in Results /\ limit \in 1 .. MaxLimit BY DEF FittingInv
  <1>6. NoLonger(data', received) /\ Within(data', limit) /\ Len(data'.main) = 0
    <2>1. Len(data'.main) = 0 /\ Len(data'.aux) = 0 /\ Len(data'.nodes) = 0 /\ Len(data'.edges) = 0
      BY <1>2, <1>3
    <2>2. /\ Len(received.main) \in Nat /\ Len(received.aux) \in Nat
          /\ Len(received.nodes) \in Nat /\ Len(received.edges) \in Nat
      BY <1>5, Lengths
    <2> QED BY <1>5, <2>1, <2>2 DEF NoLonger, Within
  <1> QED BY <1>1, <1>4, <1>5, <1>6 DEF FittingInv, NoLonger, Within

LEMMA FittingKept ==
    ASSUME FittingInv, UNCHANGED fittingVars
    PROVE  FittingInv'
  <1>1. /\ stage' = stage /\ shape' = shape /\ limit' = limit /\ received' = received
        /\ data' = data /\ returned' = returned /\ hasMore' = hasMore /\ truncated' = truncated
    BY DEF fittingVars
  <1>2. Kept(data.main, received.main)' = Kept(data.main, received.main)
        /\ Centred(data, received)' = Centred(data, received) /\ Joined(data)' = Joined(data)
        /\ NoLonger(data, received)' = NoLonger(data, received)
        /\ NoLonger(received, data)' = NoLonger(received, data) /\ Within(data, limit)' = Within(data, limit)
    BY <1>1 DEF Kept, Centred, Joined, Fitting!Joins, NoLonger, Within
  <1> QED BY <1>1, <1>2 DEF FittingInv

(* What was cut off is told and what is left is whole, whatever the lengths of the   *)
(* lists, the limit, the graph and the room: result.go:77-104, impact_request.go.    *)
THEOREM LossAlwaysTold == AnswersSpec => []LossIsTold
  <1>1. AnswersInit => FittingInv
    BY AnswersAssumption, FittingBegins DEF AnswersInit
  <1>2. FittingInv /\ [AnswersNext]_answersVars => FittingInv'
    <2> SUFFICES ASSUME FittingInv, [AnswersNext]_answersVars PROVE FittingInv'
      OBVIOUS
    <2>1. CASE UNCHANGED fittingVars BY <2>1, FittingKept
    <2>2. CASE Fitting!Next
      BY <2>2, CutKeeps, SendKeeps, ShrinkKeeps, TooLargeKeeps, AnswersAssumption DEF Fitting!Next
    <2> QED BY <2>1, <2>2 DEF AnswersNext, answersVars
  <1>3. FittingInv => LossIsTold BY LossFollows
  <1> QED BY <1>1, <1>2, <1>3, PTL DEF AnswersSpec

-----------------------------------------------------------------------------
(* What an operation of this name must be for its answers to be about what it was asked   *)
(* for, and for their statuses to be known.                                                 *)
Told(id, o) ==
    /\ o.path \cup o.query \subseteq Decoding!Both
    /\ \A a \in o.path \cup o.query :
          \/ <<id, a>> \in MCUnverified
          \/ a \in o.items /\ (a \in o.global => <<id, a>> \in MCGlobal)
          \/ a \in o.echo /\ a \notin o.items
          \/ /\ a \notin o.items /\ o.path \subseteq o.noOdd
             /\ a = "cluster" => a \in o.nonblank /\ a \notin o.query
Known(id, o) ==
    /\ \A p \in o.dto.states : p \in o.checked \cup o.observed \/ <<id, p>> \in MCUnchecked
    /\ \A p \in o.checked \cup o.observed : p \in o.dto.states
    /\ \A e \in o.dto.explains :
          /\ e[2] \in o.dto.states \cup o.dto.flags
          /\ <<e[1], e[2]>> \in o.hides \/ e[2] \in o.observed
    /\ o.dto.states \cap o.dto.flags = {}
Sound(id, o) == Told(id, o) /\ Known(id, o)

LEMMA OwnPairs == \A P : \A e \in Decoding!Own(P) : e[2] \in P /\ e = <<e[1], e[2]>>
  BY DEF Decoding!Own

(* Every operation of the client is one of these. *)
LEMMA OperationsSound == \A id \in DOMAIN Decoding!Operations : Sound(id, Decoding!Operations[id])
  <1> USE OwnPairs DEF Sound, Told, Known, MCUnverified, MCGlobal, MCUnchecked, MCUncheckedEvents,
          Decoding!Operation, Decoding!DTO, Decoding!Both, Decoding!Echo, Decoding!ItemEcho,
          Decoding!getCluster, Decoding!ByObject, Decoding!operationTarget, Decoding!Returns,
          Decoding!Strict
  <1>1. Sound("CurrentUserID", Decoding!CurrentUserID)
    BY DEF Decoding!CurrentUserID
  <1>2. Sound("ListClusters", Decoding!ListClusters)
    BY DEF Decoding!ListClusters
  <1>3. Sound("ClusterHealth", Decoding!ClusterHealth)
    <2> DEFINE o == Decoding!ClusterHealth
    <2>1. /\ o.path = {"cluster"} /\ o.query = {} /\ o.echo = {"cluster"} /\ o.observed = {}
          /\ o.dto = Decoding!ClusterHealthView /\ o.hides = Decoding!Own({"error"}) /\ o.checked = {} /\ o.items = {}
      BY DEF Decoding!ClusterHealth
    <2>2. /\ Decoding!ClusterHealthView.states = {} /\ Decoding!ClusterHealthView.flags = {"error"}
          /\ Decoding!ClusterHealthView.explains = Decoding!Own({"error"})
      BY DEF Decoding!ClusterHealthView
    <2> HIDE DEF o
    <2>3. Sound("ClusterHealth", o) BY <2>1, <2>2
    <2> QED BY <2>3 DEF o
  <1>4. Sound("PartitionHealth", Decoding!PartitionHealth)
    BY DEF Decoding!PartitionHealth, Decoding!PartitionHealthView
  <1>5. Sound("ListTopics", Decoding!ListTopics)
    BY DEF Decoding!ListTopics
  <1>6. Sound("ListConsumerGroups", Decoding!ListConsumerGroups)
    BY DEF Decoding!ListConsumerGroups
  <1>7. Sound("ConsumerGroupLag", Decoding!ConsumerGroupLag)
    BY DEF Decoding!ConsumerGroupLag, Decoding!ConsumerGroupLagView
  <1>8. Sound("ListClusterEvents", Decoding!ListClusterEvents)
    BY DEF Decoding!ListClusterEvents, Decoding!EventItems
  <1>9. Sound("ConsumerLagOverview", Decoding!ConsumerLagOverview)
    <2>1. /\ \A e \in Decoding!ConsumerLagView.explains :
                e[2] \in Decoding!ConsumerLagView.states /\ <<e[1], e[2]>> \in Decoding!ObservedReasons
          /\ Decoding!ConsumerLagView.flags = {}
      BY DEF Decoding!ConsumerLagView, Decoding!ObservedReasons, Decoding!Own
    <2> DEFINE o == Decoding!ConsumerLagOverview
    <2>2. /\ o.path = {"cluster"} /\ o.query = {} /\ o.echo = {"cluster"} /\ o.observed = {}
          /\ o.dto = Decoding!ConsumerLagView /\ o.hides = Decoding!ObservedReasons /\ o.checked = o.dto.states
          /\ o.items = {}
      BY DEF Decoding!ConsumerLagOverview
    <2> HIDE DEF o
    <2>3. Sound("ConsumerLagOverview", o) BY <2>1, <2>2
    <2> QED BY <2>3 DEF o
  <1>10. Sound("ConsumerLagPolicy", Decoding!ConsumerLagPolicy)
    BY DEF Decoding!ConsumerLagPolicy
  <1>11. Sound("MetricSeries", Decoding!MetricSeries)
    BY DEF Decoding!MetricSeries
  <1>12. Sound("ClusterStorage", Decoding!ClusterStorage)
    BY DEF Decoding!ClusterStorage, Decoding!ClusterStorageView
  <1>13. Sound("ClusterConfigAudit", Decoding!ClusterConfigAudit)
    BY DEF Decoding!ClusterConfigAudit, Decoding!ConfigAuditView
  <1>14. Sound("PartitionReassignments", Decoding!PartitionReassignments)
    BY DEF Decoding!PartitionReassignments, Decoding!ReassignmentView
  <1>15. Sound("ListIdentities", Decoding!ListIdentities)
    BY DEF Decoding!ListIdentities
  <1>16. Sound("IdentityDetail", Decoding!IdentityDetail)
    BY DEF Decoding!IdentityDetail
  <1>17. Sound("ListACLs", Decoding!ListACLs)
    BY DEF Decoding!ListACLs
  <1>18. Sound("ListPrincipalACLs", Decoding!ListPrincipalACLs)
    BY DEF Decoding!ListPrincipalACLs
  <1>19. Sound("ACLRisk", Decoding!ACLRisk)
    BY DEF Decoding!ACLRisk, Decoding!validSecurityReport, Decoding!SecurityReport
  <1>20. Sound("ScramAudit", Decoding!ScramAudit)
    BY DEF Decoding!ScramAudit, Decoding!validSecurityReport, Decoding!SecurityReport
  <1>21. Sound("ListRequests", Decoding!ListRequests)
    BY DEF Decoding!ListRequests, Decoding!RequestItems
  <1>22. Sound("TopicDetail", Decoding!TopicDetail)
    BY DEF Decoding!TopicDetail
  <1>23. Sound("TopicPartitions", Decoding!TopicPartitions)
    <2> DEFINE o == Decoding!TopicPartitions
    <2>1. /\ o.path = Decoding!Both /\ o.query = {} /\ o.echo = {"object"} /\ o.observed = {"health"}
          /\ o.dto = Decoding!TopicMetadataView /\ o.checked = {} /\ o.items = {}
      BY DEF Decoding!TopicPartitions
    <2>2. /\ Decoding!TopicMetadataView.states = {"health"} /\ Decoding!TopicMetadataView.flags = {}
          /\ Decoding!TopicMetadataView.explains = Decoding!Own({"health"})
      BY DEF Decoding!TopicMetadataView
    <2> HIDE DEF o
    <2>3. Sound("TopicPartitions", o) BY <2>1, <2>2
    <2> QED BY <2>3 DEF o
  <1>24. Sound("ConsumerGroupMembers", Decoding!ConsumerGroupMembers)
    BY DEF Decoding!ConsumerGroupMembers
  <1>25. Sound("EventDetail", Decoding!EventDetail)
    BY DEF Decoding!EventDetail, Decoding!EventItems
  <1>26. Sound("EventOccurrences", Decoding!EventOccurrences)
    BY DEF Decoding!EventOccurrences
  <1>27. Sound("EventIssue", Decoding!EventIssue)
    BY DEF Decoding!EventIssue, Decoding!RelatedIssue
  <1>28. Sound("EventPlaybook", Decoding!EventPlaybook)
    BY DEF Decoding!EventPlaybook
  <1>29. Sound("EventSummary", Decoding!EventSummary)
    BY DEF Decoding!EventSummary, Decoding!ByQuery
  <1>30. Sound("ListOperationalIssues", Decoding!ListOperationalIssues)
    BY DEF Decoding!ListOperationalIssues, Decoding!EventItems, Decoding!ByQuery
  <1>31. Sound("GetEventRule", Decoding!GetEventRule)
    BY DEF Decoding!GetEventRule, Decoding!Rule, Decoding!ByQuery
  <1>32. Sound("GetAttentionRule", Decoding!GetAttentionRule)
    BY DEF Decoding!GetAttentionRule, Decoding!Rule, Decoding!ByQuery
  <1>33. Sound("GetAttentionProfile", Decoding!GetAttentionProfile)
    BY DEF Decoding!GetAttentionProfile
  <1>34. Sound("ListMaintenanceWindows", Decoding!ListMaintenanceWindows)
    BY DEF Decoding!ListMaintenanceWindows, Decoding!ByQuery
  <1>35. Sound("AssetRelations", Decoding!AssetRelations)
    <2> DEFINE o == Decoding!AssetRelations
    <2>1. /\ o.path = {"cluster"} /\ o.query = {"object"} /\ o.echo = Decoding!Both /\ o.observed = {}
          /\ o.dto = Decoding!AssetGraph /\ o.hides = Decoding!Own({"errors"}) /\ o.checked = {} /\ o.items = {}
      BY DEF Decoding!AssetRelations
    <2>2. /\ Decoding!AssetGraph.states = {} /\ Decoding!AssetGraph.flags = {"errors"}
          /\ Decoding!AssetGraph.explains = Decoding!Own({"errors"})
      BY DEF Decoding!AssetGraph
    <2> HIDE DEF o
    <2>3. Sound("AssetRelations", o) BY <2>1, <2>2
    <2> QED BY <2>3 DEF o
  <1>36. Sound("AssetImpact", Decoding!AssetImpact)
    BY DEF Decoding!AssetImpact
  <1>37. Sound("RequestStatus", Decoding!RequestStatus)
    BY DEF Decoding!RequestStatus, Decoding!RequestHistory
  <1>38. Sound("ResourceBackups", Decoding!ResourceBackups)
    BY DEF Decoding!ResourceBackups, Decoding!BackupItems
  <1>39. Sound("SampleTopicMessages", Decoding!SampleTopicMessages)
    BY DEF Decoding!SampleTopicMessages
  <1>40. Sound("PreviewACLPlan", Decoding!PreviewACLPlan)
    BY DEF Decoding!PreviewACLPlan, Decoding!Preview
  <1>41. Sound("PreviewFlinkACLPlan", Decoding!PreviewFlinkACLPlan)
    BY DEF Decoding!PreviewFlinkACLPlan, Decoding!PreviewACLPlan, Decoding!Preview
  <1>42. Sound("PreviewFlinkDDL", Decoding!PreviewFlinkDDL)
    BY DEF Decoding!PreviewFlinkDDL, Decoding!DDLAnswer, Decoding!Preview
  <1> HIDE DEF Sound
  <1>43. DOMAIN Decoding!Operations = {"CurrentUserID", "ListClusters", "ClusterHealth",
     "PartitionHealth", "ListTopics", "ListConsumerGroups", "ConsumerGroupLag",
     "ListClusterEvents", "ConsumerLagOverview", "ConsumerLagPolicy", "MetricSeries",
     "ClusterStorage", "ClusterConfigAudit", "PartitionReassignments", "ListIdentities",
     "IdentityDetail", "ListACLs", "ListPrincipalACLs", "ACLRisk", "ScramAudit", "ListRequests",
     "TopicDetail", "TopicPartitions", "ConsumerGroupMembers", "EventDetail",
     "EventOccurrences", "EventIssue", "EventPlaybook", "EventSummary", "ListOperationalIssues",
     "GetEventRule", "GetAttentionRule", "GetAttentionProfile", "ListMaintenanceWindows",
     "AssetRelations", "AssetImpact", "RequestStatus", "ResourceBackups", "SampleTopicMessages",
     "PreviewACLPlan", "PreviewFlinkACLPlan", "PreviewFlinkDDL"}
    BY DEF Decoding!Operations
  <1> QED
    BY <1>1, <1>2, <1>3, <1>4, <1>5, <1>6, <1>7, <1>8, <1>9, <1>10, <1>11, <1>12, <1>13, <1>14,
       <1>15, <1>16, <1>17, <1>18, <1>19, <1>20, <1>21, <1>22, <1>23, <1>24, <1>25, <1>26,
       <1>27, <1>28, <1>29, <1>30, <1>31, <1>32, <1>33, <1>34, <1>35, <1>36, <1>37, <1>38,
       <1>39, <1>40, <1>41, <1>42, <1>43 DEF Decoding!Operations

DecodingInv ==
    \/ at = "refused"
    \/ /\ operation \in DOMAIN Decoding!Operations /\ at \in {"sent", "answered", "accepted"}
       /\ ~Decoding!Refuses(Decoding!The, given)
       /\ at # "sent" => /\ answer.subject \in Decoding!Subjects
                         /\ answer.status \in Decoding!Statuses(Decoding!The.dto)
       /\ at = "accepted" => Decoding!Valid

LEMMA StatusKinds ==
    ASSUME NEW dto, NEW st \in Decoding!Statuses(dto), NEW p \in dto.states \cup dto.flags
    PROVE  /\ p \in DOMAIN st /\ st[p] \in {"good", "failing", "unknown"}
           /\ st[p] = "unknown" => p \in dto.states
  <1>1. PICK F \in Decoding!Faulty(dto.states \cup dto.flags) :
            st \in {[q \in dto.states \cup dto.flags |->
                        IF q \in U THEN "unknown" ELSE IF q \in F THEN "failing" ELSE "good"] :
                        U \in SUBSET (F \cap dto.states)}
    BY DEF Decoding!Statuses
  <1>2. PICK U \in SUBSET (F \cap dto.states) :
            st = [q \in dto.states \cup dto.flags |->
                     IF q \in U THEN "unknown" ELSE IF q \in F THEN "failing" ELSE "good"]
    BY <1>1
  <1> QED BY <1>2

LEMMA SubjectIs ==
    ASSUME NEW s \in Decoding!Subjects, NEW a \in Decoding!Both,
           a = "cluster" => ~Decoding!Filtered
    PROVE  s[a] = Decoding!LookedUp(a)
  BY DEF Decoding!Subjects

LEMMA AcceptedIsAbout ==
    ASSUME DecodingInv, MCUnverified \subseteq Unverified, MCGlobal \subseteq Global
    PROVE  AnswersAreAboutTheTarget
  <1> DEFINE o == Decoding!The
  <1> SUFFICES ASSUME at = "accepted", NEW a \in Decoding!Asked(Decoding!The),
                      <<operation, a>> \notin Unverified
               PROVE  IF a \in o.items
                      THEN \A i \in answer.items :
                               i[a] = given[a] \/ (<<operation, a>> \in Global /\ i[a] = Decoding!ForAll)
                      ELSE answer.subject[a] = given[a]
    BY DEF AnswersAreAboutTheTarget, Decoding!AnswersAreAboutTheTarget
  <1>1. /\ operation \in DOMAIN Decoding!Operations /\ ~Decoding!Refuses(o, given)
        /\ answer.subject \in Decoding!Subjects /\ Decoding!Valid
    BY DEF DecodingInv
  <1>2. Told(operation, o) /\ a \in o.path \cup o.query
    BY <1>1, OperationsSound DEF Sound, Decoding!The, Decoding!Asked
  <1>3. CASE a \in o.items
    <2>1. a \in o.global => <<operation, a>> \in Global
      BY <1>2, <1>3 DEF Told
    <2> QED BY <1>1, <1>3, <2>1 DEF Decoding!Valid, Decoding!ItemsEchoed
  <1>4. CASE a \in o.echo /\ a \notin o.items BY <1>1, <1>4 DEF Decoding!Valid, Decoding!Echoed
  <1>5. CASE a \notin o.items /\ a \notin o.echo
    <2>1. o.path \subseteq o.noOdd /\ (a = "cluster" => a \in o.nonblank /\ a \notin o.query) /\ a \in Decoding!Both
      BY <1>2, <1>5 DEF Told
    <2>2. ~Decoding!RawPath
      BY <1>1, <2>1 DEF Decoding!RawPath, Decoding!Refuses
    <2>3. ~(a = "cluster" /\ Decoding!Missing(given[a]))
      BY <1>1, <2>1 DEF Decoding!Refuses
    <2>4. Decoding!LookedUp(a) = given[a] BY <2>2, <2>3 DEF Decoding!LookedUp
    <2>5. a = "cluster" => ~Decoding!Filtered BY <2>1 DEF Decoding!Filtered
    <2>6. answer.subject[a] = given[a] BY <1>1, <2>1, <2>4, <2>5, SubjectIs
    <2> QED BY <1>5, <2>6
  <1> QED BY <1>3, <1>4, <1>5

LEMMA AcceptedIsKnown ==
    ASSUME DecodingInv, MCUnchecked \subseteq Unchecked
    PROVE  StatusesAreKnown
  <1> DEFINE o == Decoding!The
  <1> SUFFICES ASSUME at = "accepted"
               PROVE  /\ \A p \in o.dto.states : answer.status[p] = "unknown" => <<operation, p>> \in Unchecked
                      /\ \A e \in o.dto.explains : answer.status[e[2]] # "good" =>
                             Decoding!Replaced(e[1]) \/ <<operation, e[2]>> \in Unchecked
    BY DEF StatusesAreKnown, Decoding!StatusesAreKnown, Decoding!NoRawFailureText
  <1>1. /\ operation \in DOMAIN Decoding!Operations
        /\ answer.status \in Decoding!Statuses(o.dto) /\ Decoding!Valid
    BY DEF DecodingInv
  <1>2. Known(operation, o)
    BY <1>1, OperationsSound DEF Sound, Decoding!The
  <1>3. ASSUME NEW p \in o.dto.states, answer.status[p] = "unknown"
        PROVE  <<operation, p>> \in Unchecked
    <2>1. p \notin o.checked BY <1>1, <1>3 DEF Decoding!Valid, Decoding!validProbeStatus
    <2>2. p \notin o.observed BY <1>1, <1>3 DEF Decoding!Valid, Decoding!validProbeStatus
    <2> QED BY <1>2, <1>3, <2>1, <2>2 DEF Known
  <1>4. ASSUME NEW e \in o.dto.explains, answer.status[e[2]] # "good",
               <<operation, e[2]>> \notin Unchecked
        PROVE  Decoding!Replaced(e[1])
    <2>1. e[2] \in o.dto.states \cup o.dto.flags /\ (<<e[1], e[2]>> \in o.hides \/ e[2] \in o.observed)
      BY <1>2 DEF Known
    <2>2. /\ e[2] \in DOMAIN answer.status /\ answer.status[e[2]] \in {"good", "failing", "unknown"}
          /\ answer.status[e[2]] = "unknown" => e[2] \in o.dto.states
      BY <1>1, <2>1, StatusKinds
    <2>3. answer.status[e[2]] = "failing" BY <1>3, <1>4, <2>2
    <2>4. e[2] \notin o.observed BY <1>1, <1>4 DEF Decoding!Valid, Decoding!validProbeStatus
    <2> QED BY <2>1, <2>2, <2>3, <2>4 DEF Decoding!Replaced
  <1> QED BY <1>3, <1>4

LEMMA DecodingBegins ==
    ASSUME Decoding!Init \/ DecodingRests
    PROVE  DecodingInv
  BY DEF Decoding!Init, DecodingRests, DecodingInv

(* What an operation is and what it makes of its names does not change with its answer. *)
LEMMA SameOperation ==
    ASSUME operation' = operation, given' = given
    PROVE  /\ Decoding!The' = Decoding!The /\ Decoding!Subjects' = Decoding!Subjects
           /\ Decoding!Refuses(Decoding!The, given)' = Decoding!Refuses(Decoding!The, given)
           /\ Decoding!Statuses(Decoding!The.dto)' = Decoding!Statuses(Decoding!The.dto)
  <1>1. Decoding!The' = Decoding!The BY DEF Decoding!The
  <1>2. Decoding!RawPath' = Decoding!RawPath /\ Decoding!Filtered' = Decoding!Filtered
    BY <1>1 DEF Decoding!RawPath, Decoding!Filtered
  <1>3. \A a : Decoding!LookedUp(a)' = Decoding!LookedUp(a) BY <1>1, <1>2 DEF Decoding!LookedUp
  <1>4. Decoding!Subjects' = Decoding!Subjects BY <1>2, <1>3 DEF Decoding!Subjects
  <1> QED BY <1>1, <1>4

LEMMA AnswerIsOfOne ==
    ASSUME DecodingInv, Decoding!BackendAnswers
    PROVE  DecodingInv'
  <1>1. operation' = operation /\ given' = given /\ at = "sent" /\ at' = "answered"
    BY DEF Decoding!BackendAnswers
  <1>2. answer'.subject \in Decoding!Subjects /\ answer'.status \in Decoding!Statuses(Decoding!The.dto)
    BY DEF Decoding!BackendAnswers
  <1> QED BY <1>1, <1>2, SameOperation DEF DecodingInv

LEMMA DecodeKeeps ==
    ASSUME DecodingInv, Decoding!Decode
    PROVE  DecodingInv'
  <1>1. operation' = operation /\ given' = given /\ answer' = answer /\ at = "answered"
        /\ at' = IF Decoding!Valid THEN "accepted" ELSE "refused"
    BY DEF Decoding!Decode
  <1>2. Decoding!Valid' = Decoding!Valid
    BY <1>1, SameOperation
       DEF Decoding!Valid, Decoding!Echoed, Decoding!ItemsEchoed, Decoding!validProbeStatus
  <1> QED BY <1>1, <1>2, SameOperation DEF DecodingInv

LEMMA DecodingKept ==
    ASSUME DecodingInv, UNCHANGED decodingVars
    PROVE  DecodingInv'
  <1>1. operation' = operation /\ given' = given /\ answer' = answer /\ at' = at BY DEF decodingVars
  <1>2. Decoding!Valid' = Decoding!Valid
    BY <1>1, SameOperation
       DEF Decoding!Valid, Decoding!Echoed, Decoding!ItemsEchoed, Decoding!validProbeStatus
  <1> QED BY <1>1, <1>2, SameOperation DEF DecodingInv

LEMMA DecodingHolds == AnswersSpec => []DecodingInv
  <1>1. AnswersInit => DecodingInv
    BY DecodingBegins DEF AnswersInit
  <1>2. DecodingInv /\ [AnswersNext]_answersVars => DecodingInv'
    <2> SUFFICES ASSUME DecodingInv, [AnswersNext]_answersVars PROVE DecodingInv'
      OBVIOUS
    <2>1. CASE UNCHANGED decodingVars BY <2>1, DecodingKept
    <2>2. CASE Decoding!Next BY <2>2, AnswerIsOfOne, DecodeKeeps DEF Decoding!Next
    <2> QED BY <2>1, <2>2 DEF AnswersNext, answersVars
  <1> QED BY <1>1, <1>2, PTL DEF AnswersSpec

(* An answer that is passed on is about what the operation was asked for, whatever names  *)
(* callers give and the policy allows, but for the seven arguments the code does not       *)
(* verify and for maintenance windows of all clusters.                                      *)
THEOREM AnswersAlwaysAboutTheTarget ==
    ASSUME MCUnverified \subseteq Unverified, MCGlobal \subseteq Global
    PROVE  AnswersSpec => []AnswersAreAboutTheTarget
  <1>1. DecodingInv => AnswersAreAboutTheTarget BY AcceptedIsAbout
  <1> QED BY <1>1, DecodingHolds, PTL

(* No status that is not defined and no text of a failure is passed on, however many of an *)
(* answer's statuses are bad, but for the places the code does not look at.                 *)
THEOREM StatusesAlwaysKnown ==
    ASSUME MCUnchecked \subseteq Unchecked
    PROVE  AnswersSpec => []StatusesAreKnown
  <1>1. DecodingInv => StatusesAreKnown BY AcceptedIsKnown
  <1> QED BY <1>1, DecodingHolds, PTL
=============================================================================

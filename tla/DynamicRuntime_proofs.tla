------------------------ MODULE DynamicRuntime_proofs ------------------------
(* Proofs about DynamicRuntime, for every value of its constants. *)
EXTENDS DynamicRuntime, TLAPS, FiniteSetTheorems

-----------------------------------------------------------------------------
(* The inductive invariant *)

Resting == {"free", "fetching", "answered"}
Applying == {"rebind", "gate", "swap", "commit"}

(* Slot s holds a tool with definition d. *)
Backed(s, d) == s \in Slots /\ slot[s] \in Tool /\ slot[s].def = d

(* What clients see of a tool is the definition of the tool in its slot, *)
(* which no other name has.                                              *)
RegisteredInv ==
    \A n \in Names : registered[n] # None =>
      registered[n].slot[1] = n /\ Backed(registered[n].slot, registered[n].def)

(* The slot of a validated call keeps the definition that the SDK checked. *)
CallInv ==
    \A x \in Calls :
      /\ call[x].pc = "validated" => Backed(call[x].slot, call[x].def)
      /\ call[x].pc = "running" => call[x].tool \in Tool /\ call[x].tool.def = call[x].def

(* Name n offers what contract c asks for, unless AddTool rejects that. *)
Matches(n, c) ==
    \/ LiveTool(n) = Desired(c)[n]
    \/ Desired(c)[n] # None /\ Desired(c)[n].def \in Unregistrable

(* How far a replacement has come at each of its points. *)
ApplyInv ==
    /\ current \in Good \cup {None}
    /\ op.pc = "answered" => op.next \in Contracts
    /\ op.pc \in Resting =>
         /\ HasLoader => contract = current
         /\ bound /\ current # None => \A n \in Names : Matches(n, current)
    /\ op.pc \in Applying => (HasLoader => contract = op.next)
    /\ op.pc = "rebind" =>
         /\ op.todo \subseteq Unchanged(op.next)
         /\ \A n \in Unchanged(op.next) \ op.todo : LiveTool(n) = Desired(op.next)[n]
    /\ op.pc = "gate" => \A n \in Unchanged(op.next) : LiveTool(n) = Desired(op.next)[n]
    /\ op.pc = "swap" =>
         /\ \A n \in op.todo : Desired(op.next)[n] # None
         /\ \A n \in Names \ op.todo : Desired(op.next)[n] # None => Matches(n, op.next)
    /\ op.pc = "commit" => \A n \in Names : Matches(n, op.next)

(* The gate keeps the lists out while registrations change one by one. *)
GateInv == op.pc \in {"swap", "commit"} => Listing = {} /\ op.before # None

IInv ==
    /\ TypeOK
    /\ RegisteredInv
    /\ CallInv
    /\ ApplyInv
    /\ GateInv

-----------------------------------------------------------------------------
(* Definitions and their types *)

LEMMA NextCases ==
    ASSUME [Next]_vars
    PROVE  \/ RefreshBegin \/ FetchReturns \/ Accept \/ Bind
           \/ \E c \in Contracts : Install(c)
           \/ \E n \in Names : Rebind(n)
           \/ \E n \in Names : Add(n)
           \/ RebindDone \/ GateLock \/ Remove \/ Commit
           \/ Notify
           \/ \E k \in Clients : ListBegin(k)
           \/ \E k \in Clients : ListEnd(k)
           \/ \E x \in Calls : \E n \in Names : CallLookup(x, n)
           \/ \E x \in Calls : CallLoad(x)
           \/ \E x \in Calls : CallReturn(x)
           \/ \E c \in Contracts \cup {None} : Deploy(c)
           \/ UNCHANGED vars
  BY DEF Next, Runtime, Listen, Request

LEMMA DesiredType ==
    ASSUME NEW c \in Contracts, NEW n \in Names
    PROVE  Desired(c)[n] \in Tool \cup {None} /\ (Desired(c)[n] # None => Desired(c)[n].def \in Defs)
  <1>1. Offered[c][n] \in Tool \cup {None} BY ContractAssumption
  <1>2. Desired(c)[n] \in Tool \cup {None} BY <1>1 DEF Desired
  <1> QED BY <1>2 DEF Tool

LEMMA ListedType == ASSUME TypeOK PROVE Listed \in List /\ Listed # None
  <1>1. \A n \in Names : registered[n] # None => registered[n].def \in Defs BY DEF TypeOK, Registration
  <1>2. Listed \in List BY <1>1 DEF Listed, List
  <1> QED BY <1>2, ContractAssumption DEF List

(* The classes of a replacement cover the names. *)
LEMMA Classes ==
    ASSUME NEW c, NEW n \in Names
    PROVE  /\ n \in Added(c) \cup Changed(c) <=> Desired(c)[n] # None /\ n \notin Unchanged(c)
           /\ n \in Removed(c) <=> registered[n] # None /\ Desired(c)[n] = None
           /\ n \in Unchanged(c) <=> /\ registered[n] # None /\ Desired(c)[n] # None
                                     /\ LiveTool(n) = slot[registered[n].slot]
                                     /\ LiveTool(n).def = Desired(c)[n].def
  BY DEF Added, Changed, Removed, Unchanged, LiveTool

(* Collecting garbage touches no slot in use. *)
LEMMA CollectKeeps ==
    ASSUME NEW slots \in [Slots -> Tool \cup {None}], NEW reg, NEW calls
    PROVE  /\ Collect(slots, reg, calls) \in [Slots -> Tool \cup {None}]
           /\ \A n \in Names : reg[n] # None /\ reg[n].slot \in Slots =>
                Collect(slots, reg, calls)[reg[n].slot] = slots[reg[n].slot]
           /\ \A x \in Calls : calls[x].slot \in Slots =>
                Collect(slots, reg, calls)[calls[x].slot] = slots[calls[x].slot]
  <1>1. \A n \in Names : reg[n] # None => reg[n].slot \in Referenced(reg, calls) BY DEF Referenced
  <1>2. \A x \in Calls : calls[x].slot \in Referenced(reg, calls) BY DEF Referenced
  <1> QED BY <1>1, <1>2 DEF Collect

(* A set is at least as large as its image by a function. *)
LEMMA ImageCardinality ==
    ASSUME NEW S, IsFiniteSet(S), NEW g, DOMAIN g = S, g = [e \in S |-> g[e]]
    PROVE  /\ IsFiniteSet({g[e] : e \in S})
           /\ Cardinality({g[e] : e \in S}) <= Cardinality(S)
           /\ Cardinality({g[e] : e \in S}) \in Nat /\ Cardinality(S) \in Nat
  <1> DEFINE T == {g[e] : e \in S}
  <1>1. g \in [S -> T] OBVIOUS
  <1>2. \A t \in T : \E e \in S : g[e] = t OBVIOUS
  <1>3. g \in Surjection(S, T) BY <1>1, <1>2 DEF Surjection
  <1>4. IsFiniteSet(T) /\ Cardinality(T) <= Cardinality(S) BY <1>3, FS_Surjection
  <1> QED BY <1>4, FS_CardinalityType

(* There is always a slot that nobody refers to: the name's registration and *)
(* the calls use up one copy each.                                           *)
LEMMA NewSlotIsNew ==
    ASSUME RegisteredInv, NEW n \in Names
    PROVE  /\ NewSlot(n) \in Slots /\ NewSlot(n)[1] = n
           /\ NewSlot(n) \notin Referenced(registered, call)
  <1>1. \E s \in {n} \X Copies : s \notin Referenced(registered, call)
    <2> SUFFICES ASSUME \A s \in {n} \X Copies : s \in Referenced(registered, call) PROVE FALSE OBVIOUS
    <2> DEFINE g == [x \in Calls |-> call[x].slot[2]]
               mine == registered[n].slot[2]
               image == {g[x] : x \in Calls}
    <2>1. ASSUME NEW i \in Copies PROVE i \in image \cup {mine}
      <3>1. <<n, i>> \in Referenced(registered, call) OBVIOUS
      <3>2. CASE \E x \in Calls : call[x].slot = <<n, i>> BY <3>2
      <3>3. ASSUME NEW m \in Names, registered[m] # None, registered[m].slot = <<n, i>>
            PROVE  i = mine
        <4>1. m = n BY <3>3 DEF RegisteredInv
        <4> QED BY <3>3, <4>1
      <3> QED BY <3>1, <3>2, <3>3 DEF Referenced
    <2>2. DOMAIN g = Calls /\ g = [x \in Calls |-> g[x]] OBVIOUS
    <2> HIDE DEF g, mine
    <2>3. IsFiniteSet(image) /\ Cardinality(image) <= Cardinality(Calls)
          /\ Cardinality(image) \in Nat /\ Cardinality(Calls) \in Nat
      BY <2>2, CopiesAssumption, ImageCardinality
    <2> HIDE DEF image
    <2>6. IsFiniteSet(image \cup {mine})
          /\ Cardinality(image \cup {mine}) = IF mine \in image THEN Cardinality(image) ELSE Cardinality(image) + 1
      BY <2>3, FS_AddElement
    <2>4. IsFiniteSet(image \cup {mine}) /\ Cardinality(image \cup {mine}) <= Cardinality(image) + 1
      BY <2>3, <2>6
    <2>5. Cardinality(Copies) <= Cardinality(image \cup {mine}) /\ Cardinality(Copies) \in Nat
          /\ Cardinality(image \cup {mine}) \in Nat
      BY <2>1, <2>4, CopiesAssumption, FS_Subset, FS_CardinalityType
    <2> QED BY <2>3, <2>4, <2>5, CopiesAssumption
  <1>2. NewSlot(n) \in {n} \X Copies /\ NewSlot(n) \notin Referenced(registered, call)
    BY <1>1 DEF NewSlot
  <1> QED BY <1>2 DEF Slots

-----------------------------------------------------------------------------
(* Type correctness *)

Ops == [pc : {"free", "fetching", "answered", "rebind", "gate", "swap", "commit"},
        next : Contracts \cup {None}, todo : SUBSET Names, before : List \cup {None}]
CallStates == [pc : {"idle", "validated", "running"}, def : Defs \cup {None},
               slot : Slots \cup {None}, tool : Tool \cup {None}]
ClientStates == [pc : {"idle", "listing"}, seen : List \cup {None}]

(* The record of a replacement that begins. *)
Begun(c) == [Free EXCEPT !.pc = "rebind", !.next = c, !.todo = Unchanged(c)]

LEMMA BegunFields ==
    ASSUME NEW c \in Good
    PROVE  Begun(c) \in Ops /\ Begun(c).pc = "rebind" /\ Begun(c).next = c /\ Begun(c).todo = Unchanged(c)
  <1>1. c \in Contracts /\ Unchanged(c) \subseteq Names BY ContractAssumption DEF Unchanged
  <1> HIDE DEF Unchanged
  <1> QED BY <1>1 DEF Begun, Free, Ops

LEMMA FreeFields == Free \in Ops /\ Free.pc = "free" BY DEF Free, Ops

LEMMA TypeStep == IInv /\ [Next]_vars => TypeOK'
  <1> SUFFICES ASSUME IInv, [Next]_vars PROVE TypeOK' OBVIOUS
  <1>t. /\ TypeOK /\ op \in Ops /\ call \in [Calls -> CallStates] /\ client \in [Clients -> ClientStates]
        /\ registered \in [Names -> Registration \cup {None}] /\ slot \in [Slots -> Tool \cup {None}]
    BY DEF IInv, TypeOK, Ops, CallStates, ClientStates
  <1>g. Good \subseteq Contracts BY ContractAssumption
  <1>a. ASSUME NEW c \in Good, NEW b, Apply(c, b)
        PROVE  /\ op' \in Ops /\ current' \in Contracts \cup {None}
               /\ op'.pc \in Applying => op'.next \in Good
    <2>1. CASE b
      <3>1. op' = Begun(c) /\ current' = current BY <1>a, <2>1 DEF Apply, Begun
      <3> QED BY <1>t, <3>1, BegunFields DEF TypeOK
    <2>2. CASE ~b
      <3>1. op' = Free /\ current' = c BY <1>a, <2>2 DEF Apply
      <3> QED BY <1>g, <3>1, FreeFields DEF Applying
    <2> QED BY <2>1, <2>2
  <1>1. CASE RefreshBegin
    <2>1. [Free EXCEPT !.pc = "fetching"] \in Ops /\ [Free EXCEPT !.pc = "fetching"].pc = "fetching"
      BY DEF Free, Ops
    <2> QED BY <1>1, <1>t, <2>1 DEF RefreshBegin, serverVars, clientVars, TypeOK, Ops
  <1>2. CASE FetchReturns
    <2>1. served # None =>
            [op EXCEPT !.pc = "answered", !.next = served] \in Ops
            /\ [op EXCEPT !.pc = "answered", !.next = served].pc = "answered"
      BY <1>t DEF Ops, TypeOK
    <2>2. op' \in Ops /\ op'.pc \in {"free", "answered"} BY <1>2, <2>1, FreeFields DEF FetchReturns
    <2> QED BY <1>2, <1>t, <2>2 DEF FetchReturns, serverVars, clientVars, TypeOK, Ops
  <1>3. CASE Accept
    <2>1. op' \in Ops /\ current' \in Contracts \cup {None} /\ (op'.pc \in Applying => op'.next \in Good)
      BY <1>3, <1>a, <1>t, FreeFields DEF Accept, Applying, TypeOK
    <2>2. contract' \in Contracts \cup {None, NoLoader} BY <1>3, <1>t, <1>g DEF Accept, TypeOK
    <2> QED BY <1>3, <1>t, <2>1, <2>2 DEF Accept, serverVars, clientVars, TypeOK, Ops, Applying
  <1>4. CASE Bind
    <2>1. current \in Good \cup {None} BY DEF IInv, ApplyInv
    <2>2. op' \in Ops /\ current' \in Contracts \cup {None} /\ (op'.pc \in Applying => op'.next \in Good)
      BY <1>4, <1>a, <1>t, <2>1 DEF Bind, Applying, TypeOK
    <2> QED BY <1>4, <1>t, <2>2 DEF Bind, serverVars, clientVars, TypeOK, Ops, Applying
  <1>5. ASSUME NEW c \in Contracts, Install(c) PROVE TypeOK'
    <2>1. op' \in Ops /\ current' \in Contracts \cup {None} /\ (op'.pc \in Applying => op'.next \in Good)
      BY <1>5, <1>a DEF Install
    <2> QED BY <1>5, <1>t, <2>1 DEF Install, serverVars, clientVars, TypeOK, Ops, Applying
  <1>6. ASSUME NEW n \in Names, Rebind(n) PROVE TypeOK'
    <2>1. op.pc = "rebind" /\ op' = [op EXCEPT !.todo = @ \ {n}] /\ op.todo \subseteq Names
      BY <1>6, <1>t DEF Rebind, Ops
    <2>2. op.next \in Good /\ op.next \in Contracts BY <1>g, <1>t, <2>1 DEF TypeOK
    <2>3. op' \in Ops /\ op'.next = op.next BY <1>t, <2>1 DEF Ops
    <2>4. slot' \in [Slots -> Tool \cup {None}]
      <3>1. Desired(op.next)[n] \in Tool \cup {None} BY <2>2, DesiredType
      <3> QED BY <1>6, <1>t, <3>1 DEF Rebind
    <2> QED BY <1>6, <1>t, <2>2, <2>3, <2>4 DEF Rebind, clientVars, TypeOK, Ops
  <1>7. ASSUME NEW n \in Names, Add(n) PROVE TypeOK'
    <2> DEFINE tool == Desired(op.next)[n]
    <2>1. op.pc = "swap" /\ n \in op.todo /\ op' = [op EXCEPT !.todo = @ \ {n}] BY <1>7 DEF Add
    <2>2. op.next \in Good /\ op.next \in Contracts BY <1>g, <1>t, <2>1 DEF TypeOK
    <2>3. op' \in Ops /\ op'.next = op.next BY <1>t, <2>1 DEF Ops
    <2>4. tool \in Tool /\ tool.def \in Defs BY <2>1, <2>2, DesiredType DEF IInv, ApplyInv
    <2>5. NewSlot(n) \in Slots BY NewSlotIsNew DEF IInv
    <2>6. registered' \in [Names -> Registration \cup {None}] /\ slot' \in [Slots -> Tool \cup {None}]
          /\ dirty' \in BOOLEAN
      <3>1. CASE UNCHANGED <<serverVars, dirty>> BY <1>t, <3>1 DEF serverVars, TypeOK
      <3>2. CASE ~UNCHANGED <<serverVars, dirty>>
        <4>1. /\ registered' = [registered EXCEPT ![n] = [def |-> tool.def, slot |-> NewSlot(n)]]
              /\ slot' = Collect([slot EXCEPT ![NewSlot(n)] = tool], registered', call) /\ dirty' = TRUE
          BY <1>7, <3>2 DEF Add
        <4>2. [def |-> tool.def, slot |-> NewSlot(n)] \in Registration BY <2>4, <2>5 DEF Registration
        <4>3. [slot EXCEPT ![NewSlot(n)] = tool] \in [Slots -> Tool \cup {None}] BY <1>t, <2>4
        <4> QED BY <1>t, <4>1, <4>2, <4>3, CollectKeeps
      <3> QED BY <3>1, <3>2
    <2> QED BY <1>7, <1>t, <2>2, <2>3, <2>6 DEF Add, TypeOK, Ops
  <1>8. CASE RebindDone
    <2>1. op.next \in Contracts /\ op.next \in Good BY <1>8, <1>g, <1>t DEF RebindDone, TypeOK
    <2>2. [op EXCEPT !.pc = "gate"] \in Ops /\ [op EXCEPT !.pc = "gate"].next = op.next BY <1>t DEF Ops
    <2>3. op' \in Ops /\ (op'.pc \in Applying => op'.next \in Good)
          /\ current' \in Contracts \cup {None}
      BY <1>8, <1>t, <2>1, <2>2, FreeFields DEF RebindDone, Applying, TypeOK
    <2> QED BY <1>8, <1>t, <2>3 DEF RebindDone, serverVars, clientVars, TypeOK, Ops, Applying
  <1>9. CASE GateLock
    <2>1. Listed \in List BY <1>t, ListedType
    <2>2. Added(op.next) \cup Changed(op.next) \in SUBSET Names BY DEF Added, Changed
    <2>3. op.next \in Good BY <1>9, <1>t DEF GateLock, TypeOK
    <2> DEFINE r == [op EXCEPT !.pc = "swap", !.todo = Added(op.next) \cup Changed(op.next), !.before = Listed]
    <2>4. r \in Ops /\ r.next = op.next BY <1>t, <2>1, <2>2 DEF Ops
    <2>5. op' = r BY <1>9 DEF GateLock
    <2> HIDE DEF r
    <2> QED BY <1>9, <1>t, <2>3, <2>4, <2>5 DEF GateLock, serverVars, clientVars, TypeOK, Ops
  <1>10. CASE Remove
    <2>1. op' = [op EXCEPT !.pc = "commit"] /\ op.pc = "swap" BY <1>10 DEF Remove
    <2>2. op' \in Ops /\ op'.next = op.next BY <1>t, <2>1 DEF Ops
    <2>3. op.next \in Good BY <1>t, <2>1 DEF TypeOK
    <2>4. registered' \in [Names -> Registration \cup {None}] BY <1>10, <1>t DEF Remove
    <2>5. slot' \in [Slots -> Tool \cup {None}] BY <1>10, <1>t, CollectKeeps DEF Remove
    <2>6. dirty' \in BOOLEAN BY <1>10 DEF Remove
    <2> QED BY <1>10, <1>t, <2>2, <2>3, <2>4, <2>5, <2>6 DEF Remove, TypeOK, Ops
  <1>11. CASE Commit
    BY <1>11, <1>t, FreeFields DEF Commit, serverVars, clientVars, TypeOK, Ops
  <1>12. CASE Notify BY <1>12, <1>t DEF Notify, serverVars, TypeOK
  <1>13. ASSUME NEW k \in Clients, ListBegin(k) PROVE TypeOK'
    <2>1. client' \in [Clients -> ClientStates] BY <1>13, <1>t DEF ListBegin, ClientStates
    <2> QED BY <1>13, <1>t, <2>1 DEF ListBegin, serverVars, TypeOK, ClientStates
  <1>14. ASSUME NEW k \in Clients, ListEnd(k) PROVE TypeOK'
    <2>1. [pc |-> "idle", seen |-> Listed] \in ClientStates BY <1>t, ListedType DEF ClientStates
    <2>2. client' \in [Clients -> ClientStates] BY <1>14, <1>t, <2>1 DEF ListEnd
    <2> QED BY <1>14, <1>t, <2>2 DEF ListEnd, serverVars, TypeOK, ClientStates
  <1>15. ASSUME NEW x \in Calls, NEW n \in Names, CallLookup(x, n) PROVE TypeOK'
    <2> DEFINE r == [pc |-> "validated", def |-> registered[n].def, slot |-> registered[n].slot, tool |-> None]
    <2>1. registered[n] \in Registration BY <1>15, <1>t DEF CallLookup
    <2>2. r \in CallStates BY <2>1 DEF CallStates, Registration
    <2>3. call' = [call EXCEPT ![x] = r] BY <1>15 DEF CallLookup
    <2> HIDE DEF r
    <2>4. call' \in [Calls -> CallStates] BY <1>t, <2>2, <2>3
    <2> QED BY <1>15, <1>t, <2>4 DEF CallLookup, serverVars, clientVars, TypeOK, CallStates
  <1>16. ASSUME NEW x \in Calls, CallLoad(x) PROVE TypeOK'
    <2> DEFINE r == [call[x] EXCEPT !.pc = "running", !.slot = None, !.tool = slot[call[x].slot]]
    <2>1. call[x].slot \in Slots BY <1>16 DEF CallLoad, IInv, CallInv, Backed
    <2>2. r \in CallStates BY <1>t, <2>1 DEF CallStates
    <2>3. call' = [call EXCEPT ![x] = r] BY <1>16 DEF CallLoad
    <2> HIDE DEF r
    <2>4. call' \in [Calls -> CallStates] BY <1>t, <2>2, <2>3
    <2>5. slot' \in [Slots -> Tool \cup {None}] BY <1>16, <1>t, CollectKeeps DEF CallLoad
    <2> QED BY <1>16, <1>t, <2>4, <2>5 DEF CallLoad, clientVars, TypeOK, CallStates
  <1>17. ASSUME NEW x \in Calls, CallReturn(x) PROVE TypeOK'
    <2>1. IdleCall \in CallStates BY DEF IdleCall, CallStates
    <2>2. call' \in [Calls -> CallStates] BY <1>17, <1>t, <2>1 DEF CallReturn
    <2> QED BY <1>17, <1>t, <2>2 DEF CallReturn, serverVars, clientVars, TypeOK, CallStates
  <1>18. ASSUME NEW c \in Contracts \cup {None}, Deploy(c) PROVE TypeOK'
    BY <1>18, <1>t DEF Deploy, serverVars, clientVars, TypeOK
  <1>19. CASE UNCHANGED vars BY <1>19, <1>t DEF vars, serverVars, clientVars, TypeOK
  <1> QED BY <1>1, <1>2, <1>3, <1>4, <1>5, <1>6, <1>7, <1>8, <1>9, <1>10, <1>11, <1>12, <1>13,
             <1>14, <1>15, <1>16, <1>17, <1>18, <1>19, NextCases

-----------------------------------------------------------------------------
(* Slots *)

(* The steps that leave registrations, slots and calls alone. *)
LEMMA ServerCases ==
    ASSUME [Next]_vars
    PROVE  \/ UNCHANGED <<registered, slot, call>>
           \/ \E n \in Names : Rebind(n)
           \/ \E n \in Names : Add(n)
           \/ Remove
           \/ \E x \in Calls : \E n \in Names : CallLookup(x, n)
           \/ \E x \in Calls : CallLoad(x)
           \/ \E x \in Calls : CallReturn(x)
  BY NextCases DEF RefreshBegin, FetchReturns, Accept, Bind, Install, RebindDone, GateLock, Commit, Notify,
      ListBegin, ListEnd, Deploy, vars, serverVars

(* What Rebind and Add put into a slot. *)
LEMMA RebindEffect ==
    ASSUME IInv, NEW n \in Names, Rebind(n)
    PROVE  /\ registered[n] # None /\ registered[n].slot \in Slots /\ registered[n].slot[1] = n
           /\ op.next \in Contracts /\ Desired(op.next)[n] \in Tool
           /\ Desired(op.next)[n].def = slot[registered[n].slot].def
           /\ slot' = [slot EXCEPT ![registered[n].slot] = Desired(op.next)[n]]
           /\ registered' = registered /\ call' = call
  <1>1. op.pc = "rebind" /\ n \in op.todo /\ TypeOK BY DEF Rebind, IInv
  <1>2. n \in Unchanged(op.next) /\ op.next \in Contracts
    BY <1>1, ContractAssumption DEF IInv, ApplyInv, TypeOK
  <1>3. registered[n] # None /\ Desired(op.next)[n] \in Tool /\ Desired(op.next)[n].def = slot[registered[n].slot].def
    BY <1>2, Classes, DesiredType
  <1>4. registered[n].slot \in Slots /\ registered[n].slot[1] = n BY <1>3 DEF IInv, RegisteredInv, Backed
  <1> QED BY <1>2, <1>3, <1>4 DEF Rebind

(* A registration that Add makes. *)
Registers(n, s) ==
    /\ s \in Slots /\ s[1] = n /\ s \notin Referenced(registered, call)
    /\ Desired(op.next)[n] \in Tool
    /\ registered' = [registered EXCEPT ![n] = [def |-> Desired(op.next)[n].def, slot |-> s]]
    /\ slot' = Collect([slot EXCEPT ![s] = Desired(op.next)[n]], registered', call)

LEMMA AddEffect ==
    ASSUME IInv, NEW n \in Names, Add(n)
    PROVE  /\ op.pc = "swap" /\ n \in op.todo /\ call' = call
           /\ \/ Desired(op.next)[n] # None /\ Desired(op.next)[n].def \in Unregistrable
                 /\ UNCHANGED <<registered, slot>>
              \/ Registers(n, NewSlot(n))
  <1>1. op.pc = "swap" /\ n \in op.todo /\ call' = call /\ TypeOK BY DEF Add, IInv
  <1>2. op.next \in Contracts BY <1>1, ContractAssumption DEF TypeOK
  <1>3. Desired(op.next)[n] \in Tool BY <1>1, <1>2, DesiredType DEF IInv, ApplyInv
  <1>4. NewSlot(n) \in Slots /\ NewSlot(n)[1] = n /\ NewSlot(n) \notin Referenced(registered, call)
    BY NewSlotIsNew DEF IInv
  <1>5. Desired(op.next)[n] # None BY <1>3, ContractAssumption
  <1> QED BY <1>1, <1>3, <1>4, <1>5 DEF Add, Registers, serverVars

(* The new registration has its tool; every other one, and every call, keeps *)
(* the slot and the tool it had.                                             *)
LEMMA RegistersEffect ==
    ASSUME TypeOK, RegisteredInv, CallInv, NEW n \in Names, NEW s, Registers(n, s)
    PROVE  /\ registered'[n].def = Desired(op.next)[n].def /\ registered'[n].slot = s
           /\ registered'[n] # None
           /\ slot'[s] = Desired(op.next)[n]
           /\ \A m \in Names : m # n =>
                /\ registered'[m] = registered[m]
                /\ registered[m] # None => slot'[registered[m].slot] = slot[registered[m].slot]
           /\ \A x \in Calls : call[x].pc = "validated" => slot'[call[x].slot] = slot[call[x].slot]
  <1> DEFINE tool == Desired(op.next)[n]
             new == [slot EXCEPT ![s] = tool]
  <1>1. slot \in [Slots -> Tool \cup {None}] /\ registered \in [Names -> Registration \cup {None}] BY DEF TypeOK
  <1>2. tool \in Tool /\ s \in Slots /\ tool.def \in Defs BY DEF Registers, Tool
  <1>3. new \in [Slots -> Tool \cup {None}] BY <1>1, <1>2
  <1>4. /\ registered'[n].def = tool.def /\ registered'[n].slot = s /\ registered'[n] # None
        /\ \A m \in Names : m # n => registered'[m] = registered[m]
    BY <1>1, <1>2, ContractAssumption DEF Registers
  <1>5. slot' = Collect(new, registered', call) BY DEF Registers
  <1>6. new[s] = tool BY <1>1, <1>2
  <1>7. \A r \in Referenced(registered, call) : new[r] = slot[r] BY <1>1 DEF Registers
  <1> HIDE DEF new, tool
  <1>8. slot'[s] = tool BY <1>2, <1>3, <1>4, <1>5, <1>6, CollectKeeps
  <1>9. ASSUME NEW m \in Names, m # n, registered[m] # None
        PROVE  slot'[registered[m].slot] = slot[registered[m].slot]
    <2>1. registered[m].slot \in Slots BY <1>9 DEF RegisteredInv, Backed
    <2>2. registered[m].slot \in Referenced(registered, call) BY <1>9 DEF Referenced
    <2> QED BY <1>3, <1>4, <1>5, <1>7, <1>9, <2>1, <2>2, CollectKeeps
  <1>10. ASSUME NEW x \in Calls, call[x].pc = "validated" PROVE slot'[call[x].slot] = slot[call[x].slot]
    <2>1. call[x].slot \in Slots BY <1>10 DEF CallInv, Backed
    <2>2. call[x].slot \in Referenced(registered, call) BY DEF Referenced
    <2> QED BY <1>3, <1>5, <1>7, <2>1, <2>2, CollectKeeps
  <1> QED BY <1>4, <1>8, <1>9, <1>10 DEF tool

LEMMA SlotStep ==
    ASSUME IInv, [Next]_vars PROVE RegisteredInv' /\ CallInv'
  <1>t. /\ TypeOK /\ RegisteredInv /\ CallInv
        /\ registered \in [Names -> Registration \cup {None}] /\ slot \in [Slots -> Tool \cup {None}]
        /\ call \in [Calls -> CallStates]
    BY DEF IInv, TypeOK, CallStates
  <1>0. CASE UNCHANGED <<registered, slot, call>> BY <1>0, <1>t DEF RegisteredInv, CallInv, Backed
  <1>1. ASSUME NEW n \in Names, Rebind(n) PROVE RegisteredInv' /\ CallInv'
    <2>1. \A r, d : Backed(r, d) => Backed(r, d)' BY <1>1, <1>t, RebindEffect DEF Backed
    <2>2. registered' = registered /\ call' = call BY <1>1, RebindEffect
    <2>3. RegisteredInv' BY <1>t, <2>1, <2>2 DEF RegisteredInv, Backed
    <2>4. CallInv' BY <1>t, <2>1, <2>2 DEF CallInv, Backed
    <2> QED BY <2>3, <2>4
  <1>2. ASSUME NEW n \in Names, Add(n) PROVE RegisteredInv' /\ CallInv'
    <2>1. CASE UNCHANGED <<registered, slot>> BY <1>0, <1>2, <2>1, AddEffect
    <2>2. CASE Registers(n, NewSlot(n))
      <3> DEFINE s == NewSlot(n)
      <3>0. Registers(n, s) BY <2>2
      <3>1. s \in Slots /\ s[1] = n /\ Desired(op.next)[n] \in Tool BY <3>0 DEF Registers
      <3> HIDE DEF s
      <3>2. /\ registered'[n].slot = s /\ registered'[n].def = Desired(op.next)[n].def
            /\ slot'[s] = Desired(op.next)[n]
            /\ \A m \in Names : m # n =>
                 /\ registered'[m] = registered[m]
                 /\ registered[m] # None => slot'[registered[m].slot] = slot[registered[m].slot]
            /\ \A x \in Calls : call[x].pc = "validated" => slot'[call[x].slot] = slot[call[x].slot]
        BY <1>t, <3>0, RegistersEffect
      <3>3. call' = call BY <1>2, AddEffect
      <3>4. RegisteredInv' BY <1>t, <3>1, <3>2 DEF RegisteredInv, Backed
      <3>5. CallInv' BY <1>t, <3>2, <3>3 DEF CallInv, Backed
      <3> QED BY <3>4, <3>5
    <2> QED BY <1>2, <2>1, <2>2, AddEffect
  <1>3. CASE Remove
    <2>1. slot' = Collect(slot, registered', call) /\ call' = call BY <1>3 DEF Remove
    <2>2. \A n \in Names : registered'[n] # None => registered'[n] = registered[n] BY <1>3 DEF Remove
    <2>3. \A n \in Names : registered'[n] # None => slot'[registered'[n].slot] = slot[registered[n].slot]
      BY <1>t, <2>1, <2>2, CollectKeeps DEF RegisteredInv, Backed
    <2>4. \A x \in Calls : call[x].pc = "validated" => slot'[call[x].slot] = slot[call[x].slot]
      BY <1>t, <2>1, CollectKeeps DEF CallInv, Backed
    <2>5. RegisteredInv' BY <1>t, <2>2, <2>3 DEF RegisteredInv, Backed
    <2>6. CallInv' BY <1>t, <2>1, <2>4 DEF CallInv, Backed
    <2> QED BY <2>5, <2>6
  <1>4. ASSUME NEW x \in Calls, NEW n \in Names, CallLookup(x, n) PROVE RegisteredInv' /\ CallInv'
    <2>1. registered' = registered /\ slot' = slot /\ registered[n] # None BY <1>4 DEF CallLookup, serverVars
    <2>2. /\ call'[x].pc = "validated" /\ call'[x].def = registered[n].def /\ call'[x].slot = registered[n].slot
          /\ \A y \in Calls : y # x => call'[y] = call[y]
      BY <1>4, <1>t DEF CallLookup
    <2>3. Backed(registered[n].slot, registered[n].def) BY <1>t, <2>1 DEF RegisteredInv
    <2> QED BY <1>t, <2>1, <2>2, <2>3 DEF RegisteredInv, CallInv, Backed
  <1>5. ASSUME NEW x \in Calls, CallLoad(x) PROVE RegisteredInv' /\ CallInv'
    <2>1. slot' = Collect(slot, registered, call') /\ registered' = registered BY <1>5 DEF CallLoad
    <2>2. /\ call'[x].pc = "running" /\ call'[x].tool = slot[call[x].slot] /\ call'[x].def = call[x].def
          /\ \A y \in Calls : y # x => call'[y] = call[y]
      BY <1>5, <1>t DEF CallLoad, CallStates
    <2>3. Backed(call[x].slot, call[x].def) BY <1>5, <1>t DEF CallLoad, CallInv
    <2>4. \A n \in Names : registered[n] # None => slot'[registered[n].slot] = slot[registered[n].slot]
      BY <1>t, <2>1, CollectKeeps DEF RegisteredInv, Backed
    <2>5. \A y \in Calls : y # x /\ call[y].pc = "validated" => slot'[call[y].slot] = slot[call[y].slot]
      BY <1>t, <2>1, <2>2, CollectKeeps DEF CallInv, Backed
    <2>6. RegisteredInv' BY <1>t, <2>1, <2>4 DEF RegisteredInv, Backed
    <2>7. CallInv' BY <1>t, <2>2, <2>3, <2>5 DEF CallInv, Backed
    <2> QED BY <2>6, <2>7
  <1>6. ASSUME NEW x \in Calls, CallReturn(x) PROVE RegisteredInv' /\ CallInv'
    <2>1. registered' = registered /\ slot' = slot BY <1>6 DEF CallReturn, serverVars
    <2>2. call'[x].pc = "idle" /\ \A y \in Calls : y # x => call'[y] = call[y]
      BY <1>6, <1>t DEF CallReturn, IdleCall
    <2> QED BY <1>t, <2>1, <2>2 DEF RegisteredInv, CallInv, Backed
  <1> QED BY <1>0, <1>1, <1>2, <1>3, <1>4, <1>5, <1>6, ServerCases

-----------------------------------------------------------------------------
(* The progress of a replacement *)

(* A step that name n does not notice. *)
Same(n) == (registered'[n] = None <=> registered[n] = None) /\ LiveTool(n)' = LiveTool(n)

LEMMA SameTool ==
    ASSUME NEW n \in Names, registered'[n] = registered[n],
           registered[n] # None => slot'[registered[n].slot] = slot[registered[n].slot]
    PROVE  Same(n)
  BY DEF Same, LiveTool

LEMMA ApplyFrame ==
    ASSUME ApplyInv, \A n \in Names : Same(n), UNCHANGED <<op, contract, current, bound>>
    PROVE  ApplyInv'
  BY DEF ApplyInv, Same, Unchanged, Matches, HasLoader

(* Apply, without a server or with one. *)
LEMMA ApplyBegins ==
    ASSUME NEW c \in Good, NEW b, Apply(c, b), \A n \in Names : Same(n),
           current \in Good \cup {None}, bound' = b, HasLoader' => contract' = c
    PROVE  ApplyInv'
  <1>n. None \notin Good BY ContractAssumption
  <1>1. CASE b
    <2>1. op' = Begun(c) /\ current' = current BY <1>1 DEF Apply, Begun
    <2>2. op'.pc = "rebind" /\ op'.next = c /\ op'.todo = Unchanged(c) BY <2>1, BegunFields
    <2>3. \A n \in Names : n \in Unchanged(c) => n \in Unchanged(op.next)' BY <2>2 DEF Unchanged, Same
    <2>4. Unchanged(c) \subseteq Names BY DEF Unchanged
    <2>5. \A n \in Unchanged(op.next)' : n \in Unchanged(c) BY <2>2 DEF Unchanged, Same
    <2> HIDE DEF Unchanged
    <2> QED BY <2>1, <2>2, <2>3, <2>4, <2>5 DEF ApplyInv, Resting, Applying
  <1>2. CASE ~b
    <2>1. op' = Free /\ current' = c BY <1>2 DEF Apply
    <2>2. op'.pc = "free" BY <2>1, FreeFields
    <2> QED BY <1>2, <2>1, <2>2 DEF ApplyInv, Resting, Applying
  <1> QED BY <1>1, <1>2

(* With no difference left, every name offers what the contract asks for. *)
LEMMA NoDifference ==
    ASSUME NEW c, ~ToolSetChanged(c), \A n \in Unchanged(c) : LiveTool(n) = Desired(c)[n], NEW n \in Names
    PROVE  Matches(n, c)
  <1>1. n \notin Added(c) \cup Changed(c) /\ n \notin Removed(c) BY DEF ToolSetChanged
  <1>2. CASE n \in Unchanged(c) BY <1>2 DEF Matches
  <1>3. CASE n \notin Unchanged(c)
    <2>1. Desired(c)[n] = None /\ registered[n] = None BY <1>1, <1>3, Classes
    <2> QED BY <2>1 DEF Matches, LiveTool
  <1> QED BY <1>2, <1>3

LEMMA ApplyStep ==
    ASSUME IInv, [Next]_vars PROVE ApplyInv'
  <1>t. /\ TypeOK /\ RegisteredInv /\ CallInv /\ ApplyInv /\ op \in Ops
        /\ registered \in [Names -> Registration \cup {None}] /\ slot \in [Slots -> Tool \cup {None}]
        /\ op.pc \in Applying => op.next \in Good
    BY DEF IInv, TypeOK, Ops, Applying
  <1>g. Good \subseteq Contracts /\ None \notin Good /\ NoLoader \notin Contracts \cup {None}
    BY ContractAssumption
  <1>s. ASSUME UNCHANGED <<registered, slot>> PROVE \A n \in Names : Same(n) BY <1>s, SameTool
  <1>f. ASSUME UNCHANGED <<registered, slot, op, contract, current, bound>> PROVE ApplyInv'
    BY <1>f, <1>s, <1>t, ApplyFrame
  <1>m. ASSUME UNCHANGED <<registered, slot>>, NEW n \in Names, NEW c PROVE Matches(n, c) => Matches(n, c)'
    BY <1>m, <1>s DEF Matches, Same
  (* Idle, or on the way to a document. *)
  <1>r. ASSUME op.pc \in Resting, op'.pc \in Resting, UNCHANGED <<registered, slot, contract, current, bound>>,
               op'.pc = "answered" => op'.next \in Contracts
        PROVE  ApplyInv'
    BY <1>r, <1>t, <1>s, <1>g DEF ApplyInv, Resting, Applying, Matches, Same, HasLoader
  <1>1. CASE RefreshBegin
    <2>1. op'.pc = "fetching" BY <1>1 DEF RefreshBegin, Free
    <2> QED BY <1>1, <1>r, <2>1 DEF RefreshBegin, serverVars, Resting
  <1>2. CASE FetchReturns
    <2> DEFINE r == [op EXCEPT !.pc = "answered", !.next = served]
    <2>2. r.pc = "answered" /\ r.next = served BY <1>t DEF Ops
    <2>3. op' = Free \/ op' = r BY <1>2 DEF FetchReturns
    <2>4. served = None => op' = Free BY <1>2 DEF FetchReturns
    <2> HIDE DEF r
    <2>1. op' = Free \/ (served # None /\ op'.pc = "answered" /\ op'.next = served) BY <2>2, <2>3, <2>4
    <2> QED BY <1>2, <1>r, <1>t, <2>1, FreeFields DEF FetchReturns, serverVars, Resting, TypeOK
  <1>3. CASE Accept
    <2>1. op.pc = "answered" /\ UNCHANGED <<registered, slot, bound>> BY <1>3 DEF Accept, serverVars
    <2>2. CASE op' = Free /\ UNCHANGED <<contract, current>>
      BY <1>r, <2>1, <2>2, FreeFields DEF Resting
    <2>3. CASE op.next \in Good /\ contract' = op.next /\ Apply(op.next, bound)
      <3> DEFINE c == op.next
      <3> HIDE DEF c
      <3>1. c \in Good /\ contract' = c /\ Apply(c, bound) BY <2>3 DEF c
      <3>2. current \in Good \cup {None} BY <1>t DEF ApplyInv
      <3>3. \A n \in Names : Same(n) BY <1>s, <2>1
      <3> QED BY <2>1, <3>1, <3>2, <3>3, ApplyBegins
    <2> QED BY <1>3, <2>2, <2>3 DEF Accept
  <1>4. CASE Bind
    <2>1. op.pc = "free" /\ bound' = TRUE /\ UNCHANGED <<registered, slot, contract>> BY <1>4 DEF Bind, serverVars
    <2>2. CASE current = None
      <3>1. op' = op /\ current' = current BY <1>4, <2>2 DEF Bind
      <3> QED BY <1>t, <2>1, <2>2, <3>1 DEF ApplyInv, Resting, Applying, HasLoader
    <2>3. CASE current # None
      <3>1. Apply(current, TRUE) BY <1>4, <2>3 DEF Bind
      <3>2. current \in Good /\ (HasLoader => contract = current) BY <1>t, <2>1, <2>3 DEF ApplyInv, Resting
      <3>3. \A n \in Names : Same(n) BY <1>s, <2>1
      <3>4. HasLoader' => contract' = current BY <2>1, <3>2 DEF HasLoader
      <3> QED BY <2>1, <3>1, <3>2, <3>3, <3>4, ApplyBegins
    <2> QED BY <2>2, <2>3
  <1>5. ASSUME NEW c \in Contracts, Install(c) PROVE ApplyInv'
    <2>1. ~HasLoader /\ c \in Good /\ Apply(c, bound) /\ UNCHANGED <<registered, slot, contract, bound>>
      BY <1>5 DEF Install, serverVars
    <2>2. \A n \in Names : Same(n) BY <1>s, <2>1
    <2>3. ~HasLoader' BY <2>1 DEF HasLoader
    <2>4. current \in Good \cup {None} BY <1>t DEF ApplyInv
    <2> QED BY <2>1, <2>2, <2>3, <2>4, ApplyBegins
  <1>6. ASSUME NEW n \in Names, Rebind(n) PROVE ApplyInv'
    <2> DEFINE c == op.next
    <2>1. op.pc = "rebind" /\ op' = [op EXCEPT !.todo = @ \ {n}] /\ UNCHANGED <<contract, current, bound>>
      BY <1>6 DEF Rebind
    <2>2. op'.pc = "rebind" /\ op'.next = c /\ op'.todo = op.todo \ {n} BY <1>t, <2>1 DEF Ops
    <2>3. /\ registered[n] # None /\ Desired(c)[n].def = slot[registered[n].slot].def /\ registered' = registered
          /\ slot' = [slot EXCEPT ![registered[n].slot] = Desired(c)[n]] /\ registered[n].slot[1] = n
          /\ registered[n].slot \in Slots
      BY <1>6, RebindEffect
    <2>4. LiveTool(n)' = Desired(c)[n] /\ LiveTool(n).def = Desired(c)[n].def BY <1>t, <2>3 DEF LiveTool
    <2>5. ASSUME NEW m \in Names, m # n PROVE Same(m)
      <3>1. registered[m] # None => registered[m].slot # registered[n].slot BY <1>t, <2>3, <2>5 DEF RegisteredInv
      <3>2. registered[m] # None => registered[m].slot \in Slots BY <1>t DEF RegisteredInv, Backed
      <3> QED BY <1>t, <2>3, <3>1, <3>2, SameTool
    <2>6. \A m \in Names : m \in Unchanged(op.next)' <=> m \in Unchanged(c)
      BY <2>2, <2>3, <2>4, <2>5 DEF Unchanged, Same
    <2>7. Unchanged(c) \subseteq Names /\ Unchanged(op.next)' \subseteq Names BY DEF Unchanged
    <2>8. \A m \in Unchanged(op.next)' \ op'.todo : LiveTool(m)' = Desired(c)[m]
      BY <1>t, <2>1, <2>2, <2>4, <2>5, <2>6, <2>7 DEF ApplyInv, Same
    <2>9. op'.todo \subseteq Unchanged(op.next)' BY <1>t, <2>1, <2>2, <2>6, <2>7 DEF ApplyInv
    <2>10. HasLoader' => contract' = op'.next BY <1>t, <2>1, <2>2 DEF ApplyInv, Applying, HasLoader
    <2> QED BY <1>t, <2>1, <2>2, <2>8, <2>9, <2>10 DEF ApplyInv, Resting
  <1>7. ASSUME NEW n \in Names, Add(n) PROVE ApplyInv'
    <2> DEFINE c == op.next
    <2>1. op.pc = "swap" /\ op' = [op EXCEPT !.todo = @ \ {n}] /\ UNCHANGED <<contract, current, bound>>
      BY <1>7 DEF Add
    <2>2. op'.pc = "swap" /\ op'.next = c /\ op'.todo = op.todo \ {n} BY <1>t, <2>1 DEF Ops
    <2>3. HasLoader' => contract' = op'.next BY <1>t, <2>1, <2>2 DEF ApplyInv, Applying, HasLoader
    <2>4. Matches(n, c)' /\ \A m \in Names : m # n => Same(m)
      <3>1. CASE Desired(c)[n] # None /\ Desired(c)[n].def \in Unregistrable /\ UNCHANGED <<registered, slot>>
        BY <1>s, <2>2, <3>1 DEF Matches
      <3>2. CASE Registers(n, NewSlot(n))
        <4> DEFINE s == NewSlot(n)
        <4>1. Registers(n, s) BY <3>2
        <4> HIDE DEF s
        <4>2. /\ registered'[n] # None /\ registered'[n].slot = s /\ slot'[s] = Desired(c)[n]
              /\ \A m \in Names : m # n =>
                   /\ registered'[m] = registered[m]
                   /\ registered[m] # None => slot'[registered[m].slot] = slot[registered[m].slot]
          BY <1>t, <4>1, RegistersEffect
        <4>3. LiveTool(n)' = Desired(c)[n] BY <4>2 DEF LiveTool
        <4> QED BY <2>2, <4>2, <4>3, SameTool DEF Matches
      <3> QED BY <1>7, <3>1, <3>2, AddEffect
    <2>5. \A m \in Names \ op'.todo : Desired(c)[m] # None => Matches(m, op.next)'
      <3> SUFFICES ASSUME NEW m \in Names, m \notin op'.todo, Desired(c)[m] # None PROVE Matches(m, op.next)'
        OBVIOUS
      <3>1. CASE m = n BY <2>2, <2>4, <3>1 DEF Matches
      <3>2. CASE m # n
        <4>1. Matches(m, c) BY <1>t, <2>1, <2>2, <3>2 DEF ApplyInv
        <4> QED BY <2>2, <2>4, <3>2, <4>1 DEF Matches, Same
      <3> QED BY <3>1, <3>2
    <2>6. \A m \in op'.todo : Desired(op'.next)[m] # None BY <1>t, <2>1, <2>2 DEF ApplyInv
    <2> QED BY <1>t, <2>1, <2>2, <2>3, <2>5, <2>6 DEF ApplyInv, Resting
  <1>8. CASE RebindDone
    <2>1. op.pc = "rebind" /\ op.todo = {} /\ UNCHANGED <<registered, slot, contract, bound>>
      BY <1>8 DEF RebindDone, serverVars
    <2>2. op.next \in Good /\ \A n \in Unchanged(op.next) : LiveTool(n) = Desired(op.next)[n]
      BY <1>t, <2>1 DEF ApplyInv, Applying
    <2>3. HasLoader => contract = op.next BY <1>t, <2>1 DEF ApplyInv, Applying
    <2>4. CASE op' = [op EXCEPT !.pc = "gate"] /\ UNCHANGED current
      <3>1. op'.pc = "gate" /\ op'.next = op.next BY <1>t, <2>4 DEF Ops
      <3>2. \A n \in Unchanged(op.next)' : LiveTool(n)' = Desired(op'.next)[n]
        BY <2>1, <2>2, <3>1, <1>s DEF Unchanged, Same
      <3> QED BY <1>t, <2>1, <2>3, <2>4, <3>1, <3>2 DEF ApplyInv, Resting, HasLoader
    <2>5. CASE ~ToolSetChanged(op.next) /\ op' = Free /\ current' = op.next
      <3>1. \A n \in Names : Matches(n, op.next) BY <2>2, <2>5, NoDifference
      <3>2. \A n \in Names : Matches(n, current)' BY <2>1, <2>5, <3>1, <1>s DEF Matches, Same
      <3>3. op'.pc = "free" BY <2>5, FreeFields
      <3> QED BY <2>1, <2>2, <2>3, <2>5, <3>2, <3>3 DEF ApplyInv, Resting, Applying, HasLoader
    <2> QED BY <1>8, <2>4, <2>5 DEF RebindDone
  <1>9. CASE GateLock
    <2> DEFINE todo == Added(op.next) \cup Changed(op.next)
    <2>1. op.pc = "gate" /\ op' = [op EXCEPT !.pc = "swap", !.todo = todo, !.before = Listed]
          /\ UNCHANGED <<registered, slot, contract, current, bound>>
      BY <1>9 DEF GateLock, serverVars
    <2>2. \A n \in todo : n \in Names /\ Desired(op.next)[n] # None BY DEF Added, Changed
    <2>3. \A n \in Names \ todo : Desired(op.next)[n] # None => Matches(n, op.next)
      BY <1>t, <2>1, Classes DEF ApplyInv, Matches
    <2> HIDE DEF todo
    <2>4. op'.pc = "swap" /\ op'.next = op.next /\ op'.todo = todo BY <1>t, <2>1 DEF Ops
    <2>5. \A n \in Names \ todo : Desired(op.next)[n] # None => Matches(n, op.next)'
      BY <1>s, <2>1, <2>3, <2>4 DEF Matches, Same
    <2> QED BY <1>t, <2>1, <2>2, <2>4, <2>5 DEF ApplyInv, Resting, Applying, HasLoader
  <1>10. CASE Remove
    <2> DEFINE c == op.next
    <2>1. op.pc = "swap" /\ op.todo = {} /\ op' = [op EXCEPT !.pc = "commit"] /\ UNCHANGED <<contract, current, bound>>
          /\ slot' = Collect(slot, registered', call)
          /\ registered' = [n \in Names |-> IF n \in Removed(c) THEN None ELSE registered[n]]
      BY <1>10 DEF Remove
    <2>2. op'.pc = "commit" /\ op'.next = c BY <1>t, <2>1 DEF Ops
    <2>3. ASSUME NEW n \in Names PROVE Matches(n, op.next)'
      <3>1. CASE Desired(c)[n] = None
        <4>1. registered'[n] = None BY <2>1, <3>1, Classes
        <4> QED BY <2>2, <3>1, <4>1 DEF Matches, LiveTool
      <3>2. CASE Desired(c)[n] # None
        <4>1. registered'[n] = registered[n] BY <2>1, <3>2, Classes
        <4>2. registered[n] # None => registered[n].slot \in Slots BY <1>t DEF RegisteredInv, Backed
        <4>3. registered[n] # None => slot'[registered[n].slot] = slot[registered[n].slot]
          BY <1>t, <2>1, <4>1, <4>2, CollectKeeps
        <4>4. Same(n) BY <4>1, <4>3, SameTool
        <4>5. Matches(n, c) BY <1>t, <2>1, <3>2 DEF ApplyInv
        <4> QED BY <2>2, <4>4, <4>5 DEF Matches, Same
      <3> QED BY <3>1, <3>2
    <2> QED BY <1>t, <2>1, <2>2, <2>3 DEF ApplyInv, Resting, Applying, HasLoader
  <1>11. CASE Commit
    <2>1. op.pc = "commit" /\ current' = op.next /\ op' = Free /\ UNCHANGED <<registered, slot, contract, bound>>
      BY <1>11 DEF Commit, serverVars
    <2>2. op.next \in Good /\ op'.pc = "free" BY <1>t, <2>1, FreeFields DEF Applying
    <2>3. \A n \in Names : Matches(n, current)' BY <1>t, <1>s, <2>1 DEF ApplyInv, Matches, Same
    <2> QED BY <1>t, <2>1, <2>2, <2>3 DEF ApplyInv, Resting, Applying, HasLoader
  <1>12. CASE Notify BY <1>12, <1>f DEF Notify, serverVars
  <1>13. ASSUME NEW k \in Clients, ListBegin(k) \/ ListEnd(k) PROVE ApplyInv'
    BY <1>13, <1>f DEF ListBegin, ListEnd, serverVars
  <1>14. ASSUME NEW x \in Calls, NEW n \in Names, CallLookup(x, n) PROVE ApplyInv'
    BY <1>14, <1>f DEF CallLookup, serverVars
  <1>15. ASSUME NEW x \in Calls, CallLoad(x) PROVE ApplyInv'
    <2>1. slot' = Collect(slot, registered, call') /\ UNCHANGED <<registered, op, contract, current, bound>>
      BY <1>15 DEF CallLoad
    <2>2. \A n \in Names : registered[n] # None => slot'[registered[n].slot] = slot[registered[n].slot]
      BY <1>t, <2>1, CollectKeeps DEF RegisteredInv, Backed
    <2>3. \A n \in Names : Same(n) BY <2>1, <2>2, SameTool
    <2> QED BY <1>t, <2>1, <2>3, ApplyFrame
  <1>16. ASSUME NEW x \in Calls, CallReturn(x) PROVE ApplyInv'
    BY <1>16, <1>f DEF CallReturn, serverVars
  <1>17. ASSUME NEW c \in Contracts \cup {None}, Deploy(c) PROVE ApplyInv'
    BY <1>17, <1>f DEF Deploy, serverVars
  <1>18. CASE UNCHANGED vars BY <1>18, <1>f DEF vars, serverVars
  <1> QED BY <1>1, <1>2, <1>3, <1>4, <1>5, <1>6, <1>7, <1>8, <1>9, <1>10, <1>11, <1>12, <1>13,
             <1>14, <1>15, <1>16, <1>17, <1>18, NextCases

LEMMA GateStep ==
    ASSUME IInv, [Next]_vars PROVE GateInv'
  <1>t. TypeOK /\ GateInv /\ op \in Ops /\ client \in [Clients -> ClientStates]
    BY DEF IInv, TypeOK, Ops, ClientStates
  <1>1. ASSUME op'.pc \notin {"swap", "commit"} PROVE GateInv' BY <1>1 DEF GateInv
  <1>2. ASSUME UNCHANGED <<op, client>> PROVE GateInv' BY <1>2, <1>t DEF GateInv, Listing
  <1>a. ASSUME NEW c \in Good, NEW b, Apply(c, b) PROVE GateInv'
    <2>1. CASE b
      <3>1. op' = Begun(c) BY <1>a, <2>1 DEF Apply, Begun
      <3> QED BY <1>1, <3>1, BegunFields
    <2>2. CASE ~b
      <3>1. op' = Free BY <1>a, <2>2 DEF Apply
      <3> QED BY <1>1, <3>1, FreeFields
    <2> QED BY <2>1, <2>2
  <1>3. CASE RefreshBegin
    <2>1. op'.pc = "fetching" BY <1>3 DEF RefreshBegin, Free
    <2> QED BY <1>1, <2>1
  <1>4. CASE FetchReturns
    <2> DEFINE r == [op EXCEPT !.pc = "answered", !.next = served]
    <2>1. r.pc = "answered" BY <1>t DEF Ops
    <2>2. op' = Free \/ op' = r BY <1>4 DEF FetchReturns
    <2> HIDE DEF r
    <2> QED BY <1>1, <2>1, <2>2, FreeFields
  <1>5. CASE Accept
    <2>1. CASE op' = Free BY <1>1, <2>1, FreeFields
    <2>2. CASE op.next \in Good /\ Apply(op.next, bound) BY <1>a, <2>2
    <2> QED BY <1>5, <2>1, <2>2 DEF Accept
  <1>6. CASE Bind
    <2>1. CASE current = None BY <1>2, <1>6, <2>1 DEF Bind, clientVars
    <2>2. CASE current # None BY <1>6, <1>a, <2>2 DEF Bind, IInv, ApplyInv
    <2> QED BY <2>1, <2>2
  <1>7. ASSUME NEW c \in Contracts, Install(c) PROVE GateInv' BY <1>7, <1>a DEF Install
  <1>8. ASSUME NEW n \in Names, Rebind(n) PROVE GateInv'
    <2>1. op'.pc = "rebind" BY <1>8, <1>t DEF Rebind, Ops
    <2> QED BY <1>1, <2>1
  <1>9. ASSUME NEW n \in Names, Add(n) PROVE GateInv'
    <2>1. op'.pc = "swap" /\ op'.before = op.before /\ op.pc = "swap" /\ client' = client
      BY <1>9, <1>t DEF Add, Ops
    <2> QED BY <1>t, <2>1 DEF GateInv, Listing
  <1>10. CASE RebindDone
    <2>1. CASE op' = [op EXCEPT !.pc = "gate"]
      <3>1. op'.pc = "gate" BY <1>t, <2>1 DEF Ops
      <3> QED BY <1>1, <3>1
    <2>2. CASE op' = Free BY <1>1, <2>2, FreeFields
    <2> QED BY <1>10, <2>1, <2>2 DEF RebindDone
  <1>11. CASE GateLock
    <2> DEFINE todo == Added(op.next) \cup Changed(op.next)
               list == Listed
    <2>1. list # None BY <1>t, ListedType
    <2>2. op' = [op EXCEPT !.pc = "swap", !.todo = todo, !.before = list] /\ Listing = {} /\ client' = client
      BY <1>11 DEF GateLock, clientVars
    <2> HIDE DEF todo, list
    <2>3. op'.before = list BY <1>t, <2>2 DEF Ops
    <2> QED BY <2>1, <2>2, <2>3 DEF GateInv, Listing
  <1>12. CASE Remove
    <2>1. op'.pc = "commit" /\ op'.before = op.before /\ op.pc = "swap" /\ client' = client
      BY <1>12, <1>t DEF Remove, Ops
    <2> QED BY <1>t, <2>1 DEF GateInv, Listing
  <1>13. CASE Commit
    <2>1. op' = Free BY <1>13 DEF Commit
    <2> QED BY <1>1, <2>1, FreeFields
  <1>14. ASSUME NEW k \in Clients, ListBegin(k) PROVE GateInv' BY <1>14, <1>1 DEF ListBegin
  <1>15. ASSUME NEW k \in Clients, ListEnd(k) PROVE GateInv'
    <2>1. k \in Listing /\ op' = op BY <1>15 DEF ListEnd, Listing
    <2>2. op.pc \notin {"swap", "commit"} BY <1>t, <2>1 DEF GateInv
    <2> QED BY <1>1, <2>1, <2>2
  <1>16. CASE UNCHANGED vars \/ Notify BY <1>16, <1>2 DEF vars, Notify
  <1>17. ASSUME NEW x \in Calls, NEW n \in Names, CallLookup(x, n) PROVE GateInv'
    BY <1>17, <1>2 DEF CallLookup, clientVars
  <1>18. ASSUME NEW x \in Calls, CallLoad(x) \/ CallReturn(x) PROVE GateInv'
    BY <1>18, <1>2 DEF CallLoad, CallReturn, clientVars
  <1>19. ASSUME NEW c \in Contracts \cup {None}, Deploy(c) PROVE GateInv' BY <1>19, <1>2 DEF Deploy, clientVars
  <1> QED BY <1>3, <1>4, <1>5, <1>6, <1>7, <1>8, <1>9, <1>10, <1>11, <1>12, <1>13, <1>14, <1>15,
             <1>16, <1>17, <1>18, <1>19, NextCases

-----------------------------------------------------------------------------
(* The theorems *)

LEMMA Start == Init => IInv
  <1> SUFFICES ASSUME Init PROVE IInv OBVIOUS
  <1>1. IdleCall \in CallStates /\ IdleCall.pc = "idle" BY DEF IdleCall, CallStates
  <1>2. [pc |-> "idle", seen |-> None] \in ClientStates BY DEF ClientStates
  <1>3. call \in [Calls -> CallStates] /\ client \in [Clients -> ClientStates] BY <1>1, <1>2 DEF Init
  <1>4. Free \in Ops /\ Free.pc = "free" BY FreeFields
  <1>5. TypeOK BY <1>3, <1>4 DEF Init, TypeOK, Ops, CallStates, ClientStates
  <1>6. RegisteredInv BY DEF Init, RegisteredInv
  <1>7. CallInv BY <1>1 DEF Init, CallInv
  <1>8. ApplyInv BY <1>4 DEF Init, ApplyInv, HasLoader, Resting, Applying
  <1>9. GateInv BY <1>4 DEF Init, GateInv
  <1> QED BY <1>5, <1>6, <1>7, <1>8, <1>9 DEF IInv

LEMMA Step == IInv /\ [Next]_vars => IInv'
  BY TypeStep, SlotStep, ApplyStep, GateStep DEF IInv

THEOREM Invariance == Spec => []IInv
  BY Start, Step, PTL DEF Spec

(* Whenever no replacement is under way, the server offers the tools of the  *)
(* registry in service, and the loader's contract is that registry's.        *)
THEOREM SettledAlwaysMatches == Spec => []SettledMatches
  <1>1. IInv => SettledMatches BY DEF IInv, ApplyInv, Resting, Matches, SettledMatches
  <1> QED BY <1>1, Invariance, PTL

(* However replacements overlap with calls, a call runs a tool with the      *)
(* definition its arguments were validated against.                          *)
THEOREM CallsRunWhatTheyValidated == Spec => []CallRunsWhatItValidated
  <1>1. IInv => CallRunsWhatItValidated BY ContractAssumption DEF IInv, CallInv, CallRunsWhatItValidated
  <1> QED BY <1>1, Invariance, PTL

-----------------------------------------------------------------------------
(* The refinement *)

Shown == Rows(Visible)
Seen == [k \in Clients |-> Rows(client[k].seen)]

(* Only the release of the gate shows something new. *)
LEMMA VisibleMoves ==
    ASSUME IInv, [Next]_vars PROVE Commit \/ Visible' = Visible
  <1>t. TypeOK /\ op \in Ops BY DEF IInv, TypeOK, Ops
  <1>1. ASSUME registered' = registered, op.pc \notin {"swap", "commit"}, op'.pc \notin {"swap", "commit"}
        PROVE  Visible' = Visible
    BY <1>1 DEF Visible, Listed
  <1>2. ASSUME UNCHANGED <<registered, op>> PROVE Visible' = Visible BY <1>2 DEF Visible, Listed
  <1>a. ASSUME NEW c \in Good, NEW b, Apply(c, b) PROVE op'.pc \notin {"swap", "commit"}
    <2>1. CASE b
      <3>1. op' = Begun(c) BY <1>a, <2>1 DEF Apply, Begun
      <3> QED BY <3>1, BegunFields
    <2>2. CASE ~b
      <3>1. op' = Free BY <1>a, <2>2 DEF Apply
      <3> QED BY <3>1, FreeFields
    <2> QED BY <2>1, <2>2
  <1>3. CASE RefreshBegin
    <2>1. op'.pc = "fetching" BY <1>3 DEF RefreshBegin, Free
    <2> QED BY <1>1, <1>3, <2>1 DEF RefreshBegin, serverVars
  <1>4. CASE FetchReturns
    <2> DEFINE r == [op EXCEPT !.pc = "answered", !.next = served]
    <2>1. r.pc = "answered" BY <1>t DEF Ops
    <2>2. (op' = Free \/ op' = r) /\ op.pc = "fetching" /\ registered' = registered
      BY <1>4 DEF FetchReturns, serverVars
    <2> HIDE DEF r
    <2> QED BY <1>1, <2>1, <2>2, FreeFields
  <1>5. CASE Accept
    <2>1. op.pc = "answered" /\ registered' = registered BY <1>5 DEF Accept, serverVars
    <2>2. CASE op' = Free BY <1>1, <2>1, <2>2, FreeFields
    <2>3. CASE op.next \in Good /\ Apply(op.next, bound) BY <1>1, <1>a, <2>1, <2>3
    <2> QED BY <1>5, <2>2, <2>3 DEF Accept
  <1>6. CASE Bind
    <2>1. op.pc = "free" /\ registered' = registered BY <1>6 DEF Bind, serverVars
    <2>2. CASE current = None BY <1>2, <1>6, <2>1, <2>2 DEF Bind
    <2>3. CASE current # None BY <1>1, <1>6, <1>a, <2>1, <2>3 DEF Bind, IInv, ApplyInv
    <2> QED BY <2>2, <2>3
  <1>7. ASSUME NEW c \in Contracts, Install(c) PROVE Visible' = Visible
    BY <1>7, <1>1, <1>a DEF Install, serverVars
  <1>8. ASSUME NEW n \in Names, Rebind(n) PROVE Visible' = Visible
    <2>1. op.pc = "rebind" /\ op'.pc = "rebind" /\ registered' = registered BY <1>8, <1>t DEF Rebind, Ops
    <2> QED BY <1>1, <2>1
  <1>9. ASSUME NEW n \in Names, Add(n) PROVE Visible' = Visible
    <2>1. op'.pc = "swap" /\ op.pc = "swap" /\ op'.before = op.before BY <1>9, <1>t DEF Add, Ops
    <2> QED BY <2>1 DEF Visible
  <1>10. CASE RebindDone
    <2>1. op.pc = "rebind" /\ registered' = registered BY <1>10 DEF RebindDone, serverVars
    <2>2. CASE op' = [op EXCEPT !.pc = "gate"]
      <3>1. op'.pc = "gate" BY <1>t, <2>2 DEF Ops
      <3> QED BY <1>1, <2>1, <3>1
    <2>3. CASE op' = Free BY <1>1, <2>1, <2>3, FreeFields
    <2> QED BY <1>10, <2>2, <2>3 DEF RebindDone
  <1>11. CASE GateLock
    <2> DEFINE todo == Added(op.next) \cup Changed(op.next)
               list == Listed
    <2>1. op' = [op EXCEPT !.pc = "swap", !.todo = todo, !.before = list] /\ op.pc = "gate"
      BY <1>11 DEF GateLock
    <2> HIDE DEF todo, list
    <2>2. op'.before = list /\ op'.pc = "swap" BY <1>t, <2>1 DEF Ops
    <2> QED BY <2>1, <2>2 DEF Visible, list
  <1>12. CASE Remove
    <2>1. op'.pc = "commit" /\ op.pc = "swap" /\ op'.before = op.before BY <1>12, <1>t DEF Remove, Ops
    <2> QED BY <2>1 DEF Visible
  <1>13. CASE Notify \/ UNCHANGED vars BY <1>13, <1>2 DEF Notify, vars, serverVars
  <1>14. ASSUME NEW k \in Clients, ListBegin(k) \/ ListEnd(k) PROVE Visible' = Visible
    BY <1>14, <1>2 DEF ListBegin, ListEnd, serverVars
  <1>15. ASSUME NEW x \in Calls, NEW n \in Names, CallLookup(x, n) PROVE Visible' = Visible
    BY <1>15, <1>2 DEF CallLookup, serverVars
  <1>16. ASSUME NEW x \in Calls, CallLoad(x) \/ CallReturn(x) PROVE Visible' = Visible
    BY <1>16, <1>2 DEF CallLoad, CallReturn, serverVars
  <1>17. ASSUME NEW c \in Contracts \cup {None}, Deploy(c) PROVE Visible' = Visible
    BY <1>17, <1>2 DEF Deploy, serverVars
  <1> QED BY <1>3, <1>4, <1>5, <1>6, <1>7, <1>8, <1>9, <1>10, <1>11, <1>12, <1>13, <1>14, <1>15,
             <1>16, <1>17, NextCases

LEMMA SeenMoves ==
    ASSUME IInv, [Next]_vars PROVE Seen' = Seen \/ \E k \in Clients : ListEnd(k)
  <1>t. client \in [Clients -> ClientStates] BY DEF IInv, TypeOK, ClientStates
  <1>1. CASE client' = client BY <1>1 DEF Seen
  <1>2. ASSUME NEW k \in Clients, ListBegin(k) PROVE Seen' = Seen
    <2>1. client' = [client EXCEPT ![k].pc = "listing"] BY <1>2 DEF ListBegin
    <2>2. \A j \in Clients : client'[j].seen = client[j].seen BY <1>t, <2>1 DEF ClientStates
    <2> QED BY <2>2 DEF Seen
  <1> QED BY <1>1, <1>2, NextCases
          DEF RefreshBegin, FetchReturns, Accept, Bind, Install, Rebind, Add, RebindDone, GateLock, Remove,
              Commit, Notify, CallLookup, CallLoad, CallReturn, Deploy, vars, clientVars

(* What a list shows under the regular names once a replacement is complete. *)
LEMMA CommitShows ==
    ASSUME IInv, Commit
    PROVE  op.next \in Good /\ Shown' = Rows(DefsOf(Desired(op.next)))
  <1> DEFINE c == op.next
  <1>1. op.pc = "commit" /\ op' = Free /\ registered' = registered BY DEF Commit, serverVars
  <1>2. c \in Good /\ c \in Contracts BY <1>1, ContractAssumption DEF IInv, TypeOK
  <1>3. Visible' = Listed BY <1>1, FreeFields DEF Visible, Listed
  <1>4. Listed # None BY ListedType DEF IInv
  <1>5. DefsOf(Desired(c)) # None
    <2>1. \A n \in Names : DefOf(Desired(c)[n]) \in Defs \cup {None} BY <1>2, DesiredType DEF DefOf
    <2>2. DefsOf(Desired(c)) \in List BY <2>1 DEF DefsOf, List
    <2> QED BY <2>2, ContractAssumption DEF List
  <1>6. ASSUME NEW n \in Regular PROVE Listed[n] = DefsOf(Desired(c))[n]
    <2>1. n \in Names /\ DefOf(Desired(c)[n]) \notin Unregistrable BY <1>2 DEF Regular
    <2>2. Matches(n, c) BY <1>1, <2>1 DEF IInv, ApplyInv
    <2>3. LiveTool(n) = Desired(c)[n] BY <2>1, <2>2 DEF Matches, DefOf
    <2>4. CASE registered[n] = None
      <3>1. Desired(c)[n] = None BY <2>3, <2>4 DEF LiveTool
      <3> QED BY <2>1, <2>4, <3>1 DEF Listed, DefsOf, DefOf
    <2>5. CASE registered[n] # None
      <3>1. Desired(c)[n] \in Tool /\ Desired(c)[n].def = registered[n].def
        BY <2>1, <2>3, <2>5 DEF LiveTool, IInv, RegisteredInv, Backed
      <3>2. Desired(c)[n] # None BY <3>1, ContractAssumption
      <3> QED BY <2>1, <2>5, <3>1, <3>2 DEF Listed, DefsOf, DefOf
    <2> QED BY <2>4, <2>5
  <1>7. Rows(Listed) = Rows(DefsOf(Desired(c))) BY <1>4, <1>5, <1>6 DEF Rows
  <1>8. Shown' = Rows(Listed) BY <1>3 DEF Shown, Rows
  <1> QED BY <1>2, <1>7, <1>8

LEMMA CatalogStep ==
    ASSUME IInv, [Next]_vars PROVE [Catalog!Next]_<<Shown, Seen>>
  <1>t. client \in [Clients -> ClientStates] BY DEF IInv, TypeOK, ClientStates
  <1>1. CASE Commit
    <2>1. Seen' = Seen
      <3>1. client' = client BY <1>1 DEF Commit, clientVars
      <3> QED BY <3>1 DEF Seen
    <2>2. Shown' \in {Rows(DefsOf(Desired(c))) : c \in Good} BY <1>1, CommitShows
    <2>3. Catalog!Publish BY <2>1, <2>2 DEF Catalog!Publish, Shown, Seen
    <2> QED BY <2>3 DEF Catalog!Next
  <1>2. CASE Visible' = Visible /\ Seen' = Seen
    BY <1>2 DEF Shown, Rows
  <1>3. ASSUME NEW k \in Clients, ListEnd(k) PROVE Catalog!Next
    <2>1. k \in Listing /\ op' = op /\ registered' = registered BY <1>3 DEF ListEnd, Listing, serverVars
    <2>2. op.pc \notin {"swap", "commit"} BY <2>1 DEF IInv, GateInv
    <2>3. Visible = Listed /\ Visible' = Visible BY <2>1, <2>2 DEF Visible, Listed
    <2>4. Shown' = Shown BY <2>3 DEF Shown, Rows
    <2>5. client' = [client EXCEPT ![k] = [pc |-> "idle", seen |-> Listed]] BY <1>3 DEF ListEnd
    <2>6. \A j \in Clients : client'[j].seen = IF j = k THEN Listed ELSE client[j].seen BY <1>t, <2>5
    <2>7. Seen' = [Seen EXCEPT ![k] = Shown] BY <2>3, <2>6 DEF Seen, Shown
    <2>8. Catalog!List(k) BY <2>4, <2>7 DEF Catalog!List, Shown, Seen
    <2> QED BY <2>8 DEF Catalog!Next
  <1> QED BY <1>1, <1>2, <1>3, VisibleMoves, SeenMoves

(* To the clients of tools/list every replacement is one step: they see the  *)
(* whole catalog of one accepted contract, or that of the one before.        *)
THEOREM CatalogImplemented == Spec => ListsAreWhole
  <1>1. Init => Catalog!Init
    <2> SUFFICES ASSUME Init PROVE Catalog!Init OBVIOUS
    <2>1. Visible = Listed BY FreeFields DEF Init, Visible
    <2>2. Listed # None BY Start, ListedType DEF IInv
    <2>3. \A n \in Regular : Listed[n] = None BY DEF Init, Listed, Regular
    <2>4. Rows(Visible) = [n \in Regular |-> None] BY <2>1, <2>2, <2>3 DEF Rows
    <2>5. \A k \in Clients : Rows(client[k].seen) = None BY DEF Init, Rows
    <2> QED BY <2>4, <2>5 DEF Catalog!Init
  <1>2. IInv /\ [Next]_vars => [Catalog!Next]_<<Shown, Seen>> BY CatalogStep
  <1> QED BY <1>1, <1>2, Invariance, PTL DEF Spec, ListsAreWhole, Catalog!Spec, Shown, Seen
=============================================================================

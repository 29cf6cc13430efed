----------------------------- MODULE RestClient -----------------------------
(***************************************************************************)
(* The REST client that every tool call, session check and contract load   *)
(* shares (internal/ableops/client.go, openapi.go, operation.go): four     *)
(* slots, and for each operation one deadline and one budget of requests.  *)
(*                                                                         *)
(* An operation runs one or more goroutines (cluster_health runs two and   *)
(* waits for both), each of which sends one request after the other.  The  *)
(* backend is external: it answers any way it likes, or never.             *)
(***************************************************************************)
EXTENDS Naturals, FiniteSets

CONSTANTS
    Operations,             \* tool calls, session checks and contract loads
    Legs,                   \* goroutines of one operation
    MaxConcurrentRequests,
    MaxOperationRequests

ASSUME ClientAssumption ==
    /\ MaxConcurrentRequests \in Nat \ {0} /\ MaxOperationRequests \in Nat \ {0}
    /\ IsFiniteSet(Operations) /\ IsFiniteSet(Legs) /\ Legs # {}

VARIABLES
    op,         \* op[o]: the state of the operation, of its context and its count
    leg,        \* leg[o][l]: where the goroutine is in request()
    result,     \* result[o][l]: whether its last request succeeded
    slots,      \* len(semaphore)
    sent,       \* history: sent[o], requests of the operation that reached the backend
    late        \* history: a request was sent that got its slot after its context ended

vars == <<op, leg, result, slots, sent, late>>

InFlight == {"granted", "grantedLate", "sent"}

TypeOK ==
    /\ op \in [Operations -> [pc : {"idle", "running"}, ctx : {"live", "ended"}, count : Nat]]
    /\ leg \in [Operations -> [Legs -> {"start", "queued", "ended"} \cup InFlight]]
    /\ result \in [Operations -> [Legs -> {"ok", "failed"}]]
    /\ slots \in Nat
    /\ sent \in [Operations -> Nat]
    /\ late \in BOOLEAN

Init ==
    /\ op = [o \in Operations |-> [pc |-> "idle", ctx |-> "live", count |-> 0]]
    /\ leg = [o \in Operations |-> [l \in Legs |-> "ended"]]
    /\ result = [o \in Operations |-> [l \in Legs |-> "ok"]]
    /\ slots = 0
    /\ sent = [o \in Operations |-> 0]
    /\ late = FALSE

Ended(o) == op[o].ctx # "live"
At(o, l, pc) == leg[o][l] = pc
Goto(o, l, pc) == leg' = [leg EXCEPT ![o][l] = pc]

(* request() returns to its caller; when it holds a slot, that is released. *)
Finish(o, l, code) ==
    /\ Goto(o, l, "ended")
    /\ result' = [result EXCEPT ![o][l] = code]

-----------------------------------------------------------------------------
(* BeginOperation: a deadline and a budget of its own. *)
Begin(o) ==
    /\ op[o].pc = "idle"
    /\ op' = [op EXCEPT ![o].pc = "running"]
    /\ leg' = [leg EXCEPT ![o] = [l \in Legs |-> "start"]]
    /\ UNCHANGED <<result, slots, sent, late>>

(* The deadline passes, or the caller goes away. *)
ContextEnds(o) ==
    /\ op[o].pc = "running" /\ ~Ended(o)
    /\ op' = [op EXCEPT ![o].ctx = "ended"]
    /\ UNCHANGED <<leg, result, slots, sent, late>>

(* reserveOperationRequest adds to the shared counter before it compares. *)
Reserve(o, l) ==
    /\ At(o, l, "start")
    /\ \/ Ended(o) /\ Finish(o, l, "failed") /\ UNCHANGED op
       \/ /\ ~Ended(o)
          /\ op' = [op EXCEPT ![o].count = @ + 1]
          /\ \/ op[o].count + 1 > MaxOperationRequests /\ Finish(o, l, "failed")
             \/ op[o].count + 1 <= MaxOperationRequests /\ Goto(o, l, "queued") /\ UNCHANGED result
    /\ UNCHANGED <<slots, sent, late>>

(* No valid token, or a segment the path must not contain: nothing is sent. *)
Refuse(o, l) ==
    /\ At(o, l, "queued")
    /\ Finish(o, l, "failed")
    /\ UNCHANGED <<op, slots, sent, late>>

(* When a slot is free and the context has ended too, select takes either. *)
Grant(o, l) ==
    /\ At(o, l, "queued")
    /\ slots < MaxConcurrentRequests /\ slots' = slots + 1
    /\ Goto(o, l, IF Ended(o) THEN "grantedLate" ELSE "granted")
    /\ UNCHANGED <<op, result, sent, late>>

GiveUp(o, l) ==
    /\ At(o, l, "queued") /\ Ended(o)
    /\ Finish(o, l, "failed")
    /\ UNCHANGED <<op, slots, sent, late>>

(* Mutated form: the context is not looked at again. *)
SendUnchecked(o, l) ==
    /\ leg[o][l] \in {"granted", "grantedLate"}
    /\ Goto(o, l, "sent")
    /\ sent' = [sent EXCEPT ![o] = @ + 1]
    /\ late' = (late \/ At(o, l, "grantedLate"))
    /\ UNCHANGED <<op, result, slots>>

(* ctx.Err() once more, then Do.  The context may end right after the look. *)
Send(o, l) ==
    /\ leg[o][l] \in {"granted", "grantedLate"}
    /\ \/ /\ Ended(o)
          /\ Finish(o, l, "failed") /\ slots' = slots - 1
          /\ UNCHANGED <<sent, late>>
       \/ /\ ~Ended(o)
          /\ Goto(o, l, "sent")
          /\ sent' = [sent EXCEPT ![o] = @ + 1]
          /\ late' = (late \/ At(o, l, "grantedLate"))
          /\ UNCHANGED <<result, slots>>
    /\ UNCHANGED op

(* Mutated form: a response that is too large keeps the slot. *)
ReplyLeaking(o, l) ==
    /\ At(o, l, "sent")
    /\ \E code \in {"ok", "failed"} : Finish(o, l, code) /\ slots' = IF code = "ok" THEN slots - 1 ELSE slots
    /\ UNCHANGED <<op, sent, late>>

(* Any status, a body of any size and content, or a broken connection. *)
Reply(o, l) ==
    /\ At(o, l, "sent")
    /\ \E code \in {"ok", "failed"} : Finish(o, l, code)
    /\ slots' = slots - 1
    /\ UNCHANGED <<op, sent, late>>

(* Mutated form: the request is not bound to the context. *)
AbandonNever(o, l) ==
    /\ At(o, l, "sent") /\ FALSE
    /\ UNCHANGED vars

(* The context ends Do, and the reading of the body. *)
Abandon(o, l) ==
    /\ At(o, l, "sent") /\ Ended(o)
    /\ Finish(o, l, "failed")
    /\ slots' = slots - 1
    /\ UNCHANGED <<op, sent, late>>

(* A tool goes on with its next request when the last one succeeded; one   *)
(* that goes on after a failed part does so in another goroutine here.     *)
NextRequest(o, l) ==
    /\ op[o].pc = "running" /\ At(o, l, "ended") /\ result[o][l] = "ok"
    /\ Goto(o, l, "start")
    /\ UNCHANGED <<op, result, slots, sent, late>>

(* wg.Wait; then the result is returned, complete or with the failures. *)
Return(o) ==
    /\ op[o].pc = "running" /\ \A l \in Legs : At(o, l, "ended")
    /\ op' = [op EXCEPT ![o] = [pc |-> "idle", ctx |-> "live", count |-> 0]]
    /\ result' = [result EXCEPT ![o] = [l \in Legs |-> "ok"]]
    /\ sent' = [sent EXCEPT ![o] = 0]
    /\ UNCHANGED <<leg, slots, late>>

Request(o, l) ==
    \/ Reserve(o, l) \/ Refuse(o, l) \/ Grant(o, l) \/ GiveUp(o, l) \/ Send(o, l)
    \/ Reply(o, l) \/ Abandon(o, l) \/ NextRequest(o, l)

Next ==
    \E o \in Operations :
        \/ Begin(o) \/ ContextEnds(o) \/ Return(o)
        \/ \E l \in Legs : Request(o, l)

Spec == Init /\ [][Next]_vars

(* The runtime runs a goroutine that can go on; the deadline of an operation *)
(* passes.  Of the backend nothing is assumed: Reply need not happen.        *)
FairSpec ==
    /\ Spec
    /\ \A o \in Operations :
         /\ WF_vars(ContextEnds(o)) /\ WF_vars(Return(o))
         /\ \A l \in Legs :
              /\ WF_vars(Reserve(o, l)) /\ WF_vars(GiveUp(o, l)) /\ WF_vars(Send(o, l)) /\ WF_vars(Abandon(o, l))

-----------------------------------------------------------------------------
(* Properties *)

(* However requests end, a slot is taken by a request in flight and by none  *)
(* else: no slot is lost, and no more than four requests run at a time.      *)
(* (With it, the type invariant.)                                            *)
SlotsExact ==
    /\ TypeOK
    /\ slots = Cardinality({x \in Operations \X Legs : leg[x[1]][x[2]] \in InFlight})
    /\ slots <= MaxConcurrentRequests

(* What the backend gets is within the budget of the operation, which its    *)
(* goroutines share without a lock, and within its time: a request that      *)
(* waited until its context had ended is not sent, although select may still *)
(* have given it a slot.                                                     *)
SentInBounds == ~late /\ \A o \in Operations : sent[o] <= MaxOperationRequests

(* An operation ends even if the backend never answers, and cannot hold the  *)
(* slots of the others.                                                      *)
OperationsEnd == \A o \in Operations : (op[o].pc = "running") ~> (op[o].pc = "idle")
=============================================================================

---------------------------- MODULE ContractCall ----------------------------
(***************************************************************************)
(* Calls whose REST path comes from the contract (internal/dynamic/bind.go,*)
(* executor.go, adapter.go; internal/tools/dynamic.go): a dynamic tool     *)
(* runs the operation it was published with; a static tool with a stable   *)
(* adapter looks its operation up in the registry of the moment, and keeps *)
(* to its built-in path when the contract has none for it.                 *)
(*                                                                         *)
(* An argument is None (JSON null), a string or a boolean [type, text], a  *)
(* number [type, halves] of so many halves (sign and spelling are left     *)
(* out) or a list [type, items].  What is sent of a value is its text,     *)
(* [text], or the digits of a number, [number].  The backend splits a list *)
(* that is not exploded at its commas.                                     *)
(***************************************************************************)
EXTENDS Naturals, FiniteSets, Sequences, SequencesExt

CONSTANTS
    Contracts,    \* the contracts Refresh may bring
    Op,           \* Op[c]: the operation in question as c declares it, None if it does not
    ArgSets,      \* argument objects of dynamic tools, None for anything but an object
    AdapterArgs,  \* what the adapter of the static tool passes
    Doubles,      \* the numbers a float64 has, in halves
    TooLarge,     \* the least number Float64 refuses
    Calls,
    None

(* The values of an argument. *)
Items(v) == IF v.type = "list" THEN v.items ELSE <<v>>

ContractCallAssumption ==
    /\ AdapterArgs # None /\ None # "failed"
    /\ Doubles \in SUBSET Nat /\ Doubles # {} /\ TooLarge \in Nat
    /\ \A c \in Contracts : Op[c] = None \/ IsFiniteSet(Op[c].params)
    /\ \A args \in (ArgSets \cup {AdapterArgs}) \ {None} : \A n \in DOMAIN args :
           args[n] # None =>
               /\ args[n].type = "list" => args[n].items \in Seq(Range(args[n].items))
               /\ \A v \in Range(Items(args[n])) \ {None} : v.type = "number" => v.halves \in Nat

VARIABLES
    current, \* the contract of Runtime.current, None before the first
    call,    \* call[x]: a tool call
    sent     \* sent[x]: the requests the backend got from it

vars == <<current, call, sent>>

Idle == [pc |-> "idle", adapter |-> FALSE, args |-> None, op |-> None, reply |-> None, result |-> None]

Init ==
    /\ current = None
    /\ call = [x \in Calls |-> Idle]
    /\ sent = [x \in Calls |-> <<>>]

-----------------------------------------------------------------------------
(* bind *)

Blank(value) == value \in {[text |-> ""], [text |-> " "]}
Control(text) == text = "a\n"
Pieces(value) == IF value = [text |-> "a,b"] THEN <<[text |-> "a"], [text |-> "b"]>> ELSE <<value>>

(* Float64: the number of a float64 next to n; of two at the same distance one is taken. *)
Distance(m, n) == IF m < n THEN n - m ELSE m - n
Nearest(n) == CHOOSE d \in Doubles : \A e \in Doubles : Distance(n, d) <= Distance(n, e)

(* scalar: an integer is taken as it is written and must be whole; any number is *)
(* one for a number parameter, which goes through a float64.                      *)
Fits(v, type) ==
    /\ v # None
    /\ \/ type = "integer" /\ v.type = "number" /\ v.halves % 2 = 0
       \/ type = "number" /\ v.type = "number" /\ v.halves < TooLarge
       \/ type \in {"string", "boolean"} /\ v.type = type /\ ~Control(v.text)
Canonical(v, type) ==
    IF v.type # "number" THEN [text |-> v.text]
    ELSE [number |-> IF type = "number" THEN Nearest(v.halves) ELSE v.halves]

Given(args, p) == p.name \in DOMAIN args /\ args[p.name] # None

PathBinds(args, p) ==
    Given(args, p) /\ Fits(args[p.name], p.type) /\ ~Blank(Canonical(args[p.name], p.type))

(* A comma in an item of a list that is joined with commas would make two of it. *)
(* Mutated form: it is let through.                                               *)
ItemsFitJoined(items, p) == \A i \in DOMAIN items : Fits(items[i], p.items)
ItemsFit(items, p) ==
    \A i \in DOMAIN items :
        Fits(items[i], p.items) /\ (p.explode \/ Len(Pieces(Canonical(items[i], p.items))) = 1)

QueryBinds(args, p) ==
    IF ~Given(args, p) THEN ~p.required
    ELSE IF args[p.name].type = "list" THEN p.items # None /\ ItemsFit(args[p.name].items, p)
    ELSE Fits(args[p.name], p.type)

Binds(op, args) ==
    /\ DOMAIN args \subseteq {p.name : p \in op.params}
    /\ \A p \in op.params : IF p.in = "path" THEN PathBinds(args, p) ELSE QueryBinds(args, p)

(* What is sent of an argument, and what the backend reads from it. *)
Type(v, p) == IF v.type = "list" THEN p.items ELSE p.type
Texts(v, p) == [i \in DOMAIN Items(v) |-> Canonical(Items(v)[i], Type(v, p))]
Reads(v, p) ==
    IF v.type = "list" /\ ~p.explode
    THEN FlattenSeq([i \in DOMAIN Texts(v, p) |-> Pieces(Texts(v, p)[i])])
    ELSE Texts(v, p)

(* An empty list sends nothing. *)
Sends(args, p) == Given(args, p) /\ Items(args[p.name]) # <<>>

Request(op, args) ==
    LET used == {p \in op.params : Sends(args, p)}
        named(n) == CHOOSE p \in used : p.name = n
    IN  [op |-> op, values |-> [n \in {p.name : p \in used} |-> Reads(args[n], named(n))]]
StaticRequest == [op |-> None, values |-> << >>]

-----------------------------------------------------------------------------
(* The steps of a call. *)

Runnable(op) == op.method = "GET" /\ op.enabled

(* Refresh or Install puts another registry in service at any moment. *)
Replace(c) ==
    /\ c # current /\ current' = c
    /\ UNCHANGED <<call, sent>>

(* The handler of a dynamic tool takes the tool its slot holds now. *)
BeginDynamic(x) ==
    /\ call[x].pc = "idle" /\ current # None
    /\ Op[current] # None /\ Op[current].exposure = "SAFE"
    /\ \E args \in ArgSets :
           call' = [call EXCEPT ![x] = [Idle EXCEPT !.pc = "bind", !.args = args, !.op = Op[current]]]
    /\ UNCHANGED <<current, sent>>

BeginPromoted(x) ==
    /\ call[x].pc = "idle"
    /\ call' = [call EXCEPT ![x] = [Idle EXCEPT !.pc = "look", !.adapter = TRUE, !.args = AdapterArgs]]
    /\ UNCHANGED <<current, sent>>

(* Fetch: a contract that is missing, silent about the operation or against it leaves *)
(* the call to its own path.                                                           *)
Look(x) ==
    /\ call[x].pc = "look"
    /\ LET op == IF current = None THEN None ELSE Op[current]
           found == op # None /\ op.exposure # "BLOCKED" /\ Runnable(op)
       IN  call' = [call EXCEPT ![x].op = IF found THEN op ELSE None,
                                ![x].pc = IF found THEN "bind" ELSE "static"]
    /\ UNCHANGED <<current, sent>>

Bind(x) ==
    /\ call[x].pc = "bind"
    /\ LET op == call[x].op
           args == call[x].args
       IN  IF Runnable(op) /\ args # None /\ Binds(op, args)
           THEN /\ sent' = [sent EXCEPT ![x] = Append(@, Request(op, args))]
                /\ call' = [call EXCEPT ![x].pc = "sent"]
           ELSE /\ call' = [call EXCEPT ![x].pc = IF call[x].adapter THEN "static" ELSE "done",
                                        ![x].op = IF call[x].adapter THEN None ELSE @,
                                        ![x].result = IF call[x].adapter THEN @ ELSE "error"]
                /\ UNCHANGED sent
    /\ UNCHANGED current

Static(x) ==
    /\ call[x].pc = "static"
    /\ sent' = [sent EXCEPT ![x] = Append(@, StaticRequest)]
    /\ call' = [call EXCEPT ![x].pc = "sent"]
    /\ UNCHANGED current

(* What may come back: a body, one too large for MCP, one of another cluster, JSON null, *)
(* 204, or a failure.                                                                     *)
Replies == {"body", "large", "foreign", "null", "none", "failed"}

(* Executor.Call and finish: no part of a body is delivered without the rest. *)
Delivered(reply, op) ==
    CASE reply \in {"body", "foreign", "null"} -> "body"
      [] reply = "none" /\ op.noContent -> "no_content"
      [] OTHER -> "error"

(* Decode and project: the body must be of the cluster asked about. *)
Projected(reply) == IF reply \in {"body", "large"} THEN "ok" ELSE "error"

Reply(x) ==
    /\ call[x].pc = "sent"
    /\ \E reply \in Replies :
           call' = [call EXCEPT
               ![x].pc = "done",
               ![x].reply = reply,
               ![x].result = IF call[x].adapter THEN Projected(reply) ELSE Delivered(reply, call[x].op)]
    /\ UNCHANGED <<current, sent>>

Next ==
    \/ \E c \in Contracts : Replace(c)
    \/ \E x \in Calls :
           BeginDynamic(x) \/ BeginPromoted(x) \/ Look(x) \/ Bind(x) \/ Static(x) \/ Reply(x)

Spec == Init /\ [][Next]_vars

-----------------------------------------------------------------------------
(* Every call is somewhere, with an operation exactly while one is bound to it. *)
TypeOK ==
    /\ current \in Contracts \cup {None}
    /\ \A x \in Calls :
           /\ call[x].pc \in {"idle", "look", "bind", "static", "sent", "done"}
           /\ call[x].result \in {None, "ok", "body", "no_content", "error"}
           /\ call[x].pc = "bind" => call[x].op # None
           /\ call[x].pc \in {"look", "static"} => call[x].op = None /\ call[x].adapter
           /\ sent[x] # <<>> => call[x].pc \in {"sent", "done"}

(* A tool call is one REST request at most, and a failure of the backend is not tried *)
(* again by the other path (adapter.go:58-62, tools/dynamic.go:38-51).  (With it, the  *)
(* type invariant.)                                                                    *)
OneRequest ==
    /\ TypeOK
    /\ \A x \in Calls :
        /\ Len(sent[x]) <= 1
        /\ call[x].pc = "done" /\ call[x].reply = "failed" => call[x].result = "error" /\ Len(sent[x]) = 1

(* A value of a parameter as the backend should get it: a text as it is, the whole      *)
(* number of an integer exactly, any number exactly when a float64 has it and otherwise  *)
(* as none nearer is.                                                                     *)
Keeps(v, type, got) ==
    IF v.type # "number" THEN got = [text |-> v.text]
    ELSE /\ DOMAIN got = {"number"}
         /\ type = "integer" \/ v.halves \in Doubles => got.number = v.halves
         /\ \A d \in Doubles : Distance(v.halves, got.number) <= Distance(v.halves, d)

(* A request by the contract says what the caller said: each argument that has a value  *)
(* reaches the backend with as many values as it was given, each of them the one it was  *)
(* given as nearly as its parameter's type can say it; nothing else does, and no variable *)
(* of the path is left out (bind.go:48-160).                                              *)
BackendReadsTheArguments ==
    \A x \in Calls : \A i \in DOMAIN sent[x] :
        LET r == sent[x][i]
            args == call[x].args
        IN  r.op # None =>
                /\ DOMAIN r.values = {n \in DOMAIN args : args[n] # None /\ Items(args[n]) # <<>>}
                /\ \A n \in DOMAIN r.values :
                       /\ DOMAIN r.values[n] = DOMAIN Items(args[n])
                       /\ \E p \in r.op.params :
                              /\ p.name = n
                              /\ \A j \in DOMAIN r.values[n] :
                                     Keeps(Items(args[n])[j], Type(args[n], p), r.values[n][j])
                /\ \A p \in r.op.params :
                       p.in = "path" \/ (p.required /\ p.items = None) => p.name \in DOMAIN r.values

(* However the contract changes under a call, a request goes to the operation that was *)
(* looked at, and that one was fit to be run: no blocked one, no other method           *)
(* (adapter.go:40-52, executor.go:110-114).                                             *)
OnlyRunnableIsRun ==
    \A x \in Calls : \A i \in DOMAIN sent[x] :
        sent[x][i].op # None =>
            /\ sent[x][i].op = call[x].op
            /\ sent[x][i].op.exposure # "BLOCKED" /\ Runnable(sent[x][i].op)
=============================================================================

--------------------------- MODULE DynamicRuntime ---------------------------
(***************************************************************************)
(* Replacing the dynamic tools of a running server                         *)
(* (internal/dynamic/runtime.go, register.go, executor.go, and the         *)
(* contract loader internal/openapi/loader.go).                            *)
(*                                                                         *)
(* Runtime.mu serialises Bind, Install and Refresh, and Refresh holds it   *)
(* across the backend request; op is what its holder is doing.  The steps  *)
(* of a replacement that others can see one by one are actions of their    *)
(* own: tools/call takes no lock at all, and tools/list takes listGate for *)
(* reading.                                                                *)
(***************************************************************************)
EXTENDS Naturals, FiniteSets

CONSTANTS
    Contracts,     \* contract documents the backend may serve
    Good,          \* those Parse and Build accept
    Names,         \* tool names
    Reserved,      \* names of static tools
    Defs, Binds,   \* values of Tool.definitionKey and Tool.bindingKey
    Offered,       \* Offered[c][n]: the tool contract c exposes as n, or None
    ETag, NoETag,  \* ETag[c], NoETag when the header is absent or malformed
    Unregistrable, \* definitions AddTool rejects although precheck passed them
    Copies,        \* numbers of the toolSlot objects that one name may have at a time
    Calls, Clients,
    NoLoader,      \* in place of a contract: the runtime has no loader
    None

Tool == [def : Defs, bind : Binds]

(* toolSlot objects, known by the name they were made for. *)
Slots == Names \X Copies

ASSUME ContractAssumption ==
    /\ Good \subseteq Contracts
    /\ Offered \in [Contracts -> [Names -> Tool \cup {None}]]
    /\ None \notin Tool \cup Contracts \cup Defs \cup Slots
    /\ None \notin [def : Defs, slot : Slots]
    /\ None \notin [Names -> Defs \cup {None}]
    /\ NoLoader \notin Contracts \cup {None}

(* Memory does not run out of slot objects: a name can have one more than   *)
(* its registration and every call under way refer to.                      *)
ASSUME CopiesAssumption ==
    /\ IsFiniteSet(Calls) /\ IsFiniteSet(Copies)
    /\ Cardinality(Copies) > Cardinality(Calls) + 1

(* The backend never gives two different documents one ETag. *)
ASSUME ETagAssumption ==
    \A c, d \in Contracts : ETag[c] = ETag[d] /\ ETag[c] # NoETag => c = d

VARIABLES
    served,      \* the document the backend serves at present, None while it is out of reach
    contract,    \* Loader.current, or NoLoader where registries are only installed
    current,     \* Runtime.current, as the contract it was built from
    bound,       \* Runtime.server is set
    registered,  \* the server's dynamic tools: the definition clients see and the slot
                 \* behind it.  Runtime.published names the same slots.
    slot,        \* slot[s]: toolSlot.tool
    op,          \* the holder of Runtime.mu
    client,      \* client[k]: a tools/list of client k, and the list it received last
    dirty,       \* the SDK's debounced list_changed is pending
    notice,      \* clients with a list_changed they have not acted upon
    call         \* call[x]: a tools/call

serverVars == <<registered, slot>>
clientVars == <<client, dirty, notice>>
vars == <<served, contract, current, bound, registered, slot, op, client, dirty, notice, call>>

Registration == [def : Defs, slot : Slots]
List == [Names -> Defs \cup {None}]

Free == [pc |-> "free", next |-> None, todo |-> {}, before |-> None]
IdleCall == [pc |-> "idle", def |-> None, slot |-> None, tool |-> None]

(* op.before is a history variable: the list just before the swap.  Only an *)
(* accepted contract is ever applied.                                       *)
TypeOK ==
    /\ served \in Contracts \cup {None}
    /\ contract \in Contracts \cup {None, NoLoader}
    /\ current \in Contracts \cup {None}
    /\ bound \in BOOLEAN
    /\ registered \in [Names -> Registration \cup {None}]
    /\ slot \in [Slots -> Tool \cup {None}]
    /\ op \in [pc : {"free", "fetching", "answered", "rebind", "gate", "swap", "commit"},
               next : Contracts \cup {None}, todo : SUBSET Names, before : List \cup {None}]
    /\ op.pc \in {"rebind", "gate", "swap", "commit"} => op.next \in Good
    /\ client \in [Clients -> [pc : {"idle", "listing"}, seen : List \cup {None}]]
    /\ dirty \in BOOLEAN /\ notice \subseteq Clients
    /\ call \in [Calls -> [pc : {"idle", "validated", "running"}, def : Defs \cup {None},
                           slot : Slots \cup {None}, tool : Tool \cup {None}]]

Init ==
    /\ \/ contract = None /\ served \in Contracts \cup {None}
       \/ contract = NoLoader /\ served = None
    /\ current = None /\ bound = FALSE
    /\ registered = [n \in Names |-> None]
    /\ slot = [s \in Slots |-> None]
    /\ op = Free
    /\ client = [k \in Clients |-> [pc |-> "idle", seen |-> None]]
    /\ dirty = FALSE /\ notice = Clients
    /\ call = [x \in Calls |-> IdleCall]

-----------------------------------------------------------------------------
(* What a contract asks for, and how it differs from what is registered. *)

(* The exposed tools, static names refused once more at the registration. *)
Desired(c) == [n \in Names |-> IF n \in Reserved THEN None ELSE Offered[c][n]]

LiveTool(n) == IF registered[n] = None THEN None ELSE slot[registered[n].slot]

HasLoader == contract # NoLoader

DefOf(tool) == IF tool = None THEN None ELSE tool.def
DefsOf(tools) == [n \in Names |-> DefOf(tools[n])]
Listed == [n \in Names |-> IF registered[n] = None THEN None ELSE registered[n].def]

Added(c) == {n \in Names : registered[n] = None /\ Desired(c)[n] # None}
Removed(c) == {n \in Names : registered[n] # None /\ Desired(c)[n] = None}
Unchanged(c) == {n \in Names : /\ registered[n] # None /\ Desired(c)[n] # None
                               /\ LiveTool(n).def = Desired(c)[n].def}
Changed(c) == {n \in Names : registered[n] # None /\ Desired(c)[n] # None} \ Unchanged(c)
ToolSetChanged(c) == Added(c) \cup Removed(c) \cup Changed(c) # {}

(* A slot nobody refers to is garbage; a new tool never gets one in use. *)
Referenced(reg, calls) == {reg[n].slot : n \in {m \in Names : reg[m] # None}}
                          \cup {calls[x].slot : x \in Calls}
Collect(slots, reg, calls) ==
    [s \in Slots |-> IF s \in Referenced(reg, calls) THEN slots[s] ELSE None]
NewSlot(n) == CHOOSE s \in {n} \X Copies : s \notin Referenced(registered, call)

-----------------------------------------------------------------------------
(* Refresh, up to the acceptance of a document *)

RefreshBegin ==
    /\ HasLoader /\ op.pc = "free"
    /\ op' = [Free EXCEPT !.pc = "fetching"]
    /\ UNCHANGED <<served, contract, current, bound, serverVars, clientVars, call>>

(* The request carries the ETag of the loader's contract.  A failure, or a *)
(* 304, ends the refresh with everything as it was.                        *)
FetchReturns ==
    /\ op.pc = "fetching"
    /\ LET etag == IF contract = None THEN NoETag ELSE ETag[contract] IN
       \/ served = None /\ op' = Free
       \/ served # None /\ etag # NoETag /\ ETag[served] = etag /\ op' = Free
       \/ served # None /\ (etag = NoETag \/ ETag[served] # etag)
          /\ op' = [op EXCEPT !.pc = "answered", !.next = served]
    /\ UNCHANGED <<served, contract, current, bound, serverVars, clientVars, call>>

(* apply: without a server the registry is only kept for Bind. *)
Apply(c, isBound) ==
    IF isBound
    THEN op' = [Free EXCEPT !.pc = "rebind", !.next = c, !.todo = Unchanged(c)] /\ UNCHANGED current
    ELSE op' = Free /\ current' = c

(* Mutated form: the loader keeps a document (and its ETag) before the *)
(* registry could be built from it.                                    *)
AcceptCommitsFirst ==
    /\ op.pc = "answered"
    /\ contract' = op.next
    /\ IF op.next \in Good THEN Apply(op.next, bound) ELSE op' = Free /\ UNCHANGED current
    /\ UNCHANGED <<served, bound, serverVars, clientVars, call>>

(* Parse and Build; the loader keeps the contract only when both succeed. *)
Accept ==
    /\ op.pc = "answered"
    /\ \/ op.next \notin Good /\ op' = Free /\ UNCHANGED <<contract, current>>
       \/ op.next \in Good /\ contract' = op.next /\ Apply(op.next, bound)
    /\ UNCHANGED <<served, bound, serverVars, clientVars, call>>

(* Bind attaches the server, once, and registers what was loaded before. *)
Bind ==
    /\ op.pc = "free" /\ ~bound
    /\ bound' = TRUE
    /\ IF current = None THEN UNCHANGED <<op, current>> ELSE Apply(current, TRUE)
    /\ UNCHANGED <<served, contract, serverVars, clientVars, call>>

(* Install replaces the registry without a loader. *)
Install(c) ==
    /\ ~HasLoader /\ op.pc = "free" /\ c \in Good
    /\ Apply(c, bound)
    /\ UNCHANGED <<served, contract, bound, serverVars, clientVars, call>>

-----------------------------------------------------------------------------
(* apply *)

(* A tool whose definition stays gets the new binding in its slot. *)
Rebind(n) ==
    /\ op.pc = "rebind" /\ n \in op.todo
    /\ slot' = [slot EXCEPT ![registered[n].slot] = Desired(op.next)[n]]
    /\ op' = [op EXCEPT !.todo = @ \ {n}]
    /\ UNCHANGED <<served, contract, current, bound, registered, clientVars, call>>

(* With no difference to show the lists, nothing is locked or announced. *)
RebindDone ==
    /\ op.pc = "rebind" /\ op.todo = {}
    /\ \/ ToolSetChanged(op.next) /\ op' = [op EXCEPT !.pc = "gate"] /\ UNCHANGED current
       \/ ~ToolSetChanged(op.next) /\ op' = Free /\ current' = op.next
    /\ UNCHANGED <<served, contract, bound, serverVars, clientVars, call>>

Listing == {k \in Clients : client[k].pc = "listing"}

(* Mutated form: the writer does not wait for the lists in progress. *)
GateLockEager ==
    /\ op.pc = "gate"
    /\ op' = [op EXCEPT !.pc = "swap", !.todo = Added(op.next) \cup Changed(op.next), !.before = Listed]
    /\ UNCHANGED <<served, contract, current, bound, serverVars, clientVars, call>>

(* listGate.Lock: the lists in progress have finished. *)
GateLock ==
    /\ op.pc = "gate" /\ Listing = {}
    /\ op' = [op EXCEPT !.pc = "swap", !.todo = Added(op.next) \cup Changed(op.next), !.before = Listed]
    /\ UNCHANGED <<served, contract, current, bound, serverVars, clientVars, call>>

(* Mutated form: a changed tool keeps the slot it had. *)
AddInPlace(n) ==
    /\ op.pc = "swap" /\ n \in op.todo
    /\ LET tool == Desired(op.next)[n] IN
       LET s == IF registered[n] = None THEN NewSlot(n) ELSE registered[n].slot IN
          /\ registered' = [registered EXCEPT ![n] = [def |-> tool.def, slot |-> s]]
          /\ slot' = [slot EXCEPT ![s] = tool]
    /\ dirty' = TRUE
    /\ op' = [op EXCEPT !.todo = @ \ {n}]
    /\ UNCHANGED <<served, contract, current, bound, client, notice, call>>

(* A new or redefined tool is registered with a slot of its own.  If AddTool *)
(* panics, what was registered under the name stays.                         *)
Add(n) ==
    /\ op.pc = "swap" /\ n \in op.todo
    /\ LET tool == Desired(op.next)[n] IN
       \/ /\ tool.def \in Unregistrable
          /\ UNCHANGED <<serverVars, dirty>>
       \/ /\ tool.def \notin Unregistrable
          /\ registered' = [registered EXCEPT ![n] = [def |-> tool.def, slot |-> NewSlot(n)]]
          /\ slot' = Collect([slot EXCEPT ![NewSlot(n)] = tool], registered', call)
          /\ dirty' = TRUE
    /\ op' = [op EXCEPT !.todo = @ \ {n}]
    /\ UNCHANGED <<served, contract, current, bound, client, notice, call>>

(* RemoveTools takes all the removed names at once. *)
Remove ==
    /\ op.pc = "swap" /\ op.todo = {}
    /\ registered' = [n \in Names |-> IF n \in Removed(op.next) THEN None ELSE registered[n]]
    /\ slot' = Collect(slot, registered', call)
    /\ dirty' = (dirty \/ Removed(op.next) # {})
    /\ op' = [op EXCEPT !.pc = "commit"]
    /\ UNCHANGED <<served, contract, current, bound, client, notice, call>>

(* current.Store, and the gate and the mutex are released. *)
Commit ==
    /\ op.pc = "commit"
    /\ current' = op.next /\ op' = Free
    /\ UNCHANGED <<served, contract, bound, serverVars, clientVars, call>>

-----------------------------------------------------------------------------
(* tools/list: the middleware holds listGate for reading.  A waiting writer *)
(* keeps new readers out, as sync.RWMutex does.                             *)

(* Mutated form: readers are preferred to a waiting writer. *)
ListBeginGreedy(k) ==
    /\ bound /\ client[k].pc = "idle"
    /\ op.pc \notin {"swap", "commit"}
    /\ client' = [client EXCEPT ![k].pc = "listing"]
    /\ notice' = notice \ {k}
    /\ UNCHANGED <<served, contract, current, bound, serverVars, op, dirty, call>>

ListBegin(k) ==
    /\ bound /\ client[k].pc = "idle"
    /\ op.pc \notin {"gate", "swap", "commit"}
    /\ client' = [client EXCEPT ![k].pc = "listing"]
    /\ notice' = notice \ {k}
    /\ UNCHANGED <<served, contract, current, bound, serverVars, op, dirty, call>>

ListEnd(k) ==
    /\ client[k].pc = "listing"
    /\ client' = [client EXCEPT ![k] = [pc |-> "idle", seen |-> Listed]]
    /\ UNCHANGED <<served, contract, current, bound, serverVars, op, dirty, notice, call>>

(* The SDK sends one list_changed for the changes of the last 10 ms. *)
Notify ==
    /\ dirty
    /\ dirty' = FALSE /\ notice' = Clients
    /\ UNCHANGED <<served, contract, current, bound, serverVars, op, client, call>>

-----------------------------------------------------------------------------
(* tools/call: the SDK finds the registration and validates the arguments by *)
(* its schema; only then the handler loads the slot, once.                   *)

CallLookup(x, n) ==
    /\ call[x].pc = "idle" /\ registered[n] # None
    /\ call' = [call EXCEPT ![x] = [pc |-> "validated", def |-> registered[n].def,
                                    slot |-> registered[n].slot, tool |-> None]]
    /\ UNCHANGED <<served, contract, current, bound, serverVars, op, clientVars>>

CallLoad(x) ==
    /\ call[x].pc = "validated"
    /\ call' = [call EXCEPT ![x] = [@ EXCEPT !.pc = "running", !.slot = None, !.tool = slot[call[x].slot]]]
    /\ slot' = Collect(slot, registered, call')
    /\ UNCHANGED <<served, contract, current, bound, registered, op, clientVars>>

CallReturn(x) ==
    /\ call[x].pc = "running"
    /\ call' = [call EXCEPT ![x] = IdleCall]
    /\ UNCHANGED <<served, contract, current, bound, serverVars, op, clientVars>>

-----------------------------------------------------------------------------
(* The backend is deployed with another contract, goes down or comes back. *)
Deploy(c) ==
    /\ HasLoader /\ served # c /\ served' = c
    /\ UNCHANGED <<contract, current, bound, serverVars, op, clientVars, call>>

Runtime == \/ RefreshBegin \/ FetchReturns \/ Accept \/ Bind
           \/ \E c \in Contracts : Install(c)
           \/ \E n \in Names : Rebind(n) \/ Add(n)
           \/ RebindDone \/ GateLock \/ Remove \/ Commit
Listen(k) == ListBegin(k) \/ ListEnd(k)
Request(x) == (\E n \in Names : CallLookup(x, n)) \/ CallLoad(x) \/ CallReturn(x)

Next ==
    \/ Runtime \/ Notify
    \/ \E k \in Clients : Listen(k)
    \/ \E x \in Calls : Request(x)
    \/ \E c \in Contracts \cup {None} : Deploy(c)

Spec == Init /\ [][Next]_vars

(* Run starts a refresh whenever its timer has fired, the client's timeout *)
(* ends every fetch, the mutex is handed to a waiting Bind in the end, the *)
(* debounce timer fires, and a client lists when it has been notified.     *)
Fairness ==
    /\ WF_vars(Runtime) /\ SF_vars(Bind) /\ WF_vars(Notify)
    /\ \A k \in Clients : WF_vars(k \in notice /\ ListBegin(k)) /\ WF_vars(ListEnd(k))

FairSpec == Spec /\ Fairness

-----------------------------------------------------------------------------
(* Properties *)

(* Between two replacements the server offers exactly the tools of the       *)
(* registry in service, bindings included, except for those AddTool          *)
(* rejected; and the ETag the next request will send is that registry's, so  *)
(* that a 304 never confirms a contract that is not in service.  (With it,    *)
(* the type invariant.)                                                       *)
SettledMatches ==
    /\ TypeOK
    /\ op.pc = "free" =>
        /\ HasLoader => contract = current
        /\ bound /\ current # None =>
             \A n \in Names : LET tool == Desired(current)[n] IN
                LiveTool(n) = tool \/ (tool # None /\ tool.def \in Unregistrable)

(* Whatever replacement runs between the SDK's validation of a call and the  *)
(* handler's read of the slot, the call runs a tool with the definition its  *)
(* arguments were validated against.                                         *)
CallRunsWhatItValidated ==
    \A x \in Calls : call[x].pc = "running" => call[x].tool # None /\ call[x].tool.def = call[x].def

(* The list clients are held to: while the gate is locked, that of before. *)
Visible == IF op.pc \in {"swap", "commit"} THEN op.before ELSE Listed

(* The names under which AddTool never has to register what it rejects. *)
Regular == {n \in Names : \A c \in Good : DefOf(Desired(c)[n]) \notin Unregistrable}
Rows(list) == IF list = None THEN None ELSE [n \in Regular |-> list[n]]

Catalog == INSTANCE AtomicCatalog WITH
    Catalogs <- {Rows(DefsOf(Desired(c))) : c \in Good},
    Nothing  <- [n \in Regular |-> None],
    visible  <- Rows(Visible),
    seen     <- [k \in Clients |-> Rows(client[k].seen)]

(* To the clients of tools/list every replacement is atomic, but for names   *)
(* under which AddTool rejects a tool.                                       *)
ListsAreWhole == Catalog!Spec

(* Once the backend answers and keeps serving one good contract, every       *)
(* connected client ends up with that contract's list: neither an outage,    *)
(* nor a broken document in between, nor a stream of other clients' lists    *)
(* leaves it behind.                                                         *)
ClientsCatchUp ==
    \A c \in Good : \A k \in Clients :
        <>[](HasLoader /\ served = c) => <>[](Rows(client[k].seen) = Rows(DefsOf(Desired(c))))
=============================================================================

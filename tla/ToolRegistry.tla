---------------------------- MODULE ToolRegistry ----------------------------
(***************************************************************************)
(* From a contract to the tools of a server (internal/dynamic/registry.go, *)
(* compiler.go, exposure.go, register.go): compiling the candidates,       *)
(* placing them by the exposure policy, and registering them with the      *)
(* default server and with the comparison server.                          *)
(***************************************************************************)
EXTENDS ContractParser

CONSTANTS
    ToolName,      \* ToolName[id]: the snake_case name of an operation ID, None if too long
    Sensitive,     \* parameter names that look like credentials
    Unregistrable, \* operation IDs whose tool the SDK refuses (schema, precheck)
    Policy,        \* exposurePolicy: ID -> [exposure, path, params]
    Selection,     \* Options.Operations
    StaticNames    \* Options.StaticToolNames, and what Bind reserves

PolicyAssumption ==
    \A id \in DOMAIN Policy :
        /\ DOMAIN Policy[id] = {"exposure", "path", "params"}
        /\ Policy[id].exposure \in {"SAFE", "SHADOW", "BLOCKED"}

VARIABLES
    entries,       \* Registry.entries
    skipped,       \* operations Build itself skipped
    stats,         \* Registry.stats
    published,     \* dynamic tools of the default server
    comparison     \* tools of the comparison server

registryVars == <<entries, skipped, stats, published, comparison>>
vars == <<parserVars, registryVars>>

NoStats == [selected |-> 0, exposed |-> 0, shadow |-> 0, blocked |-> 0,
            staticConflicts |-> 0, registrable |-> 0, skipped |-> 0]

Init ==
    /\ ParserInit
    /\ entries = {} /\ skipped = {} /\ stats = NoStats
    /\ published = {} /\ comparison = {}

-----------------------------------------------------------------------------
(* Compile and precheck. *)
Compiles(op) ==
    /\ op.method = "GET"
    /\ ~op.body /\ op.json
    /\ ToolName[op.id] # None
    /\ \A p \in op.params : p.name \notin Sensitive
    /\ op.id \notin Unregistrable

Compiled == {op \in MCPOperations : Compiles(op)}

(* Tools of one name are all left out: there is no telling which is meant. *)
Ambiguous(ops) == {op \in ops : \E other \in ops \ {op} : ToolName[other.id] = ToolName[op.id]}

-----------------------------------------------------------------------------
(* Exposure. *)

Shadow == [exposure |-> "SHADOW", path |-> None, params |-> {}]

(* Mutated form: only the path is compared with the reviewed one. *)
reviewedForPath(rule, op) == op.method = "GET" /\ op.path = rule.path
reviewedFor(rule, op) ==
    /\ op.method = "GET" /\ op.path = rule.path
    /\ {Key(p) : p \in op.params} = rule.params

ClassifyExposure(op) ==
    IF op.id \notin DOMAIN Policy THEN Shadow
    ELSE IF Policy[op.id].exposure = "SAFE" /\ ~reviewedFor(Policy[op.id], op) THEN Shadow
    ELSE Policy[op.id]

(* The most restrictive reason wins. *)
placementFor(exposure, conflict) ==
    IF exposure = "BLOCKED" THEN "blocked"
    ELSE IF conflict \/ exposure # "SAFE" THEN "shadow"
    ELSE "exposed"

Entry(op) ==
    LET conflict == ToolName[op.id] \in StaticNames
        exposure == ClassifyExposure(op).exposure
    IN  [name |-> ToolName[op.id], op |-> op, exposure |-> exposure, staticConflict |-> conflict,
         placement |-> IF op.id \in Selection THEN placementFor(exposure, conflict) ELSE "not_selected"]

Placed(es, placements) == {e \in es : e.placement \in placements}

-----------------------------------------------------------------------------
(* Build: every part of the registry from one contract. *)
Build ==
    /\ outcome = "parsed"
    /\ entries' = {Entry(op) : op \in Compiled \ Ambiguous(Compiled)}
    /\ skipped' = (MCPOperations \ Compiled) \cup Ambiguous(Compiled)
    /\ stats' = [selected |-> Cardinality({e \in entries' : e.op.id \in Selection}),
                 exposed |-> Cardinality(Placed(entries', {"exposed"})),
                 shadow |-> Cardinality(Placed(entries', {"shadow"})),
                 blocked |-> Cardinality(Placed(entries', {"blocked"})),
                 staticConflicts |-> Cardinality({e \in entries' : e.staticConflict}),
                 registrable |-> Cardinality(entries'),
                 skipped |-> Cardinality(issues) + Cardinality(skipped')]
    /\ outcome' = "built"
    /\ UNCHANGED <<doc, at, discovered, declared, operations, issues, published, comparison>>

(* The default server: Runtime.Bind refuses the static names once more. *)
Bind ==
    /\ outcome = "built" /\ published = {}
    /\ published' = {e \in Placed(entries, {"exposed"}) : e.name \notin StaticNames}
    /\ published' # {}
    /\ UNCHANGED <<parserVars, entries, skipped, stats, comparison>>

(* NewDynamicComparison: registers Selected(), no name reserved; a tool whose name was *)
(* registered before it is refused.                                                    *)
Register ==
    /\ outcome = "built" /\ comparison = {}
    /\ comparison' = Placed(entries, {"exposed", "shadow"})
    /\ comparison' # {}
    /\ UNCHANGED <<parserVars, entries, skipped, stats, published>>

Next == (ParserNext /\ UNCHANGED registryVars) \/ Build \/ Bind \/ Register

Spec == Init /\ [][Next]_vars

-----------------------------------------------------------------------------
(* A tool is a GET with an exposure and a placement, and every counter fits the document. *)
TypeOK ==
    /\ ParserTypeOK
    /\ outcome \in {"reading", "rejected", "parsed", "built"}
    /\ \A e \in entries :
           /\ e.name # None /\ e.op \in operations /\ e.op.method = "GET"
           /\ e.exposure \in {"SAFE", "SHADOW", "BLOCKED"} /\ e.staticConflict \in BOOLEAN
           /\ e.placement \in {"exposed", "shadow", "blocked", "not_selected"}
    /\ skipped \subseteq operations
    /\ \A f \in DOMAIN stats \ {"skipped"} : stats[f] \in 0 .. declared
    /\ published \subseteq entries /\ comparison \subseteq entries

(* What the model sees without further notice was reviewed as it stands: a tool of *)
(* the default server is the only one of its name, static tools included, and the  *)
(* document now served declares it at the path and with the parameters the review  *)
(* saw.  The comparison server, too, has no blocked operation and one tool of a    *)
(* name (registry.go:177-186, register.go:33-53, exposure.go:55-68, 145-155).      *)
(* (With it, the type invariant.)                                                  *)
OnlyReviewedIsPublished ==
    /\ TypeOK
    /\ \A e \in comparison :
        /\ e.op.id \in DOMAIN Policy => Policy[e.op.id].exposure # "BLOCKED"
        /\ \A f \in comparison : e.name = f.name => e = f
    /\ \A e \in published :
        /\ e.name \notin StaticNames
        /\ e.op.id \in DOMAIN Policy /\ Policy[e.op.id].exposure = "SAFE"
        /\ Policy[e.op.id].path = e.op.path
        /\ Policy[e.op.id].params = {Key(p) : p \in e.op.params}

(* What the document declared for MCP is a tool, was skipped or was excluded with  *)
(* an issue, and each selected tool has one placement: the summary that operators  *)
(* compare with the document adds up (registry.go:83-173).                         *)
NothingIsLost ==
    /\ NothingVanishes
    /\ outcome = "built" =>
        /\ stats.selected = stats.exposed + stats.shadow + stats.blocked
        /\ declared <= stats.registrable + stats.skipped
        /\ stats.registrable + Cardinality(skipped) = Cardinality(MCPOperations)
=============================================================================

--------------------------- MODULE ContractParser ---------------------------
(***************************************************************************)
(* Reading an OpenAPI contract (internal/openapi/parser.go, schema.go and  *)
(* operation.go).  A defect of the document rejects it as a whole, a       *)
(* defect of one operation drops that operation and records an issue.      *)
(*                                                                         *)
(* A value of the wrong JSON shape is "odd".  Texts, tags and the wording  *)
(* of issues are left out; an issue is the operation it is about and what  *)
(* befell it.                                                              *)
(***************************************************************************)
EXTENDS Naturals, FiniteSets, Sequences, SequencesExt

CONSTANTS
    Documents,     \* contract bodies the backend may serve
    Template,      \* Template[path]: variables of a path, None if templateVars rejects it
    Components,    \* Components[kind][name]: what "#/components/kind/name" holds
    MaxRefDepth,
    None

httpMethods == {"GET", "PUT", "POST", "DELETE", "OPTIONS", "HEAD", "PATCH", "TRACE"}

(* The paths of a document are the keys of one object. *)
ParserAssumption ==
    /\ MaxRefDepth \in Nat \ {0}
    /\ \A p \in DOMAIN Template : Template[p] = None \/ IsFiniteSet(Template[p])
    /\ \A d \in Documents :
           /\ d.paths \in Seq(Range(d.paths))
           /\ \A i, j \in DOMAIN d.paths : d.paths[i].path = d.paths[j].path => i = j
           /\ \A i \in DOMAIN d.paths :
                  /\ d.paths[i].path \in DOMAIN Template
                  /\ d.paths[i].plain => DOMAIN d.paths[i].ops \subseteq httpMethods

VARIABLES
    doc,         \* the body being parsed
    at,          \* index of the next path item
    discovered,  \* Contract.Discovered
    declared,    \* Contract.MCPDeclared
    operations,  \* Contract.Operations
    issues,      \* Contract.Issues
    outcome      \* what Parse returns

parserVars == <<doc, at, discovered, declared, operations, issues, outcome>>

ReadableID(id) == id \notin {"", "Bad ID"}

ParserInit ==
    /\ doc \in Documents
    /\ at = 1 /\ discovered = 0 /\ declared = 0
    /\ operations = {} /\ issues = {}
    /\ outcome = "reading"

-----------------------------------------------------------------------------
(* References and schemas. *)

Broken == [broken |-> TRUE]

(* One $ref followed: what it names, overwritten by the siblings of the $ref. *)
Follow(value, kind) ==
    IF "ref" \notin DOMAIN value THEN value
    ELSE IF value.ref \notin DOMAIN Components[kind] THEN Broken
    ELSE LET target == Components[kind][value.ref]
             own == DOMAIN value \ {"ref"}
         IN  [f \in own \cup DOMAIN target |-> IF f \in own THEN value[f] ELSE target[f]]

deref(value, kind) ==
    LET last == FoldLeft(LAMBDA v, i : Follow(v, kind), value, [i \in 1 .. MaxRefDepth |-> i])
    IN  IF "ref" \in DOMAIN last THEN Broken ELSE last

Sound(value) == "broken" \notin DOMAIN value

scalarTypes == {"string", "integer", "number", "boolean"}

(* null: "no", "type" (a type list with "null"), "keyword" (nullable: true).  *)
(* OpenAPI 3.1 has no nullable.                                               *)
schemaType(s, legacy) ==
    /\ s.type \in scalarTypes \cup {"array"}
    /\ s.null = "keyword" => legacy

ScalarSchema(raw, legacy) ==
    LET s == deref(raw, "schemas")
    IN  Sound(s) /\ schemaType(s, legacy) /\ s.type \in scalarTypes /\ s.keywords = "known"

(* The keywords left are those of the allow list that fit the type, items     *)
(* among them: only an array has any, and it must.                            *)
paramSchema(raw, allowArray, legacy) ==
    \/ ScalarSchema(raw, legacy)
    \/ LET s == deref(raw, "schemas")
       IN  /\ Sound(s) /\ schemaType(s, legacy) /\ s.keywords = "known"
           /\ s.type = "array" /\ allowArray /\ s.null = "no"
           /\ s.items # None
           /\ ScalarSchema(s.items, legacy)
           /\ deref(s.items, "schemas").null = "no"

-----------------------------------------------------------------------------
(* Parameters. *)

parameter(raw) == deref(raw, "parameters")
Key(p) == <<p.in, p.name>>

(* plain: a readable explode, and no content, foreign style, allowReserved or *)
(* allowEmptyValue.                                                           *)
Supported(p, legacy) ==
    /\ Sound(p)
    /\ p.name # "bad name"
    /\ p.in \in {"path", "query"}
    /\ p.required # "odd"
    /\ p.in = "path" => p.required = "true"
    /\ p.plain
    /\ paramSchema(p.schema, p.in = "query", legacy)

Level(list) == [i \in DOMAIN list |-> parameter(list[i])]

LevelAccepted(list, legacy) ==
    LET ps == Level(list)
    IN  /\ \A i \in DOMAIN ps : Supported(ps[i], legacy)
        /\ \A i, j \in DOMAIN ps : i # j => Key(ps[i]) # Key(ps[j])

(* The operation's declaration of a parameter replaces the path item's. *)
Merged(item, op) ==
    LET upper == {Level(item.parameters)[i] : i \in DOMAIN item.parameters}
        own == {Level(op.parameters)[i] : i \in DOMAIN op.parameters}
    IN  {p \in upper : \A q \in own : Key(q) # Key(p)} \cup own

(* An argument has a name and no place.  Mutated form: places looked at level by level. *)
NamesDistinctByLevel(item, op) ==
    \A list \in {Level(item.parameters), Level(op.parameters)} :
        \A i, j \in DOMAIN list : list[i].name = list[j].name => list[i].in = list[j].in
NamesDistinct(item, op) ==
    \A p, q \in Merged(item, op) : p.name = q.name => p.in = q.in

parameters(item, op, legacy) ==
    /\ LevelAccepted(item.parameters, legacy)
    /\ LevelAccepted(op.parameters, legacy)
    /\ NamesDistinct(item, op)

PathNames(params) == {p.name : p \in {q \in params : q.in = "path"}}

requestBody(op) == op.body = None \/ Sound(deref(op.body, "requestBodies"))
responses(op) ==
    /\ op.responses # None
    /\ \A code \in DOMAIN op.responses : Sound(deref(op.responses[code], "responses"))

(* Is a candidate for exposure declared well? *)
validateCandidate(path, item, op) ==
    /\ ~item.servers /\ ~op.servers
    /\ Template[path] # None
    /\ parameters(item, op, doc.legacy)
    /\ Template[path] = PathNames(Merged(item, op))
    /\ requestBody(op) /\ responses(op)

-----------------------------------------------------------------------------
(* Walking the document. *)

Identified(op) == op.shape = "object" /\ ReadableID(op.id)
Candidate(op) == Identified(op) /\ op.flag = "true"

(* What the contract keeps of an operation; only candidates are read further. *)
Operation(path, method, item, op) ==
    [path |-> path, method |-> method, id |-> op.id, enabled |-> Candidate(op),
     params |-> IF Candidate(op) THEN Merged(item, op) ELSE {},
     body |-> Candidate(op) /\ op.body # None,
     json |-> /\ Candidate(op) /\ "200" \in DOMAIN op.responses
              /\ deref(op.responses["200"], "responses").json]

Kept(path, item, op) == Identified(op) /\ (Candidate(op) => validateCandidate(path, item, op))

(* An x-mcp-enabled that is absent or no Boolean is reported, not obeyed. *)
FlagOdd(path, item, op) == Kept(path, item, op) /\ op.flag \in {"absent", "odd"}

(* Parse gives up before any path: no JSON object, a version other than 3.0 or 3.1, *)
(* a first server other than "/", no paths.                                         *)
RejectDocument ==
    /\ outcome = "reading" /\ at = 1
    /\ ~doc.root \/ doc.server \notin {"/", "none"} \/ doc.paths = <<>>
    /\ outcome' = "rejected"
    /\ UNCHANGED <<doc, at, discovered, declared, operations, issues>>

Readable == doc.root /\ doc.server \in {"/", "none"}

(* pathItem and operation: every method of the next path item. *)
pathItem ==
    /\ outcome = "reading" /\ Readable /\ at \in 1 .. Len(doc.paths)
    /\ LET path == doc.paths[at].path
           item == doc.paths[at]
           ops == IF item.plain THEN item.ops ELSE << >>
           methods == DOMAIN ops
       IN  /\ discovered' = discovered + Cardinality(methods)
           /\ declared' = declared + Cardinality({mth \in methods : Candidate(ops[mth])})
           /\ operations' = operations \cup
                  {Operation(path, mth, item, ops[mth]) : mth \in {n \in methods : Kept(path, item, ops[n])}}
           /\ issues' = issues
                  \cup {<<path, mth, "excluded">> : mth \in {n \in methods : ~Kept(path, item, ops[n])}}
                  \cup {<<path, mth, "flag">> : mth \in {n \in methods : FlagOdd(path, item, ops[n])}}
                  \cup (IF item.plain THEN {} ELSE {<<path, None, "excluded">>})
    /\ at' = at + 1
    /\ UNCHANGED <<doc, outcome>>

(* dropDuplicates *)
Duplicates(ops) == {op \in ops : \E other \in ops \ {op} : other.id = op.id}
DuplicateIssues(ops) == {<<op.path, op.method, "duplicate">> : op \in Duplicates(ops)}

(* Dropping duplicates ends the walk; a contract without operations is refused. *)
Finish ==
    /\ outcome = "reading" /\ Readable
    /\ doc.paths # <<>> /\ at = Len(doc.paths) + 1
    /\ operations' = operations \ Duplicates(operations)
    /\ issues' = issues \cup DuplicateIssues(operations)
    /\ outcome' = IF operations' = {} THEN "rejected" ELSE "parsed"
    /\ UNCHANGED <<doc, at, discovered, declared>>

ParserNext == RejectDocument \/ pathItem \/ Finish

-----------------------------------------------------------------------------
(* What the contract promises its users. *)

Accepted == outcome \notin {"reading", "rejected"}
MCPOperations == {op \in operations : op.enabled}

ParserTypeOK ==
    /\ at \in 1 .. Len(doc.paths) + 1
    /\ discovered \in Nat /\ declared \in 0 .. discovered
    /\ \A op \in operations : op.path \in DOMAIN Template /\ op.method \in httpMethods
    /\ \A i \in issues : i[1] \in DOMAIN Template /\ i[2] \in httpMethods \cup {None}

(* No operation of the document disappears without a word: of those read so   *)
(* far each is either kept or reported (parser.go:97-104, 169-215, 436-451).  *)
NothingVanishes ==
    \A k \in 1 .. at - 1 : \A mth \in DOMAIN doc.paths[k].ops :
        doc.paths[k].plain =>
            \/ \E i \in issues : i[1] = doc.paths[k].path /\ i[2] = mth /\ i[3] # "flag"
            \/ \E op \in operations : op.path = doc.paths[k].path /\ op.method = mth

(* A candidate can be called by its ID and a flat list of named arguments: the ID   *)
(* of an accepted contract means one operation, whatever methods and paths repeat   *)
(* it; each variable of its path has exactly one parameter, which is required and   *)
(* never an array; and no name means two parameters, though path item and operation *)
(* declare them apart.                                                              *)
CandidatesAreCallable ==
    /\ Accepted => \A op, other \in operations : op.id = other.id => op = other
    /\ \A op \in MCPOperations :
        /\ PathNames(op.params) = Template[op.path]
        /\ \A p, q \in op.params : p.name = q.name => p = q
        /\ \A p \in op.params : p.in = "path" => p.required = "true"
=============================================================================

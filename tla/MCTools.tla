------------------------------- MODULE MCTools ------------------------------
(* What becomes of a contract and of the calls of its tools, in four parts that share   *)
(* no state: the parser and the registry of tools built from it; a call while contracts  *)
(* replace each other; the report that compares a dynamic tool with a static one; and    *)
(* the credentials calls carry in each mode of the server.  A behaviour is of one part,   *)
(* the others rest.                                                                      *)
EXTENDS Naturals, Sequences, TLC

CONSTANTS
    Members, Documents, Template, Components, MaxRefDepth, ToolName, Sensitive, Unregistrable,
    Policy, Selection, StaticNames,
    Contracts, Op, ArgSets, AdapterArgs, Doubles, TooLarge, Calls,
    Names, Operations, Fields, Properties, Values,
    Users, Sessions, LocalTokens, WebTokens, Requests, Shared, MaxCalls,
    None, u1, u2, s1, s2, r1, r2

VARIABLES
    part,
    doc, at, discovered, declared, operations, issues, outcome, entries, skipped, stats, published, comparison,
    current, call, sent,
    static, dynamic, classes,
    launch, server, failure, token, owner, local, web, req, wire, catalog

Registry == INSTANCE ToolRegistry
Calling == INSTANCE ContractCall
Report == INSTANCE CompatReport
Identity == INSTANCE CredentialFlow

ASSUME ToolsAssumption ==
    /\ Registry!ParserAssumption /\ Registry!PolicyAssumption
    /\ Calling!ContractCallAssumption /\ Identity!FlowAssumption
    /\ Members \subseteq {"registry", "calling", "report", "identity"}

registryVars ==
    <<doc, at, discovered, declared, operations, issues, outcome, entries, skipped, stats, published, comparison>>
callingVars == <<current, call, sent>>
reportVars == <<static, dynamic, classes>>
identityVars == <<launch, server, failure, token, owner, local, web, req, wire, catalog>>

IdentityRests ==
    /\ launch = None /\ server = "stopped" /\ failure = None /\ token = None
    /\ owner = [s \in Sessions |-> None] /\ local = [t \in LocalTokens |-> None] /\ web = [t \in WebTokens |-> None]
    /\ req = [r \in Requests |-> Identity!Idle] /\ wire = {} /\ catalog = None

Init ==
    /\ part \in Members
    /\ Registry!Init /\ (part # "registry" => doc.root /\ doc.paths = <<>>)
    /\ Calling!Init
    /\ IF part = "report" THEN Report!Init ELSE static = None /\ dynamic = None /\ classes = {}
    /\ IF part = "identity" THEN Identity!Init ELSE IdentityRests

Next ==
    /\ UNCHANGED part
    /\ \/ part = "registry" /\ Registry!Next /\ UNCHANGED <<callingVars, reportVars, identityVars>>
       \/ part = "calling" /\ Calling!Next /\ UNCHANGED <<registryVars, reportVars, identityVars>>
       \/ part = "report" /\ Report!Next /\ UNCHANGED <<registryVars, callingVars, identityVars>>
       \/ part = "identity" /\ Identity!Next /\ UNCHANGED <<registryVars, callingVars, reportVars>>

Spec == Init /\ [][Next]_<<part, registryVars, callingVars, reportVars, identityVars>>

(* Users, their sessions and requests are alike. *)
Symmetry == Permutations({u1, u2}) \cup Permutations({r1, r2}) \cup Permutations({s1, s2})

-----------------------------------------------------------------------------
(* Nothing the document declares disappears without a word, and what is kept as a      *)
(* candidate can be called (parser.go, registry.go:83-173).                             *)
NothingIsLost == Registry!NothingIsLost /\ Registry!CandidatesAreCallable

(* What the model sees was reviewed as it stands (exposure.go, register.go). *)
OnlyReviewedIsPublished == Registry!OnlyReviewedIsPublished

(* A call is one request at most, to the operation that was looked at and fit to be   *)
(* run, and says what the caller said (adapter.go, executor.go, bind.go).               *)
CallsSayWhatWasAsked ==
    /\ Calling!OneRequest /\ Calling!OnlyRunnableIsRun /\ Calling!BackendReadsTheArguments

(* What the report calls compatible can be swapped (compat.go). *)
CompatibleIsInterchangeable == Report!CompatibleIsInterchangeable

(* Who a caller is decides what the call may do and nothing else does: a call speaks    *)
(* for the user behind the bearer of its own request, and nobody is turned away whose    *)
(* bearer a store of the mode holds for the user the backend names, nor a core whose      *)
(* address the extension takes (client.go:178, store.go:109, app.go:154, origin.go:60).   *)
SpeaksForItsCaller ==
    Identity!SpeaksForItsCaller /\ Identity!RefusedForACause /\ Identity!OneVerdictOnHosts

(* The credentials of a request go out in no argument and come back in no answer        *)
(* (server.go:119, client.go).                                                           *)
CredentialsStayInside == Identity!CredentialsStayInside

-----------------------------------------------------------------------------
(* Documents of three paths: each declaration the parser tells apart is the *)
(* GET of one path, beside every way the other paths can repeat its ID.     *)
Dangling == [broken |-> TRUE] \* Registry!Broken
String == [type |-> "string", null |-> "no", keywords |-> "known", items |-> None]
Array(items, null) == [type |-> "array", null |-> null, keywords |-> "known", items |-> items]

Param(name, in) == [name |-> name, in |-> in, plain |-> TRUE, schema |-> String,
                    required |-> IF in = "path" THEN "true" ELSE "absent"]
Id == Param("id", "path")
Q == Param("q", "query")
With(p, schema) == [p EXCEPT !.schema = schema]

MCTemplate == [p \in {"/api/c", "/api/c/{id}", "/api/c{id}"} |->
                  CASE p = "/api/c" -> {} [] p = "/api/c/{id}" -> {"id"} [] OTHER -> None]

MCComponents ==
    [parameters |-> [q |-> Q, again |-> [ref |-> "q"], loop |-> [ref |-> "loop"]],
     schemas |-> [text |-> String],
     requestBodies |-> [item |-> [json |-> TRUE]],
     responses |-> [ok |-> [json |-> TRUE]]]

Fine == ("200" :> [ref |-> "ok"]) @@ ("204" :> [json |-> FALSE])
Get(id, flag, params) ==
    [shape |-> "object", id |-> id, flag |-> flag, servers |-> FALSE, parameters |-> params,
     body |-> None, responses |-> Fine]

Parameters ==
    {<<Q>>, <<Q, Q>>, <<Q, [ref |-> "q"]>>, <<[ref |-> "again"]>>, <<[ref |-> "loop"]>>,
     <<[ref |-> "none"]>>, <<[ref |-> "q", name |-> "r"]>>, <<Dangling>>,
     <<Param("token", "query")>>, <<Param("h", "header")>>, <<Param("bad name", "query")>>,
     <<Id>>, <<[Q EXCEPT !.required = "odd"]>>, <<[Q EXCEPT !.plain = FALSE]>>,
     <<With(Q, [String EXCEPT !.type = "object"])>>, <<With(Q, [String EXCEPT !.null = "keyword"])>>,
     <<With(Q, Array(String, "no"))>>, <<With(Q, Array(String, "type"))>>, <<With(Q, Array(None, "no"))>>,
     <<With(Q, Array([ref |-> "text"], "no"))>>, <<With(Q, [String EXCEPT !.keywords = "odd"])>>}

Ids == {"listAll", "getItem", "getITEM", "getSecret", "getGroups", "newOp", "longId", "", "Bad ID"}

ListDecls ==
    {Get(id, "true", <<>>) : id \in Ids}
    \cup {Get("listAll", flag, <<>>) : flag \in {"false", "absent", "odd"}}
    \cup {Get("listAll", "true", ps) : ps \in Parameters}
    \cup {[Get("listAll", "true", <<>>) EXCEPT !.body = b] : b \in {[ref |-> "item"], Dangling}}
    \cup {[Get("listAll", "true", <<>>) EXCEPT !.responses = r] :
              r \in {None, "200" :> Dangling, "204" :> [json |-> FALSE], "200" :> [json |-> FALSE]}}
    \cup {[Get("listAll", "true", <<>>) EXCEPT !.servers = TRUE], [shape |-> "other"]}

ItemDecls ==
    {Get(id, "true", <<>>) : id \in {"listAll", "getItem", "getITEM", "getSecret"}}
    \cup {Get("getItem", "true", ps) : ps \in {<<Id>>, <<Param("id", "query")>>, <<Id, Q>>}}
    \cup {Get("listAll", "absent", <<>>)}

Item(path, params, ops) == [path |-> path, plain |-> TRUE, servers |-> FALSE, parameters |-> params, ops |-> ops]

Posts == {<< >>, "POST" :> Get("listAll", "false", <<>>), "POST" :> Get("getItem", "true", <<>>)}

Lists == {Item("/api/c", <<>>, ("GET" :> d) @@ post) : d \in ListDecls, post \in Posts}
Items == {Item("/api/c/{id}", ps, "GET" :> d) : ps \in {<<>>, <<Id>>}, d \in ItemDecls}
Others == {Item("/api/c{id}", <<>>, "GET" :> Get("getItem", "true", <<Id>>)),
           [Item("/api/c{id}", <<>>, << >>) EXCEPT !.plain = FALSE],
           [Item("/api/c{id}", <<>>, "GET" :> Get("newOp", "true", <<>>)) EXCEPT !.servers = TRUE]}

Document(paths) == [root |-> TRUE, server |-> "none", legacy |-> FALSE, paths |-> paths]

MCDocuments ==
    {Document(<<l, i>>) : l \in Lists, i \in Items}
    \cup {Document(<<i, o>>) : i \in Items, o \in Others}
    \cup {[Document(<<l>>) EXCEPT !.legacy = TRUE, !.server = "/"] : l \in Lists}
    \cup {[Document(<<i>>) EXCEPT !.server = "http://other"] : i \in Items}
    \cup {[Document(<<>>) EXCEPT !.root = r] : r \in BOOLEAN}

MCToolName == [id \in Ids |-> CASE id = "listAll" -> "list_all" [] id \in {"getItem", "getITEM"} -> "get_item"
                                [] id = "getSecret" -> "get_secret" [] id = "getGroups" -> "get_groups"
                                [] id = "newOp" -> "new_op" [] OTHER -> None]
MCPolicy ==
    [id \in {"listAll", "getItem", "getSecret", "getGroups"} |->
        CASE id = "listAll" -> [exposure |-> "SAFE", path |-> "/api/c", params |-> {}]
          [] id = "getItem" -> [exposure |-> "SAFE", path |-> "/api/c/{id}", params |-> {<<"path", "id">>}]
          [] id = "getSecret" -> [exposure |-> "BLOCKED", path |-> None, params |-> {}]
          [] OTHER -> [exposure |-> "SHADOW", path |-> None, params |-> {}]]

-----------------------------------------------------------------------------
(* Contracts that keep, rename, move, block or drop the operation. *)
Parameter(name, in, type, required) ==
    [name |-> name, in |-> in, type |-> type, required |-> required, items |-> None, explode |-> FALSE]
ListOf(name, type, explode) ==
    [name |-> name, in |-> "query", type |-> "array", required |-> FALSE, items |-> type, explode |-> explode]

Operation(params) ==
    [method |-> "GET", enabled |-> TRUE, exposure |-> "SAFE", noContent |-> FALSE, params |-> params]

MCOp ==
    ("reviewed" :> Operation({Parameter("id", "path", "string", TRUE), ListOf("tag", "string", FALSE)}))
    @@ ("exploded" :> [Operation({Parameter("id", "path", "string", TRUE), ListOf("tag", "string", TRUE),
                                  Parameter("max", "query", "number", FALSE)})
                          EXCEPT !.exposure = "SHADOW", !.noContent = TRUE])
    @@ ("moved" :> [Operation({Parameter("id", "query", "string", TRUE), Parameter("max", "query", "integer", FALSE)})
                          EXCEPT !.noContent = TRUE])
    @@ ("bounded" :> Operation({Parameter("id", "query", "string", TRUE), Parameter("max", "query", "number", FALSE),
                                ListOf("sizes", "number", FALSE)}))
    @@ ("renamed" :> Operation({Parameter("cluster", "path", "string", TRUE)}))
    @@ ("blocked" :> [Operation({Parameter("id", "path", "string", TRUE)}) EXCEPT !.exposure = "BLOCKED"])
    @@ ("gone" :> None)

Str(text) == [type |-> "string", text |-> text]
Halves(n) == [type |-> "number", halves |-> n]
List(items) == [type |-> "list", items |-> items]

MCArgSets ==
    {None, << >>}
    \cup {"id" :> v : v \in {None, Str("a"), Str(" "), Str("a\n"), Str("a,b"), Halves(2), List(<<Str("a")>>)}}
    \cup {("id" :> Str("a")) @@ ("tag" :> v) :
              v \in {None, Str("a"), List(<<>>), List(<<Str("a"), Str("b")>>), List(<<Str("a,b")>>),
                     List(<<Halves(2)>>), List(<<None>>)}}
    \cup {("id" :> Str("a")) @@ ("max" :> v) : v \in {Halves(1), Halves(2), Halves(18), Halves(23), Halves(40), Str("1")}}
    \cup {("id" :> Str("a")) @@ ("sizes" :> List(<<Halves(1), v>>)) : v \in {Halves(23), Halves(40)}}
    \cup {("id" :> Str("a")) @@ ("other" :> Str("a")), ("id" :> Str("a")) @@ ("other" :> None)}

(* The numbers of a float of three bits, in halves: all of them up to 8, every second up *)
(* to 16, every fourth up to 32.  18 (nine) and 23 are none of them, 40 is beyond them.    *)
MCDoubles == (0 .. 8) \cup {10, 12, 14, 16, 20, 24, 28, 32}

MCAdapterArgs == "id" :> Str("a")

-----------------------------------------------------------------------------
(* Schemas and values of inputs. *)
MCProperties ==
    {p \in [type : {"string", "integer"}, enum : {None, {1}}, maximum : {None, 1}, description : {None, "text"}] :
        /\ p.type = "string" => p.maximum = None
        /\ p.description # None => p.enum = None}
MCValues == [type : {"string", "integer"}, n : {1, 2}]
=============================================================================

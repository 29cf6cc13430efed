# TLA+ models of the AbleOps Kafka MCP server

The program is an MCP server (Go) that gives a language model read-only access to an AbleOps
backend. It turns `tools/call` requests into bounded REST requests, authenticates every HTTP
request by a delegation or an enrolled credential that the backend confirms anew, and publishes
part of the backend's OpenAPI contract as additional tools while it runs.

This directory holds TLA+ models of its components, TLC configurations that check them on small
instances, and TLAPS proofs, for every value of the constants, of every safety property the passing runs
check. Paths below are relative to the source tree (`internal/...`, `cmd/...`). `PROJECT.json` maps every definition to its source lines, and lists
the runs, the hazards they are aimed at, and for each property a mutation of a definition that
breaks it (operators commented "Mutated form").

1. [The system](#1-the-system)
2. [Modules](#2-modules)
3. [Runs](#3-runs-bounds-and-what-they-show)
4. [Fairness](#4-fairness)
5. [Proofs](#5-proofs)
6. [Differences found](#6-differences-found)
7. [Not modelled](#7-not-modelled)
8. [Plan](#8-plan)

## 1. The system

Two transports reach the same tools. `cmd/ableops-kafka-mcp` serves stdio or HTTP by itself; the
package `extension` runs the HTTP server as a process of the AbleOps core ("managed"). A request over HTTP goes

    web backend -> /internal/delegations -> webdelegation.Issue -> backend session check
    MCP client  -> /mcp -> failure budget -> global slot -> Authenticate (webdelegation or
                   localauth, backend session check) -> rate -> user slot -> MCP SDK
                -> tools/list (dynamic middleware) or tools/call -> tool handler
                -> ableops REST client -> backend -> projection, cutting, envelope

and next to it `dynamic.Runtime` polls the backend's contract and replaces tools.

| Component | State | Operations | What is hard | What makes it correct |
|---|---|---|---|---|
| Delegation store `internal/webdelegation` | `entries` by token hash, with user, backend token, times; a mutex | `Issue`, `Authenticate`, `Len` | both call the backend between two locked sections and read the clock before the lock | limits hold under concurrency; a logout shows at the next request; expiry is exact; a refusal is final; an outage costs nobody a delegation |
| HTTP handler `internal/mcpserver/http.go`, `internal_delegation.go` | global slots, slots per user, two rate limiters | `ServeHTTP`, the delegation endpoint, release of slots | many early returns; checks and charges at different times | slots are exactly those of requests in service; failed logins are bounded; outages lock nobody out |
| Rate limiter `internal/mcpserver/ratelimit.go` | a map of token buckets of bounded size | `allow`, `permitted`, `penalize` | eviction gives an unknown key a full bucket | bounded; no key overspends; eviction of recovered keys goes unnoticed |
| Local credentials `internal/localauth`, `cmd/ableops-mcp-auth` | a JSON file, a lock file, token files | `Enroll`, `Revoke`, `Authenticate` | several processes, crashes between file operations, readers without a lock | the file is always readable; commands are atomic and leave no debris; a revocation holds |
| Application runtime, extension `internal/app`, `extension` | handler and secret, refresh loop, its cancel function and done channel | `Start`, `Stop`, `ServeHTTP`, `Close` | `Start` may return before the first load ends; fields written without a lock | `Close` waits for the loop and returns; handler and secret match |
| Dynamic runtime `internal/dynamic/runtime.go`, `register.go`, `internal/openapi/loader.go` | current registry, server, published slots, ETag, `listGate` | `Bind`, `Install`, `Refresh`, list and call middleware | replacement is many SDK calls while clients list and call | a list is one contract's; a call runs what it was validated for; a bad contract changes nothing; clients catch up |
| Contract parser `internal/openapi` | none (a function of the document) | `Parse` | a defect of an operation, of a reference or of the document have different effects | nothing vanishes unreported; candidates are callable |
| Registry `internal/dynamic/registry.go`, `compiler.go`, `exposure.go`, `naming.go` | entries, placements, summary | `Build`, `Exposed`, `Selected` | names collide, operations change after their review | only reviewed operations are published, one per name |
| Contract calls `internal/dynamic/bind.go`, `executor.go`, `adapter.go`, `internal/tools/dynamic.go` | none of their own | `Executor.Call`, `Adapter.Fetch` | the registry is replaced under the call; arguments become text | one request, to the operation looked at, with the arguments given, as exactly as a parameter's type can say them |
| REST client `internal/ableops/client.go`, `operation.go` | a semaphore of four slots; per operation a deadline and a request count | `BeginOperation`, `request` | concurrent requests of one budget; a slot granted as the deadline passes | slots exact; budget and deadline kept; every operation ends |
| Tools `internal/tools` | none | one handler per tool, `bound` | lists are cut in several places; parts fail separately, also with HTTP 200 | losses are told; `ok` means complete; the halving ends |
| Answer of a request `internal/mcpserver/http.go`, `proxy_guard.go` | response writer, audit code, the contexts of request and tool | checks, the SDK's transport through `safeHTTPWriter`, `AfterFunc`, audit | the transport writes in any order while a tool runs and the client may leave | a browser gets no delegation; errors say nothing; the audit tells the outcome; no call outlives its request |
| Process `cmd/ableops-kafka-mcp`, `serveHTTP`, `stdio.go` | listener, connections, the error channel, contexts | start, signal, shutdown with a limit, exit code | a failing listener, a signal and the limit race | a clean end cuts nobody off; a signal ends the process |
| Assembly and credentials `internal/app`, `requestctx`, `mcpserver/server.go`, `extension/config.go`, `origin.go` | one client and two stores shared by all requests; a principal in each context | assembly by mode, routing of bearers, choice of the token, filters of texts | every user is served through the same client; stored sessions change meaning | every call speaks for its caller; credentials stay inside; nobody is refused without a cause |
| REST operations `internal/ableops/*.go` | none | some fifty requests and their decoders | names in paths, and up to nine places with a status in one answer | an answer is about what was asked; its statuses are known; no raw failure text |
| Configuration `internal/config` | the file read key by key, the variables looked up | three loads: server, enroll, revoke | layers, and variables named in the file | each program reads its own variables; all mean one store; the last choice is in force |
| Compatibility report `internal/dynamic/compat.go` | none | `AssessCompatibility` | schemas are compared keyword by keyword | what is called compatible is interchangeable |

The backend, the file system's crash behaviour, the MCP SDK and the host of the extension are
external: what the code relies on is modelled from its use of them, and marked external in the
map.

## 2. Modules

The six components with a run of their own have an `MC<M>` that extends `M` with the values a cfg
cannot write (symmetry sets, functions, documents). The others share a run with those they belong to:

| Module | Parts |
|---|---|
| `MCServing` | `RuntimeLifecycle` (`Extension`), `ServerProcess` (`Process`), `HttpAnswer` (`Answer`) |
| `MCTools` | `ContractParser` and `ToolRegistry` (`Registry`), `ContractCall` (`Calling`), `CompatReport` (`Report`), `CredentialFlow` (`Identity`) |
| `MCAnswers` | `RestAnswers` (`Decoding`), `ToolOutcome` (`Joining`), `BoundedOutput` (`Fitting`) |
| `MCSettings` | `Config`, with two sets of inputs (`Secrets`, `Values`) |

Such a module is a sum, not a product: `part` says of which component a behaviour is, and the others
stay in a state where they can do nothing. The components of a sum share no variable in the code
either (what one needs of another is an input or an environment action of its own model), so that
interleaving them would show nothing more. Each property of a sum is the conjunction of those its
components state, and each conjunct stands in the component's module under a name of its own.
The assumptions on the constants of a component are restated as an `ASSUME` of the sum, where TLC
evaluates them. The proofs about the components of a sum are about the sum's own specification: those of
`MCServing` and of `MCSettings` in `MCServing_proofs`, those of `MCTools` in `MCTools_proofs`, those of
`MCAnswers` in `RestClient_proofs`. So that the latter two modules can extend two components each, `MCAnswers`
calls its variables, `Init`, `Next` and `Spec` by names of their own (`at`, `operation`, `AnswersSpec`) and
`MCSettings` its constants and specification (`Unset`, `SettingsSpec`).

### WebDelegation (with DelegationLifecycle, WebDelegation_proofs)

`internal/webdelegation/store.go`. `entries` is the store's map; a worker is the goroutine of one
request, and `op[w]` its local variables. `Issue` is `IssueBegin` (the form of the credential), the
backend's answer (`BackendAnswers`), `IssueVerified` (errors, user ID, drawing the token,
which may fail, reading the clock) and `IssueInsert` (all of the locked section: purge, both limits, insert).
`Authenticate` is `AuthBegin` (form, clock), `AuthLookup` (the locked section), `BackendAnswers`,
and `AuthRefused` or `AuthAccepted`. `CountEntries` is `Len`. `SessionChanges` is the backend:
logins, logouts, blocked accounts and tokens that name someone else. Time passes anywhere
(`Tick`), so a stale `now` is one of the interleavings. `ledger`, `tainted` and `live` are history
variables: every entry inserted; backend tokens ever taken from a user; the workers for whom the
session belonged to the delegation's user at some moment since the lookup.

Token hashes are abstracted to tokens; `crypto/rand` never repeats one. Errors are the three
classes the code treats differently.

`DelegationLifecycle` is the abstract promise: delegations are granted under both limits, retired,
and never come back. `ImplementsLifecycle` states the refinement, with `retired` defined from the
ledger.

### HttpGate (with HttpGate_proofs), TokenBucket, RateLimiter (with RateLimiter_proofs)

`HttpGate` follows `ServeHTTP` from the peer's failure budget to the last deferred release, one
action for each lock taken; `req[w].pc` names the place in the code. Both releases run in the
reverse order, also after a panic or a timeout of the transport, which is why `Served` has no
conditions. Headers, host, origin and body are refusals that take nothing (`Unguarded`, or the
exits of `Served`). `TokenBucket` is the arithmetic of the limiter in integers: a token is `Window`
units, a second restores `Limit` units. This is the code's floating-point arithmetic up to
rounding. `HttpGate` instantiates it twice; `RateLimiter` runs one limiter under any
sequence of operations beside a limiter that never forgets a key (`ideal`).

### LocalAuthStore (with CredentialRegistry, LocalAuthStore_proofs)

`internal/localauth/store.go` and the command-line tool. `cmd[p].pc` is the next file operation of
a command: session check, lock file (`O_EXCL`, no waiting), reading and checking, token file,
temporary file, the rename, the removal of the token file, unlock. Every operation may
fail, and `Crash` may kill the command before any of them. A reader is `Authenticate` in the
server: `Lstat`, open and compare, and the backend's check. `ClearLock` and `Discard` are the
administrator's repair as `docs/deployment.md` describes it. `CredentialRegistry` is the abstract
promise: whole enrolments and revocations, one after the other, and no token twice.

Revoked entries stay in the document and count towards `maxEntries`; `FullStoreServes`, a conjunct of
`StoreReadable`, says what a full store still does.

### DynamicRuntime (with AtomicCatalog, DynamicRuntime_proofs)

`internal/dynamic/runtime.go`, `register.go`, `executor.go`, `internal/openapi/loader.go`.
`Runtime.mu` is held by one of `Refresh`, `Install`, `Bind`; `op` is what its holder does next:
fetch, parse and build (`Accept`), write slots in place (`Rebind`), take `listGate`, register
(`Add`) and remove tools, store the registry. `registered` is the SDK's table: for each name the
definition clients see and the slot (`toolSlot`) the handler reads. A call finds its registration
(`CallLookup`) and reads the slot later (`CallLoad`), both without a lock. `Notify` is the SDK's
debounced `list_changed`. Slots are finitely many and collected when nobody refers to them, which
changes no behaviour: a new slot is always an unused one. A contract is `NoLoader` for servers that
only use `Install`; `served = None` is an unreachable backend.
`AtomicCatalog` is what clients see: one catalogue at a time, replaced as a whole. The mapping
shows the list from before the swap while the gate is held.

Two names are special, and the properties say so: static names are reserved, and a definition in
`Unregistrable` passes `precheck` and still panics in `AddTool`; what was registered under its name
stays, and so the list has a gap there that the code knows and logs.

### ContractParser, ToolRegistry

`ContractParser` is `Parse`: reject the document, or walk it path by path (`pathItem`), drop
defective operations with an issue each, then drop repeated IDs (`Finish`). References are
followed as in `deref`, with siblings winning and `MaxRefDepth` steps. `ToolRegistry` extends it
with `Build` (compile, drop ambiguous names, classify, place, count), registration with the default
server (`Bind`) and with the comparison server (`Register`). Documents are records that keep what
the code tells apart; `MCTools` builds about 2,150 of them, each a combination of one of
the declarations of a path with the ways another path can repeat its ID. Naming (`naming.go`) is the constant
`ToolName`, in which two IDs share a name and one has none.

### ContractCall

`bind`, `Executor.Call`, the dynamic tool handler and the promoted tools (`adapter.go`,
`internal/tools/dynamic.go`). `Replace` puts another registry in service at any moment. What the
backend reads of a query is part of the model (`Pieces`, `Reads`), because the property is about
it: a list that is not exploded is joined with commas and split at commas. A number is its size in halves:
an integer parameter takes any whole number and sends all its digits (`big.Rat`), a number parameter any that
`Float64` does not refuse, and sends the float64 next to it (`Nearest`). Which numbers a float64 has is the
constant `Doubles`; in the run a whole number and a fraction are among those it has not. Sign and spelling
(`1.0`, `1e3`) are left out. `BackendReadsTheArguments` does not use `Canonical`: it says of each value which
number may arrive (`Keeps`).

### RuntimeLifecycle

`internal/app/app.go` and `extension/extension.go`. A generation is a call of `Extension.Start` and
the runtime it assembles; `runtime`, `handler` and `secret` are the three fields of the extension, each set and
cleared under `mu`. A request reads two of them one after the other (`ReadHandler`, `ReadSecret`) under the
read lock, which is what keeps `Start` and `Stop` out (`Unlocked`); without it a request could leave with a
secret that its handler does not know. `Patient` says whether `Start` returns only after the first load, as in
the standalone program, or may give up after `initialRefreshWait`. `SetField` writes `stopRefresh`
and `refreshDone` without a lock, so a `Close` that is not ordered after them may see any subset
(`Seen`), a data race.

### RestClient (with RestClient_proofs)

`internal/ableops/client.go`, `operation.go`, `openapi.go`. An operation has a context and an
atomic count; its legs are goroutines that send one request after the other. `Grant` and `GiveUp`
are the two cases of the `select`, both possible when both are ready. `Send` looks at the context
once more. The backend answers in any way, or never.

### BoundedOutput, ToolOutcome

`BoundedOutput` is `bound` (`internal/tools/result.go`) with the cutting and the shrink function of
seven shapes of results. `room` stands for the two byte limits: how many items fit, -1 when the
envelope alone does not. The loop that keeps edges (`EdgesAmong`) is a recursive function, so that it can be
reasoned about. `ToolOutcome` is the order of requests, the status and the errors of
seventeen kinds of tools; an answer keeps the fields that a status depends on.

### HttpAnswer

One request over HTTP: `NewHTTPHandler` from the boundary checks (`Boundary`: Host, proxy headers,
peer) over the internal paths (`Internal`), origins and preflights (`Origin`, `Path`) and the guarded
part (`Guarded`) to the SDK's transport and the audit. `HttpGate` has the slots and rates; here they
are one more reason to refuse (`Limits`). `WriteHeader`, `Write` and `Header` are `safeHTTPWriter`;
the transport calls them in any order. The tool's context is joined to the request's by
`context.AfterFunc`, and a call may begin before or after the request ends. Headers are what the
checks tell apart: no origin, an empty one, a listed one, another one, several.

### ServerProcess

`run` (`cmd/ableops-kafka-mcp/main.go`), `RunHTTP` and `serveHTTP`, `RunStdio`. `main` is where `run`
is; the goroutine in `server.Serve` and the channel `stopped` of capacity one are variables of their
own. `shutdown` and `deadline` are `server.Shutdown` and its context. Connections and requests of
net/http, and the stdio session of the SDK, are external. The first load, which
`RuntimeLifecycle` models, is one step here.

### CredentialFlow

How one server is assembled (`Assemble`: `managedServerConfig`, `Config.Validate`, `NewWithOptions`
and the two builders of HTTP options), and then whose token every REST call carries. A request has
the principal of its context or none; `TokenOf` is the choice in `Client.request`, `Authenticate` the
routing of a bearer by mode and prefix, `Verify` `verifyBackend` with what the stores make of the
answer, `Payload` and `Guard` the filters of the HTTP handler and of the server's middleware,
`Inspected` the client's look at a body. The stores are functions from bearers to entries, since
`WebDelegation` and `LocalAuthStore` model them whole. `Logout` and `Rebind` are the backend: a session ends,
or names another user. A text is the one credential it holds; how a token is found in JSON (escapes,
keys, substrings) is abstracted to membership. `filed`, `answer` and `said` are history fields that
only the properties read.

### RestAnswers

The operations of `internal/ableops` as records: which arguments go into the path or the query, which
names the operation refuses, which fields of the answer it compares, and where its DTO holds a status
or a free text. `Init` chooses an operation, its names and an answer; `Decode` accepts or refuses as the
client and the operation do. A backend that reads the encoded path (as `docs/api-mapping.md` says of
chi's RawPath) answers about another name. `Returns` has, for each operation, the statuses the code validates
and the texts it replaces, as two tables of their own: that they fit together is what `NoRawFailureText` checks.
An item may name no cluster where the code lets that through (maintenance windows that hold for all). `MaxFaults` statuses of an answer may be bad at once.

### Config

`internal/config` and the flags: `ReadKey` reads the file one key at a time, `Getenv` looks up one variable
at a time, so that what a load has read is state (`looked`). `Backend`, `authStore`, `loadDynamic` and
`loadWebDelegation` are the steps of the three loads, in the code's order. Values are good, bad, blank
or empty in the ways the validators tell apart; paths keep the variable they expand and whether they are
absolute.

### CompatReport

`AssessCompatibility`: inputs, results, operations and declarations of a static tool against a dynamic
one. The reference is what a schema accepts (`Valid`), defined beside the property and used by it alone.

## 3. Runs, bounds, and what they show

All are exhaustive. "=" and "with" name the conjuncts of a property of a sum. The two runs that end in a
violation are explained in section 6.

| Run | Bounds, and why they suffice | Shows |
|---|---|---|
| `web_delegation` | 3 users, 2 tokens, 2 workers, TTL 1, clock 0..2, 2 entries in all, 1 per user. Two overlapping calls are the smallest race, and every step of a third call that a call can notice is a step of `entries` that the second can take. Two entries of two users meet the global limit, two of one user the limit per user; clock 1 is the instant of expiry of a delegation issued at 0, and clock 2 that of its successor. With two tokens the limit per user can be exceeded but the global one cannot, only met: that it holds for any number of tokens is `LimitsHold` (section 5), since a third token makes the run too long. One backend session that changes hands | `WithinLimits`, `ServedWasLive`, `ServedInTime`, `RefusedMeansGone`, `OutageKeepsDelegation`, `NobodyIsCrowdedOut`, and the refinement `ImplementsLifecycle` |
| `http_gate` | 3 requests for 2 global slots and 1 slot per user, 2 users, one peer with a budget of 2 failures and a recovery within the clock's range | `SlotsAccounted`, `FailuresBounded`, `OutageLocksNobodyOut` |
| `rate_limiter` | 3 keys for 2 buckets of 2 tokens over 4 instants with a window of 2: full, spent and recovered buckets, eviction of both sorts | `NeverOverspends`, `EvictionUnnoticed` |
| `local_auth_store` | 2 commands, 1 request, 2 clients and users, 1 session, 2 tokens, 2 output paths: a command can lose to another at every step, a client can be enrolled, revoked and enrolled again, a session can change hands; 2 entries fill the store, which must then still serve its clients | `StoreReadable`, `FilesAccounted`, `RevocationHolds`, and the refinement `ImplementsRegistry` |
| `dynamic_runtime` | two good contracts and a broken one, which redefine, rebind, drop and add tools, claim a static name and offer a tool `AddTool` rejects; one call, one client, with and without a loader. Calls and clients share nothing among themselves | `SettledMatches`, `CallRunsWhatItValidated`, the refinement `ListsAreWhole`, and, under fairness, `ClientsCatchUp` |
| `rest_client` | 2 operations of 2 goroutines for 2 slots and 3 requests each: every slot can be contended and every budget exceeded | `SlotsExact`, `SentInBounds`, and `OperationsEnd` |
| `serving` | extension: 2 generations, 2 requests, so that a request that has read the handler of the first may meet the secret of the second; `Start` waits for the load. Process: 2 connections, or 2 requests of a session, one that ends and one that does not. Answer: every combination of headers the checks tell apart, 2 writes of the transport with any status, so that header, text and flush come in each order, an error after a success and a success after an error | `CloseWaits`; `NobodyIsCutOff` = `SecretFits`, `CleanEndCutsNobody`, `SurvivorsAreCancelled`; `AnswersFitTheirReader` = `ServerToServerOnly`, `ErrorsSayNothing`, `AuditTellsTheOutcome`; `EveryEndComes` = `StopReturns`, `SignalEndsTheProcess`, `NothingOutlivesItsRequest` |
| `serving_early` | the same with `Patient = FALSE`, the extension only | violation of `CloseWaits`, section 6 |
| `tools` | registry: about 2,150 documents of up to two paths and two methods. Calling: seven contracts that keep, rename, move, block and drop one operation or give it parameters for numbers; 26 argument objects, with numbers a float64 has, has not and cannot hold, one call, since calls share nothing but the registry. Report: schemas over one name, two operations, keywords present and absent. Identity: 4 modes, 2 requests, 2 users, 2 sessions and the shared one, a local and a delegated token, one REST call per tool: two callers over one client, each text with any credential; 144 addresses of the core. Further calls of a tool use the same context | `NothingIsLost` with `CandidatesAreCallable`; `OnlyReviewedIsPublished`; `CallsSayWhatWasAsked` = `OneRequest`, `OnlyRunnableIsRun`, `BackendReadsTheArguments`; `CompatibleIsInterchangeable`; `SpeaksForItsCaller` with `RefusedForACause`, `OneVerdictOnHosts`; `CredentialsStayInside` |
| `answers` | decoding: names of five kinds for every operation, 2 bad statuses in an answer: one hides behind the other at most. Joining: seventeen kinds of tools, counters 0, 1, 2: none, some, all. Fitting: lists up to 5, limits up to 4, graphs up to 3 nodes and 2 edges: three halvings, odd and even lengths | `AnswersAreAboutTheTarget`, and `StatusesAreKnown` with `NoRawFailureText`, but for the places the MC module lists (`Unverified`, `Unchecked`; section 6); `StatusIsHonest` = `OkMeansComplete`, `HealthIsFair`, `DetailFollowsMain`; `LossIsTold` with `GraphIsWhole`; `BoundEnds` |
| `answers_storage` | the same with the two exemptions of section 3 only, decoding alone, 1 bad status | violation of `StatusesAreKnown`, section 6 |
| `settings` | secrets: files of up to 5 keys about secrets, paths and transports, in which one variable may serve as token, secret and part of a path, and every environment of the variables they name; 5 keys make delegation with a secret, a store and a token variable of their own. Values: files of up to 3 keys, every value of three layers | `ReadsItsOwnOnly` with `PathsHoldNoToken`; `ChoiceInForce` with `SameStore`, `Coherent` |

Each property is stated in words above its definition. Those worth a note:

- `FailuresBounded`: the budget of failures is looked at on arrival and charged after
  authentication, so it is not a strict limit. The model gives the bound that does hold: every token
  may be shared by all requests in flight.
- `EvictionUnnoticed` and `NeverOverspends` exclude keys that lost a depleted bucket because every
  bucket was depleted (`forced`): with the table full of active keys the code deliberately forgets
  the key unused for longest, and such a key starts again with a full bucket.
- `FilesAccounted` excludes what a killed command leaves (`orphans`, `stale`); a lock that stays
  behind is the documented behaviour.
- `ServedWasLive` allows a session that ends between the backend's answer and the response. No
  system without a transaction with the backend can do better.
- `SettledMatches` also says that the ETag to be sent belongs to the registry in service: a 304 is
  only ever an answer about that one.
- `StatusesAreKnown` and `AnswersAreAboutTheTarget` name their exceptions one by one. Two
  statuses, of the events of a list and of an issue, belong to a life cycle of their own and are passed on as they
  are; the others are findings.
- `RefusedForACause` says more than that a refusal follows from a look-up: the cause is told from what
  all the stores of the mode hold, not from the store the code asked.
- The type invariant of `WebDelegation` is not among the runs' properties: it is proved (section 5).
- `CHECK_DEADLOCK FALSE` is in the cfgs of `tools`, `answers`, `answers_storage` and `settings`, where a
  document, a call, an answer or a load comes to its end. In `serving` only a request that is done may
  stand still, which `MCServing!Next` says; a process that has exited stays so (`Gone`), and the
  extension answers requests even when stopped.
- Symmetry is used only in runs without liveness.

## 4. Fairness

- `dynamic_runtime`: weak fairness of the runtime's steps (the polling timer fires again and again;
  every fetch is ended by the client's timeout; each step of a replacement is local), of the SDK's
  debounce timer, and of a notified client that lists. Strong fairness of `Bind`: it waits for
  `Runtime.mu`, and Go's mutex hands the lock to a waiter that starves. `Deploy` has none.
- `serving`, `RuntimeLifecycle`: weak fairness of goroutines that can go on and of a load (timeout), strong
  fairness of `RunEnds`, because `select` between a ready context and a ready timer picks at random.
- `rest_client`: weak fairness of the deadline and of goroutines that can go on; none of the
  backend's `Reply`, and none of `Grant`, so that even a starved request ends.
- `serving`, `HttpAnswer`: weak fairness of the handler, of the goroutine of `AfterFunc`, of the deadline
  (`RequestTimeout`), of a transport that returns, and of a tool whose context is done (`rest_client`
  shows that it ends); none of the client, and none of a tool left alone.
- `serving`, `ServerProcess`: weak fairness of `run`, of the serving goroutine, of the limit of the shutdown, of
  `AfterFunc`, and of replies to stdio requests that are cancelled. HTTP handlers and clients have none:
  the process ends although they never do.
- `answers`, `BoundedOutput`: one sequential loop.

A component's `Fairness` is a formula beside its `Spec`, and a sum is fair to all its components: those
that rest have no fair action enabled. The other runs check safety only.

## 5. Proofs

`WebDelegation_proofs` proves, for every set of users, sessions, tokens and workers (a bound on the
clock and the limits being any natural numbers), from the two assumptions on constants in
`WebDelegation` (distinctness of values, also of codes and `None`; `TTL > 0`):

| Theorem | States | Argument |
|---|---|---|
| `TypeCorrect` | `Spec => []TypeOK` | `TInv` = `TypeOK` and `Locals`: which local variables are set at each `pc`. Without `Locals` an insert could use an unset user |
| `LimitsHold` | `[]WithinLimits` | the insert adds one entry to a purged set that is below both limits; cardinalities of finite sets |
| `LogoutShows` | `[]ServedWasLive` | `IInv`: entries come from the ledger, in which a token occurs once; a worker past its lookup holds the user and session of a ledger entry; an answer naming that user was true at a moment since the lookup, so the worker is in `live` |
| `ExpiryHolds` | `[]ServedInTime` | the lookup checked the worker's own `now`, and a token has a single ledger entry |
| `RefusalFinal` | `[]RefusedMeansGone` | a refused token is handed out already, thus not fresh: no later insert brings it back |
| `OutageHarmless` | `[]OutageKeepsDelegation` | `OInv` and `SessionInv`: a session failure or another user in an answer is evidence that the session is tainted; the purge uses a `now` that is at most the clock |
| `LifecycleImplemented` | `ImplementsLifecycle` | initial states map to initial states, and `LifecycleStep` shows that each action is a `Retire`, a `Grant` or a stutter |
| `NobodyIsEverCrowdedOut` | `NobodyIsCrowdedOut`, an action property | `CodeInv`: a call that has not come to its end has no code, so that `delegation_limit` is the verdict of this very step. At the global limit the purged entries are shared among their users, none of whom has more than `perUser` (`IInv`): `SharesAddUp` counts them, by the least number of users at which the count would fail (`Least`) |

`RestClient_proofs` proves, for any finite sets of operations and goroutines and any positive
limits (`ClientAssumption`), the invariant `IInv` (theorem `Invariance`) and from it:

| Theorem | States | Argument |
|---|---|---|
| `SlotsAreExact` | `[]SlotsExact` | `SlotsCounted`, with `LegsRun`: a goroutine that is not at its end belongs to a running operation, or `Begin` and `Return` would forget one with a slot. `FlyingMoved` counts the holders while one of them moves |
| `SentStaysInBounds` | `[]SentInBounds` | `Budget`: the requests sent and those reserved and not sent yet are within the budget, though the counter itself may pass it. `LateKnown`: who got a slot late finds the context ended when it looks again, since only `Return` renews a context |

and, for the stages of `MCAnswers`, whatever `Members`, with `AnswersAssumption`:

| Theorem | States | Argument |
|---|---|---|
| `AnswersAlwaysAboutTheTarget` | `MCUnverified \subseteq Unverified` and `MCGlobal \subseteq Global`, then `[]AnswersAreAboutTheTarget`, for any names and any set of topics that may be sampled | `DecodingInv`: what is accepted was not refused before it was sent, and names what the operation compares. `OperationsSound` goes through the table of the 42 operations: an argument that neither the answer nor its items are compared with is refused in an ambiguous form, and a cluster blank, before it goes into a path, or is exempt. The backend then looks up the name it was given, even if it reads the encoded path |
| `StatusesAlwaysKnown` | `MCUnchecked \subseteq Unchecked`, then `[]StatusesAreKnown`, for any number of bad statuses in an answer | `DecodingInv`, and of the table that every place of a status is validated and every text beside one replaced, or exempt (`StatusKinds`) |
| `StatusAlwaysHonest` | `[]StatusIsHonest`, for any counters | `JoiningInv`: an answer is only there for a part that was asked for; a detail is only asked for once its subject was vouched for (`Vouched`); an envelope, once it is there, is honest about the answers it was made from (one lemma for each tool) and stays so, because nothing is asked for any more |
| `LossAlwaysTold` | `[]LossIsTold`, for lists and graphs of any size, any limit and any room | `FittingInv`: what is left is the head of each list (of a history and of the points of a series, the latest part) and never longer than what came; `truncated` is false only while nothing is missing; the centre is first and every edge is between nodes that are left. `CutIs` and `ShrunkIs` say what a cut and a halving do to each shape; `EdgesKept` says what the loop over edges keeps, by the least position at which it would keep another |

`HttpGate_proofs` proves, for any finite sets of goroutines, peers and users and any positive limits
(`GateAssumption`):

| Theorem | States | Argument |
|---|---|---|
| `SlotsAreAccounted` | `[]SlotsAccounted` | `IInv`: beside the two counts it says where a request knows its peer and its user (`Locals`), and that the last use of every bucket is in the past (`TablesOK`), without which recovery would not give a bucket. `HoldersMoved` and `ServedMoved` count the holders of a slot while one request moves; `QuietStep` has the steps that change neither count, `CountedStep` the four that take or return a slot |
| `OutageNeverLocksOut` | `[]OutageLocksNobodyOut` | `OutageInv`: what is missing in a bucket, and what is about to be taken from it, is at most one token for every rejected credential. Eviction and recovery only add |
| `FailuresAreBounded` | `Roomy => []FailuresBounded`, where `Roomy` is that the table of buckets has room for every peer | `BudgetInv` keeps an account of each peer: the credentials rejected and charged, those rejected while the bucket was dry, and how often it ran dry. While it is dry nobody is let in, so that the uncharged ones were all in flight when it ran dry, at most one per other goroutine; to run dry again it must get a token back, which takes time. `Roomy` cannot be left out: evicting the bucket of a peer under pressure gives it a full one |

`RateLimiter_proofs`, for any finite set of keys, any positive limit and window and any number of buckets
(`LimiterAssumption`):

| Theorem | States | Argument |
|---|---|---|
| `EvictionIsUnnoticed` | `[]EvictionUnnoticed` | `BoundedInv`, and `SameInv`: the bucket of a key is the one the limiter that forgets nobody has, or is absent where that one is full by now. That recovery takes nothing away needs `TablesOK` again |
| `NobodyOverspends` | `[]NeverOverspends` | `SpentInv`: for every instant, what was granted since and what is left in the ideal bucket are together at most a full bucket and what was restored since |

`LocalAuthStore_proofs`, for any commands, requests, clients, tokens, output files and any capacity (`StoreAssumption`), with crashes before every file operation:

| Theorem | States | Argument |
|---|---|---|
| `FilesAlwaysAccounted` | `[]FilesAccounted` | `LockInv` (who is between the lock and the unlock owns the lock file), `TokenInv` (a drawn token is the command's own, in its output file and nowhere else until the rename publishes it) and `OutInv` |
| `RevocationAlwaysHolds` | `[]RevocationHolds` | `ReaderInv`: a request whose token was revoked before it arrived finds no entry, and every entry found is one of the document; tokens are never reused |
| `StoreAlwaysReadable` | `[]StoreReadable` | `StoreInv`, with `PreparedInv`: the document a command is about to rename is the one at the path but for one entry, since nobody else can have replaced it. That is what the lock is for, and why a lock removed by hand (`ClearLock`) is only removed when no command runs |
| `RegistryImplemented` | `ImplementsRegistry` | each rename is an enrolment or a revocation of the abstract registry, every other step a stutter |

`DynamicRuntime_proofs`, for any contracts, names, calls and clients (`ContractAssumption`,
`CopiesAssumption`: a slot is always left; `ETagAssumption`: tags tell contracts apart):

| Theorem | States | Argument |
|---|---|---|
| `SettledAlwaysMatches` | `[]SettledMatches` | `ApplyInv` says how far a replacement has come at each `op.pc`; its clause for the tools not yet rebound is what makes a change of slot in place safe |
| `CallsRunWhatTheyValidated` | `[]CallRunsWhatItValidated` | `RegisteredInv` and `CallInv`: the slot of a validated call keeps the definition it was validated against, because a slot is only overwritten with the same definition and only reused when nobody refers to it |
| `CatalogImplemented` | `ListsAreWhole` | with `GateInv` (nobody lists while registrations change) every step is a publication, a list or a stutter of `AtomicCatalog` |

`MCServing_proofs`, for any generations, connections and requests and responses of any length:

| Theorem | States | Argument |
|---|---|---|
| `CloseAlwaysWaits` | `Patient => []CloseWaits` | `FieldsInv`: for a host that waits for `Start`, both fields were written before `Stop` can reach `Close`, or there is no runner. Without `Patient` it is false (`serving_early`) |
| `NobodyIsEverCutOff` | `[]NobodyIsCutOff` | `TogetherInv`: the three fields of the extension are those of one runtime, and a request that holds the lock has read the handler that is still there. `ServingInv` and `CleanInv`: what `serveHTTP` can rely on at each of its points; `Shutdown` returns nil only when every connection is closed |
| `AnswersAlwaysFit` | `[]AnswersFitTheirReader` | `ResponseInv` ties the status, the header and the body written so far, `OriginInv` says where a request came from that has got this far, `OutcomeInv` what the audit and a grant mean |

and, for any files, environments and flags (`SettingsAssumption`):

| Theorem | States | Argument |
|---|---|---|
| `ReadsOnlyItsOwn` | `[]ReadsItsOwnOnly` | `SettingsInv`. `LookedFits`: what a load has looked up is among what the steps it has come to ask for, given what it found so far (`ca_file` is only looked into once `ABLEOPS_CA_FILE` is known to say nothing). `CAIs`, `StoreIs`: the paths in force come from the environment or from a reference that was resolvable |
| `ChoiceStaysInForce` | `[]ChoiceInForce` | `DraftFits` says of a load under way which settings it has decided and by which layer, `ResultsFit` of one that has ended; the environment only grows, so that a value once read stays the one in force, for all three programs |

`MCTools_proofs`, under the assumptions of the components (`FlowAssumption`, `ContractCallAssumption`,
`ParserAssumption`, `PolicyAssumption`, together `ToolsAssumption`):

| Theorem | States | Argument |
|---|---|---|
| `CallersSpeakForThemselves` | `[]SpeaksForItsCaller` | `FlowInv`: the principal of a request is the entry filed under its bearer (`KnownInv`), and every message in `wire` carries the session of the principal its request has (`WireInv`); a refusal has its cause in what was asked of the backend (`CauseInv`) |
| `CredentialsAlwaysStayInside` | `[]CredentialsStayInside` | `DiscreetInv`: neither what a request said nor what its tool is about to say holds a credential of its own |
| `CallsAlwaysSayWhatWasAsked` | `[]CallsSayWhatWasAsked` | `CallInv` ties the request sent to the operation looked at and to the arguments; `RequestSaysAll`: what the backend reads from a request by the contract is the arguments, for lists of any length (`Flattened`), numbers as near as a float64 comes (`NearestIs`, `CanonicalKeeps`) |
| `NothingIsEverLost` | `[]NothingIsLost` | `WalkInv`, `TallyInv`: what was walked so far, each of it an operation or an issue; paths and methods of a document occur once, so that each declaration that was lost has an issue of its own. `RegistryInv` has the registry as a function of the operations; the counts follow from injections between the sets counted (`ImageCounts`) |
| `OnlyReviewedIsEverPublished` | `[]OnlyReviewedIsPublished` | from `RegistryInv`, and `EntrySays`: what the policy says of an operation that is placed |
| `CompatibleIsAlwaysInterchangeable` | `[]CompatibleIsInterchangeable` | `SameInputs`: schemas without a difference accept the same inputs, of any names and values |

Each invariant is proved with one step for every action; properties that mention two variables are
not inductive by themselves, and the named conjuncts of the invariants supply what ties them.
Where a proof goes through a sequence of any length (`Flattened`: texts joined one after the other), the
induction is on the least position at which it would fail (`Least`, from `WFMin`), and the recursive function
is unfolded once.

The assumptions on constants say what the values are, never how many: sets are finite where the code counts
them, limits are positive where the code refuses zero, markers such as `None` are none of the values they stand
beside, the paths of a document are the keys of one object, a list is a sequence. TLC evaluates all of them in
the runs. `ConfigAssumption` says of which values the paths of a file are (a reference to a listed variable or
to none, absolute or not) and which values the variable of the store has; `OutcomeAssumption` that a counter is a natural
number and `None` no status. The hypotheses beyond them are `Roomy`, `Patient`, and of the two theorems about
decoding that their exemptions include the places the code does not look at (`MCUnverified`, `MCGlobal`, `MCUnchecked`; section 6). The specifications bound the clock, by any
number.

Only model-checked:

- Liveness: `ClientsCatchUp`, `OperationsEnd`, `EveryEndComes`, `BoundEnds`. TLAPS 1.4.5 has no rules for
  fairness and ENABLED.
- That `CloseWaits` fails without `Patient` and `StatusesAreKnown` with fewer exemptions: the two runs that end in
  a violation.

## 6. Differences found

- **`Close` may return before the refresh loop ends** (`serving_early`, `CloseWaits`).
  `Extension.Start` gives up waiting after `initialRefreshWait` while `app.Runtime.Start` is still in
  its first load. `Stop` then calls `Close`, which finds `stopRefresh` nil (`internal/app/app.go:265`)
  and returns; the load goes on, and the loop starts afterwards. The comment at `app.go:261` says that
  `Close` stops the periodic refresh and waits until it has ended. The loop does end with the host's context. The fields are
  also written and read without synchronisation (`app.go:256`, `:265`). In `Serving.cfg`
  `Start` waits, and the property holds.
- **A status that nothing validates** (`answers_storage`, `StatusesAreKnown`). `ClusterStorage`
  validates the status of the report, of each broker and of each broker in the leader distribution, but
  not that of the distribution itself (`internal/ableops/monitoring.go:147`); an undefined one passes, with the
  reasons beside it. The comment at `api.go:178` and `docs/dynamic-mcp.md:401` say that every probe
  status is checked.
- **Answers whose cluster is not compared** (without a run).
  Five operations (`PartitionHealth`, `ConsumerGroupLag`, `TopicDetail`, `TopicPartitions`,
  `AssetImpact`) get an answer that does not name the cluster and take a cluster with `/`, `;` or `,`,
  which the backend may look up undecoded; `ClusterStorage` and `ConsumerGroupMembers` refuse such names.
  `docs/dynamic-mcp.md:401` says that static tools compare the cluster. `PreviewFlinkDDL` sends the cluster
  in the body (`internal/ableops/data_operations.go:280`) and its answer names the table only; what it publishes
  is the column declaration it has made from the request's own columns and found in the answer. `MCUnverified`
  lists these six and `EventIssue`, whose answer names the issue and not the event it was asked with; without
  any of them `AnswersAreAboutTheTarget` fails. `ListMaintenanceWindows` also takes items that name no cluster
  (`event_operations.go:345`), the windows of all clusters (`MCGlobal`).
- **A number that comes out as another** (without a run). The comment at `internal/dynamic/bind.go:18` says
  that arguments are read with the precision of their numbers kept. They are, and integer parameters keep it;
  a parameter of type `number` then goes through a float64 (`bind.go:148`), which turns 9007199254740993 into
  9007199254740992 and refuses what is too large. `BackendReadsTheArguments` states what holds: as near as a
  float64 comes.
- **The token's variable under another name** (without a run). With
  `auth.token_env: ABLEOPS_WEB_DELEGATION_SECRET` a server over HTTP looks that variable up, as the secret of
  delegation, against `docs/deployment.md:263`. `validTokenEnvName` (`internal/config/yaml.go:230`) reserves the
  names of settings but `ABLEOPS_WEB_DELEGATION`, `_TTL` and `_SECRET`, and none that `secret_env` gives; the
  comment at `yaml.go:229` says that the existing names are reserved. `MCSettings` has such files, and
  `ReadsItsOwnOnly` states what holds: the variable of the token is read over HTTP only where it is one of the
  delegation's. In the same way one variable may be part of two paths; over stdio that of the store's path is
  read only where the server has a use of its own for it.
- **Repeated operation IDs.** `docs/dynamic-mcp.md:121` and the comment at
  `internal/openapi/parser.go:435` say that all operations of a repeated ID are excluded.
  `dropDuplicates` looks at those that survived the validation, so that an ID whose other use was
  defective stays a tool. `Finish` models the code; `CandidatesAreCallable` states
  what holds: IDs of accepted operations are unique.

## 7. Not modelled

- The standard library and the SDK: parsing of headers and YAML, the listener, the transports. Which
  header names count as a proxy's is the set of forwarded requests in `HttpAnswer`.
- The session header that `HttpAnswer` leaves out: the handler deletes it, and what the SDK does
  with one depends on its version.
- The extension's manifest, log and health: reads of constants.
- Constant-time comparison, hashing, TLS, file ownership and modes: nothing a state model shows.
- Of the REST answers: the values of counters, times and texts other than failures, and the
  parameters of a query one by one. `RestAnswers` has what identifies and what judges.
- Of the cutting of results: the lists nested in an item, which `capItems` cuts in some tools before the
  lists of `BoundedOutput` are.
- What the backend says of itself being cut short (`PartitionHealth`'s `truncated`, `has_more`): the tools pass it
  on as `truncated` and leave the status at `ok`, so that `OkMeansComplete` is about what the backend answered.
- Of the values of tool arguments: sign and spelling of numbers.
- Validation of tool inputs (`internal/tools/input.go`): lengths and forms of names.
- The replacement of results above `MaxResultBytes` in the server's middleware: tools bound theirs first
  (`BoundedOutput`).
- JSON schemas, titles and descriptions of generated tools.

## 8. Plan

The order follows importance. Done: 1 to 15, and 17.

1. `WebDelegation` and its abstract life cycle, with proofs.
2. `DynamicRuntime` and `AtomicCatalog`.
3. `TokenBucket`, `RateLimiter`, `HttpGate`, with the proof about its slots.
4. `LocalAuthStore`, `CredentialRegistry`.
5. `RuntimeLifecycle`.
6. `RestClient`, with proofs.
7. `ContractParser`, `ToolRegistry`.
8. `ContractCall`.
9. `BoundedOutput`, `ToolOutcome`.
10. `ServerProcess`: the end of the process and the requests it cuts off.
11. `RestAnswers`: the decoding of REST answers.
12. `Config`: settings and their layers.
13. `HttpAnswer`: refusals, response and audit of one request.
14. `CompatReport`.
15. `CredentialFlow`: assembly, and whose credential goes where.
16. Extensions: validation of tool inputs, and the cluster scope of tools composed with `RestAnswers`.
17. Proofs: every safety property of a passing run has its theorem.

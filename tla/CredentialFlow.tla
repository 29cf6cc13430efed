--------------------------- MODULE CredentialFlow ---------------------------
(***************************************************************************)
(* Whose credential goes where (internal/app/app.go, requestctx,           *)
(* extension/config.go, origin.go, mcpserver/server.go, ableops/client.go, *)
(* openapi.go).  One server is assembled in one of its modes; its requests *)
(* then share one REST client, and every call takes its token from the     *)
(* context it runs in.                                                     *)
(*                                                                         *)
(* The stores are what their look-ups return: WebDelegation and            *)
(* LocalAuthStore model them whole, HttpAnswer the refusals of HTTP.  A     *)
(* text (arguments, a body, a document) is the one credential it holds.    *)
(***************************************************************************)
EXTENDS Naturals

CONSTANTS
    Users, Sessions,        \* of the backend; a session is its token
    LocalTokens, WebTokens, \* bearers of this server, told apart by their prefix
    Requests,               \* of clients
    Shared,                 \* the session stdio may be configured with
    MaxCalls,               \* REST calls of one tool
    None

FlowAssumption ==
    /\ Shared \in Sessions /\ MaxCalls \in Nat
    /\ Sessions \cap (LocalTokens \cup WebTokens) = {} /\ LocalTokens \cap WebTokens = {}
    /\ None \notin Users \cup Sessions \cup LocalTokens \cup WebTokens
    /\ None \notin {"stopped", "stdio", "standalone", "delegating", "managed", "authentication_required",
                    "backend_authentication_required", "host_url", "backend_config", "auth_configuration_error"}
    /\ None \notin [user : Users, session : Sessions]
    /\ None \notin [user : Users \cup {None}, session : Sessions, bearer : LocalTokens \cup WebTokens \cup {None}]

VARIABLES
    launch,  \* what the server is to be assembled from, None once it was
    server,  \* None, "stopped" or its mode
    failure, \* why it was not assembled
    token,   \* Client.token
    owner,   \* who a session is at the backend, None once it ended
    local,   \* localauth: token -> its entry or None
    web,     \* webdelegation: the same
    req,     \* the requests
    wire,    \* REST calls so far
    catalog  \* the credential in the contract in force, "clean" without, None before

vars == <<launch, server, failure, token, owner, local, web, req, wire, catalog>>
assembly == <<launch, server, failure, token>>

Bearers == LocalTokens \cup WebTokens
Texts == {None} \cup Sessions \cup Bearers
Entries == [user : Users, session : Sessions \ {Shared}]

(* principal: what requestctx holds, None without one.  Of a request the properties *)
(* also see filed, what the stores of the mode hold of its bearer when they are     *)
(* asked, answer, what the backend says of its session, and said, what goes back.   *)
Idle == [pc |-> "idle", bearer |-> None, text |-> None, principal |-> None, calls |-> 0,
         filed |-> None, answer |-> None, said |-> {}, code |-> None]

-----------------------------------------------------------------------------
(* Assembly.  The URL of the core's host API is [scheme, host, port, extra], extra   *)
(* for credentials, a query or a fragment; elsewhere a validated one is configured.  *)

Loopback == {"localhost", "127.0.0.1", "::1"}
CoreURLs == [scheme : {"http", "https", "ftp"}, host : Loopback \cup {"core", "0.0.0.0", ""},
             port : {"none", "in range", "zero", "empty"}, extra : BOOLEAN]
Configured == [scheme |-> "https", host |-> "core", port |-> "in range", extra |-> FALSE]

Launches ==
    [managed : {FALSE}, transport : {"stdio", "http"}, token : {None, Shared}, delegation : BOOLEAN,
     store : BOOLEAN, url : {Configured}]
    \cup
    [managed : {TRUE}, transport : {"http"}, token : {None}, delegation : {TRUE}, store : {FALSE}, url : CoreURLs]

loopbackHostname(host) == host \in Loopback
backendOrigin(u) ==
    ~u.extra /\ u.host # "" /\ (u.scheme = "https" \/ (u.scheme = "http" /\ loopbackHostname(u.host)))

(* Config.Validate, on the scheme and the host alone: the origin has no path.  Over *)
(* HTTP the requests bring their credentials and a shared one is forbidden.         *)
Validate(l) ==
    /\ l.url.host # "" /\ l.url.port \in {"none", "in range"}
    /\ l.url.scheme = "https" \/ (l.url.scheme = "http" /\ l.url.host \in Loopback)
    /\ (l.token # None) = (l.transport = "stdio")

ModeOf(l) ==
    IF l.managed THEN "managed"
    ELSE IF l.transport = "stdio" THEN "stdio"
    ELSE IF l.delegation THEN "delegating" ELSE "standalone"

(* Reasons not to start, the first one told; localauth is read outside the core only. *)
Failure(l) ==
    IF l.managed /\ ~backendOrigin(l.url) THEN "host_url"
    ELSE IF ~Validate(l) THEN "backend_config"
    ELSE IF ModeOf(l) \in {"standalone", "delegating"} /\ ~l.store THEN "auth_configuration_error"
    ELSE None

Init ==
    /\ launch \in Launches /\ server = None /\ failure = None /\ token = None
    /\ owner \in [Sessions -> Users]
    /\ local \in [LocalTokens -> {None} \cup {e \in Entries : owner[e.session] = e.user}]
    /\ web = [t \in WebTokens |-> None]
    /\ req = [r \in Requests |-> Idle]
    /\ wire = {} /\ catalog = None

Assemble ==
    /\ launch # None
    /\ failure' = Failure(launch)
    /\ server' = IF Failure(launch) = None THEN ModeOf(launch) ELSE "stopped"
    /\ token' = IF Failure(launch) = None THEN launch.token ELSE None
    /\ launch' = None
    /\ UNCHANGED <<owner, local, web, req, wire, catalog>>

-----------------------------------------------------------------------------
(* The REST client. *)

(* request(): the principal of the context decides, whoever else is being served. *)
TokenOf(r) == IF req[r].principal # None THEN req[r].principal.session ELSE token
OwnOf(r) == {TokenOf(r)} \cup (IF req[r].principal # None THEN {req[r].principal.bearer} ELSE {})
Sends(r, why) == wire' = wire \cup {[by |-> r, why |-> why, token |-> TokenOf(r), text |-> req[r].text]}

(* A body that holds a credential of the call is not passed on. *)
Inspected(r, body) == body = None \/ body \notin OwnOf(r)

(* Mutated form: only the tokens of the context are looked for. *)
RedactsContextOnly(r, text) == req[r].principal # None /\ text # None /\ text \in OwnOf(r)
Redacts(r, text) == text # None /\ (text = token \/ text \in OwnOf(r))

At(r, upd) == req' = [req EXCEPT ![r] = upd]
Ends(r, code) == At(r, [req[r] EXCEPT !.pc = "done", !.code = code])

-----------------------------------------------------------------------------
(* A tool call.  Over stdio there is no principal. *)

ArriveStdio(r, text) ==
    /\ server = "stdio" /\ req[r].pc = "idle"
    /\ At(r, [Idle EXCEPT !.pc = "guard", !.text = text])
    /\ UNCHANGED <<assembly, owner, local, web, wire, catalog>>

ArriveHTTP(r, bearer, text) ==
    /\ server \in {"standalone", "delegating", "managed"} /\ req[r].pc = "idle"
    /\ At(r, [Idle EXCEPT !.pc = "lookup", !.bearer = bearer, !.text = text])
    /\ UNCHANGED <<assembly, owner, local, web, wire, catalog>>

InLocal(t) == IF t \in LocalTokens THEN local[t] ELSE None
InWeb(t) == IF t \in WebTokens THEN web[t] ELSE None

Authenticate(t) ==
    CASE server = "managed" -> InWeb(t)
      [] server = "delegating" -> IF t \in WebTokens THEN InWeb(t) ELSE InLocal(t)
      [] server = "standalone" -> InLocal(t)

Lookup(r) ==
    /\ req[r].pc = "lookup"
    /\ LET t == req[r].bearer
           e == Authenticate(t)
           q == [req[r] EXCEPT !.filed = IF server # "managed" /\ InLocal(t) # None THEN InLocal(t) ELSE InWeb(t)]
       IN IF e = None THEN At(r, [q EXCEPT !.pc = "done", !.code = "authentication_required"])
          ELSE At(r, [q EXCEPT !.pc = "verify",
                               !.principal = [user |-> e.user, session |-> e.session, bearer |-> t]])
    /\ UNCHANGED <<assembly, owner, local, web, wire, catalog>>

Forget(t) == IF t \in WebTokens THEN [web EXCEPT ![t] = None] ELSE web

(* Mutated form: any user the backend names will do. *)
SameUserAny(named, p) == named # None
SameUser(named, p) == named = p.user

(* verifyBackend and what both stores make of its answer; the backend may be down,  *)
(* and an identifier that holds a credential reads like that.                       *)
Verify(r) ==
    /\ req[r].pc = "verify"
    /\ wire' = wire \cup {[by |-> r, why |-> "verify", token |-> TokenOf(r), text |-> None]}
    /\ LET p == req[r].principal
           named == owner[p.session]
           q == [req[r] EXCEPT !.answer = named]
       IN \/ Ends(r, "backend_unavailable") /\ web' = web
          \/ /\ named = None
             /\ At(r, [q EXCEPT !.pc = "done", !.code = "backend_authentication_required"])
             /\ web' = Forget(p.bearer)
          \/ /\ named # None /\ ~SameUser(named, p)
             /\ At(r, [q EXCEPT !.pc = "done", !.code = "authentication_required"])
             /\ web' = Forget(p.bearer)
          \/ /\ SameUser(named, p)
             /\ At(r, [q EXCEPT !.pc = "payload"])
             /\ web' = web
    /\ UNCHANGED <<assembly, owner, local, catalog>>

(* The body of the HTTP request, then the name and arguments of the tool. *)
Payload(r) ==
    /\ req[r].pc = "payload"
    /\ IF req[r].text # None /\ req[r].text \in {req[r].bearer, req[r].principal.session}
       THEN Ends(r, "credential_in_payload") ELSE At(r, [req[r] EXCEPT !.pc = "guard"])
    /\ UNCHANGED <<assembly, owner, local, web, wire, catalog>>

Guard(r) ==
    /\ req[r].pc = "guard"
    /\ IF Redacts(r, req[r].text) THEN Ends(r, "tool_error") ELSE At(r, [req[r] EXCEPT !.pc = "tool"])
    /\ UNCHANGED <<assembly, owner, local, web, wire, catalog>>

(* A call the backend answers for the user of the token, with any text in its body. *)
Call(r) ==
    /\ req[r].pc = "tool" /\ req[r].calls < MaxCalls /\ TokenOf(r) # None
    /\ Sends(r, "tool")
    /\ \E body \in Texts :
           At(r, [req[r] EXCEPT !.calls = @ + 1,
                     !.said = IF owner[TokenOf(r)] # None /\ Inspected(r, body) THEN @ \cup {body} ELSE @])
    /\ UNCHANGED <<assembly, owner, local, web, catalog>>

(* The envelope repeats identifiers of the arguments, redacted. *)
Return(r) ==
    /\ req[r].pc = "tool"
    /\ At(r, [req[r] EXCEPT !.pc = "done", !.code = "ok",
                 !.said = @ \cup (IF Redacts(r, req[r].text) THEN {} ELSE {req[r].text})])
    /\ UNCHANGED <<assembly, owner, local, web, wire, catalog>>

-----------------------------------------------------------------------------
(* A delegation is asked for: the session comes in the body, and becomes the        *)
(* principal of the call that verifies it.                                          *)

AskDelegation(r, s) ==
    /\ server \in {"delegating", "managed"} /\ req[r].pc = "idle"
    /\ At(r, [Idle EXCEPT !.pc = "issue", !.principal = [user |-> None, session |-> s, bearer |-> None]])
    /\ UNCHANGED <<assembly, owner, local, web, wire, catalog>>

VerifyDelegation(r) ==
    /\ req[r].pc = "issue"
    /\ Sends(r, "issue")
    /\ LET named == owner[TokenOf(r)] IN
           \/ Ends(r, "backend_unavailable")
           \/ named = None /\ Ends(r, "backend_authentication_required")
           \/ named # None /\ At(r, [req[r] EXCEPT !.pc = "grant", !.answer = named])
    /\ UNCHANGED <<assembly, owner, local, web, catalog>>

(* The token is new, unless a limit is reached. *)
Fresh == {t \in WebTokens : \A q \in Requests : req[q].bearer # t /\ t \notin req[q].said /\ req[q].text # t}
Grant(r) ==
    /\ req[r].pc = "grant"
    /\ \/ Ends(r, "delegation_limit") /\ UNCHANGED web
       \/ \E t \in Fresh :
              /\ web' = [web EXCEPT ![t] = [user |-> req[r].answer, session |-> TokenOf(r)]]
              /\ At(r, [req[r] EXCEPT !.pc = "done", !.code = "ok", !.said = {t}])
    /\ UNCHANGED <<assembly, owner, local, wire, catalog>>

-----------------------------------------------------------------------------
(* The contract is read with no credential and no principal, so a configured token is *)
(* the only one that can be looked for in it; a server without one takes any.         *)
Readable(doc) == doc # token
FetchOpenAPI ==
    /\ token # None
    /\ \E doc \in {"clean", token} : catalog' = IF Readable(doc) THEN doc ELSE catalog
    /\ UNCHANGED <<assembly, owner, local, web, req, wire>>

(* The backend and the owner of the file of localauth, at any time. *)
Logout(s) ==
    /\ server \notin {None, "stopped"} /\ owner[s] # None
    /\ owner' = [owner EXCEPT ![s] = None]
    /\ UNCHANGED <<assembly, local, web, req, wire, catalog>>

Rebind(s, u) ==
    /\ server \notin {None, "stopped"} /\ owner[s] \notin {None, u}
    /\ owner' = [owner EXCEPT ![s] = u]
    /\ UNCHANGED <<assembly, local, web, req, wire, catalog>>

Revoke(t) ==
    /\ server \in {"standalone", "delegating"} /\ local[t] # None
    /\ local' = [local EXCEPT ![t] = None]
    /\ UNCHANGED <<assembly, owner, web, req, wire, catalog>>

Serve(r) ==
    \/ \E x \in Texts : ArriveStdio(r, x)
    \/ \E t \in Bearers, x \in Texts : ArriveHTTP(r, t, x)
    \/ \E s \in Sessions \ {Shared} : AskDelegation(r, s)
    \/ Lookup(r) \/ Verify(r) \/ Payload(r) \/ Guard(r) \/ Call(r) \/ Return(r)
    \/ VerifyDelegation(r) \/ Grant(r)

Next ==
    \/ Assemble \/ FetchOpenAPI
    \/ \E r \in Requests : Serve(r)
    \/ \E s \in Sessions : Logout(s)
    \/ \E s \in Sessions, u \in Users : Rebind(s, u)
    \/ \E t \in LocalTokens : Revoke(t)

Spec == Init /\ [][Next]_vars

-----------------------------------------------------------------------------
(* A call of a tool speaks for the user behind the bearer of its own request: over  *)
(* HTTP with the session filed under that bearer, after the backend named the filed *)
(* user for it within this request; over stdio with the configured session, which   *)
(* no HTTP server ever sends.  Other requests served meanwhile by the same client   *)
(* make no difference.                                                              *)
SpeaksForItsCaller ==
    \A c \in wire :
        /\ c.token = Shared => server = "stdio"
        /\ c.why = "tool" =>
               IF server = "stdio" THEN c.token = Shared
               ELSE LET q == req[c.by] IN
                        q.filed # None /\ c.token = q.filed.session /\ q.answer = q.filed.user

(* The credentials of a request stay between this server and the Authorization      *)
(* header: they go out in no argument and come back in no answer, whichever of the  *)
(* guards of the two transports had to stop them; the shared one is in no tool      *)
(* description either.                                                              *)
CredentialsStayInside ==
    /\ \A r \in Requests : req[r].pc # "idle" => (OwnOf(r) \ {None}) \cap req[r].said = {}
    /\ \A c \in wire : c.text = None \/ c.text \notin OwnOf(c.by)
    /\ token # None => catalog # token

(* A caller is told to authenticate again only for a cause: no store of this mode   *)
(* had its bearer, or the backend did not name the filed user.  Delegations are     *)
(* added to the local tokens and replace none.                                      *)
RefusedForACause ==
    \A r \in Requests :
        req[r].code \in {"authentication_required", "backend_authentication_required"} =>
            \/ req[r].filed = None
            \/ req[r].answer # req[r].filed.user /\ \E c \in wire : c.by = r

(* The extension and the configuration judge the core's address alike: one that     *)
(* passes backendOrigin is refused by Config.Validate for its port only, so that    *)
(* the operator is told what is wrong with it.                                      *)
OneVerdictOnHosts ==
    launch # None => (launch.managed /\ Failure(launch) = "backend_config" => launch.url.port \in {"zero", "empty"})
=============================================================================

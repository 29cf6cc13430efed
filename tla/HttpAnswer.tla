----------------------------- MODULE HttpAnswer -----------------------------
(***************************************************************************)
(* One request over HTTP, from its headers to its line in the audit log    *)
(* (internal/mcpserver/http.go, proxy_guard.go, internal_delegation.go):   *)
(* where it is refused, what the response holds, and how the end of the    *)
(* request reaches the tool it runs.  Slots and rates are in HttpGate; here *)
(* they are one more reason to refuse.                                     *)
(*                                                                         *)
(* The MCP transport writes to the response in any order while the tool    *)
(* runs in a goroutine of its own; the client may go away and the deadline *)
(* may pass at any time.                                                   *)
(***************************************************************************)
EXTENDS Naturals, Sequences, SequencesExt

CONSTANTS
    Enabled,   \* whether delegations are wired: a secret and an issuer
    MaxWrites, \* writes of the transport in one response
    None

AnswerAssumption == Enabled \in BOOLEAN /\ MaxWrites \in Nat

VARIABLES
    req,      \* the request
    pc,       \* where its handler is
    response, \* what was sent: status, cors, body
    status,   \* safeHTTPWriter.status, 0 until the header is sent
    written,  \* safeHTTPWriter.errorWritten
    code,     \* code of the audit, and
    level,    \* its level once it is written
    ended,    \* why the context of the request is done, None while it is not
    call,     \* of a tool: None, "queued", "running", "ended"
    stopped   \* whether the context of the tool is done

vars == <<req, pc, response, status, written, code, level, ended, call, stopped>>

Paths == {"/internal/delegations", "/internal/other", "/healthz", "/mcp", "/other"}

(* origin: the headers of that name, none, an empty or a listed or another one, or  *)
(* several.  marks: Referer, Cookie or Sec-Fetch-*.  secret: the header is there     *)
(* once and right.  asks: a preflight asks for POST and for known headers.           *)
Requests ==
    [local : BOOLEAN, forwarded : BOOLEAN, peer : BOOLEAN, path : Paths, method : {"GET", "POST", "OPTIONS"},
     origin : {"none", "empty", "listed", "other", "several"}, marks : BOOLEAN, secret : BOOLEAN, asks : BOOLEAN]

Init ==
    /\ req \in Requests /\ pc = "boundary"
    /\ response = [status |-> 0, cors |-> FALSE, body |-> <<>>]
    /\ status = 0 /\ written = FALSE /\ code = "ok" /\ level = None
    /\ ended = None /\ call = None /\ stopped = FALSE

-----------------------------------------------------------------------------
(* safeHTTPWriter.  The first of WriteHeader, Write and Flush sends the header. *)

Sent(st) == IF status = 0 THEN st ELSE status
Header(r, st) == IF status = 0 THEN [r EXCEPT !.status = st] ELSE r

(* The text of an error is its status, once. *)
Body(r, st, text) ==
    IF st < 400 THEN [r EXCEPT !.body = Append(@, text)]
    ELSE IF written THEN r
    ELSE [r EXCEPT !.body = Append(@, "status_text")]

WriteHeader(st) == status' = Sent(st) /\ response' = Header(response, st) /\ UNCHANGED written

(* Written after WriteHeader(first) or, without one, as 200. *)
Write(first, text) ==
    LET st == Sent(first) IN
    /\ status' = st
    /\ response' = Body(Header(response, first), st, text)
    /\ written' = (written \/ st >= 400)

Fail(st, failure) ==
    /\ code' = failure /\ Write(st, failure) /\ pc' = "audit"

Answer(st, text) == Write(st, text) /\ pc' = "audit" /\ UNCHANGED code
Pass(next) == pc' = next /\ UNCHANGED <<response, status, written, code>>

-----------------------------------------------------------------------------
(* The handler. *)

Internal == req.path \in {"/internal/delegations", "/internal/other"}

(* Host, headers of a proxy, peer and its budget, for every path. *)
Boundary ==
    /\ pc = "boundary"
    /\ IF ~req.local THEN Fail(403, "invalid_host")
       ELSE IF req.forwarded THEN Fail(403, "proxy_request_denied")
       ELSE IF ~req.peer THEN Fail(403, "peer_denied")
       ELSE Fail(429, "auth_rate_limit") \/ Pass(IF Internal THEN "internal" ELSE "origin")
    /\ UNCHANGED <<req, level, ended, call, stopped>>

(* Mutated form: Origin is left to the list of origins. *)
FromBrowserMarks == req.marks
FromBrowser == req.marks \/ req.origin # "none"

IssueFailures ==
    {<<400, "invalid_delegation_request">>, <<401, "backend_authentication_required">>, <<403, "access_denied">>,
     <<429, "delegation_limit">>, <<504, "timeout">>, <<408, "canceled">>,
     <<503, "backend_unavailable">>, <<503, "delegation_unavailable">>}
BodyFailures == {<<415, "unsupported_media_type">>, <<413, "request_too_large">>, <<400, "invalid_request">>}

serveInternalDelegation ==
    /\ pc = "internal"
    /\ \/ Fail(429, "global_limit")
       \/ IF ~Enabled \/ req.path # "/internal/delegations" THEN Fail(404, "not_found")
          ELSE IF FromBrowser THEN Fail(403, "browser_request_denied")
          ELSE IF req.method # "POST" THEN Fail(405, "method_not_allowed")
          ELSE IF ~req.secret THEN Fail(401, "internal_authentication_required")
          ELSE \/ \E f \in BodyFailures \cup IssueFailures : Fail(f[1], f[2])
               \/ Answer(201, "grant")
    /\ UNCHANGED <<req, level, ended, call, stopped>>

Origin ==
    /\ pc = "origin"
    /\ IF req.origin \notin {"none", "listed"} THEN Fail(403, "origin_denied")
       ELSE /\ response' = [response EXCEPT !.cors = (req.origin = "listed")]
            /\ pc' = "path" /\ UNCHANGED <<status, written, code>>
    /\ UNCHANGED <<req, level, ended, call, stopped>>

Path ==
    /\ pc = "path"
    /\ CASE req.path = "/healthz" ->
              IF req.method = "GET" THEN Answer(200, "ok") ELSE Fail(405, "method_not_allowed")
         [] req.path = "/other" -> Fail(404, "not_found")
         [] OTHER ->
              IF req.method # "OPTIONS" THEN Pass("guarded")
              ELSE IF req.origin = "none" \/ ~req.asks THEN Fail(403, "preflight_denied")
              ELSE WriteHeader(204) /\ pc' = "audit" /\ UNCHANGED code
    /\ UNCHANGED <<req, level, ended, call, stopped>>

AuthFailures ==
    {<<401, "authentication_required">>, <<401, "backend_authentication_required">>, <<403, "access_denied">>,
     <<503, "backend_unavailable">>, <<503, "authentication_unavailable">>, <<504, "timeout">>, <<408, "canceled">>}
Limits == {<<429, "global_limit">>, <<429, "user_rate_limit">>, <<429, "user_limit">>}

(* Slots, credentials and rates, then the method and the body. *)
Guarded ==
    /\ pc = "guarded"
    /\ \/ \E f \in AuthFailures \cup Limits : Fail(f[1], f[2])
       \/ IF req.method # "POST" THEN Fail(405, "method_not_allowed")
          ELSE \/ Fail(413, "request_too_large") \/ Fail(400, "invalid_request") \/ Fail(400, "credential_in_payload")
               \/ Pass("transport")
    /\ UNCHANGED <<req, level, ended, call, stopped>>

-----------------------------------------------------------------------------
(* The transport and the tool. *)

TransportWrites ==
    /\ pc = "transport" /\ Len(response.body) < MaxWrites
    /\ \/ \E st \in {200, 202, 400, 404, 500} : WriteHeader(st)
       \/ \E st \in {200, 400} : Write(st, "transport")
       \/ WriteHeader(200) \* Flush
    /\ UNCHANGED <<req, pc, code, level, ended, call, stopped>>

CallArrives ==
    /\ pc = "transport" /\ call = None
    /\ call' = "queued"
    /\ UNCHANGED <<req, pc, response, status, written, code, level, ended, stopped>>

(* The context of a tool need not be derived from that of the request; the   *)
(* middleware joins them when the call begins and watches from then on.  The *)
(* call may begin after the transport has given the request up.              *)
CallBegins ==
    /\ call = "queued"
    /\ call' = "running" /\ stopped' = (ended # None)
    /\ UNCHANGED <<req, pc, response, status, written, code, level, ended>>

(* A call that runs when its request ends learns of it. *)
AfterFunc ==
    /\ call = "running" /\ ended # None /\ ~stopped
    /\ stopped' = TRUE
    /\ UNCHANGED <<req, pc, response, status, written, code, level, ended, call>>

(* A tool may need longer than the request has, but heeds its context. *)
CallEnds ==
    /\ call = "running" /\ call' = "ended"
    /\ UNCHANGED <<req, pc, response, status, written, code, level, ended, stopped>>

ContextEnds(why) ==
    /\ pc = "transport" /\ ended = None
    /\ ended' = why
    /\ UNCHANGED <<req, pc, response, status, written, code, level, call, stopped>>

(* An end of the context comes before the status. *)
Outcome(r) == IF ended # None THEN ended ELSE IF r.status >= 400 THEN "protocol_error" ELSE "ok"

(* ServeHTTP returns once the call has or the context is done.  A response without *)
(* a header is 200.                                                                  *)
TransportReturns ==
    /\ pc = "transport" /\ (call \in {"queued", "running"} => ended # None)
    /\ response' = Header(response, 200) /\ status' = Sent(200)
    /\ code' = Outcome(response')
    /\ pc' = "audit"
    /\ UNCHANGED <<req, written, level, ended, call, stopped>>

securityFailureCodes ==
    {"internal_authentication_required", "browser_request_denied", "credential_in_payload", "invalid_host",
     "origin_denied", "preflight_denied", "delegation_limit", "proxy_request_denied", "peer_denied", "auth_rate_limit"}

Audit ==
    /\ pc = "audit"
    /\ level' = IF code \in securityFailureCodes THEN "warn" ELSE "info"
    /\ pc' = "done"
    /\ UNCHANGED <<req, response, status, written, code, ended, call, stopped>>

Handler == Boundary \/ serveInternalDelegation \/ Origin \/ Path \/ Guarded \/ Audit
Next ==
    \/ Handler \/ TransportWrites \/ CallArrives \/ CallBegins \/ AfterFunc \/ CallEnds \/ TransportReturns
    \/ \E why \in {"timeout", "canceled"} : ContextEnds(why)

Spec == Init /\ [][Next]_vars

(* The handler and the callback run as goroutines do, the deadline of the context *)
(* passes, and tools heed theirs: a tool that is told ends.                        *)
Fairness ==
    /\ WF_vars(Handler) /\ WF_vars(AfterFunc) /\ WF_vars(TransportReturns)
    /\ WF_vars(ContextEnds("timeout")) /\ WF_vars(stopped /\ CallEnds)

-----------------------------------------------------------------------------
(* Properties. *)

(* Delegations are for servers: a browser gets none, not even from a page of a listed   *)
(* origin that knows the secret, nor does what came through a proxy or from elsewhere;   *)
(* no answer of an internal path may be read by a page (internal_delegation.go:5-13),    *)
(* and others only by pages of listed origins.                                           *)
ServerToServerOnly ==
    /\ response.cors => req.origin = "listed" /\ ~Internal
    /\ (\E i \in DOMAIN response.body : response.body[i] = "grant") =>
           /\ Enabled /\ req.secret /\ ~req.marks /\ req.origin = "none"
           /\ req.local /\ req.peer /\ ~req.forwarded

(* In whatever order the transport sends header, text and flushes, an error says its     *)
(* status once and nothing the transport or the handler wrote, which may quote the       *)
(* request (http.go:521).                                                                *)
ErrorsSayNothing == response.status >= 400 => response.body \in {<<>>, <<"status_text">>}

(* The audit and the client are told the same outcome, also when a response is cut short  *)
(* or never begun: "ok" is no error, an error is never "ok", what got a delegation is     *)
(* "ok", and what did not come from this host directly is refused with a warning.         *)
AuditTellsTheOutcome ==
    pc = "done" =>
        /\ response.status # 0 /\ (code = "ok" => response.status < 400)
        /\ response.body = <<"grant">> => code = "ok"
        /\ ~req.local \/ req.forwarded \/ ~req.peer => response.status = 403 /\ level = "warn"

(* Every request ends and is audited, and the tool it left behind ends with it: a client  *)
(* that goes away or a deadline that passes leaves no call running at the backend, even   *)
(* where the protocol detaches the call's context from the request's, and even if the      *)
(* call begins only after the end.                                                         *)
NothingOutlivesItsRequest ==
    /\ <>(pc = "done")
    /\ call = "running" /\ pc = "done" ~> call = "ended"
=============================================================================

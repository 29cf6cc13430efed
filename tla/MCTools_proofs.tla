---------------------------- MODULE MCTools_proofs ----------------------------
(* Proofs about what becomes of a contract and of the calls of its tools, for any *)
(* users, sessions, bearers, requests, documents, contracts, arguments, policies   *)
(* and schemas, and any number of calls: the credentials of calls (CredentialFlow), *)
(* calls while contracts replace each other, with lists of any length               *)
(* (ContractCall), reading a document of any number of paths and placing its tools  *)
(* (ContractParser, ToolRegistry), and the report on them (CompatReport).           *)
EXTENDS MCTools, WellFoundedInduction, FiniteSetTheorems, TLAPS

-----------------------------------------------------------------------------
(* Whose credential goes where. *)

OverHTTP == {"standalone", "delegating", "managed"}
Principals == [user : Users \cup {None}, session : Sessions, bearer : Identity!Bearers \cup {None}]
Codes == {None, "authentication_required", "backend_unavailable", "backend_authentication_required",
          "credential_in_payload", "tool_error", "ok", "delegation_limit"}
PCs == {"idle", "lookup", "verify", "payload", "guard", "tool", "issue", "grant", "done"}
Served == [pc : PCs, bearer : Identity!Bearers \cup {None}, text : Identity!Texts, principal : Principals \cup {None}, calls : Nat,
           filed : Identity!Entries \cup {None}, answer : Users \cup {None}, said : SUBSET Identity!Texts, code : Codes]
Messages == [by : Requests, why : {"verify", "tool", "issue"}, token : Sessions \cup {None}, text : Identity!Texts]

FlowTypeOK ==
    /\ server \in {None, "stopped", "stdio"} \cup OverHTTP
    /\ token \in {None, Shared}
    /\ owner \in [Sessions -> Users \cup {None}]
    /\ local \in [LocalTokens -> Identity!Entries \cup {None}]
    /\ web \in [WebTokens -> Identity!Entries \cup {None}]
    /\ req \in [Requests -> Served]
    /\ wire \subseteq Messages

(* Nothing is served before the server was assembled; a token is configured for *)
(* stdio alone, and only the modes with a delegation store fill it.             *)
AssembledInv ==
    /\ launch # None =>
         /\ launch \in Identity!Launches /\ server = None /\ token = None
         /\ wire = {} /\ catalog = None
    /\ server \in {None, "stopped"} => \A r \in Requests : req[r] = Identity!Idle
    /\ token = Shared <=> server = "stdio"
    /\ server \notin {"delegating", "managed"} => \A t \in WebTokens : web[t] = None

(* The principal of a request is the entry filed under its bearer. *)
Identified(q) ==
    /\ q.bearer \in Identity!Bearers /\ q.filed \in Identity!Entries
    /\ q.principal = [user |-> q.filed.user, session |-> q.filed.session, bearer |-> q.bearer]

(* For whom a request speaks, at each of its points. *)
Known(q) ==
    /\ q.pc = "idle" => q = Identity!Idle
    /\ q.pc = "lookup" => server \in OverHTTP /\ q.bearer \in Identity!Bearers /\ q.principal = None /\ q.filed = None
    /\ q.pc \in {"verify", "payload"} => server \in OverHTTP /\ Identified(q)
    /\ q.pc \in {"guard", "tool"} =>
         \/ server = "stdio" /\ q.principal = None
         \/ server \in OverHTTP /\ Identified(q)
    /\ q.pc \in {"payload", "guard", "tool"} /\ server # "stdio" => q.answer = q.filed.user
    /\ q.pc \in {"issue", "grant"} =>
         /\ server \in {"delegating", "managed"} /\ q.filed = None /\ q.text = None
         /\ q.principal \in [user : {None}, session : Sessions \ {Shared}, bearer : {None}]
    /\ q.pc = "grant" => q.answer \in Users
    /\ q.pc \notin {"tool", "done"} => q.said = {}

KnownInv == \A r \in Requests : Known(req[r])

(* The credentials of the call, configured or its principal's. *)
Own(q) == {IF q.principal # None THEN q.principal.session ELSE token}
          \cup (IF q.principal # None THEN {q.principal.bearer} ELSE {})

(* What a request has said holds none of them, nor what it is about to say. *)
Discreet(q) ==
    /\ (Own(q) \ {None}) \cap q.said = {}
    /\ q.pc = "tool" => q.text = None \/ q.text \notin Own(q)

DiscreetInv == \A r \in Requests : Discreet(req[r])

(* What went over the wire spoke for whom the request turned out to be. *)
Sent(c, q) ==
    /\ q.pc \notin {"idle", "lookup"}
    /\ c.token = Shared => server = "stdio"
    /\ c.text = None \/ c.text \notin Own(q)
    /\ c.why = "tool" =>
         /\ q.pc \in {"tool", "done"}
         /\ IF server = "stdio" THEN c.token = Shared
            ELSE q.filed # None /\ c.token = q.filed.session /\ q.answer = q.filed.user

WireInv == \A c \in wire : Sent(c, req[c.by])

Refusals == {"authentication_required", "backend_authentication_required"}

(* Nobody is told to authenticate again without a cause. *)
Caused(r) ==
    req[r].code \in Refusals =>
        /\ req[r].pc = "done"
        /\ req[r].filed = None \/ (req[r].answer # req[r].filed.user /\ \E c \in wire : c.by = r)

CauseInv == \A r \in Requests : Caused(r)

CatalogInv == token # None => catalog # token

FlowInv == FlowTypeOK /\ AssembledInv /\ KnownInv /\ DiscreetInv /\ WireInv /\ CauseInv /\ CatalogInv

LEMMA FlowAssumed ==
    /\ Shared \in Sessions /\ MaxCalls \in Nat
    /\ Sessions \cap (LocalTokens \cup WebTokens) = {} /\ LocalTokens \cap WebTokens = {}
    /\ None \notin Users \cup Sessions \cup LocalTokens \cup WebTokens
    /\ None \notin Identity!Entries /\ None \notin Principals
  <1>1. None \notin [user : Users, session : Sessions] BY ToolsAssumption DEF Identity!FlowAssumption
  <1>2. Identity!Entries \subseteq [user : Users, session : Sessions] BY DEF Identity!Entries
  <1> QED BY <1>1, <1>2, ToolsAssumption DEF Identity!FlowAssumption, Principals, Identity!Bearers

(* None is no mode, no code and no reason to stop. *)
LEMMA NoneIsNoText ==
    None \notin {"stopped", "stdio", "standalone", "delegating", "managed",
                 "authentication_required", "backend_authentication_required",
                 "host_url", "backend_config", "auth_configuration_error"}
  BY ToolsAssumption DEF Identity!FlowAssumption

LEMMA IdleServed ==
    /\ Identity!Idle \in Served /\ Known(Identity!Idle) /\ Discreet(Identity!Idle)
    /\ Identity!Idle.pc = "idle" /\ Identity!Idle.code = None
  <1>1. Identity!Idle \in Served
    BY DEF Identity!Idle, Served, PCs, Codes, Identity!Texts
  <1>2. Known(Identity!Idle) BY DEF Known, Identity!Idle
  <1>3. Discreet(Identity!Idle) BY DEF Discreet, Identity!Idle
  <1> QED BY <1>1, <1>2, <1>3 DEF Identity!Idle

(* A request under way is served by a server. *)
LEMMA ServerRuns ==
    ASSUME FlowInv, NEW r \in Requests, req[r].pc # "idle"
    PROVE  server \in {"stdio"} \cup OverHTTP
  <1>1. req[r] # Identity!Idle BY DEF Identity!Idle
  <1> QED BY <1>1 DEF FlowInv, FlowTypeOK, AssembledInv

(* What a step of request r must leave behind; q is the request after it. *)
LEMMA RequestMoves ==
    ASSUME FlowInv, server \in {"stdio"} \cup OverHTTP, UNCHANGED <<Identity!assembly, owner, local, catalog>>,
           NEW r \in Requests, NEW q \in Served, Identity!At(r, q), Known(q), Discreet(q),
           web' \in [WebTokens -> Identity!Entries \cup {None}],
           server \notin {"delegating", "managed"} => web' = web,
           \A c \in wire' : c \in wire \/ (c \in Messages /\ c.by = r /\ Sent(c, q)),
           \A c \in wire : c.by = r /\ Sent(c, req[r]) => Sent(c, q),
           q.code \in Refusals =>
             /\ q.pc = "done"
             /\ q.filed = None \/ (q.answer # q.filed.user /\ \E c \in wire' : c.by = r),
           wire \subseteq wire'
    PROVE  FlowInv'
  <1>0. UNCHANGED <<launch, server, failure, token, owner, local, catalog>> BY DEF Identity!assembly
  <1>1. /\ req' \in [Requests -> Served] /\ req'[r] = q
        /\ \A s \in Requests : s # r => req'[s] = req[s]
    BY DEF Identity!At, FlowInv, FlowTypeOK
  <1>2. FlowTypeOK' BY <1>0, <1>1 DEF FlowInv, FlowTypeOK
  <1>3. AssembledInv'
    <2>1. launch = None /\ server \notin {None, "stopped"} BY NoneIsNoText DEF FlowInv, AssembledInv, OverHTTP
    <2> QED BY <1>0, <2>1 DEF FlowInv, AssembledInv
  <1>4. KnownInv'
    <2> SUFFICES ASSUME NEW s \in Requests PROVE Known(req[s])' BY DEF KnownInv
    <2>1. CASE s = r BY <1>0, <1>1, <2>1 DEF Known, Identified
    <2>2. CASE s # r
      <3>1. Known(req[s]) BY DEF FlowInv, KnownInv
      <3> QED BY <1>0, <1>1, <2>2, <3>1 DEF Known, Identified
    <2> QED BY <2>1, <2>2
  <1>5. DiscreetInv'
    <2> SUFFICES ASSUME NEW s \in Requests PROVE Discreet(req[s])' BY DEF DiscreetInv
    <2>1. CASE s = r BY <1>0, <1>1, <2>1 DEF Discreet, Own
    <2>2. CASE s # r
      <3>1. Discreet(req[s]) BY DEF FlowInv, DiscreetInv
      <3> QED BY <1>0, <1>1, <2>2, <3>1 DEF Discreet, Own
    <2> QED BY <2>1, <2>2
  <1>6. WireInv'
    <2> SUFFICES ASSUME NEW c \in wire' PROVE Sent(c, req[c.by])'
      BY DEF WireInv
    <2>1. c.by \in Requests BY DEF FlowInv, FlowTypeOK, Messages
    <2>2. ASSUME NEW s \in Served, Sent(c, s), req'[c.by] = s PROVE Sent(c, req[c.by])'
      BY <1>0, <2>2 DEF Sent, Own
    <2>3. CASE c.by = r
      <3>1. c \in wire => Sent(c, req[r]) BY <2>3 DEF FlowInv, WireInv
      <3>2. Sent(c, q) BY <2>3, <3>1
      <3> QED BY <1>1, <2>2, <2>3, <3>2
    <2>4. CASE c.by # r
      <3>1. c \in wire /\ Sent(c, req[c.by]) BY <2>4 DEF FlowInv, WireInv
      <3>2. PICK s \in Served : s = req[c.by] BY <2>1 DEF FlowInv, FlowTypeOK
      <3> QED BY <1>1, <2>1, <2>2, <2>4, <3>1, <3>2
    <2> QED BY <2>3, <2>4
  <1>7. CauseInv'
    <2> SUFFICES ASSUME NEW s \in Requests PROVE Caused(s)' BY DEF CauseInv
    <2>1. CASE s = r BY <1>1, <2>1 DEF Caused
    <2>2. CASE s # r
      <3>1. Caused(s) BY DEF FlowInv, CauseInv
      <3> QED BY <1>1, <2>2, <3>1 DEF Caused
    <2> QED BY <2>1, <2>2
  <1>8. CatalogInv' BY <1>0 DEF FlowInv, CatalogInv
  <1> QED BY <1>2, <1>3, <1>4, <1>5, <1>6, <1>7, <1>8 DEF FlowInv

(* The same of a step that sends nothing and leaves the stores alone. *)
LEMMA RequestSteps ==
    ASSUME FlowInv, server \in {"stdio"} \cup OverHTTP,
           UNCHANGED <<Identity!assembly, owner, local, web, wire, catalog>>,
           NEW r \in Requests, NEW q \in Served, Identity!At(r, q), Known(q), Discreet(q),
           \A c \in wire : c.by = r /\ Sent(c, req[r]) => Sent(c, q),
           q.code \in Refusals =>
             /\ q.pc = "done"
             /\ q.filed = None \/ (q.answer # q.filed.user /\ \E c \in wire : c.by = r)
    PROVE  FlowInv'
  <1>1. web' \in [WebTokens -> Identity!Entries \cup {None}] BY DEF FlowInv, FlowTypeOK
  <1>2. UNCHANGED <<Identity!assembly, owner, local, catalog>> OBVIOUS
  <1> QED BY <1>1, <1>2, RequestMoves

LEMMA ArriveStdioMoves ==
    ASSUME FlowInv, NEW r \in Requests, NEW x \in Identity!Texts, Identity!ArriveStdio(r, x)
    PROVE  FlowInv'
  <1>1. PICK q \in Served : /\ Identity!At(r, q)
                            /\ q = [Identity!Idle EXCEPT !.pc = "guard", !.text = x]
    BY IdleServed DEF Identity!ArriveStdio, Served, PCs
  <1>2. /\ q.pc = "guard" /\ q.principal = None /\ q.said = {} /\ q.code = None
        /\ server = "stdio" /\ req[r].pc = "idle"
    BY <1>1 DEF Identity!ArriveStdio, Identity!Idle
  <1>3. Known(q) /\ Discreet(q) BY <1>2 DEF Known, Discreet
  <1>4. \A c \in wire : Sent(c, req[r]) => Sent(c, q) BY <1>2 DEF Sent
  <1>5. q.code \notin Refusals BY <1>2, NoneIsNoText DEF Refusals
  <1> QED BY <1>1, <1>2, <1>3, <1>4, <1>5, RequestSteps DEF Identity!ArriveStdio

LEMMA ArriveHTTPMoves ==
    ASSUME FlowInv, NEW r \in Requests, NEW t \in Identity!Bearers, NEW x \in Identity!Texts,
           Identity!ArriveHTTP(r, t, x)
    PROVE  FlowInv'
  <1>1. PICK q \in Served : /\ Identity!At(r, q)
                            /\ q = [Identity!Idle EXCEPT !.pc = "lookup", !.bearer = t, !.text = x]
    BY IdleServed DEF Identity!ArriveHTTP, Served, PCs
  <1>2. /\ q.pc = "lookup" /\ q.principal = None /\ q.filed = None /\ q.said = {} /\ q.code = None
        /\ q.bearer = t /\ server \in OverHTTP /\ req[r].pc = "idle"
    BY <1>1 DEF Identity!ArriveHTTP, Identity!Idle, OverHTTP
  <1>3. Known(q) /\ Discreet(q) BY <1>2 DEF Known, Discreet
  <1>4. \A c \in wire : Sent(c, req[r]) => Sent(c, q) BY <1>2 DEF Sent
  <1>5. q.code \notin Refusals BY <1>2, NoneIsNoText DEF Refusals
  <1> QED BY <1>1, <1>2, <1>3, <1>4, <1>5, RequestSteps DEF Identity!ArriveHTTP

LEMMA AskDelegationMoves ==
    ASSUME FlowInv, NEW r \in Requests, NEW s \in Sessions \ {Shared}, Identity!AskDelegation(r, s)
    PROVE  FlowInv'
  <1>1. PICK q \in Served :
           /\ Identity!At(r, q)
           /\ q = [Identity!Idle EXCEPT !.pc = "issue", !.principal = [user |-> None, session |-> s, bearer |-> None]]
    <2>1. [user |-> None, session |-> s, bearer |-> None] \in Principals BY DEF Principals
    <2> QED BY <2>1, IdleServed DEF Identity!AskDelegation, Served, PCs
  <1>2. /\ q.pc = "issue" /\ q.principal = [user |-> None, session |-> s, bearer |-> None]
        /\ q.filed = None /\ q.text = None /\ q.said = {} /\ q.code = None
        /\ server \in {"delegating", "managed"} /\ req[r].pc = "idle"
    BY <1>1 DEF Identity!AskDelegation, Identity!Idle
  <1>3. Known(q) /\ Discreet(q) BY <1>2 DEF Known, Discreet
  <1>4. \A c \in wire : Sent(c, req[r]) => Sent(c, q) BY <1>2 DEF Sent
  <1>5. q.code \notin Refusals BY <1>2, NoneIsNoText DEF Refusals
  <1> QED BY <1>1, <1>2, <1>3, <1>4, <1>5, RequestSteps DEF Identity!AskDelegation, OverHTTP

(* The store that is asked is one that files the bearer, if any does. *)
LEMMA LookupIsRight ==
    ASSUME FlowInv, NEW t \in Identity!Bearers, server \in OverHTTP
    PROVE  /\ Identity!Authenticate(t) \in Identity!Entries \cup {None}
           /\ Identity!Authenticate(t) =
                IF server # "managed" /\ Identity!InLocal(t) # None THEN Identity!InLocal(t) ELSE Identity!InWeb(t)
  <1>1. /\ Identity!InLocal(t) \in Identity!Entries \cup {None}
        /\ Identity!InWeb(t) \in Identity!Entries \cup {None}
    BY DEF Identity!InLocal, Identity!InWeb, FlowInv, FlowTypeOK
  <1>2. t \in WebTokens => Identity!InLocal(t) = None BY FlowAssumed DEF Identity!InLocal
  <1>3. t \notin WebTokens => Identity!InWeb(t) = None BY DEF Identity!InWeb
  <1>4. server = "standalone" => Identity!InWeb(t) = None BY DEF Identity!InWeb, FlowInv, AssembledInv
  <1>5. CASE server = "managed" BY <1>1, <1>5 DEF Identity!Authenticate
  <1>6. CASE server = "delegating" BY <1>1, <1>2, <1>3, <1>6 DEF Identity!Authenticate
  <1>7. CASE server = "standalone" BY <1>1, <1>4, <1>7 DEF Identity!Authenticate
  <1> QED BY <1>5, <1>6, <1>7 DEF OverHTTP

LEMMA LookupMoves ==
    ASSUME FlowInv, NEW r \in Requests, Identity!Lookup(r)
    PROVE  FlowInv'
  <1> DEFINE p == req[r]
             e == Identity!Authenticate(p.bearer)
  <1>1. p \in Served /\ p.pc = "lookup" /\ Known(p) /\ Caused(r)
    BY DEF Identity!Lookup, FlowInv, FlowTypeOK, KnownInv, CauseInv
  <1>2. server \in OverHTTP /\ p.bearer \in Identity!Bearers /\ p.said = {} /\ p.principal = None
    BY <1>1 DEF Known
  <1>3. e \in Identity!Entries \cup {None} BY <1>2, LookupIsRight
  <1>4. PICK q \in Served :
           /\ Identity!At(r, q)
           /\ q = IF e = None
                  THEN [p EXCEPT !.filed = e, !.pc = "done", !.code = "authentication_required"]
                  ELSE [p EXCEPT !.filed = e, !.pc = "verify",
                                 !.principal = [user |-> e.user, session |-> e.session, bearer |-> p.bearer]]
    <2>1. e = IF server # "managed" /\ Identity!InLocal(p.bearer) # None
              THEN Identity!InLocal(p.bearer) ELSE Identity!InWeb(p.bearer)
      BY <1>2, LookupIsRight
    <2>2. CASE e = None
      <3>1. Identity!At(r, [p EXCEPT !.filed = e, !.pc = "done", !.code = "authentication_required"])
        BY <2>1, <2>2 DEF Identity!Lookup
      <3>2. [p EXCEPT !.filed = e, !.pc = "done", !.code = "authentication_required"] \in Served
        BY <1>1, <1>3 DEF Served, PCs, Codes
      <3> QED BY <2>2, <3>1, <3>2
    <2>3. CASE e # None
      <3>1. [user |-> e.user, session |-> e.session, bearer |-> p.bearer] \in Principals
        BY <1>2, <1>3, <2>3 DEF Identity!Entries, Principals
      <3> QED BY <1>1, <1>3, <2>1, <2>3, <3>1 DEF Identity!Lookup, Served, PCs, Codes
    <2> QED BY <2>2, <2>3
  <1>5. Known(q)
    <2>1. CASE e = None BY <1>1, <1>2, <1>4, <2>1 DEF Known, Served
    <2>2. CASE e # None BY <1>1, <1>2, <1>3, <1>4, <2>2 DEF Known, Identified, Served
    <2> QED BY <2>1, <2>2
  <1>6. q.said = {} /\ q.pc # "tool" BY <1>1, <1>2, <1>4 DEF Served
  <1>7. Discreet(q) BY <1>6 DEF Discreet
  <1>8. \A c \in wire : Sent(c, p) => Sent(c, q) BY <1>1 DEF Sent
  <1>9. q.code \in Refusals => q.pc = "done" /\ q.filed = None
    <2>1. p.code \notin Refusals BY <1>1 DEF Caused
    <2> QED BY <1>1, <1>4, <2>1 DEF Served, Refusals
  <1> HIDE DEF e
  <1> QED BY <1>2, <1>4, <1>5, <1>7, <1>8, <1>9, RequestSteps DEF Identity!Lookup

(* What is known of a request that has a principal of its store. *)
LEMMA Credentials ==
    ASSUME FlowInv, NEW r \in Requests
    PROVE  /\ Identity!OwnOf(r) = Own(req[r])
           /\ server \in OverHTTP /\ Identified(req[r]) =>
                /\ req[r].principal # None
                /\ req[r].principal.user = req[r].filed.user
                /\ req[r].principal.bearer = req[r].bearer
                /\ Identity!TokenOf(r) = req[r].filed.session
                /\ Identity!TokenOf(r) \in Sessions \ {Shared} /\ req[r].filed # None
                /\ Own(req[r]) = {req[r].filed.session, req[r].bearer}
  <1>1. Identity!OwnOf(r) = Own(req[r]) BY DEF Identity!OwnOf, Identity!TokenOf, Own
  <1>2. ASSUME server \in OverHTTP, Identified(req[r])
        PROVE  /\ req[r].principal # None
               /\ req[r].principal.user = req[r].filed.user
               /\ req[r].principal.bearer = req[r].bearer
               /\ Identity!TokenOf(r) = req[r].filed.session
               /\ Identity!TokenOf(r) \in Sessions \ {Shared} /\ req[r].filed # None
               /\ Own(req[r]) = {req[r].filed.session, req[r].bearer}
    <2>1. req[r].principal \in Principals
      BY <1>2 DEF Identified, Principals, Identity!Entries
    <2>2. req[r].principal # None /\ req[r].filed # None BY <1>2, <2>1, FlowAssumed DEF Identified
    <2>3. /\ req[r].principal.user = req[r].filed.user
          /\ req[r].principal.bearer = req[r].bearer
          /\ req[r].principal.session = req[r].filed.session
          /\ req[r].filed.session \in Sessions \ {Shared}
      BY <1>2 DEF Identified, Identity!Entries
    <2> QED BY <2>2, <2>3 DEF Identity!TokenOf, Own
  <1> QED BY <1>1, <1>2

LEMMA VerifyMoves ==
    ASSUME FlowInv, NEW r \in Requests, Identity!Verify(r)
    PROVE  FlowInv'
  <1> DEFINE p == req[r]
             m == [by |-> r, why |-> "verify", token |-> Identity!TokenOf(r), text |-> None]
  <1>1. p \in Served /\ p.pc = "verify" /\ Known(p) /\ Discreet(p) /\ Caused(r)
    BY DEF Identity!Verify, FlowInv, FlowTypeOK, KnownInv, DiscreetInv, CauseInv
  <1>2. server \in OverHTTP /\ Identified(p) /\ p.said = {} BY <1>1 DEF Known
  <1>3. /\ p.principal.user = p.filed.user /\ p.filed # None /\ p.filed.user \in Users
        /\ p.principal.session = p.filed.session /\ p.filed.session \in Sessions
        /\ Identity!TokenOf(r) \in Sessions \ {Shared}
    BY <1>2, Credentials DEF Identified, Identity!Entries
  <1>4. owner[p.principal.session] \in Users \cup {None} BY <1>3 DEF FlowInv, FlowTypeOK
  <1>5. m \in Messages /\ m.by = r BY <1>3 DEF Messages, Identity!Texts
  <1>6. wire' = wire \cup {m} BY DEF Identity!Verify
  <1>7. p.code \notin Refusals BY <1>1 DEF Caused
  <1> DEFINE named == owner[p.principal.session]
  <1>8. PICK q \in Served :
           /\ Identity!At(r, q)
           /\ \/ q = [p EXCEPT !.pc = "done", !.code = "backend_unavailable"]
              \/ /\ named = None
                 /\ q = [p EXCEPT !.answer = named, !.pc = "done", !.code = "backend_authentication_required"]
              \/ /\ named # p.filed.user
                 /\ q = [p EXCEPT !.answer = named, !.pc = "done", !.code = "authentication_required"]
              \/ named = p.filed.user /\ q = [p EXCEPT !.answer = named, !.pc = "payload"]
    <2>1. CASE Identity!Ends(r, "backend_unavailable")
      BY <1>1, <2>1 DEF Identity!Ends, Served, PCs, Codes
    <2>2. CASE /\ named = None
               /\ Identity!At(r, [p EXCEPT !.answer = named, !.pc = "done", !.code = "backend_authentication_required"])
      <3>1. [p EXCEPT !.answer = named, !.pc = "done", !.code = "backend_authentication_required"] \in Served
        BY <1>1, <1>4 DEF Served, PCs, Codes
      <3> QED BY <2>2, <3>1
    <2>3. CASE /\ named # p.filed.user
               /\ Identity!At(r, [p EXCEPT !.answer = named, !.pc = "done", !.code = "authentication_required"])
      BY <1>1, <1>4, <2>3 DEF Served, PCs, Codes
    <2>4. CASE named = p.filed.user /\ Identity!At(r, [p EXCEPT !.answer = named, !.pc = "payload"])
      BY <1>1, <1>4, <2>4 DEF Served, PCs, Codes
    <2>5. Identity!SameUser(named, p.principal) <=> named = p.filed.user BY <1>3 DEF Identity!SameUser
    <2> QED BY <2>1, <2>2, <2>3, <2>4, <2>5 DEF Identity!Verify
  <1>9. /\ q.pc \in {"done", "payload"} /\ q.principal = p.principal /\ q.filed = p.filed
        /\ q.bearer = p.bearer /\ q.said = {}
        /\ q.pc = "payload" => q.answer = q.filed.user
        /\ q.code \in Refusals => q.pc = "done" /\ q.answer # q.filed.user
    <2>1. None # p.filed.user BY <1>3, FlowAssumed
    <2> HIDE DEF named
    <2> QED BY <1>1, <1>2, <1>7, <1>8, <2>1 DEF Served, Refusals
  <1>10. Known(q) BY <1>2, <1>9 DEF Known, Identified
  <1>11. Discreet(q) BY <1>9 DEF Discreet
  <1>12. \A c \in wire : Sent(c, p) => Sent(c, q) BY <1>1, <1>9 DEF Sent, Own
  <1>13. Sent(m, q) BY <1>3, <1>9, FlowAssumed DEF Sent
  <1>14. /\ web' \in [WebTokens -> Identity!Entries \cup {None}]
         /\ server \notin {"delegating", "managed"} => web' = web
    <2>1. web' = web \/ \E t \in WebTokens : web' = [web EXCEPT ![t] = None]
      BY DEF Identity!Verify, Identity!Forget
    <2>2. server \notin {"delegating", "managed"} => \A t \in WebTokens : web[t] = None
      BY DEF FlowInv, AssembledInv
    <2> QED BY <2>1, <2>2 DEF FlowInv, FlowTypeOK
  <1>15. UNCHANGED <<Identity!assembly, owner, local, catalog>> BY DEF Identity!Verify
  <1> HIDE DEF m
  <1>16. \A c \in wire' : c \in wire \/ (c \in Messages /\ c.by = r /\ Sent(c, q)) BY <1>5, <1>6, <1>13
  <1>17. wire \subseteq wire' /\ \E c \in wire' : c.by = r BY <1>5, <1>6
  <1> QED BY <1>2, <1>8, <1>9, <1>10, <1>11, <1>12, <1>14, <1>15, <1>16, <1>17, RequestMoves

LEMMA PayloadMoves ==
    ASSUME FlowInv, NEW r \in Requests, Identity!Payload(r)
    PROVE  FlowInv'
  <1> DEFINE p == req[r]
  <1>1. p \in Served /\ p.pc = "payload" /\ Known(p) /\ Caused(r)
    BY DEF Identity!Payload, FlowInv, FlowTypeOK, KnownInv, CauseInv
  <1>2. server \in OverHTTP /\ Identified(p) /\ p.said = {} BY <1>1 DEF Known
  <1>3. server # "stdio" /\ p.answer = p.filed.user /\ p.code \notin Refusals
    BY <1>1, <1>2 DEF Known, Caused, OverHTTP
  <1>4. PICK q \in Served : /\ Identity!At(r, q)
                            /\ \/ q = [p EXCEPT !.pc = "done", !.code = "credential_in_payload"]
                               \/ q = [p EXCEPT !.pc = "guard"]
    BY <1>1 DEF Identity!Payload, Identity!Ends, Served, PCs, Codes
  <1>5. /\ q.pc \in {"guard", "done"} /\ q.principal = p.principal /\ q.filed = p.filed /\ q.answer = p.answer
        /\ q.bearer = p.bearer /\ q.said = {} /\ q.code \notin Refusals
    BY <1>1, <1>2, <1>3, <1>4 DEF Served, Refusals
  <1>6. Known(q) BY <1>2, <1>3, <1>5 DEF Known, Identified
  <1>7. Discreet(q) BY <1>5 DEF Discreet
  <1>8. \A c \in wire : Sent(c, p) => Sent(c, q) BY <1>1, <1>5 DEF Sent, Own
  <1> QED BY <1>2, <1>4, <1>5, <1>6, <1>7, <1>8, RequestSteps DEF Identity!Payload

LEMMA GuardMoves ==
    ASSUME FlowInv, NEW r \in Requests, Identity!Guard(r)
    PROVE  FlowInv'
  <1> DEFINE p == req[r]
  <1>1. p \in Served /\ p.pc = "guard" /\ Known(p) /\ Caused(r)
    BY DEF Identity!Guard, FlowInv, FlowTypeOK, KnownInv, CauseInv
  <1>2. p.said = {} /\ p.code \notin Refusals /\ server \in {"stdio"} \cup OverHTTP
    BY <1>1 DEF Known, Caused
  <1>3. PICK q \in Served : /\ Identity!At(r, q)
                            /\ \/ q = [p EXCEPT !.pc = "done", !.code = "tool_error"]
                               \/ q = [p EXCEPT !.pc = "tool"] /\ ~Identity!Redacts(r, p.text)
    BY <1>1 DEF Identity!Guard, Identity!Ends, Served, PCs, Codes
  <1>4. /\ q.pc \in {"tool", "done"} /\ q.principal = p.principal /\ q.filed = p.filed /\ q.answer = p.answer
        /\ q.bearer = p.bearer /\ q.said = {} /\ q.code \notin Refusals /\ q.text = p.text
        /\ q.pc = "tool" => ~Identity!Redacts(r, p.text)
    BY <1>1, <1>2, <1>3 DEF Served, Refusals
  <1>5. Known(q) BY <1>1, <1>4 DEF Known, Identified
  <1>6. Discreet(q)
    <2>1. Own(q) = Identity!OwnOf(r) BY <1>4, Credentials DEF Own
    <2> QED BY <1>4, <2>1 DEF Discreet, Identity!Redacts
  <1>7. \A c \in wire : Sent(c, p) => Sent(c, q) BY <1>1, <1>4 DEF Sent, Own
  <1> QED BY <1>2, <1>3, <1>4, <1>5, <1>6, <1>7, RequestSteps DEF Identity!Guard

(* A call goes out with the session of the caller, or the configured one. *)
LEMMA CallerOf ==
    ASSUME FlowInv, NEW r \in Requests, req[r].pc = "tool"
    PROVE  LET s == Identity!TokenOf(r) IN
           /\ s \in Sessions \cup {None}
           /\ s = Shared => server = "stdio"
           /\ IF server = "stdio" THEN s = Shared
              ELSE req[r].filed # None /\ s = req[r].filed.session /\ req[r].answer = req[r].filed.user
  <1>1. Known(req[r]) BY DEF FlowInv, KnownInv
  <1>2. CASE server = "stdio" /\ req[r].principal = None
    BY <1>2, FlowAssumed DEF Identity!TokenOf, FlowInv, AssembledInv
  <1>3. CASE server \in OverHTTP /\ Identified(req[r])
    <2>1. server # "stdio" BY <1>3 DEF OverHTTP
    <2>2. req[r].answer = req[r].filed.user BY <1>1, <2>1 DEF Known
    <2> QED BY <1>3, <2>1, <2>2, Credentials
  <1> QED BY <1>1, <1>2, <1>3 DEF Known

LEMMA CallMoves ==
    ASSUME FlowInv, NEW r \in Requests, Identity!Call(r)
    PROVE  FlowInv'
  <1> DEFINE p == req[r]
             m == [by |-> r, why |-> "tool", token |-> Identity!TokenOf(r), text |-> p.text]
  <1>1. p \in Served /\ p.pc = "tool" /\ Known(p) /\ Discreet(p) /\ Caused(r)
    BY DEF Identity!Call, FlowInv, FlowTypeOK, KnownInv, DiscreetInv, CauseInv
  <1>2. server \in {"stdio"} \cup OverHTTP BY <1>1 DEF Known
  <1>3. m \in Messages /\ m.by = r BY <1>1, CallerOf DEF Messages, Served
  <1>4. wire' = wire \cup {m} BY DEF Identity!Call, Identity!Sends
  <1>5. PICK q \in Served :
           /\ Identity!At(r, q)
           /\ \E body \in Identity!Texts :
                q = [p EXCEPT !.calls = @ + 1,
                         !.said = IF owner[Identity!TokenOf(r)] # None /\ Identity!Inspected(r, body)
                                  THEN @ \cup {body} ELSE @]
    <2>1. PICK body \in Identity!Texts :
            Identity!At(r, [p EXCEPT !.calls = @ + 1,
                         !.said = IF owner[Identity!TokenOf(r)] # None /\ Identity!Inspected(r, body)
                                  THEN @ \cup {body} ELSE @])
      BY DEF Identity!Call
    <2> DEFINE heard == IF owner[Identity!TokenOf(r)] # None /\ Identity!Inspected(r, body)
                        THEN p.said \cup {body} ELSE p.said
               x == [p EXCEPT !.calls = p.calls + 1, !.said = heard]
    <2>2. heard \in SUBSET Identity!Texts BY <1>1 DEF Served
    <2>3. Identity!At(r, x) BY <2>1
    <2>4. x \in Served
      <3>1. p.calls + 1 \in Nat BY <1>1 DEF Served
      <3>2. ASSUME NEW n \in Nat, NEW h \in SUBSET Identity!Texts
            PROVE  [p EXCEPT !.calls = n, !.said = h] \in Served
        BY <1>1 DEF Served
      <3> QED BY <2>2, <3>1, <3>2
    <2> QED BY <2>3, <2>4
  <1>6. /\ q.pc = "tool" /\ q.principal = p.principal /\ q.filed = p.filed /\ q.answer = p.answer
        /\ q.bearer = p.bearer /\ q.code = p.code /\ q.text = p.text
        /\ \E body : q.said \subseteq p.said \cup {body} /\ (q.said = p.said \/ Identity!Inspected(r, body))
    BY <1>1, <1>5 DEF Served
  <1>7. Known(q) BY <1>1, <1>6 DEF Known, Identified
  <1>8. Own(q) = Own(p) /\ Own(p) = Identity!OwnOf(r) BY <1>6, Credentials DEF Own
  <1>9. Discreet(q) BY <1>1, <1>6, <1>8 DEF Discreet, Identity!Inspected
  <1>10. \A c \in wire : Sent(c, p) => Sent(c, q) BY <1>1, <1>6, <1>8 DEF Sent
  <1>11. Sent(m, q)
    <2>1. p.text = None \/ p.text \notin Own(q) BY <1>1, <1>8 DEF Discreet
    <2> QED BY <1>1, <1>6, <2>1, CallerOf DEF Sent
  <1>12. q.code \notin Refusals BY <1>1, <1>6 DEF Caused
  <1>13. /\ UNCHANGED <<Identity!assembly, owner, local, catalog>> /\ web' = web
         /\ web' \in [WebTokens -> Identity!Entries \cup {None}]
    BY DEF Identity!Call, FlowInv, FlowTypeOK
  <1> HIDE DEF m
  <1>14. \A c \in wire' : c \in wire \/ (c \in Messages /\ c.by = r /\ Sent(c, q)) BY <1>3, <1>4, <1>11
  <1>15. wire \subseteq wire' BY <1>4
  <1> QED BY <1>2, <1>5, <1>7, <1>9, <1>10, <1>12, <1>13, <1>14, <1>15, RequestMoves

LEMMA ReturnMoves ==
    ASSUME FlowInv, NEW r \in Requests, Identity!Return(r)
    PROVE  FlowInv'
  <1> DEFINE p == req[r]
  <1>1. p \in Served /\ p.pc = "tool" /\ Known(p) /\ Discreet(p)
    BY DEF Identity!Return, FlowInv, FlowTypeOK, KnownInv, DiscreetInv
  <1>2. server \in {"stdio"} \cup OverHTTP BY <1>1 DEF Known
  <1>3. PICK q \in Served :
           /\ Identity!At(r, q)
           /\ q = [p EXCEPT !.pc = "done", !.code = "ok",
                     !.said = @ \cup (IF Identity!Redacts(r, p.text) THEN {} ELSE {p.text})]
    BY <1>1 DEF Identity!Return, Served, PCs, Codes
  <1>4. /\ q.pc = "done" /\ q.principal = p.principal /\ q.filed = p.filed /\ q.answer = p.answer
        /\ q.bearer = p.bearer /\ q.code = "ok" /\ q.said \subseteq p.said \cup {p.text}
    BY <1>1, <1>3 DEF Served
  <1>5. Known(q) BY <1>4 DEF Known
  <1>6. Own(q) = Own(p) BY <1>4 DEF Own
  <1>7. Discreet(q) BY <1>1, <1>4, <1>6 DEF Discreet
  <1>8. \A c \in wire : Sent(c, p) => Sent(c, q) BY <1>1, <1>4, <1>6 DEF Sent
  <1>9. q.code \notin Refusals BY <1>4 DEF Refusals
  <1> QED BY <1>2, <1>3, <1>5, <1>7, <1>8, <1>9, RequestSteps DEF Identity!Return

(* The principal of the call that verifies a delegation. *)
LEMMA AskingFor ==
    ASSUME FlowInv, NEW r \in Requests, req[r].pc \in {"issue", "grant"}
    PROVE  /\ server \in {"delegating", "managed"} /\ req[r].filed = None /\ req[r].text = None /\ req[r].said = {}
           /\ Identity!TokenOf(r) \in Sessions \ {Shared}
           /\ Own(req[r]) = {Identity!TokenOf(r), None}
  <1>1. Known(req[r]) BY DEF FlowInv, KnownInv
  <1>2. /\ req[r].principal \in [user : {None}, session : Sessions \ {Shared}, bearer : {None}]
        /\ req[r].principal \in Principals
    BY <1>1 DEF Known, Principals
  <1>3. req[r].principal # None BY <1>2, FlowAssumed
  <1> QED BY <1>1, <1>2, <1>3 DEF Known, Identity!TokenOf, Own

LEMMA VerifyDelegationMoves ==
    ASSUME FlowInv, NEW r \in Requests, Identity!VerifyDelegation(r)
    PROVE  FlowInv'
  <1> DEFINE p == req[r]
             m == [by |-> r, why |-> "issue", token |-> Identity!TokenOf(r), text |-> p.text]
             named == owner[Identity!TokenOf(r)]
  <1>1. p \in Served /\ p.pc = "issue" /\ Known(p) /\ Caused(r)
    BY DEF Identity!VerifyDelegation, FlowInv, FlowTypeOK, KnownInv, CauseInv
  <1>2. /\ server \in {"delegating", "managed"} /\ p.filed = None /\ p.text = None /\ p.said = {}
        /\ Identity!TokenOf(r) \in Sessions \ {Shared}
    BY <1>1, AskingFor
  <1>3. m \in Messages /\ m.by = r BY <1>1, <1>2 DEF Messages, Identity!Texts
  <1>4. wire' = wire \cup {m} BY DEF Identity!VerifyDelegation, Identity!Sends
  <1>5. named \in Users \cup {None} BY <1>2 DEF FlowInv, FlowTypeOK
  <1>6. p.code \notin Refusals BY <1>1 DEF Caused
  <1>7. PICK q \in Served :
           /\ Identity!At(r, q)
           /\ \/ q = [p EXCEPT !.pc = "done", !.code = "backend_unavailable"]
              \/ q = [p EXCEPT !.pc = "done", !.code = "backend_authentication_required"]
              \/ named # None /\ q = [p EXCEPT !.pc = "grant", !.answer = named]
    BY <1>1, <1>5 DEF Identity!VerifyDelegation, Identity!Ends, Served, PCs, Codes
  <1>8. /\ q.pc \in {"done", "grant"} /\ q.principal = p.principal /\ q.filed = None /\ q.text = None
        /\ q.said = {} /\ q.bearer = p.bearer
        /\ q.pc = "grant" => q.answer \in Users
        /\ q.code \in Refusals => q.pc = "done"
    BY <1>1, <1>2, <1>5, <1>6, <1>7 DEF Served
  <1>9. Known(q) BY <1>1, <1>2, <1>8 DEF Known
  <1>10. Discreet(q) BY <1>8 DEF Discreet
  <1>11. \A c \in wire : Sent(c, p) => Sent(c, q) BY <1>1, <1>8 DEF Sent, Own
  <1>12. Sent(m, q) BY <1>2, <1>8 DEF Sent
  <1>13. /\ UNCHANGED <<Identity!assembly, owner, local, catalog>> /\ web' = web
         /\ web' \in [WebTokens -> Identity!Entries \cup {None}]
    BY DEF Identity!VerifyDelegation, FlowInv, FlowTypeOK
  <1>14. server \in OverHTTP BY <1>2 DEF OverHTTP
  <1> HIDE DEF m
  <1>15. \A c \in wire' : c \in wire \/ (c \in Messages /\ c.by = r /\ Sent(c, q)) BY <1>3, <1>4, <1>12
  <1>16. wire \subseteq wire' BY <1>4
  <1> QED BY <1>7, <1>8, <1>9, <1>10, <1>11, <1>13, <1>14, <1>15, <1>16, RequestMoves

LEMMA GrantMoves ==
    ASSUME FlowInv, NEW r \in Requests, Identity!Grant(r)
    PROVE  FlowInv'
  <1> DEFINE p == req[r]
  <1>1. p \in Served /\ p.pc = "grant" /\ Known(p) /\ Caused(r)
    BY DEF Identity!Grant, FlowInv, FlowTypeOK, KnownInv, CauseInv
  <1>2. /\ server \in {"delegating", "managed"} /\ p.filed = None /\ p.text = None /\ p.said = {}
        /\ Identity!TokenOf(r) \in Sessions \ {Shared} /\ Own(p) = {Identity!TokenOf(r), None}
        /\ p.answer \in Users
    BY <1>1, AskingFor DEF Known
  <1>3. PICK q \in Served :
           /\ Identity!At(r, q)
           /\ \/ q = [p EXCEPT !.pc = "done", !.code = "delegation_limit"]
              \/ \E t \in WebTokens : q = [p EXCEPT !.pc = "done", !.code = "ok", !.said = {t}]
    <2>1. CASE Identity!Ends(r, "delegation_limit") BY <1>1, <2>1 DEF Identity!Ends, Served, PCs, Codes
    <2>2. CASE \E t \in WebTokens : Identity!At(r, [p EXCEPT !.pc = "done", !.code = "ok", !.said = {t}])
      <3>1. PICK t \in WebTokens : Identity!At(r, [p EXCEPT !.pc = "done", !.code = "ok", !.said = {t}]) BY <2>2
      <3>2. t \in Identity!Texts BY DEF Identity!Texts, Identity!Bearers
      <3>3. [p EXCEPT !.pc = "done", !.code = "ok", !.said = {t}] \in Served BY <1>1, <3>2 DEF Served, PCs, Codes
      <3> QED BY <3>1, <3>3
    <2> QED BY <2>1, <2>2 DEF Identity!Grant, Identity!Fresh
  <1>4. /\ q.pc = "done" /\ q.principal = p.principal /\ q.filed = p.filed
        /\ q.bearer = p.bearer /\ q.said \subseteq WebTokens /\ q.code \notin Refusals
    <2>1. "ok" \notin Refusals /\ "delegation_limit" \notin Refusals BY DEF Refusals
    <2>2. CASE q = [p EXCEPT !.pc = "done", !.code = "delegation_limit"] BY <1>1, <1>2, <2>1, <2>2 DEF Served
    <2>3. CASE \E t \in WebTokens : q = [p EXCEPT !.pc = "done", !.code = "ok", !.said = {t}]
      <3>1. PICK t \in WebTokens : q = [p EXCEPT !.pc = "done", !.code = "ok", !.said = {t}] BY <2>3
      <3>2. q.said = {t} /\ q.code = "ok" BY <1>1, <3>1 DEF Served
      <3> QED BY <1>1, <2>1, <3>1, <3>2 DEF Served
    <2> QED BY <1>3, <2>2, <2>3
  <1>5. Known(q) BY <1>4 DEF Known
  <1>6. Own(q) = Own(p) BY <1>4 DEF Own
  <1>7. Discreet(q) BY <1>2, <1>4, <1>6, FlowAssumed DEF Discreet
  <1>8. \A c \in wire : Sent(c, p) => Sent(c, q) BY <1>1, <1>4, <1>6 DEF Sent
  <1>9. web' \in [WebTokens -> Identity!Entries \cup {None}]
    <2>1. [user |-> p.answer, session |-> Identity!TokenOf(r)] \in Identity!Entries BY <1>2 DEF Identity!Entries
    <2> QED BY <2>1 DEF Identity!Grant, FlowInv, FlowTypeOK
  <1>10. UNCHANGED <<Identity!assembly, owner, local, catalog>> /\ wire' = wire BY DEF Identity!Grant
  <1>11. server \in OverHTTP BY <1>2 DEF OverHTTP
  <1> QED BY <1>2, <1>3, <1>4, <1>5, <1>7, <1>8, <1>9, <1>10, <1>11, RequestMoves

LEMMA FlowBegins == Identity!Init \/ IdentityRests => FlowInv
  <1> SUFFICES ASSUME Identity!Init \/ IdentityRests PROVE FlowInv OBVIOUS
  <1>1. /\ token = None /\ wire = {} /\ catalog = None
        /\ server \in {None, "stopped"} /\ (launch # None => launch \in Identity!Launches /\ server = None)
    BY DEF Identity!Init, IdentityRests
  <1>2. \A r \in Requests : req[r] = Identity!Idle BY DEF Identity!Init, IdentityRests
  <1>3. \A t \in WebTokens : web[t] = None BY DEF Identity!Init, IdentityRests
  <1>4. owner \in [Sessions -> Users \cup {None}] BY DEF Identity!Init, IdentityRests
  <1>5. local \in [LocalTokens -> Identity!Entries \cup {None}] BY DEF Identity!Init, IdentityRests
  <1>6. web \in [WebTokens -> Identity!Entries \cup {None}] BY DEF Identity!Init, IdentityRests
  <1>7. req \in [Requests -> Served] BY IdleServed DEF Identity!Init, IdentityRests
  <1>8. FlowTypeOK BY <1>1, <1>4, <1>5, <1>6, <1>7 DEF FlowTypeOK
  <1>9. token # Shared /\ server # "stdio" BY <1>1, FlowAssumed, NoneIsNoText
  <1>10. AssembledInv BY <1>1, <1>2, <1>3, <1>9 DEF AssembledInv
  <1>11. KnownInv /\ DiscreetInv BY <1>2, IdleServed DEF KnownInv, DiscreetInv
  <1>12. WireInv /\ CatalogInv BY <1>1 DEF WireInv, CatalogInv
  <1>13. CauseInv BY <1>2, IdleServed, NoneIsNoText DEF CauseInv, Caused, Refusals
  <1> QED BY <1>8, <1>10, <1>11, <1>12, <1>13 DEF FlowInv

(* The mode a server was assembled in, and when it has a token of its own. *)
LEMMA LaunchesAreSound ==
    ASSUME NEW l \in Identity!Launches
    PROVE  /\ Identity!ModeOf(l) \in {"stdio"} \cup OverHTTP
           /\ l.token \in {None, Shared}
           /\ Identity!Failure(l) = None => (l.token = Shared <=> Identity!ModeOf(l) = "stdio")
  <1>1. CASE l.managed
    <2>1. l.token = None BY <1>1 DEF Identity!Launches
    <2> QED BY <1>1, <2>1, FlowAssumed DEF Identity!ModeOf, OverHTTP
  <1>2. CASE ~l.managed
    <2>1. l.transport \in {"stdio", "http"} /\ l.token \in {None, Shared} BY <1>2 DEF Identity!Launches
    <2>2. Identity!Failure(l) = None => (l.token # None) = (l.transport = "stdio")
      BY <1>2, NoneIsNoText DEF Identity!Failure, Identity!Validate
    <2>3. None # Shared BY FlowAssumed
    <2>4. Identity!ModeOf(l) \in {"stdio"} \cup OverHTTP /\ (Identity!ModeOf(l) = "stdio" <=> l.transport = "stdio")
      BY <1>2, <2>1 DEF Identity!ModeOf, OverHTTP
    <2> QED BY <2>1, <2>2, <2>3, <2>4
  <1> QED BY <1>1, <1>2

LEMMA AssembleMoves == ASSUME FlowInv, Identity!Assemble PROVE FlowInv'
  <1>1. /\ launch \in Identity!Launches /\ server = None /\ token = None /\ wire = {} /\ catalog = None
        /\ launch' = None
        /\ UNCHANGED <<owner, local, web, req, wire, catalog>>
    BY DEF Identity!Assemble, FlowInv, AssembledInv
  <1>2. /\ \A r \in Requests : req[r] = Identity!Idle
        /\ \A t \in WebTokens : web[t] = None
    BY <1>1, NoneIsNoText DEF FlowInv, AssembledInv
  <1>3. /\ server' \in {"stopped", "stdio"} \cup OverHTTP
        /\ token' \in {None, Shared} /\ (token' = Shared <=> server' = "stdio")
    <2>1. CASE Identity!Failure(launch) = None BY <1>1, <2>1, LaunchesAreSound DEF Identity!Assemble
    <2>2. CASE Identity!Failure(launch) # None BY <1>1, <2>2, FlowAssumed DEF Identity!Assemble
    <2> QED BY <2>1, <2>2
  <1>4. FlowTypeOK' BY <1>1, <1>3 DEF FlowInv, FlowTypeOK
  <1>5. AssembledInv' BY <1>1, <1>2, <1>3 DEF AssembledInv
  <1>6. \A r \in Requests : req'[r] = Identity!Idle BY <1>1, <1>2
  <1>7. KnownInv'
    <2> SUFFICES ASSUME NEW r \in Requests PROVE Known(req[r])' BY DEF KnownInv
    <2> QED BY <1>6 DEF Known, Identity!Idle
  <1>8. DiscreetInv'
    <2> SUFFICES ASSUME NEW r \in Requests PROVE Discreet(req[r])' BY DEF DiscreetInv
    <2> QED BY <1>6 DEF Discreet, Identity!Idle
  <1>9. WireInv' BY <1>1 DEF WireInv
  <1>10. CauseInv' BY <1>6, IdleServed, NoneIsNoText DEF CauseInv, Caused, Refusals
  <1>11. CatalogInv' BY <1>1 DEF CatalogInv
  <1> QED BY <1>4, <1>5, <1>7, <1>8, <1>9, <1>10, <1>11 DEF FlowInv

(* What happens elsewhere touches no request. *)
LEMMA OthersMove ==
    ASSUME FlowInv, UNCHANGED <<Identity!assembly, web, req, wire>>,
           owner' \in [Sessions -> Users \cup {None}],
           local' \in [LocalTokens -> Identity!Entries \cup {None}],
           catalog' = catalog \/ token # None,
           catalog' = catalog \/ catalog' # token
    PROVE  FlowInv'
  <1>0. UNCHANGED <<launch, server, failure, token, web, req, wire>> BY DEF Identity!assembly
  <1>1. FlowTypeOK' BY <1>0 DEF FlowInv, FlowTypeOK
  <1>2. AssembledInv' BY <1>0 DEF FlowInv, AssembledInv
  <1>3. KnownInv' BY <1>0 DEF FlowInv, KnownInv, Known, Identified
  <1>4. DiscreetInv' BY <1>0 DEF FlowInv, DiscreetInv, Discreet, Own
  <1>5. WireInv' BY <1>0 DEF FlowInv, WireInv, Sent, Own
  <1>6. CauseInv' BY <1>0 DEF FlowInv, CauseInv, Caused
  <1>7. CatalogInv' BY <1>0 DEF FlowInv, CatalogInv
  <1> QED BY <1>1, <1>2, <1>3, <1>4, <1>5, <1>6, <1>7 DEF FlowInv

LEMMA FlowMoves == FlowInv /\ [Identity!Next]_(Identity!vars) => FlowInv'
  <1> SUFFICES ASSUME FlowInv, [Identity!Next]_(Identity!vars) PROVE FlowInv' OBVIOUS
  <1> USE DEF FlowTypeOK
  <1>1. CASE Identity!Assemble BY <1>1, AssembleMoves
  <1>2. CASE Identity!FetchOpenAPI
    <2>1. catalog' = catalog \/ catalog' # token BY <1>2 DEF Identity!FetchOpenAPI, Identity!Readable
    <2> QED BY <1>2, <2>1, OthersMove DEF Identity!FetchOpenAPI, FlowInv
  <1>3. ASSUME NEW r \in Requests, Identity!Serve(r) PROVE FlowInv'
    BY <1>3, ArriveStdioMoves, ArriveHTTPMoves, AskDelegationMoves, LookupMoves, VerifyMoves, PayloadMoves,
       GuardMoves, CallMoves, ReturnMoves, VerifyDelegationMoves, GrantMoves DEF Identity!Serve
  <1>4. ASSUME NEW s \in Sessions, Identity!Logout(s) PROVE FlowInv'
    BY <1>4, OthersMove DEF Identity!Logout, FlowInv
  <1>5. ASSUME NEW s \in Sessions, NEW u \in Users, Identity!Rebind(s, u) PROVE FlowInv'
    BY <1>5, OthersMove DEF Identity!Rebind, FlowInv
  <1>6. ASSUME NEW t \in LocalTokens, Identity!Revoke(t) PROVE FlowInv'
    BY <1>6, OthersMove DEF Identity!Revoke, FlowInv
  <1>7. CASE UNCHANGED Identity!vars
    BY <1>7, OthersMove DEF Identity!vars, Identity!assembly, FlowInv
  <1> QED BY <1>1, <1>2, <1>3, <1>4, <1>5, <1>6, <1>7 DEF Identity!Next

(* A step of another part leaves the credentials alone. *)
LEMMA PartsApart ==
    [Next]_<<part, registryVars, callingVars, reportVars, identityVars>> => [Identity!Next]_(Identity!vars)
  BY DEF Next, identityVars, Identity!vars

LEMMA FlowAlways == Spec => []FlowInv
  <1>1. Init => FlowInv BY FlowBegins DEF Init
  <1>2. FlowInv /\ [Next]_<<part, registryVars, callingVars, reportVars, identityVars>> => FlowInv'
    BY PartsApart, FlowMoves
  <1> QED BY <1>1, <1>2, PTL DEF Spec

(* A host that passes backendOrigin passes Validate, but for its port. *)
LEMMA VerdictsAgree ==
    ASSUME NEW l \in Identity!Launches, l.managed, Identity!Failure(l) = "backend_config"
    PROVE  l.url.port \in {"zero", "empty"}
  <1>1. /\ l.url \in Identity!CoreURLs /\ l.token = None /\ l.transport = "http"
    BY DEF Identity!Launches
  <1>2. Identity!backendOrigin(l.url) /\ ~Identity!Validate(l) BY NoneIsNoText DEF Identity!Failure
  <1> QED BY <1>1, <1>2 DEF Identity!backendOrigin, Identity!loopbackHostname, Identity!Validate, Identity!CoreURLs

(* For any users, sessions and requests, in every mode, and however the requests of  *)
(* one server interleave: a tool's call carries the session filed under the bearer of *)
(* its own request (client.go:178), a refusal has a cause (app.go:154), and the two   *)
(* judges of the core's address agree (origin.go:60).                                 *)
THEOREM CallersSpeakForThemselves == Spec => []SpeaksForItsCaller
  <1>1. FlowInv => SpeaksForItsCaller
    <2> SUFFICES ASSUME FlowInv PROVE SpeaksForItsCaller OBVIOUS
    <2>1. Identity!SpeaksForItsCaller BY DEF FlowInv, WireInv, Sent, Identity!SpeaksForItsCaller
    <2>2. Identity!RefusedForACause
      BY DEF FlowInv, CauseInv, Caused, Refusals, Identity!RefusedForACause
    <2>3. Identity!OneVerdictOnHosts
      BY VerdictsAgree DEF FlowInv, AssembledInv, Identity!OneVerdictOnHosts
    <2> QED BY <2>1, <2>2, <2>3 DEF SpeaksForItsCaller
  <1> QED BY <1>1, FlowAlways, PTL

(* Whatever texts clients send and the backend answers, no credential of a call goes  *)
(* out in an argument, comes back in an answer or enters a tool's description          *)
(* (server.go:119, client.go).                                                         *)
THEOREM CredentialsAlwaysStayInside == Spec => []CredentialsStayInside
  <1>1. FlowInv => CredentialsStayInside
    <2> SUFFICES ASSUME FlowInv PROVE Identity!CredentialsStayInside BY DEF CredentialsStayInside
    <2>1. \A r \in Requests : Identity!OwnOf(r) = Own(req[r]) BY Credentials
    <2>2. \A c \in wire : c.by \in Requests BY DEF FlowInv, FlowTypeOK, Messages
    <2> QED BY <2>1, <2>2 DEF FlowInv, DiscreetInv, Discreet, WireInv, Sent, CatalogInv, Identity!CredentialsStayInside
  <1> QED BY <1>1, FlowAlways, PTL

-----------------------------------------------------------------------------
(* What a call by the contract says. *)

(* A set of naturals that is not empty has a least element: induction, for the *)
(* set of those for which something is false.                                  *)
LEMMA Least == ASSUME NEW T \in SUBSET Nat, T # {} PROVE \E x \in T : \A y \in T : ~(y < x)
  <1> DEFINE R == OpToRel(<, Nat)
  <1>1. IsWellFoundedOn(R, Nat) BY NatLessThanWellFounded
  <1>2. R = {ss \in Nat \X Nat : ss[1] < ss[2]} BY DEF OpToRel
  <1> HIDE DEF R
  <1>3. PICK x \in T : \A y \in T : ~(<<y, x>> \in R) BY <1>1, WFMin
  <1> QED BY <1>2, <1>3

(* Texts that are one piece each are what the backend makes of them joined. *)
LEMMA Flattened ==
    ASSUME NEW m \in Nat, m # 0, NEW t
    PROVE  Calling!FlattenSeq([i \in 1 .. m |-> <<t[i]>>]) = [i \in 1 .. m |-> t[i]]
  <1> DEFINE s == [i \in 1 .. m |-> <<t[i]>>]
             S == {t[i] : i \in 1 .. m}
             Prefix(i) == [j \in 1 .. i |-> t[j]]
             Step(f) == [i \in 1 .. m |-> IF i = 1 THEN s[i] ELSE f[i - 1] \o s[i]]
             flatten == CHOOSE f : f = Step(f)
             g == [i \in 1 .. m |-> Prefix(i)]
  <1>1. s \in Seq(Seq(S)) /\ Len(s) = m
    <2>1. \A i \in 1 .. m : <<t[i]>> \in Seq(S) OBVIOUS
    <2> QED BY <2>1
  <1>2. Calling!FlattenSeq(s) = flatten[m]
    <2>1. Calling!FlattenSeq(s) =
            (CHOOSE f : f = [i \in 1 .. Len(s) |-> IF i = 1 THEN s[i] ELSE f[i - 1] \o s[i]])[Len(s)]
      <3>1. Len(s) # 0 BY <1>1
      <3> HIDE DEF s
      <3> QED BY <3>1, Zenon DEF Calling!FlattenSeq
    <2> HIDE DEF s
    <2> QED BY <1>1, <2>1
  <1>3. \A i \in 1 .. m : i # 1 => Prefix(i - 1) \o s[i] = Prefix(i)
    <2> SUFFICES ASSUME NEW i \in 1 .. m, i # 1 PROVE Prefix(i - 1) \o s[i] = Prefix(i) OBVIOUS
    <2>1. Prefix(i - 1) \in Seq(S) /\ Len(Prefix(i - 1)) = i - 1 OBVIOUS
    <2>2. s[i] = <<t[i]>> /\ s[i] \in Seq(S) /\ Len(s[i]) = 1 /\ s[i][1] = t[i] OBVIOUS
    <2>3. Prefix(i) \in Seq(S) /\ Len(Prefix(i)) = i OBVIOUS
    <2>4. Prefix(i - 1) \o s[i] \in Seq(S) /\ Len(Prefix(i - 1) \o s[i]) = i BY <2>1, <2>2
    <2>5. \A j \in 1 .. i : (Prefix(i - 1) \o s[i])[j] = Prefix(i)[j] BY <2>1, <2>2
    <2> QED BY <2>3, <2>4, <2>5
  <1>4. s[1] = Prefix(1) OBVIOUS
  <1>5. g = Step(g)
    <2>1. \A i \in 1 .. m : i # 1 => g[i - 1] = Prefix(i - 1) OBVIOUS
    <2>2. \A i \in 1 .. m : g[i] = IF i = 1 THEN s[i] ELSE g[i - 1] \o s[i] BY <1>3, <1>4, <2>1
    <2> QED BY <2>2
  <1> HIDE DEF g
  <1>6. flatten = Step(flatten) BY <1>5, Zenon
  <1> HIDE DEF flatten
  <1>7. \A i \in 1 .. m : flatten[i] = IF i = 1 THEN s[i] ELSE flatten[i - 1] \o s[i] BY <1>6
  <1> DEFINE T == {i \in 1 .. m : flatten[i] # Prefix(i)}
  <1>8. T = {}
    <2> SUFFICES ASSUME T # {} PROVE FALSE OBVIOUS
    <2>1. T \in SUBSET Nat OBVIOUS
    <2> HIDE DEF T
    <2>2. PICK x \in T : \A y \in T : ~(y < x) BY <2>1, Least
    <2> USE DEF T
    <2>3. CASE x = 1 BY <1>4, <1>7, <2>2, <2>3
    <2>4. CASE x # 1
      <3>1. x - 1 \in 1 .. m /\ x - 1 < x /\ x \in 1 .. m BY <2>4
      <3>2. flatten[x - 1] = Prefix(x - 1) BY <2>2, <3>1
      <3>3. flatten[x] = Prefix(x) BY <1>3, <1>7, <2>4, <3>1, <3>2
      <3> QED BY <2>2, <3>3
    <2> QED BY <2>3, <2>4
  <1>9. flatten[m] = Prefix(m) BY <1>8
  <1> QED BY <1>2, <1>9

Ops == {Op[c] : c \in Contracts}
ArgObjects == ArgSets \cup {AdapterArgs}
CallPCs == {"idle", "look", "bind", "static", "sent", "done"}
Results == {None, "ok", "body", "no_content", "error"}
CallStates ==
    [pc : CallPCs, adapter : BOOLEAN, args : ArgObjects \cup {None}, op : Ops \cup {None},
     reply : Calling!Replies \cup {None}, result : Results]
ByContract == {Calling!Request(op, args) : op \in Ops, args \in ArgObjects}
Sendings == {<<>>} \cup {<<r>> : r \in ByContract \cup {Calling!StaticRequest}}

(* A request by the contract is what the call's operation makes of its arguments, *)
(* and the operation was fit to be run.                                            *)
Says(q, r) ==
    /\ q.op # None /\ q.op.exposure # "BLOCKED" /\ Calling!Runnable(q.op)
    /\ q.args \in ArgObjects \ {None} /\ Calling!Binds(q.op, q.args)
    /\ r = Calling!Request(q.op, q.args)

(* Until it is sent a call has asked for nothing, then for one thing. *)
CallFits(q, s) ==
    /\ q.pc = "bind" => q.op # None /\ q.op.exposure # "BLOCKED"
    /\ q.pc \in {"look", "static"} => q.op = None /\ q.adapter
    /\ q.pc \notin {"sent", "done"} => s = <<>>
    /\ q.pc = "sent" => s # <<>>
    /\ q.pc # "done" => q.reply = None
    /\ q.pc = "done" /\ q.reply = "failed" => q.result = "error" /\ s # <<>>
    /\ s = <<>> \/ s = <<Calling!StaticRequest>> \/ \E r \in ByContract : s = <<r>> /\ Says(q, r)

CallInv ==
    /\ current \in Contracts \cup {None}
    /\ call \in [Calls -> CallStates]
    /\ sent \in [Calls -> Sendings]
    /\ \A x \in Calls : CallFits(call[x], sent[x])

LEMMA CallsAssumed ==
    /\ AdapterArgs # None /\ None # "failed"
    /\ Doubles \in SUBSET Nat /\ Doubles # {}
    /\ \A args \in ArgObjects \ {None} : \A n \in DOMAIN args : args[n] # None =>
           /\ args[n].type = "list" => args[n].items \in Seq(Calling!Range(args[n].items))
           /\ \A v \in Calling!Range(Calling!Items(args[n])) \ {None} : v.type = "number" => v.halves \in Nat
  BY ToolsAssumption DEF Calling!ContractCallAssumption, ArgObjects

LEMMA CallsBegin == ASSUME Calling!Init PROVE CallInv
  <1>1. Calling!Idle \in CallStates BY DEF Calling!Idle, CallStates, CallPCs, Results
  <1>2. CallFits(Calling!Idle, <<>>) BY DEF Calling!Idle, CallFits
  <1> QED BY <1>1, <1>2 DEF Calling!Init, CallInv, Sendings

(* What a step of call x must leave behind: q is the call and s its requests after it. *)
LEMMA CallGoesOn ==
    ASSUME CallInv, current' = current, NEW x \in Calls, NEW q \in CallStates, NEW said \in Sendings, CallFits(q, said),
           call' = [call EXCEPT ![x] = q], sent' = [sent EXCEPT ![x] = said]
    PROVE  CallInv'
  <1>1. call' \in [Calls -> CallStates] /\ sent' \in [Calls -> Sendings] BY DEF CallInv
  <1>2. ASSUME NEW y \in Calls PROVE CallFits(call[y], sent[y])'
    <2>1. CASE y = x
      <3>1. call'[y] = q /\ sent'[y] = said BY <2>1 DEF CallInv
      <3> QED BY <3>1 DEF CallFits, Says
    <2>2. CASE y # x
      <3>1. call'[y] = call[y] /\ sent'[y] = sent[y] /\ CallFits(call[y], sent[y]) BY <2>2 DEF CallInv
      <3> QED BY <3>1 DEF CallFits, Says
    <2> QED BY <2>1, <2>2
  <1>3. (current \in Contracts \cup {None})' BY DEF CallInv
  <1>4. (call \in [Calls -> CallStates])' BY <1>1
  <1>5. (sent \in [Calls -> Sendings])' BY <1>1
  <1>6. (\A y \in Calls : CallFits(call[y], sent[y]))' BY <1>2
  <1> QED BY <1>3, <1>4, <1>5, <1>6 DEF CallInv

(* The same of a step that sends nothing. *)
LEMMA CallSteps ==
    ASSUME CallInv, current' = current, sent' = sent, NEW x \in Calls, NEW q \in CallStates, CallFits(q, sent[x]),
           call' = [call EXCEPT ![x] = q]
    PROVE  CallInv'
  <1>1. PICK s \in Sendings : s = sent[x] BY DEF CallInv
  <1>2. CallFits(q, s) BY <1>1
  <1>3. sent' = [sent EXCEPT ![x] = s] BY <1>1 DEF CallInv
  <1> QED BY <1>2, <1>3, CallGoesOn

LEMMA BeginDynamicMoves == ASSUME CallInv, NEW x \in Calls, Calling!BeginDynamic(x) PROVE CallInv'
  <1>1. /\ current' = current /\ sent' = sent /\ call[x].pc = "idle"
        /\ current # None /\ Op[current] # None /\ Op[current].exposure = "SAFE"
    BY DEF Calling!BeginDynamic
  <1>2. PICK args \in ArgSets :
          call' = [call EXCEPT ![x] = [Calling!Idle EXCEPT !.pc = "bind", !.args = args, !.op = Op[current]]]
    BY DEF Calling!BeginDynamic
  <1>3. Op[current] \in Ops /\ args \in ArgObjects BY <1>1 DEF CallInv, Ops, ArgObjects
  <1>4. PICK q \in CallStates : q = [Calling!Idle EXCEPT !.pc = "bind", !.args = args, !.op = Op[current]]
    BY <1>3 DEF Calling!Idle, CallStates, CallPCs, Results
  <1>5. sent[x] = <<>> BY <1>1 DEF CallInv, CallFits
  <1>6. CallFits(q, sent[x]) BY <1>1, <1>4, <1>5 DEF Calling!Idle, CallFits
  <1> QED BY <1>1, <1>2, <1>4, <1>6, CallSteps

LEMMA BeginPromotedMoves == ASSUME CallInv, NEW x \in Calls, Calling!BeginPromoted(x) PROVE CallInv'
  <1>1. /\ current' = current /\ sent' = sent /\ call[x].pc = "idle"
        /\ call' = [call EXCEPT ![x] = [Calling!Idle EXCEPT !.pc = "look", !.adapter = TRUE, !.args = AdapterArgs]]
    BY DEF Calling!BeginPromoted
  <1>2. PICK q \in CallStates : q = [Calling!Idle EXCEPT !.pc = "look", !.adapter = TRUE, !.args = AdapterArgs]
    BY DEF Calling!Idle, CallStates, CallPCs, Results, ArgObjects
  <1>3. sent[x] = <<>> BY <1>1 DEF CallInv, CallFits
  <1>4. CallFits(q, sent[x]) BY <1>2, <1>3 DEF Calling!Idle, CallFits
  <1> QED BY <1>1, <1>2, <1>4, CallSteps

(* The operation is taken from the contract of the moment. *)
LEMMA LookMoves == ASSUME CallInv, NEW x \in Calls, Calling!Look(x) PROVE CallInv'
  <1> DEFINE op == IF current = None THEN None ELSE Op[current]
             found == op # None /\ op.exposure # "BLOCKED" /\ Calling!Runnable(op)
             after == [call[x] EXCEPT !.op = IF found THEN op ELSE None, !.pc = IF found THEN "bind" ELSE "static"]
  <1>1. current' = current /\ sent' = sent /\ call[x].pc = "look"
    BY DEF Calling!Look
  <1>2. call' = [call EXCEPT ![x] = after] BY DEF Calling!Look, CallInv
  <1>3. call[x] \in CallStates /\ CallFits(call[x], sent[x]) BY DEF CallInv
  <1>4. op \in Ops \cup {None} BY DEF CallInv, Ops
  <1>5. after \in CallStates BY <1>3, <1>4 DEF CallStates, CallPCs
  <1>6. PICK q \in CallStates : q = after BY <1>5
  <1>7. CallFits(q, sent[x])
    <2>1. q.adapter = call[x].adapter /\ q.reply = call[x].reply /\ q.result = call[x].result
      BY <1>3, <1>6 DEF CallStates
    <2>2. CASE found
      <3>1. q.op = op /\ q.pc = "bind" BY <1>3, <1>6, <2>2 DEF CallStates
      <3> QED BY <1>1, <1>3, <2>1, <2>2, <3>1 DEF CallFits
    <2>3. CASE ~found
      <3>1. q.op = None /\ q.pc = "static" BY <1>3, <1>6, <2>3 DEF CallStates
      <3> QED BY <1>1, <1>3, <2>1, <3>1 DEF CallFits
    <2> QED BY <2>2, <2>3
  <1> QED BY <1>1, <1>2, <1>6, <1>7, CallSteps

LEMMA OneSent == \A r : Append(<<>>, r) = <<r>> /\ <<r>> # <<>>
  OBVIOUS

LEMMA BindMoves == ASSUME CallInv, NEW x \in Calls, Calling!Bind(x) PROVE CallInv'
  <1> DEFINE p == call[x]
  <1>1. current' = current /\ p.pc = "bind" BY DEF Calling!Bind
  <1>2. p \in CallStates /\ CallFits(p, sent[x]) BY DEF CallInv
  <1>3. sent[x] = <<>> /\ p.op \in Ops /\ p.op # None /\ p.op.exposure # "BLOCKED" /\ p.reply = None
    BY <1>1, <1>2 DEF CallFits, CallStates
  <1>4. CASE Calling!Runnable(p.op) /\ p.args # None /\ Calling!Binds(p.op, p.args)
    <2>1. /\ sent' = [sent EXCEPT ![x] = Append(sent[x], Calling!Request(p.op, p.args))]
          /\ call' = [call EXCEPT ![x] = [p EXCEPT !.pc = "sent"]]
      BY <1>4 DEF Calling!Bind, CallInv
    <2>2. p.args \in ArgObjects BY <1>2, <1>4 DEF CallStates
    <2>3. PICK r \in ByContract : r = Calling!Request(p.op, p.args) BY <1>3, <2>2 DEF ByContract
    <2>4. PICK q \in CallStates : q = [p EXCEPT !.pc = "sent"] BY <1>2 DEF CallStates, CallPCs
    <2>5. q.pc = "sent" /\ q.op = p.op /\ q.args = p.args /\ q.reply = None BY <1>2, <1>3, <2>4 DEF CallStates
    <2>6. Says(q, r) BY <1>3, <1>4, <2>2, <2>3, <2>5 DEF Says
    <2>7. PICK s \in Sendings : s = <<r>> BY DEF Sendings
    <2>8. Append(sent[x], r) = s /\ s # <<>> BY <1>3, <2>7, OneSent
    <2>9. CallFits(q, s) BY <2>5, <2>6, <2>7, <2>8 DEF CallFits
    <2> QED BY <1>1, <2>1, <2>3, <2>4, <2>8, <2>9, CallGoesOn
  <1>5. CASE ~(Calling!Runnable(p.op) /\ p.args # None /\ Calling!Binds(p.op, p.args))
    <2> DEFINE after == [p EXCEPT !.pc = IF p.adapter THEN "static" ELSE "done",
                                  !.op = IF p.adapter THEN None ELSE p.op,
                                  !.result = IF p.adapter THEN p.result ELSE "error"]
    <2>1. sent' = sent /\ call' = [call EXCEPT ![x] = after]
      BY <1>5 DEF Calling!Bind, CallInv
    <2>2. PICK q \in CallStates : q = after BY <1>2 DEF CallStates, CallPCs, Results
    <2>3. CallFits(q, sent[x])
      <3>1. q.adapter = p.adapter /\ q.reply = None BY <1>2, <1>3, <2>2 DEF CallStates
      <3>2. CASE p.adapter
        <4>1. q.pc = "static" /\ q.op = None BY <1>2, <2>2, <3>2 DEF CallStates
        <4> QED BY <1>3, <3>1, <3>2, <4>1 DEF CallFits
      <3>3. CASE ~p.adapter
        <4>1. q.pc = "done" BY <1>2, <2>2, <3>3 DEF CallStates
        <4> QED BY <1>3, <3>1, <4>1, CallsAssumed DEF CallFits
      <3> QED BY <3>2, <3>3
    <2> QED BY <1>1, <2>1, <2>2, <2>3, CallSteps
  <1> QED BY <1>4, <1>5

LEMMA StaticMoves == ASSUME CallInv, NEW x \in Calls, Calling!Static(x) PROVE CallInv'
  <1>1. /\ current' = current /\ call[x].pc = "static"
        /\ sent' = [sent EXCEPT ![x] = Append(sent[x], Calling!StaticRequest)]
        /\ call' = [call EXCEPT ![x] = [call[x] EXCEPT !.pc = "sent"]]
    BY DEF Calling!Static, CallInv
  <1>2. call[x] \in CallStates /\ CallFits(call[x], sent[x]) BY DEF CallInv
  <1>3. sent[x] = <<>> /\ call[x].reply = None BY <1>1, <1>2 DEF CallFits
  <1>4. PICK q \in CallStates : q = [call[x] EXCEPT !.pc = "sent"] BY <1>2 DEF CallStates, CallPCs
  <1>5. q.pc = "sent" /\ q.reply = None BY <1>2, <1>3, <1>4 DEF CallStates
  <1>6. PICK s \in Sendings : s = <<Calling!StaticRequest>> BY DEF Sendings
  <1>7. Append(sent[x], Calling!StaticRequest) = s /\ s # <<>> BY <1>3, <1>6, OneSent
  <1>8. CallFits(q, s) BY <1>5, <1>6, <1>7 DEF CallFits
  <1> QED BY <1>1, <1>4, <1>7, <1>8, CallGoesOn

LEMMA ReplyMoves == ASSUME CallInv, NEW x \in Calls, Calling!Reply(x) PROVE CallInv'
  <1> DEFINE p == call[x]
  <1>1. current' = current /\ sent' = sent /\ p.pc = "sent" BY DEF Calling!Reply
  <1>2. p \in CallStates /\ CallFits(p, sent[x]) BY DEF CallInv
  <1>3. PICK reply \in Calling!Replies :
          call' = [call EXCEPT ![x].pc = "done", ![x].reply = reply,
                     ![x].result = IF call[x].adapter THEN Calling!Projected(reply)
                                   ELSE Calling!Delivered(reply, call[x].op)]
    BY DEF Calling!Reply
  <1> DEFINE result == IF p.adapter THEN Calling!Projected(reply) ELSE Calling!Delivered(reply, p.op)
             after == [p EXCEPT !.pc = "done", !.reply = reply, !.result = result]
  <1>4. result \in Results /\ (reply = "failed" => result = "error")
    <2>1. Calling!Projected(reply) \in {"ok", "error"} /\ (reply = "failed" => Calling!Projected(reply) = "error")
      BY DEF Calling!Projected
    <2>2. /\ Calling!Delivered(reply, p.op) \in {"body", "no_content", "error"}
          /\ reply = "failed" => Calling!Delivered(reply, p.op) = "error"
      BY DEF Calling!Delivered
    <2> QED BY <2>1, <2>2 DEF Results
  <1>5. call' = [call EXCEPT ![x] = after] BY <1>3 DEF CallInv
  <1> HIDE DEF result
  <1>6. PICK q \in CallStates : q = after BY <1>2, <1>4 DEF CallStates, CallPCs
  <1>7. q.pc = "done" /\ q.reply = reply /\ q.result = result /\ q.op = p.op /\ q.args = p.args
    BY <1>2, <1>6 DEF CallStates
  <1>8. CallFits(q, sent[x]) BY <1>1, <1>2, <1>4, <1>7 DEF CallFits, Says
  <1> QED BY <1>1, <1>5, <1>6, <1>8, CallSteps

LEMMA CallStep == CallInv /\ [Calling!Next]_Calling!vars => CallInv'
  <1> SUFFICES ASSUME CallInv, [Calling!Next]_Calling!vars PROVE CallInv' OBVIOUS
  <1>1. ASSUME NEW c \in Contracts, Calling!Replace(c) PROVE CallInv' BY <1>1 DEF Calling!Replace, CallInv
  <1>2. CASE UNCHANGED Calling!vars BY <1>2 DEF Calling!vars, CallInv
  <1> QED BY <1>1, <1>2, BeginDynamicMoves, BeginPromotedMoves, LookMoves, BindMoves, StaticMoves, ReplyMoves
      DEF Calling!Next

(* Some number of a float64 is the nearest. *)
LEMMA NearestIs ==
    ASSUME NEW n \in Nat
    PROVE  /\ Calling!Nearest(n) \in Doubles
           /\ \A d \in Doubles : Calling!Distance(n, Calling!Nearest(n)) <= Calling!Distance(n, d)
           /\ n \in Doubles => Calling!Nearest(n) = n
  <1> DEFINE Best(d) == \A e \in Doubles : Calling!Distance(n, d) <= Calling!Distance(n, e)
             T == {Calling!Distance(n, d) : d \in Doubles}
  <1>1. \A d \in Doubles : d \in Nat /\ Calling!Distance(n, d) \in Nat BY CallsAssumed DEF Calling!Distance
  <1>2. \E d \in Doubles : Best(d)
    <2>1. T \in SUBSET Nat BY <1>1
    <2>2. T # {} BY CallsAssumed
    <2> HIDE DEF T
    <2>3. PICK t \in T : \A y \in T : ~(y < t) BY <2>1, <2>2, Least
    <2> USE DEF T
    <2>4. PICK d \in Doubles : t = Calling!Distance(n, d) BY <2>3
    <2>5. ASSUME NEW e \in Doubles PROVE Calling!Distance(n, d) <= Calling!Distance(n, e)
      <3>1. ~(Calling!Distance(n, e) < Calling!Distance(n, d)) BY <2>3, <2>4
      <3>2. Calling!Distance(n, e) \in Nat /\ Calling!Distance(n, d) \in Nat BY <1>1
      <3> HIDE DEF T
      <3> QED BY <3>1, <3>2
    <2> QED BY <2>5
  <1>3. Calling!Nearest(n) = CHOOSE d \in Doubles : Best(d) BY DEF Calling!Nearest
  <1> HIDE DEF Best
  <1>4. Calling!Nearest(n) \in Doubles /\ Best(Calling!Nearest(n)) BY <1>2, <1>3, Zenon
  <1> USE DEF Best
  <1>5. ASSUME n \in Doubles PROVE Calling!Nearest(n) = n
    <2>1. Calling!Distance(n, Calling!Nearest(n)) <= Calling!Distance(n, n) BY <1>4, <1>5
    <2>2. Calling!Nearest(n) \in Nat BY <1>1, <1>4
    <2> QED BY <2>1, <2>2 DEF Calling!Distance
  <1> QED BY <1>4, <1>5

(* What is sent of a value that fits its parameter is what it should be. *)
LEMMA CanonicalKeeps ==
    ASSUME NEW v, NEW type, Calling!Fits(v, type), v.type = "number" => v.halves \in Nat
    PROVE  Calling!Keeps(v, type, Calling!Canonical(v, type))
  <1>1. CASE v.type # "number" BY <1>1 DEF Calling!Keeps, Calling!Canonical
  <1>2. CASE v.type = "number"
    <2> DEFINE n == v.halves
               m == IF type = "number" THEN Calling!Nearest(n) ELSE n
    <2>1. Calling!Canonical(v, type) = [number |-> m] BY <1>2 DEF Calling!Canonical
    <2>2. n \in Nat BY <1>2
    <2>3. type \in {"integer", "number"} BY <1>2 DEF Calling!Fits
    <2>4. type = "integer" \/ n \in Doubles => m = n BY <2>2, <2>3, NearestIs
    <2>5. \A d \in Doubles : Calling!Distance(n, m) <= Calling!Distance(n, d)
      <3>1. CASE type = "number" BY <2>2, <3>1, NearestIs
      <3>2. CASE type # "number" BY <2>2, <3>2, CallsAssumed DEF Calling!Distance
      <3> QED BY <3>1, <3>2
    <2> HIDE DEF m, n
    <2>6. DOMAIN [number |-> m] = {"number"} /\ [number |-> m].number = m OBVIOUS
    <2> QED BY <1>2, <2>1, <2>4, <2>5, <2>6 DEF Calling!Keeps, n
  <1> QED BY <1>1, <1>2

(* The values of an argument are numbered from one. *)
LEMMA ItemsAre ==
    ASSUME NEW args \in ArgObjects \ {None}, NEW n \in DOMAIN args, args[n] # None
    PROVE  /\ \E m \in Nat : DOMAIN Calling!Items(args[n]) = 1 .. m
           /\ Calling!Items(args[n]) = <<>> \/ DOMAIN Calling!Items(args[n]) # {}
           /\ \A j \in DOMAIN Calling!Items(args[n]) :
                  LET v == Calling!Items(args[n])[j] IN v = None \/ (v.type = "number" => v.halves \in Nat)
           /\ args[n].type # "list" => DOMAIN Calling!Items(args[n]) = {1} /\ Calling!Items(args[n])[1] = args[n]
                                       /\ Calling!Items(args[n]) # <<>>
  <1> DEFINE s == Calling!Items(args[n])
  <1>1. CASE args[n].type = "list"
    <2>1. s = args[n].items /\ s \in Seq(Calling!Range(s)) BY <1>1, CallsAssumed DEF Calling!Items
    <2>2. \A j \in DOMAIN s : s[j] \in Calling!Range(s) BY DEF Calling!Range
    <2>3. \A v \in Calling!Range(s) \ {None} : v.type = "number" => v.halves \in Nat BY CallsAssumed
    <2> HIDE DEF s
    <2>4. \E m \in Nat : DOMAIN s = 1 .. m BY <2>1
    <2>5. s = <<>> \/ DOMAIN s # {} BY <2>1
    <2> QED BY <1>1, <2>2, <2>3, <2>4, <2>5 DEF s
  <1>2. CASE args[n].type # "list"
    <2>1. s = <<args[n]>> BY <1>2 DEF Calling!Items
    <2>2. DOMAIN <<args[n]>> = {1} /\ <<args[n]>>[1] = args[n] /\ <<args[n]>> # <<>> OBVIOUS
    <2>3. {1} = 1 .. 1 /\ 1 \in Nat OBVIOUS
    <2>4. args[n] \in Calling!Range(s) BY <2>1, <2>2 DEF Calling!Range
    <2>5. args[n].type = "number" => args[n].halves \in Nat BY <2>4, CallsAssumed
    <2> HIDE DEF s
    <2> QED BY <1>2, <2>1, <2>2, <2>3, <2>5 DEF s
  <1> QED BY <1>1, <1>2

(* A scalar or a list that is exploded arrives item by item; a list that is joined *)
(* arrives so too, because no item that binds holds a comma.                        *)
LEMMA ReadsItsTexts ==
    ASSUME NEW args \in ArgObjects \ {None}, NEW p, Calling!Sends(args, p),
           IF p.in = "path" THEN Calling!PathBinds(args, p) ELSE Calling!QueryBinds(args, p)
    PROVE  Calling!Reads(args[p.name], p) = Calling!Texts(args[p.name], p)
  <1> DEFINE v == args[p.name]
             t == Calling!Texts(v, p)
  <1>1. CASE v.type # "list" \/ p.explode BY <1>1 DEF Calling!Reads
  <1>2. CASE v.type = "list" /\ ~p.explode
    <2>1. p.in # "path" BY <1>2 DEF Calling!PathBinds, Calling!Fits
    <2>2. Calling!ItemsFit(v.items, p) BY <1>2, <2>1 DEF Calling!QueryBinds, Calling!Sends
    <2>3. p.name \in DOMAIN args /\ v # None /\ Calling!Items(v) # <<>> BY DEF Calling!Given, Calling!Sends
    <2>4. Calling!Items(v) = v.items BY <1>2 DEF Calling!Items
    <2>5. PICK m \in Nat : DOMAIN v.items = 1 .. m BY <2>3, <2>4, ItemsAre
    <2>6. t = [i \in 1 .. m |-> Calling!Canonical(v.items[i], p.items)]
      BY <1>2, <2>4, <2>5 DEF Calling!Texts, Calling!Type
    <2>7. m # 0 BY <2>3, <2>4, <2>5, ItemsAre
    <2>8. ASSUME NEW i \in 1 .. m PROVE Calling!Pieces(t[i]) = <<t[i]>>
      <3>1. Len(Calling!Pieces(Calling!Canonical(v.items[i], p.items))) = 1
        BY <1>2, <2>2, <2>5 DEF Calling!ItemsFit
      <3>2. t[i] = Calling!Canonical(v.items[i], p.items) BY <2>6
      <3> HIDE DEF t
      <3>3. Len(Calling!Pieces(t[i])) = 1 BY <3>1, <3>2
      <3>4. ASSUME NEW x, NEW y PROVE Len(<<x, y>>) # 1 OBVIOUS
      <3>5. CASE t[i] = [text |-> "a,b"]
        <4>1. Calling!Pieces(t[i]) = <<[text |-> "a"], [text |-> "b"]>> BY <3>5 DEF Calling!Pieces
        <4> QED BY <3>3, <3>4, <4>1
      <3>6. CASE t[i] # [text |-> "a,b"] BY <3>6 DEF Calling!Pieces
      <3> QED BY <3>5, <3>6
    <2>9. Calling!Reads(v, p) = Calling!FlattenSeq([i \in DOMAIN t |-> Calling!Pieces(t[i])])
      BY <1>2 DEF Calling!Reads
    <2>10. DOMAIN t = 1 .. m BY <2>6
    <2>11. t = [i \in 1 .. m |-> t[i]] BY <2>6
    <2> HIDE DEF t
    <2>12. [i \in DOMAIN t |-> Calling!Pieces(t[i])] = [i \in 1 .. m |-> <<t[i]>>] BY <2>8, <2>10
    <2>13. Calling!FlattenSeq([i \in 1 .. m |-> <<t[i]>>]) = [i \in 1 .. m |-> t[i]] BY <2>7, Flattened, Zenon
    <2>14. Calling!Reads(v, p) = t BY <2>9, <2>11, <2>12, <2>13, Zenon
    <2> QED BY <2>14 DEF t
  <1> QED BY <1>1, <1>2

(* Every value that is sent fits its parameter. *)
LEMMA SentFits ==
    ASSUME NEW args \in ArgObjects \ {None}, NEW p, Calling!Sends(args, p),
           IF p.in = "path" THEN Calling!PathBinds(args, p) ELSE Calling!QueryBinds(args, p),
           NEW j \in DOMAIN Calling!Items(args[p.name])
    PROVE  Calling!Fits(Calling!Items(args[p.name])[j], Calling!Type(args[p.name], p))
  <1> DEFINE v == args[p.name]
  <1>1. p.name \in DOMAIN args /\ v # None BY DEF Calling!Sends, Calling!Given
  <1>2. CASE v.type = "list"
    <2>1. p.in # "path" BY <1>2 DEF Calling!PathBinds, Calling!Fits
    <2>2. Calling!ItemsFit(v.items, p) BY <1>2, <2>1 DEF Calling!QueryBinds, Calling!Sends
    <2> QED BY <1>2, <2>2 DEF Calling!ItemsFit, Calling!Items, Calling!Type
  <1>3. CASE v.type # "list"
    <2>1. Calling!Items(v)[j] = v BY <1>1, <1>3, ItemsAre
    <2>2. Calling!Fits(v, p.type) BY <1>3 DEF Calling!PathBinds, Calling!QueryBinds, Calling!Sends
    <2> QED BY <1>3, <2>1, <2>2 DEF Calling!Type
  <1> QED BY <1>2, <1>3

(* What a request by the contract holds for the argument n. *)
Kept(op, args, n, got) ==
    /\ DOMAIN got = DOMAIN Calling!Items(args[n])
    /\ \E p \in op.params :
          /\ p.name = n
          /\ \A j \in DOMAIN got : Calling!Keeps(Calling!Items(args[n])[j], Calling!Type(args[n], p), got[j])

(* A request by the contract holds what the caller gave, no more and no less. *)
LEMMA RequestSaysAll ==
    ASSUME NEW op, NEW args \in ArgObjects \ {None}, Calling!Binds(op, args)
    PROVE  LET r == Calling!Request(op, args)
               valued == {n \in DOMAIN args : args[n] # None /\ Calling!Items(args[n]) # <<>>}
           IN  /\ r.op = op
               /\ DOMAIN r.values = valued
               /\ \A n \in valued : Kept(op, args, n, r.values[n])
               /\ \A p \in op.params : p.in = "path" \/ (p.required /\ p.items = None) => p.name \in valued
  <1> DEFINE r == Calling!Request(op, args)
             valued == {n \in DOMAIN args : args[n] # None /\ Calling!Items(args[n]) # <<>>}
             used == {p \in op.params : Calling!Sends(args, p)}
             named(n) == CHOOSE p \in used : p.name = n
  <1>1. r = [op |-> op, values |-> [n \in {p.name : p \in used} |-> Calling!Reads(args[n], named(n))]]
    BY DEF Calling!Request
  <1>2. {p.name : p \in used} = valued
    BY DEF Calling!Binds, Calling!Sends, Calling!Given
  <1>3. \A n \in valued : named(n) \in used /\ named(n).name = n
    <2> SUFFICES ASSUME NEW n \in valued PROVE named(n) \in used /\ named(n).name = n OBVIOUS
    <2>1. \E p \in used : p.name = n BY <1>2
    <2> HIDE DEF used
    <2> QED BY <2>1, Zenon
  <1>4. \A n \in valued : Kept(op, args, n, Calling!Reads(args[n], named(n)))
    <2> SUFFICES ASSUME NEW n \in valued PROVE Kept(op, args, n, Calling!Reads(args[n], named(n))) OBVIOUS
    <2>1. PICK p \in used : p = named(n) BY <1>3
    <2>2. p.name = n /\ p \in op.params /\ Calling!Sends(args, p) BY <1>3, <2>1
    <2> DEFINE t == Calling!Texts(args[n], p)
    <2>3. IF p.in = "path" THEN Calling!PathBinds(args, p) ELSE Calling!QueryBinds(args, p)
      BY <2>2 DEF Calling!Binds
    <2>4. Calling!Reads(args[n], p) = t BY <2>2, <2>3, ReadsItsTexts
    <2>5. DOMAIN t = DOMAIN Calling!Items(args[n]) BY DEF Calling!Texts
    <2>6. ASSUME NEW j \in DOMAIN t
          PROVE  Calling!Keeps(Calling!Items(args[n])[j], Calling!Type(args[n], p), t[j])
      <3> DEFINE v == Calling!Items(args[n])[j]
      <3>1. t[j] = Calling!Canonical(v, Calling!Type(args[n], p)) BY <2>5, <2>6 DEF Calling!Texts
      <3>2. Calling!Fits(v, Calling!Type(args[n], p)) BY <2>2, <2>3, <2>5, <2>6, SentFits
      <3>3. v # None BY <3>2 DEF Calling!Fits
      <3>4. v.type = "number" => v.halves \in Nat BY <2>5, <2>6, <3>3, ItemsAre
      <3> HIDE DEF t, v
      <3> QED BY <3>1, <3>2, <3>4, CanonicalKeeps DEF v
    <2> HIDE DEF t, named, used
    <2>7. Kept(op, args, n, t) BY <2>2, <2>5, <2>6 DEF Kept
    <2> QED BY <2>1, <2>4, <2>7
  <1>5. ASSUME NEW p \in op.params, p.in = "path" \/ (p.required /\ p.items = None) PROVE p.name \in valued
    <2>1. Calling!Given(args, p) /\ args[p.name].type # "list"
      BY <1>5 DEF Calling!Binds, Calling!PathBinds, Calling!QueryBinds, Calling!Fits
    <2> QED BY <2>1, ItemsAre DEF Calling!Given
  <1> HIDE DEF named, used, valued
  <1>6. r.op = op /\ DOMAIN r.values = valued /\ \A n \in valued : r.values[n] = Calling!Reads(args[n], named(n))
    BY <1>1, <1>2
  <1> HIDE DEF r
  <1>7. \A n \in valued : Kept(op, args, n, r.values[n]) BY <1>4, <1>6
  <1> QED BY <1>5, <1>6, <1>7 DEF r, valued

LEMMA CallsFit == CallInv => CallsSayWhatWasAsked
  <1> SUFFICES ASSUME CallInv PROVE CallsSayWhatWasAsked OBVIOUS
  <1>1. ASSUME NEW x \in Calls
        PROVE  /\ call[x] \in CallStates /\ CallFits(call[x], sent[x])
               /\ sent[x] = <<>> \/ (Len(sent[x]) = 1 /\ DOMAIN sent[x] = {1})
    <2>1. call[x] \in CallStates /\ CallFits(call[x], sent[x]) /\ sent[x] \in Sendings BY DEF CallInv
    <2>2. \A r : Len(<<r>>) = 1 /\ DOMAIN <<r>> = {1} OBVIOUS
    <2> QED BY <2>1, <2>2 DEF Sendings
  <1>2. Calling!TypeOK BY <1>1 DEF CallInv, CallStates, CallPCs, Results, CallFits, Calling!TypeOK
  <1>3. Calling!OneRequest
    <2>1. Len(<<>>) = 0 OBVIOUS
    <2>2. ASSUME NEW x \in Calls PROVE Len(sent[x]) <= 1
      <3>1. CASE sent[x] = <<>> BY <2>1, <3>1
      <3>2. CASE Len(sent[x]) = 1 BY <3>2
      <3> QED BY <1>1, <3>1, <3>2
    <2>3. \A x \in Calls : call[x].pc = "done" /\ call[x].reply = "failed" =>
             call[x].result = "error" /\ Len(sent[x]) = 1
      BY <1>1 DEF CallFits
    <2> QED BY <1>2, <2>2, <2>3 DEF Calling!OneRequest
  <1>4. ASSUME NEW x \in Calls, NEW i \in DOMAIN sent[x], sent[x][i].op # None
        PROVE  Says(call[x], sent[x][i])
    <2>1. i = 1 /\ CallFits(call[x], sent[x]) /\ sent[x] # <<>> BY <1>1
    <2>2. Calling!StaticRequest.op = None BY DEF Calling!StaticRequest
    <2>3. sent[x] # <<Calling!StaticRequest>> BY <1>4, <2>1, <2>2
    <2> QED BY <2>1, <2>3 DEF CallFits
  <1>5. ASSUME NEW x \in Calls, NEW i \in DOMAIN sent[x], sent[x][i].op # None
        PROVE  /\ sent[x][i] = Calling!Request(call[x].op, call[x].args) /\ sent[x][i].op = call[x].op
               /\ call[x].op.exposure # "BLOCKED" /\ Calling!Runnable(call[x].op)
               /\ call[x].args \in ArgObjects \ {None} /\ Calling!Binds(call[x].op, call[x].args)
    <2>1. Says(call[x], sent[x][i]) BY <1>4, <1>5
    <2> QED BY <2>1, RequestSaysAll DEF Says
  <1>6. Calling!OnlyRunnableIsRun BY <1>5 DEF Calling!OnlyRunnableIsRun
  <1>7. Calling!BackendReadsTheArguments
    <2> SUFFICES ASSUME NEW x \in Calls, NEW i \in DOMAIN sent[x], sent[x][i].op # None
                 PROVE  LET r == sent[x][i]
                            args == call[x].args
                            valued == {n \in DOMAIN args : args[n] # None /\ Calling!Items(args[n]) # <<>>}
                        IN  /\ DOMAIN r.values = valued
                            /\ \A n \in valued : Kept(r.op, args, n, r.values[n])
                            /\ \A p \in r.op.params :
                                   p.in = "path" \/ (p.required /\ p.items = None) => p.name \in valued
      BY DEF Calling!BackendReadsTheArguments, Kept
    <2> QED BY <1>5, RequestSaysAll
  <1> QED BY <1>3, <1>6, <1>7 DEF CallsSayWhatWasAsked

(* However the contract is replaced under a call, the call is one request at most,  *)
(* to an operation that was looked at and fit to be run (adapter.go:40-52,           *)
(* executor.go:110), and the backend reads from it each argument that has a value    *)
(* with as many values as it was given, for lists of any length: texts and integers  *)
(* as they are, any other number as the float64 next to it (bind.go:48-160).         *)
THEOREM CallsAlwaysSayWhatWasAsked == Spec => []CallsSayWhatWasAsked
  <1>1. Init => CallInv BY CallsBegin DEF Init
  <1>2. CallInv /\ [Next]_<<part, registryVars, callingVars, reportVars, identityVars>> => CallInv'
    <2>1. [Next]_<<part, registryVars, callingVars, reportVars, identityVars>> => [Calling!Next]_Calling!vars
      BY DEF Next, callingVars, Calling!vars
    <2> QED BY <2>1, CallStep
  <1> QED BY <1>1, <1>2, CallsFit, PTL DEF Spec

-----------------------------------------------------------------------------
(* What is read from a document. *)

LEMMA CountsAlike ==
    \A S : Registry!Cardinality(S) = Cardinality(S) /\ (Registry!IsFiniteSet(S) <=> IsFiniteSet(S))
  BY DEF Registry!Cardinality, Cardinality, Registry!IsFiniteSet, IsFiniteSet

Methods == Registry!httpMethods

(* The declarations of the paths before index n, those the contract marks for MCP, *)
(* and what the parser makes of each.                                               *)
Before(n) == {w \in (1 .. (n - 1)) \X Methods : doc.paths[w[1]].plain /\ w[2] \in DOMAIN doc.paths[w[1]].ops}
Walked == Before(at)
Decl(w) == doc.paths[w[1]].ops[w[2]]
Marked == {w \in Walked : Registry!Candidate(Decl(w))}
Read(w) == Registry!Operation(doc.paths[w[1]].path, w[2], doc.paths[w[1]], Decl(w))
WellDeclared(w) == Registry!Kept(doc.paths[w[1]].path, doc.paths[w[1]], Decl(w))
Befell(w, what) == <<doc.paths[w[1]].path, w[2], what>>

Kinds == {"excluded", "flag", "duplicate"}

WalkInv ==
    /\ doc \in Documents /\ at \in 1 .. Len(doc.paths) + 1
    /\ outcome \in {"reading", "rejected", "parsed", "built"}
    /\ IsFiniteSet(operations) /\ IsFiniteSet(issues)
    /\ \A op \in operations : \E w \in Walked : op = Read(w) /\ WellDeclared(w)
    /\ \A i \in issues : \E p \in DOMAIN Template, m \in Methods \cup {None}, what \in Kinds : i = <<p, m, what>>

(* Nothing marked for MCP is uncounted, and what is not kept is an issue. *)
TallyInv ==
    /\ discovered \in Nat /\ declared = Cardinality(Marked) /\ declared <= discovered
    /\ \A w \in Walked : Read(w) \in operations \/ Befell(w, "excluded") \in issues \/ Befell(w, "duplicate") \in issues

UniqueInv == outcome \notin {"reading", "rejected"} => \A op, other \in operations : op.id = other.id => op = other

LEMMA DocumentsAssumed ==
    \A d \in Documents :
        /\ d.paths \in Seq(Registry!Range(d.paths))
        /\ \A i, j \in DOMAIN d.paths : d.paths[i].path = d.paths[j].path => i = j
        /\ \A i \in DOMAIN d.paths :
              /\ d.paths[i].path \in DOMAIN Template
              /\ d.paths[i].plain => DOMAIN d.paths[i].ops \subseteq Methods
  BY ToolsAssumption DEF Registry!ParserAssumption, Methods

LEMMA MethodsAreFinite == IsFiniteSet(Methods)
  <1>1. \A S, x : IsFiniteSet(S) => IsFiniteSet(S \cup {x}) BY FS_AddElement
  <1>2. IsFiniteSet({}) BY FS_EmptySet
  <1>3. Methods = {} \cup {"GET"} \cup {"PUT"} \cup {"POST"} \cup {"DELETE"} \cup {"OPTIONS"} \cup {"HEAD"}
                  \cup {"PATCH"} \cup {"TRACE"}
    BY DEF Methods, Registry!httpMethods
  <1> QED BY <1>1, <1>2, <1>3, Zenon

(* The walk so far is finite, and its declarations are of different paths or methods. *)
LEMMA WalkIsFinite ==
    ASSUME doc \in Documents, at \in 1 .. Len(doc.paths) + 1
    PROVE  /\ IsFiniteSet(Walked) /\ IsFiniteSet(Marked)
           /\ \A w \in Walked : w[1] \in DOMAIN doc.paths /\ w[2] \in Methods /\ w = <<w[1], w[2]>> /\ w[1] < at
           /\ \A v, w \in Walked : doc.paths[v[1]].path = doc.paths[w[1]].path /\ v[2] = w[2] => v = w
  <1>1. Len(doc.paths) \in Nat /\ DOMAIN doc.paths = 1 .. Len(doc.paths) BY DocumentsAssumed
  <1>2. IsFiniteSet(1 .. (at - 1)) BY <1>1, FS_Interval
  <1>3. IsFiniteSet((1 .. (at - 1)) \X Methods) BY <1>2, MethodsAreFinite, FS_Product
  <1>4. Walked \in SUBSET ((1 .. (at - 1)) \X Methods) /\ Marked \in SUBSET Walked BY DEF Walked, Before, Marked
  <1>5. IsFiniteSet(Walked) BY <1>3, <1>4, FS_Subset
  <1>6. IsFiniteSet(Marked) BY <1>4, <1>5, FS_Subset
  <1>7. \A w \in Walked : w[1] \in DOMAIN doc.paths /\ w[2] \in Methods /\ w = <<w[1], w[2]>> /\ w[1] < at
    BY <1>1 DEF Walked, Before
  <1>8. \A v, w \in Walked : doc.paths[v[1]].path = doc.paths[w[1]].path /\ v[2] = w[2] => v = w
    BY <1>7, DocumentsAssumed
  <1> QED BY <1>5, <1>6, <1>7, <1>8

LEMMA ReadKeeps ==
    \A w : /\ Read(w).path = doc.paths[w[1]].path /\ Read(w).method = w[2]
           /\ Read(w).enabled = Registry!Candidate(Decl(w))
           /\ Read(w).params = IF Registry!Candidate(Decl(w)) THEN Registry!Merged(doc.paths[w[1]], Decl(w)) ELSE {}
  BY DEF Read, Registry!Operation

LEMMA ImageCounts ==
    ASSUME NEW S, IsFiniteSet(S), NEW f
    PROVE  /\ IsFiniteSet({f[x] : x \in S})
           /\ Cardinality({f[x] : x \in S}) <= Cardinality(S)
           /\ (\A x, y \in S : f[x] = f[y] => x = y) => Cardinality({f[x] : x \in S}) = Cardinality(S)
  <1> DEFINE T == {f[x] : x \in S}
             g == [x \in S |-> f[x]]
  <1>1. g \in Surjection(S, T) BY DEF Surjection
  <1>2. (\A x, y \in S : f[x] = f[y] => x = y) => g \in Injection(S, T) BY DEF Injection, IsInjective
  <1> HIDE DEF g, T
  <1>3. IsFiniteSet(T) /\ Cardinality(T) <= Cardinality(S) /\ (Cardinality(T) = Cardinality(S) <=> g \in Injection(S, T))
    BY <1>1, FS_Surjection
  <1> QED BY <1>2, <1>3 DEF T

ReadingInv == WalkInv /\ TallyInv /\ UniqueInv

LEMMA ReadingBegins == ASSUME Registry!ParserInit PROVE ReadingInv
  <1>1. /\ doc \in Documents /\ at = 1 /\ discovered = 0 /\ declared = 0
        /\ operations = {} /\ issues = {} /\ outcome = "reading"
    BY DEF Registry!ParserInit
  <1>2. Len(doc.paths) \in Nat BY <1>1, DocumentsAssumed
  <1>3. Walked = {} BY <1>1 DEF Walked, Before
  <1>4. Marked = {} BY <1>3 DEF Marked
  <1>5. IsFiniteSet({}) /\ Cardinality({}) = 0 BY FS_EmptySet
  <1>6. WalkInv BY <1>1, <1>2, <1>5 DEF WalkInv
  <1>7. TallyInv BY <1>1, <1>3, <1>4, <1>5 DEF TallyInv
  <1> QED BY <1>1, <1>6, <1>7 DEF ReadingInv, UniqueInv

(* What a step leaves of the walk while it is at the same document and path. *)
LEMMA SameWalk ==
    ASSUME UNCHANGED <<doc, at>>
    PROVE  /\ Walked' = Walked /\ Marked' = Marked
           /\ \A w : Read(w)' = Read(w) /\ WellDeclared(w)' = WellDeclared(w) /\ Decl(w)' = Decl(w)
           /\ \A w, what : Befell(w, what)' = Befell(w, what)
  BY DEF Walked, Before, Marked, Read, WellDeclared, Decl, Befell, Registry!Kept, Registry!validateCandidate

LEMMA RejectReads == ASSUME ReadingInv, Registry!RejectDocument PROVE ReadingInv'
  <1>1. outcome' = "rejected" /\ UNCHANGED <<doc, at, discovered, declared, operations, issues>>
    BY DEF Registry!RejectDocument
  <1>2. WalkInv' BY <1>1, SameWalk DEF ReadingInv, WalkInv
  <1>3. TallyInv' BY <1>1, SameWalk DEF ReadingInv, TallyInv
  <1> QED BY <1>1, <1>2, <1>3 DEF ReadingInv, UniqueInv

(* The next path item adds its own methods to the walk. *)
LEMMA WalkGrows ==
    ASSUME WalkInv, Registry!pathItem,
           NEW methods, methods = DOMAIN (IF doc.paths[at].plain THEN doc.paths[at].ops ELSE << >>)
    PROVE  /\ at \in DOMAIN doc.paths /\ methods \subseteq Methods /\ IsFiniteSet(methods)
           /\ at' = at + 1 /\ at' \in 1 .. Len(doc.paths) + 1 /\ UNCHANGED <<doc, outcome>>
           /\ Walked' = Walked \cup {<<at, m>> : m \in methods}
           /\ \A m \in methods : doc.paths[at].plain /\ <<at, m>> \notin Walked
  <1>1. /\ at \in 1 .. Len(doc.paths) /\ at' = at + 1 /\ UNCHANGED <<doc, outcome>>
    BY DEF Registry!pathItem
  <1>2. Len(doc.paths) \in Nat /\ DOMAIN doc.paths = 1 .. Len(doc.paths) BY DocumentsAssumed DEF WalkInv
  <1>3. DOMAIN << >> = {} OBVIOUS
  <1>4. methods = IF doc.paths[at].plain THEN DOMAIN doc.paths[at].ops ELSE {} BY <1>3
  <1>5. methods \in SUBSET Methods BY <1>1, <1>2, <1>4, DocumentsAssumed DEF WalkInv
  <1>6. IsFiniteSet(methods) BY <1>5, MethodsAreFinite, FS_Subset
  <1>7. \A m \in methods : doc.paths[at].plain /\ <<at, m>> \notin Walked
    BY <1>1, <1>2, <1>4 DEF Walked, Before
  <1>8. Walked' = Walked \cup {<<at, m>> : m \in methods}
    <2>1. Walked' = {w \in (1 .. at) \X Methods : doc.paths[w[1]].plain /\ w[2] \in DOMAIN doc.paths[w[1]].ops}
      <3>1. at' - 1 = at BY <1>1
      <3> QED BY <1>1, <3>1 DEF Walked, Before
    <2>2. 1 .. at = (1 .. (at - 1)) \cup {at} BY <1>1, <1>2
    <2>3. \A w \in Walked' : w \in Walked \/ \E m \in methods : w = <<at, m>>
      BY <1>4, <2>1, <2>2 DEF Walked, Before
    <2>4. Walked \subseteq Walked' BY <2>1, <2>2 DEF Walked, Before
    <2>5. \A m \in methods : <<at, m>> \in Walked' BY <1>4, <1>5, <2>1, <2>2
    <2> QED BY <2>3, <2>4, <2>5
  <1> QED BY <1>1, <1>2, <1>5, <1>6, <1>7, <1>8

LEMMA PathReads == ASSUME ReadingInv, Registry!pathItem PROVE ReadingInv'
  <1> DEFINE path == doc.paths[at].path
             item == doc.paths[at]
             ops == IF item.plain THEN item.ops ELSE << >>
             methods == DOMAIN ops
             kept == {n \in methods : Registry!Kept(path, item, ops[n])}
             marked == {m \in methods : Registry!Candidate(ops[m])}
             excluded == {<<path, m, "excluded">> : m \in {n \in methods : ~Registry!Kept(path, item, ops[n])}}
             flagged == {<<path, m, "flag">> : m \in {n \in methods : Registry!FlagOdd(path, item, ops[n])}}
             whole == IF item.plain THEN {} ELSE {<<path, None, "excluded">>}
  <1>1. WalkInv /\ TallyInv BY DEF ReadingInv
  <1>2. /\ at \in DOMAIN doc.paths /\ methods \subseteq Methods /\ IsFiniteSet(methods)
        /\ at' = at + 1 /\ at' \in 1 .. Len(doc.paths) + 1 /\ UNCHANGED <<doc, outcome>>
        /\ Walked' = Walked \cup {<<at, m>> : m \in methods}
        /\ \A m \in methods : doc.paths[at].plain /\ <<at, m>> \notin Walked
    BY <1>1, WalkGrows
  <1>3. /\ outcome = "reading"
        /\ discovered' = discovered + Registry!Cardinality(methods)
        /\ declared' = declared + Registry!Cardinality(marked)
        /\ operations' = operations \cup {Registry!Operation(path, m, item, ops[m]) : m \in kept}
        /\ issues' = issues \cup excluded \cup flagged \cup whole
    BY DEF Registry!pathItem
  <1>4. \A m \in methods : /\ ops = item.ops /\ Decl(<<at, m>>) = ops[m]
                           /\ Read(<<at, m>>) = Registry!Operation(path, m, item, ops[m])
                           /\ WellDeclared(<<at, m>>) <=> Registry!Kept(path, item, ops[m])
                           /\ \A what : Befell(<<at, m>>, what) = <<path, m, what>>
    BY <1>2 DEF Decl, Read, WellDeclared, Befell
  <1>5. \A w : Read(w)' = Read(w) /\ WellDeclared(w)' = WellDeclared(w) /\ Decl(w)' = Decl(w)
    BY <1>2 DEF Read, WellDeclared, Decl, Registry!Kept, Registry!validateCandidate
  <1>6. \A w, what : Befell(w, what)' = Befell(w, what) BY <1>2 DEF Befell
  <1>7. kept \in SUBSET methods /\ marked \in SUBSET methods OBVIOUS
  <1>8. IsFiniteSet(kept) /\ IsFiniteSet(marked) /\ Cardinality(marked) <= Cardinality(methods)
    BY <1>2, <1>7, FS_Subset
  <1>9. path \in DOMAIN Template BY <1>1, <1>2, DocumentsAssumed DEF WalkInv
  <1> HIDE DEF ops, item
  <1>10. IsFiniteSet(operations')
    <2> DEFINE f == [m \in kept |-> Registry!Operation(path, m, item, ops[m])]
    <2>1. {f[m] : m \in kept} = {Registry!Operation(path, m, item, ops[m]) : m \in kept} OBVIOUS
    <2> HIDE DEF f, kept
    <2>2. IsFiniteSet({f[m] : m \in kept}) BY <1>8, ImageCounts
    <2> QED BY <1>1, <1>3, <2>1, <2>2, FS_Union DEF WalkInv
  <1>11. IsFiniteSet(issues')
    <2>1. ASSUME NEW part1, part1 \subseteq methods, NEW what PROVE IsFiniteSet({<<path, m, what>> : m \in part1})
      <3> DEFINE f == [m \in part1 |-> <<path, m, what>>]
      <3>1. IsFiniteSet(part1) BY <1>2, <2>1, FS_Subset
      <3>2. {f[m] : m \in part1} = {<<path, m, what>> : m \in part1} OBVIOUS
      <3> HIDE DEF f
      <3>3. IsFiniteSet({f[m] : m \in part1}) BY <3>1, ImageCounts
      <3> QED BY <3>2, <3>3
    <2>2. IsFiniteSet(excluded)
      <3> DEFINE P == {n \in methods : ~Registry!Kept(path, item, ops[n])}
      <3>1. P \subseteq methods OBVIOUS
      <3> HIDE DEF P, methods
      <3>2. IsFiniteSet({<<path, m, "excluded">> : m \in P}) BY <2>1, <3>1
      <3> QED BY <3>2 DEF P
    <2>3. IsFiniteSet(flagged)
      <3> DEFINE P == {n \in methods : Registry!FlagOdd(path, item, ops[n])}
      <3>1. P \subseteq methods OBVIOUS
      <3> HIDE DEF P, methods
      <3>2. IsFiniteSet({<<path, m, "flag">> : m \in P}) BY <2>1, <3>1
      <3> QED BY <3>2 DEF P
    <2>4. IsFiniteSet(whole) BY FS_EmptySet, FS_Singleton
    <2> HIDE DEF excluded, flagged, whole
    <2>5. IsFiniteSet(issues \cup excluded) BY <1>1, <2>2, FS_Union DEF WalkInv
    <2>6. IsFiniteSet(issues \cup excluded \cup flagged) BY <2>3, <2>5, FS_Union
    <2> QED BY <1>3, <2>4, <2>6, FS_Union
  <1>12. \A op \in operations' : \E w \in Walked' : op = Read(w)' /\ WellDeclared(w)'
    <2> SUFFICES ASSUME NEW op \in operations' PROVE \E w \in Walked' : op = Read(w) /\ WellDeclared(w)
      BY <1>5
    <2>1. CASE op \in operations
      <3>1. PICK w \in Walked : op = Read(w) /\ WellDeclared(w) BY <1>1, <2>1 DEF WalkInv
      <3> QED BY <1>2, <3>1
    <2>2. CASE op \notin operations
      <3>1. PICK m \in kept : op = Registry!Operation(path, m, item, ops[m]) BY <1>3, <2>2
      <3>2. m \in methods /\ <<at, m>> \in Walked' BY <1>2
      <3> QED BY <1>4, <3>1, <3>2
    <2> QED BY <2>1, <2>2
  <1>13. \A i \in issues' : \E p \in DOMAIN Template, m \in Methods \cup {None}, what \in Kinds : i = <<p, m, what>>
    <2>1. ASSUME NEW i \in excluded \cup flagged \cup whole
          PROVE  \E m \in Methods \cup {None}, what \in Kinds : i = <<path, m, what>>
      BY <1>2 DEF Kinds
    <2>2. ASSUME NEW i \in issues
          PROVE  \E p \in DOMAIN Template, m \in Methods \cup {None}, what \in Kinds : i = <<p, m, what>>
      BY <1>1 DEF WalkInv
    <2> HIDE DEF excluded, flagged, whole, path
    <2>3. ASSUME NEW i \in issues'
          PROVE  \E p \in DOMAIN Template, m \in Methods \cup {None}, what \in Kinds : i = <<p, m, what>>
      <3>1. CASE i \in issues BY <2>2, <3>1
      <3>2. CASE i \in excluded \cup flagged \cup whole BY <1>9, <2>1, <3>2
      <3> QED BY <1>3, <3>1, <3>2
    <2> QED BY <2>3
  <1>14. declared' = Cardinality(Marked')
    <2> DEFINE new == {<<at, m>> : m \in marked}
               f == [m \in marked |-> <<at, m>>]
    <2>1. {f[m] : m \in marked} = new /\ \A m, n \in marked : f[m] = f[n] => m = n OBVIOUS
    <2>2. Marked' = Marked \cup new /\ Marked \cap new = {}
      <3>1. \A w : w \in Marked' <=> w \in Walked' /\ Registry!Candidate(Decl(w)) BY <1>5 DEF Marked
      <3>2. \A w : w \in Marked <=> w \in Walked /\ Registry!Candidate(Decl(w)) BY DEF Marked
      <3>3. \A w : w \in new <=> \E m \in methods : w = <<at, m>> /\ Registry!Candidate(Decl(w)) BY <1>4
      <3> HIDE DEF new, methods
      <3> QED BY <1>2, <3>1, <3>2, <3>3
    <2> HIDE DEF f, new, marked, methods
    <2>3. IsFiniteSet(new) /\ Cardinality(new) = Cardinality(marked) BY <1>8, <2>1, ImageCounts
    <2>4. IsFiniteSet(Marked) BY <1>1, WalkIsFinite DEF WalkInv
    <2>5. Cardinality(Marked \cup new) = Cardinality(Marked) + Cardinality(new) - Cardinality({})
      BY <2>2, <2>3, <2>4, FS_Union
    <2>6. Cardinality({}) = 0 BY FS_EmptySet
    <2>7. Cardinality(Marked) \in Nat /\ Cardinality(new) \in Nat BY <2>3, <2>4, FS_CardinalityType
    <2>8. declared' = Cardinality(Marked) + Cardinality(marked) BY <1>1, <1>3, CountsAlike DEF TallyInv
    <2> QED BY <2>2, <2>3, <2>5, <2>6, <2>7, <2>8
  <1>15. discovered' \in Nat /\ declared' <= discovered'
    <2> HIDE DEF marked, methods
    <2>1. Cardinality(methods) \in Nat /\ Cardinality(marked) \in Nat BY <1>2, <1>8, FS_CardinalityType
    <2>2. IsFiniteSet(Marked) BY <1>1, WalkIsFinite DEF WalkInv
    <2>3. declared \in Nat BY <1>1, <2>2, FS_CardinalityType DEF TallyInv
    <2> QED BY <1>1, <1>3, <1>8, <2>1, <2>3, CountsAlike DEF TallyInv
  <1>16. \A w \in Walked' : \/ Read(w) \in operations' \/ Befell(w, "excluded") \in issues'
                            \/ Befell(w, "duplicate") \in issues'
    <2> SUFFICES ASSUME NEW w \in Walked' PROVE \/ Read(w) \in operations' \/ Befell(w, "excluded") \in issues'
                                                \/ Befell(w, "duplicate") \in issues'
      OBVIOUS
    <2>1. CASE w \in Walked BY <1>1, <1>3, <2>1 DEF TallyInv
    <2>2. CASE \E m \in methods : w = <<at, m>>
      <3>1. PICK m \in methods : w = <<at, m>> BY <2>2
      <3>2. CASE m \in kept BY <1>3, <1>4, <3>1, <3>2
      <3>3. CASE m \notin kept
        <4>1. <<path, m, "excluded">> \in excluded BY <3>3
        <4> HIDE DEF excluded
        <4> QED BY <1>3, <1>4, <3>1, <4>1
      <3> QED BY <3>2, <3>3
    <2> QED BY <1>2, <2>1, <2>2
  <1>17. WalkInv' BY <1>1, <1>2, <1>10, <1>11, <1>12, <1>13 DEF WalkInv
  <1>18. TallyInv' BY <1>5, <1>6, <1>14, <1>15, <1>16 DEF TallyInv
  <1>19. UniqueInv' BY <1>2, <1>3 DEF UniqueInv
  <1> QED BY <1>17, <1>18, <1>19 DEF ReadingInv

(* What is dropped as a duplicate is told. *)
LEMMA FinishReads == ASSUME ReadingInv, Registry!Finish PROVE ReadingInv'
  <1> DEFINE doubles == Registry!Duplicates(operations)
             told1 == {<<op.path, op.method, "duplicate">> : op \in doubles}
  <1>1. WalkInv /\ TallyInv BY DEF ReadingInv
  <1>2. /\ operations' = operations \ doubles /\ issues' = issues \cup told1
        /\ outcome' \in {"rejected", "parsed"}
        /\ UNCHANGED <<doc, at, discovered, declared>>
    BY DEF Registry!Finish, Registry!DuplicateIssues
  <1>3. doubles = {op \in operations : \E other \in operations \ {op} : other.id = op.id}
    BY DEF Registry!Duplicates
  <1>4. doubles \in SUBSET operations BY <1>3
  <1> HIDE DEF doubles
  <1>5. IsFiniteSet(doubles) /\ IsFiniteSet(operations') BY <1>1, <1>2, <1>4, FS_Subset, FS_Difference DEF WalkInv
  <1>6. IsFiniteSet(told1)
    <2> DEFINE f == [op \in doubles |-> <<op.path, op.method, "duplicate">>]
    <2>1. {f[op] : op \in doubles} = told1 OBVIOUS
    <2> HIDE DEF f, told1
    <2> QED BY <1>5, <2>1, ImageCounts
  <1>7. IsFiniteSet(issues')
    <2> HIDE DEF told1
    <2> QED BY <1>1, <1>2, <1>6, FS_Union DEF WalkInv
  <1>8. ASSUME NEW op \in operations PROVE op.path \in DOMAIN Template /\ op.method \in Methods
    <2>1. PICK w \in Walked : op = Read(w) BY <1>1 DEF WalkInv
    <2>2. w[1] \in DOMAIN doc.paths /\ w[2] \in Methods BY <1>1, WalkIsFinite DEF WalkInv
    <2> QED BY <1>1, <2>1, <2>2, ReadKeeps, DocumentsAssumed DEF WalkInv
  <1>9. \A i \in told1 : \E p \in DOMAIN Template, m \in Methods \cup {None}, what \in Kinds : i = <<p, m, what>>
    BY <1>4, <1>8 DEF Kinds
  <1>10. WalkInv'
    <2> HIDE DEF told1
    <2>1. \A i \in issues' : \E p \in DOMAIN Template, m \in Methods \cup {None}, what \in Kinds : i = <<p, m, what>>
      BY <1>1, <1>2, <1>9 DEF WalkInv
    <2> QED BY <1>1, <1>2, <1>5, <1>7, <2>1, SameWalk DEF WalkInv
  <1>11. TallyInv'
    <2>1. ASSUME NEW w \in Walked, Read(w) \in operations, Read(w) \notin operations' PROVE Befell(w, "duplicate") \in issues'
      BY <1>2, <2>1, ReadKeeps DEF Befell
    <2>2. \A w \in Walked : \/ Read(w) \in operations' \/ Befell(w, "excluded") \in issues'
                            \/ Befell(w, "duplicate") \in issues'
      BY <1>1, <1>2, <2>1 DEF TallyInv
    <2> QED BY <1>1, <1>2, <2>2, SameWalk DEF TallyInv
  <1>12. UniqueInv' BY <1>2, <1>3 DEF UniqueInv
  <1> QED BY <1>10, <1>11, <1>12 DEF ReadingInv

-----------------------------------------------------------------------------
(* The registry built from what was read. *)

Enabled == Registry!MCPOperations
Compiled == Registry!Compiled
Doubtful == Registry!Ambiguous(Compiled)
Chosen == Compiled \ Doubtful
Among(placements) == Registry!Placed(entries, placements)

RegistryInv ==
    /\ outcome # "built" => /\ entries = {} /\ skipped = {} /\ stats = Registry!NoStats
                            /\ published = {} /\ comparison = {}
    /\ outcome = "built" =>
        /\ entries = {Registry!Entry(op) : op \in Chosen}
        /\ skipped = (Enabled \ Compiled) \cup Doubtful
        /\ stats = [selected |-> Registry!Cardinality({e \in entries : e.op.id \in Selection}),
                    exposed |-> Registry!Cardinality(Among({"exposed"})),
                    shadow |-> Registry!Cardinality(Among({"shadow"})),
                    blocked |-> Registry!Cardinality(Among({"blocked"})),
                    staticConflicts |-> Registry!Cardinality({e \in entries : e.staticConflict}),
                    registrable |-> Registry!Cardinality(entries),
                    skipped |-> Registry!Cardinality(issues) + Registry!Cardinality(skipped)]
        /\ \A e \in published : e \in Among({"exposed"}) /\ e.name \notin StaticNames
        /\ comparison \subseteq Among({"exposed", "shadow"})

ContractInv == ReadingInv /\ RegistryInv

LEMMA SameOperations ==
    ASSUME UNCHANGED operations PROVE Enabled' = Enabled /\ Compiled' = Compiled /\ Doubtful' = Doubtful /\ Chosen' = Chosen
  BY DEF Enabled, Compiled, Doubtful, Chosen, Registry!MCPOperations, Registry!Compiled, Registry!Ambiguous

LEMMA ContractRests ==
    ASSUME ContractInv, UNCHANGED <<doc, at, discovered, declared, operations, issues, outcome>>,
           UNCHANGED <<entries, skipped, stats, published, comparison>>
    PROVE  ContractInv'
  <1>1. WalkInv' BY SameWalk DEF ContractInv, ReadingInv, WalkInv
  <1>2. TallyInv' BY SameWalk DEF ContractInv, ReadingInv, TallyInv
  <1>3. UniqueInv' BY DEF ContractInv, ReadingInv, UniqueInv
  <1>4. RegistryInv' BY SameOperations DEF ContractInv, RegistryInv, Among
  <1> QED BY <1>1, <1>2, <1>3, <1>4 DEF ContractInv, ReadingInv

LEMMA ContractSteps == ASSUME ContractInv, Registry!Next PROVE ContractInv'
  <1>1. ReadingInv /\ RegistryInv BY DEF ContractInv
  <1>2. CASE Registry!ParserNext /\ UNCHANGED Registry!registryVars
    <2>1. ReadingInv' BY <1>1, <1>2, RejectReads, PathReads, FinishReads DEF Registry!ParserNext
    <2>2. outcome = "reading" /\ outcome' # "built"
      BY <1>2 DEF Registry!ParserNext, Registry!RejectDocument, Registry!pathItem, Registry!Finish
    <2>3. RegistryInv' BY <1>1, <1>2, <2>2 DEF RegistryInv, Registry!registryVars
    <2> QED BY <2>1, <2>3 DEF ContractInv
  <1>3. CASE Registry!Build
    <2>1. /\ outcome = "parsed" /\ outcome' = "built"
          /\ UNCHANGED <<doc, at, discovered, declared, operations, issues, published, comparison>>
      BY <1>3 DEF Registry!Build
    <2>2. WalkInv' BY <1>1, <2>1, SameWalk DEF ReadingInv, WalkInv
    <2>3. TallyInv' BY <1>1, <2>1, SameWalk DEF ReadingInv, TallyInv
    <2>4. UniqueInv' BY <1>1, <2>1 DEF ReadingInv, UniqueInv
    <2>5. published' = {} /\ comparison' = {} BY <1>1, <2>1 DEF RegistryInv
    <2>6. /\ entries' = {Registry!Entry(op) : op \in Chosen}
          /\ skipped' = (Enabled \ Compiled) \cup Doubtful
      BY <1>3 DEF Registry!Build, Chosen, Compiled, Doubtful, Enabled
    <2>7. \A op : Registry!Entry(op)' = Registry!Entry(op) BY DEF Registry!Entry, Registry!ClassifyExposure
    <2>8. stats' = [selected |-> Registry!Cardinality({e \in entries' : e.op.id \in Selection}),
                    exposed |-> Registry!Cardinality(Among({"exposed"})'),
                    shadow |-> Registry!Cardinality(Among({"shadow"})'),
                    blocked |-> Registry!Cardinality(Among({"blocked"})'),
                    staticConflicts |-> Registry!Cardinality({e \in entries' : e.staticConflict}),
                    registrable |-> Registry!Cardinality(entries'),
                    skipped |-> Registry!Cardinality(issues') + Registry!Cardinality(skipped')]
      BY <1>3, <2>1 DEF Registry!Build, Among, Registry!Placed
    <2>9. RegistryInv' BY <2>1, <2>5, <2>6, <2>7, <2>8, SameOperations DEF RegistryInv
    <2> QED BY <2>2, <2>3, <2>4, <2>9 DEF ContractInv, ReadingInv
  <1>4. CASE Registry!Bind \/ Registry!Register
    <2>1. /\ UNCHANGED <<doc, at, discovered, declared, operations, issues, outcome, entries, skipped, stats>>
          /\ outcome = "built"
          /\ \/ /\ published' = {e \in Among({"exposed"}) : e.name \notin StaticNames}
                /\ UNCHANGED comparison
             \/ comparison' = Among({"exposed", "shadow"}) /\ UNCHANGED published
      BY <1>4 DEF Registry!Bind, Registry!Register, Registry!parserVars, Among
    <2>2. WalkInv' BY <1>1, <2>1, SameWalk DEF ReadingInv, WalkInv
    <2>3. TallyInv' BY <1>1, <2>1, SameWalk DEF ReadingInv, TallyInv
    <2>4. UniqueInv' BY <1>1, <2>1 DEF ReadingInv, UniqueInv
    <2>5. \A placements : Among(placements)' = Among(placements) BY <2>1 DEF Among, Registry!Placed
    <2>6. RegistryInv' BY <1>1, <2>1, <2>5, SameOperations DEF RegistryInv
    <2> QED BY <2>2, <2>3, <2>4, <2>6 DEF ContractInv, ReadingInv
  <1> QED BY <1>2, <1>3, <1>4 DEF Registry!Next

(* The invariant of the reading and of the registry holds of every behaviour. *)
LEMMA ContractInvariant == Spec => []ContractInv
  <1>1. Init => ContractInv
    <2>1. ASSUME Init PROVE ReadingInv BY <2>1, ReadingBegins DEF Init, Registry!Init
    <2>2. ASSUME Init PROVE RegistryInv BY <2>2 DEF Init, Registry!Init, Registry!ParserInit, RegistryInv
    <2> QED BY <2>1, <2>2 DEF ContractInv
  <1>2. ContractInv /\ [Next]_<<part, registryVars, callingVars, reportVars, identityVars>> => ContractInv'
    <2> SUFFICES ASSUME ContractInv, [Next]_<<part, registryVars, callingVars, reportVars, identityVars>>
                 PROVE  ContractInv'
      OBVIOUS
    <2>1. CASE Registry!Next BY <2>1, ContractSteps
    <2>2. CASE UNCHANGED registryVars
      <3>1. /\ UNCHANGED <<doc, at, discovered, declared, operations, issues, outcome>>
            /\ UNCHANGED <<entries, skipped, stats, published, comparison>>
        BY <2>2 DEF registryVars
      <3> QED BY <3>1, ContractRests
    <2> QED BY <2>1, <2>2 DEF Next
  <1> QED BY <1>1, <1>2, PTL DEF Spec

(* What the parser keeps of a candidate. *)
LEMMA SupportedAsks == \A p, legacy : Registry!Supported(p, legacy) /\ p.in = "path" => p.required = "true"
  BY Zenon DEF Registry!Supported

LEMMA LevelIsApart ==
    ASSUME NEW list, NEW legacy, Registry!LevelAccepted(list, legacy)
    PROVE  /\ \A i \in DOMAIN list : Registry!Supported(Registry!Level(list)[i], legacy)
           /\ \A i, j \in DOMAIN list :
                 Registry!Key(Registry!Level(list)[i]) = Registry!Key(Registry!Level(list)[j]) => i = j
  <1>1. DOMAIN Registry!Level(list) = DOMAIN list BY DEF Registry!Level
  <1>2. /\ \A i \in DOMAIN Registry!Level(list) : Registry!Supported(Registry!Level(list)[i], legacy)
        /\ \A i, j \in DOMAIN Registry!Level(list) :
              i # j => Registry!Key(Registry!Level(list)[i]) # Registry!Key(Registry!Level(list)[j])
    BY Zenon DEF Registry!LevelAccepted
  <1> QED BY <1>1, <1>2, Zenon

LEMMA CandidateIsCallable ==
    ASSUME NEW w, Registry!Candidate(Decl(w)), WellDeclared(w)
    PROVE  LET params == Registry!Merged(doc.paths[w[1]], Decl(w))
           IN  /\ Registry!PathNames(params) = Template[doc.paths[w[1]].path]
               /\ \A p, q \in params : p.name = q.name => p = q
               /\ \A p \in params : p.in = "path" => p.required = "true"
  <1> DEFINE item == doc.paths[w[1]]
             op == Decl(w)
             params == Registry!Merged(item, op)
             upper == {Registry!Level(item.parameters)[i] : i \in DOMAIN item.parameters}
             own == {Registry!Level(op.parameters)[i] : i \in DOMAIN op.parameters}
  <1>1. Registry!validateCandidate(item.path, item, op) BY DEF WellDeclared, Registry!Kept
  <1>2. /\ Template[item.path] = Registry!PathNames(params)
        /\ Registry!parameters(item, op, doc.legacy)
    BY <1>1 DEF Registry!validateCandidate
  <1>3. /\ Registry!LevelAccepted(item.parameters, doc.legacy)
        /\ Registry!LevelAccepted(op.parameters, doc.legacy)
        /\ \A p, q \in params : p.name = q.name => p.in = q.in
    BY <1>2 DEF Registry!parameters, Registry!NamesDistinct
  <1>4. params = {p \in upper : \A q \in own : Registry!Key(q) # Registry!Key(p)} \cup own
    BY DEF Registry!Merged
  <1>5. \A p, q \in upper : Registry!Key(p) = Registry!Key(q) => p = q BY <1>3, LevelIsApart
  <1>6. \A p, q \in own : Registry!Key(p) = Registry!Key(q) => p = q BY <1>3, LevelIsApart
  <1>7. \A p \in upper \cup own : p.in = "path" => p.required = "true"
    BY <1>3, LevelIsApart, SupportedAsks
  <1>8. \A p, q \in params : p.name = q.name => Registry!Key(p) = Registry!Key(q)
    BY <1>3 DEF Registry!Key
  <1> HIDE DEF params, upper, own
  <1>9. \A p, q \in params : p.name = q.name => p = q
    <2>1. \A p, q \in params : Registry!Key(p) = Registry!Key(q) => p = q
      BY <1>4, <1>5, <1>6
    <2> QED BY <1>8, <2>1
  <1>10. \A p \in params : p.in = "path" => p.required = "true" BY <1>4, <1>7
  <1> QED BY <1>2, <1>9, <1>10 DEF params

LEMMA CallableInv == ASSUME ReadingInv PROVE Registry!CandidatesAreCallable
  <1>1. Registry!Accepted => \A op, other \in operations : op.id = other.id => op = other
    BY DEF ReadingInv, UniqueInv, Registry!Accepted
  <1>2. ASSUME NEW op \in Registry!MCPOperations
        PROVE  /\ Registry!PathNames(op.params) = Template[op.path]
               /\ \A p, q \in op.params : p.name = q.name => p = q
               /\ \A p \in op.params : p.in = "path" => p.required = "true"
    <2>1. op \in operations /\ op.enabled BY DEF Registry!MCPOperations
    <2>2. PICK w \in Walked : op = Read(w) /\ WellDeclared(w) BY <2>1 DEF ReadingInv, WalkInv
    <2>3. Registry!Candidate(Decl(w)) BY <2>1, <2>2, ReadKeeps
    <2>4. op.params = Registry!Merged(doc.paths[w[1]], Decl(w)) /\ op.path = doc.paths[w[1]].path
      BY <2>2, <2>3, ReadKeeps
    <2> QED BY <2>2, <2>3, <2>4, CandidateIsCallable
  <1> QED BY <1>1, <1>2 DEF Registry!CandidatesAreCallable

LEMMA VanishingInv == ASSUME ReadingInv PROVE Registry!NothingVanishes
  <1> SUFFICES ASSUME NEW k \in 1 .. at - 1, NEW mth \in DOMAIN doc.paths[k].ops, doc.paths[k].plain
               PROVE  \/ \E i \in issues : i[1] = doc.paths[k].path /\ i[2] = mth /\ i[3] # "flag"
                      \/ \E op \in operations : op.path = doc.paths[k].path /\ op.method = mth
    BY DEF Registry!NothingVanishes
  <1>1. WalkInv /\ TallyInv BY DEF ReadingInv
  <1>2. k \in DOMAIN doc.paths /\ Len(doc.paths) \in Nat BY <1>1, DocumentsAssumed DEF WalkInv
  <1>3. mth \in Methods BY <1>1, <1>2, DocumentsAssumed DEF WalkInv
  <1>4. <<k, mth>> \in Walked BY <1>3 DEF Walked, Before
  <1>5. \/ Read(<<k, mth>>) \in operations \/ Befell(<<k, mth>>, "excluded") \in issues
        \/ Befell(<<k, mth>>, "duplicate") \in issues
    BY <1>1, <1>4 DEF TallyInv
  <1>6. \A what : Befell(<<k, mth>>, what) = <<doc.paths[k].path, mth, what>> BY DEF Befell
  <1>7. Read(<<k, mth>>).path = doc.paths[k].path /\ Read(<<k, mth>>).method = mth BY ReadKeeps
  <1> QED BY <1>5, <1>6, <1>7

(* What becomes of one operation. *)
LEMMA EntrySays ==
    ASSUME NEW op
    PROVE  LET e == Registry!Entry(op)
           IN  /\ e.name = ToolName[op.id] /\ e.op = op
               /\ e.exposure \in {"SAFE", "SHADOW", "BLOCKED"}
               /\ e.staticConflict \in BOOLEAN
               /\ e.placement \in {"exposed", "shadow", "blocked", "not_selected"}
               /\ e.placement # "not_selected" <=> op.id \in Selection
               /\ e.placement = "exposed" =>
                     /\ op.id \in DOMAIN Policy /\ Policy[op.id].exposure = "SAFE"
                     /\ Policy[op.id].path = op.path
                     /\ Policy[op.id].params = {Registry!Key(p) : p \in op.params}
               /\ e.placement \in {"exposed", "shadow"} /\ op.id \in DOMAIN Policy => Policy[op.id].exposure # "BLOCKED"
  <1>1. \A id \in DOMAIN Policy : Policy[id].exposure \in {"SAFE", "SHADOW", "BLOCKED"}
    BY ToolsAssumption DEF Registry!PolicyAssumption
  <1>2. /\ Registry!ClassifyExposure(op).exposure \in {"SAFE", "SHADOW", "BLOCKED"}
        /\ Registry!ClassifyExposure(op).exposure = "SAFE" =>
              op.id \in DOMAIN Policy /\ Policy[op.id].exposure = "SAFE" /\ Registry!reviewedFor(Policy[op.id], op)
        /\ op.id \in DOMAIN Policy /\ Policy[op.id].exposure = "BLOCKED" =>
              Registry!ClassifyExposure(op).exposure = "BLOCKED"
    BY <1>1 DEF Registry!ClassifyExposure, Registry!Shadow
  <1> DEFINE conflict == ToolName[op.id] \in StaticNames
             exposure == Registry!ClassifyExposure(op).exposure
             placement == Registry!placementFor(exposure, conflict)
  <1>3. Registry!Entry(op) = [name |-> ToolName[op.id], op |-> op, exposure |-> exposure, staticConflict |-> conflict,
                              placement |-> IF op.id \in Selection THEN placement ELSE "not_selected"]
    BY DEF Registry!Entry
  <1>4. /\ placement \in {"exposed", "shadow", "blocked"}
        /\ placement = "exposed" => exposure = "SAFE"
        /\ placement \in {"exposed", "shadow"} => exposure # "BLOCKED"
    BY DEF Registry!placementFor
  <1>5. Registry!reviewedFor(Policy[op.id], op) =>
            Policy[op.id].path = op.path /\ Policy[op.id].params = {Registry!Key(p) : p \in op.params}
    BY DEF Registry!reviewedFor
  <1> HIDE DEF placement, exposure
  <1>6. exposure = Registry!ClassifyExposure(op).exposure BY DEF exposure
  <1> QED BY <1>2, <1>3, <1>4, <1>5, <1>6

(* What the counters count. *)
LEMMA EnabledCounts ==
    ASSUME ReadingInv
    PROVE  /\ IsFiniteSet(Enabled) /\ Enabled \subseteq operations
           /\ Cardinality(Enabled) \in Nat /\ Cardinality(Enabled) <= declared
           /\ declared \in Nat /\ declared <= Cardinality(Enabled) + Cardinality(issues)
  <1>1. WalkInv /\ TallyInv BY DEF ReadingInv
  <1>2. Enabled \in SUBSET operations /\ Enabled = {op \in operations : op.enabled}
    BY DEF Enabled, Registry!MCPOperations
  <1>3. IsFiniteSet(Enabled) /\ Cardinality(Enabled) \in Nat BY <1>1, <1>2, FS_Subset, FS_CardinalityType DEF WalkInv
  <1>4. IsFiniteSet(Marked) /\ declared = Cardinality(Marked) /\ declared \in Nat
    BY <1>1, WalkIsFinite, FS_CardinalityType DEF WalkInv, TallyInv
  <1>5. Cardinality(Enabled) <= declared
    <2> DEFINE f == [w \in Marked |-> Read(w)]
    <2>1. Enabled \subseteq {f[w] : w \in Marked}
      <3> SUFFICES ASSUME NEW op \in Enabled PROVE \E w \in Marked : op = f[w] OBVIOUS
      <3>1. PICK w \in Walked : op = Read(w) BY <1>1, <1>2 DEF WalkInv
      <3>2. w \in Marked BY <1>2, <3>1, ReadKeeps DEF Marked
      <3> QED BY <3>1, <3>2
    <2> HIDE DEF f
    <2>2. IsFiniteSet({f[w] : w \in Marked}) /\ Cardinality({f[w] : w \in Marked}) <= Cardinality(Marked)
      BY <1>4, ImageCounts
    <2>3. Cardinality(Enabled) <= Cardinality({f[w] : w \in Marked}) BY <2>1, <2>2, FS_Subset
    <2>4. Cardinality({f[w] : w \in Marked}) \in Nat BY <2>2, FS_CardinalityType
    <2> QED BY <1>3, <1>4, <2>2, <2>3, <2>4
  <1>6. declared <= Cardinality(Enabled) + Cardinality(issues)
    <2> DEFINE A == {w \in Marked : Read(w) \in operations}
               B == {w \in Marked : Read(w) \notin operations}
               f == [w \in A |-> Read(w)]
               g == [w \in B |-> IF Befell(w, "excluded") \in issues
                                 THEN Befell(w, "excluded") ELSE Befell(w, "duplicate")]
    <2>1. A \in SUBSET Marked /\ B \in SUBSET Marked /\ A \cup B = Marked /\ A \cap B = {} OBVIOUS
    <2>2. \A v, w \in Marked : doc.paths[v[1]].path = doc.paths[w[1]].path /\ v[2] = w[2] => v = w
      BY <1>1, WalkIsFinite DEF WalkInv, Marked
    <2>3. /\ {f[w] : w \in A} \subseteq Enabled
          /\ \A v, w \in A : f[v] = f[w] => v = w
      <3>1. \A w \in A : f[w] = Read(w) /\ Read(w).enabled BY ReadKeeps DEF Marked
      <3>2. \A v, w \in A : Read(v) = Read(w) => v = w BY <2>1, <2>2, ReadKeeps
      <3> QED BY <1>2, <3>1, <3>2
    <2>4. /\ {g[w] : w \in B} \subseteq issues
          /\ \A v, w \in B : g[v] = g[w] => v = w
      <3>1. \A w \in B : Befell(w, "excluded") \in issues \/ Befell(w, "duplicate") \in issues
        BY <1>1 DEF TallyInv, Marked
      <3>2. \A w \in B : /\ g[w] \in issues
                         /\ g[w] = Befell(w, "excluded") \/ g[w] = Befell(w, "duplicate")
        BY <3>1
      <3>3. \A v, w : \A a, b : Befell(v, a) = Befell(w, b) =>
                doc.paths[v[1]].path = doc.paths[w[1]].path /\ v[2] = w[2]
        BY DEF Befell
      <3> HIDE DEF g, B
      <3>4. \A v, w \in B : g[v] = g[w] => v = w BY <2>1, <2>2, <3>2, <3>3
      <3> QED BY <3>2, <3>4
    <2> HIDE DEF f, g, A, B
    <2>5. IsFiniteSet(A) /\ IsFiniteSet(B) BY <1>4, <2>1, FS_Subset
    <2>6. Cardinality(A) <= Cardinality(Enabled)
      <3>1. Cardinality({f[w] : w \in A}) = Cardinality(A) BY <2>3, <2>5, ImageCounts
      <3>2. Cardinality({f[w] : w \in A}) <= Cardinality(Enabled) BY <1>3, <2>3, FS_Subset
      <3> QED BY <3>1, <3>2
    <2>7. Cardinality(B) <= Cardinality(issues)
      <3>1. Cardinality({g[w] : w \in B}) = Cardinality(B) BY <2>4, <2>5, ImageCounts
      <3>2. Cardinality({g[w] : w \in B}) <= Cardinality(issues) BY <1>1, <2>4, FS_Subset DEF WalkInv
      <3> QED BY <3>1, <3>2
    <2>8. Cardinality(Marked) = Cardinality(A) + Cardinality(B) - Cardinality({}) BY <2>1, <2>5, FS_Union
    <2>9. Cardinality({}) = 0 BY FS_EmptySet
    <2>10. Cardinality(A) \in Nat /\ Cardinality(B) \in Nat /\ Cardinality(issues) \in Nat
      BY <1>1, <2>5, FS_CardinalityType DEF WalkInv
    <2> QED BY <1>3, <1>4, <2>6, <2>7, <2>8, <2>9, <2>10
  <1> QED BY <1>2, <1>3, <1>4, <1>5, <1>6

(* The tools, those left out and the enabled operations are as many. *)
LEMMA EntriesCount ==
    ASSUME ContractInv, outcome = "built"
    PROVE  /\ IsFiniteSet(entries) /\ IsFiniteSet(skipped) /\ skipped \subseteq Enabled /\ Chosen \subseteq Enabled
           /\ Cardinality(entries) \in Nat /\ Cardinality(skipped) \in Nat
           /\ Cardinality(entries) + Cardinality(skipped) = Cardinality(Enabled)
  <1>1. /\ entries = {Registry!Entry(op) : op \in Chosen}
        /\ skipped = (Enabled \ Compiled) \cup Doubtful
    BY DEF ContractInv, RegistryInv
  <1>2. Compiled \subseteq Enabled /\ Doubtful \subseteq Compiled
    BY DEF Compiled, Enabled, Doubtful, Registry!Compiled, Registry!Ambiguous
  <1>3. Chosen \in SUBSET Enabled /\ skipped \in SUBSET Enabled
        /\ Chosen \cup skipped = Enabled /\ Chosen \cap skipped = {}
    BY <1>1, <1>2 DEF Chosen
  <1>4. IsFiniteSet(Enabled) BY EnabledCounts DEF ContractInv
  <1>5. IsFiniteSet(Chosen) /\ IsFiniteSet(skipped) BY <1>3, <1>4, FS_Subset
  <1>6. IsFiniteSet(entries) /\ Cardinality(entries) = Cardinality(Chosen)
    <2> DEFINE f == [op \in Chosen |-> Registry!Entry(op)]
    <2>1. {f[op] : op \in Chosen} = entries BY <1>1
    <2>2. \A op, other \in Chosen : f[op] = f[other] => op = other
      <3>1. \A op : Registry!Entry(op).op = op BY EntrySays
      <3> QED BY <3>1
    <2> HIDE DEF f
    <2> QED BY <1>5, <2>1, <2>2, ImageCounts
  <1>7. Cardinality(Chosen \cup skipped) = Cardinality(Chosen) + Cardinality(skipped) - Cardinality({})
    BY <1>3, <1>5, FS_Union
  <1>8. Cardinality({}) = 0 BY FS_EmptySet
  <1>9. Cardinality(Chosen) \in Nat /\ Cardinality(skipped) \in Nat BY <1>5, FS_CardinalityType
  <1> QED BY <1>3, <1>5, <1>6, <1>7, <1>8, <1>9

LEMMA EntriesSay ==
    ASSUME ContractInv, outcome = "built", NEW e \in entries
    PROVE  /\ e.op \in Chosen /\ e = Registry!Entry(e.op)
           /\ e.name = ToolName[e.op.id] /\ e.name # None
           /\ e.op \in operations /\ e.op.method = "GET"
           /\ \A other \in entries : other.name = e.name => other = e
  <1>1. \A d \in entries : d.op \in Chosen /\ d = Registry!Entry(d.op) /\ d.name = ToolName[d.op.id]
    <2> SUFFICES ASSUME NEW d \in entries
                 PROVE  d.op \in Chosen /\ d = Registry!Entry(d.op) /\ d.name = ToolName[d.op.id]
      OBVIOUS
    <2>1. PICK op \in Chosen : d = Registry!Entry(op) BY DEF ContractInv, RegistryInv
    <2> QED BY <2>1, EntrySays
  <1>2. \A op \in Chosen : op \in operations /\ op.method = "GET" /\ ToolName[op.id] # None
    BY DEF Chosen, Compiled, Registry!Compiled, Registry!Compiles, Registry!MCPOperations
  <1>3. \A op, other \in Chosen : ToolName[op.id] = ToolName[other.id] => op = other
    BY DEF Chosen, Doubtful, Registry!Ambiguous
  <1>4. ASSUME NEW other \in entries, other.name = e.name PROVE other = e
    BY <1>1, <1>3, <1>4
  <1> QED BY <1>1, <1>2, <1>4

LEMMA RegistryTyped == ASSUME ContractInv PROVE Registry!TypeOK
  <1>1. ReadingInv /\ WalkInv /\ TallyInv /\ RegistryInv BY DEF ContractInv, ReadingInv
  <1>2. declared \in Nat BY <1>1, EnabledCounts
  <1>3. Registry!ParserTypeOK
    <2>1. ASSUME NEW op \in operations PROVE op.path \in DOMAIN Template /\ op.method \in Methods
      <3>1. PICK w \in Walked : op = Read(w) BY <1>1 DEF WalkInv
      <3>2. w[1] \in DOMAIN doc.paths /\ w[2] \in Methods BY <1>1, WalkIsFinite DEF WalkInv
      <3> QED BY <1>1, <3>1, <3>2, ReadKeeps, DocumentsAssumed DEF WalkInv
    <2>2. ASSUME NEW i \in issues PROVE i[1] \in DOMAIN Template /\ i[2] \in Methods \cup {None}
      BY <1>1 DEF WalkInv
    <2>3. at \in 1 .. Len(doc.paths) + 1 /\ discovered \in Nat /\ declared \in 0 .. discovered
      BY <1>1, <1>2 DEF WalkInv, TallyInv
    <2> QED BY <2>1, <2>2, <2>3 DEF Registry!ParserTypeOK, Methods
  <1>4. outcome \in {"reading", "rejected", "parsed", "built"} BY <1>1 DEF WalkInv
  <1>5. CASE outcome # "built"
    <2>1. /\ entries = {} /\ skipped = {} /\ published = {} /\ comparison = {}
          /\ \A f \in DOMAIN stats : stats[f] = 0
      BY <1>1, <1>5 DEF RegistryInv, Registry!NoStats
    <2>2. \A f \in DOMAIN stats \ {"skipped"} : stats[f] \in 0 .. declared BY <1>2, <2>1
    <2> QED BY <1>3, <1>4, <2>1, <2>2 DEF Registry!TypeOK
  <1>6. CASE outcome = "built"
    <2>1. ASSUME NEW e \in entries
          PROVE  /\ e.name # None /\ e.op \in operations /\ e.op.method = "GET"
                 /\ e.exposure \in {"SAFE", "SHADOW", "BLOCKED"} /\ e.staticConflict \in BOOLEAN
                 /\ e.placement \in {"exposed", "shadow", "blocked", "not_selected"}
      <3>1. e = Registry!Entry(e.op) /\ e.name # None /\ e.op \in operations /\ e.op.method = "GET"
        BY <1>6, EntriesSay
      <3> QED BY <3>1, EntrySays
    <2>2. skipped \subseteq operations BY <1>1, <1>6, EntriesCount, EnabledCounts
    <2>3. \A T \in SUBSET entries : Registry!Cardinality(T) \in 0 .. declared
      <3> SUFFICES ASSUME NEW T \in SUBSET entries PROVE Cardinality(T) \in 0 .. declared BY CountsAlike
      <3>1. /\ IsFiniteSet(entries) /\ Cardinality(entries) \in Nat /\ Cardinality(skipped) \in Nat
            /\ Cardinality(entries) + Cardinality(skipped) = Cardinality(Enabled)
        BY <1>6, EntriesCount
      <3>2. IsFiniteSet(T) /\ Cardinality(T) <= Cardinality(entries) BY <3>1, FS_Subset
      <3>3. Cardinality(T) \in Nat BY <3>2, FS_CardinalityType
      <3>4. Cardinality(Enabled) \in Nat /\ Cardinality(Enabled) <= declared BY <1>1, EnabledCounts
      <3> QED BY <1>2, <3>1, <3>2, <3>3, <3>4
    <2>4. \A placements : Among(placements) \in SUBSET entries BY DEF Among, Registry!Placed
    <2>5. \A f \in DOMAIN stats \ {"skipped"} : stats[f] \in 0 .. declared
      <3>1. {e \in entries : e.op.id \in Selection} \in SUBSET entries
            /\ {e \in entries : e.staticConflict} \in SUBSET entries
        OBVIOUS
      <3> DEFINE S == {e \in entries : e.op.id \in Selection}
                 C == {e \in entries : e.staticConflict}
      <3>2. stats = [selected |-> Registry!Cardinality(S),
                    exposed |-> Registry!Cardinality(Among({"exposed"})),
                    shadow |-> Registry!Cardinality(Among({"shadow"})),
                    blocked |-> Registry!Cardinality(Among({"blocked"})),
                    staticConflicts |-> Registry!Cardinality(C),
                    registrable |-> Registry!Cardinality(entries),
                    skipped |-> Registry!Cardinality(issues) + Registry!Cardinality(skipped)]
        BY <1>1, <1>6 DEF RegistryInv
      <3>3. S \in SUBSET entries /\ C \in SUBSET entries BY <3>1
      <3> HIDE DEF S, C
      <3>4. /\ Registry!Cardinality(S) \in 0 .. declared /\ Registry!Cardinality(C) \in 0 .. declared
            /\ Registry!Cardinality(entries) \in 0 .. declared
            /\ \A placements : Registry!Cardinality(Among(placements)) \in 0 .. declared
        BY <2>3, <2>4, <3>3
      <3> QED BY <3>2, <3>4
    <2>6. published \subseteq entries /\ comparison \subseteq entries
      BY <1>1, <1>6, <2>4 DEF RegistryInv
    <2> QED BY <1>3, <1>4, <2>1, <2>2, <2>5, <2>6 DEF Registry!TypeOK
  <1> QED BY <1>5, <1>6

LEMMA PublishingInv == ASSUME ContractInv PROVE OnlyReviewedIsPublished
  <1>1. Registry!TypeOK BY RegistryTyped
  <1>2. RegistryInv BY DEF ContractInv
  <1>3. ASSUME NEW e \in comparison
        PROVE  /\ e.op.id \in DOMAIN Policy => Policy[e.op.id].exposure # "BLOCKED"
               /\ \A f \in comparison : e.name = f.name => e = f
    <2>1. outcome = "built" BY <1>2 DEF RegistryInv
    <2>2. comparison \subseteq entries /\ e.placement \in {"exposed", "shadow"}
      BY <1>2, <2>1 DEF RegistryInv, Among, Registry!Placed
    <2>3. e = Registry!Entry(e.op) /\ \A other \in entries : other.name = e.name => other = e
      BY <2>1, <2>2, EntriesSay
    <2>4. e.op.id \in DOMAIN Policy => Policy[e.op.id].exposure # "BLOCKED" BY <2>2, <2>3, EntrySays
    <2> QED BY <2>2, <2>3, <2>4
  <1>4. ASSUME NEW e \in published
        PROVE  /\ e.name \notin StaticNames
               /\ e.op.id \in DOMAIN Policy /\ Policy[e.op.id].exposure = "SAFE"
               /\ Policy[e.op.id].path = e.op.path
               /\ Policy[e.op.id].params = {Registry!Key(p) : p \in e.op.params}
    <2>1. outcome = "built" BY <1>2 DEF RegistryInv
    <2>2. e \in entries /\ e.placement = "exposed" /\ e.name \notin StaticNames
      BY <1>2, <2>1 DEF RegistryInv, Among, Registry!Placed
    <2>3. e = Registry!Entry(e.op) BY <2>1, <2>2, EntriesSay
    <2> QED BY <2>2, <2>3, EntrySays
  <1> QED BY <1>1, <1>3, <1>4 DEF OnlyReviewedIsPublished, Registry!OnlyReviewedIsPublished

LEMMA CountingInv == ASSUME ContractInv PROVE NothingIsLost
  <1>1. ReadingInv /\ WalkInv /\ RegistryInv BY DEF ContractInv, ReadingInv
  <1>2. Registry!CandidatesAreCallable /\ Registry!NothingVanishes BY <1>1, CallableInv, VanishingInv
  <1>3. ASSUME outcome = "built"
        PROVE  /\ stats.selected = stats.exposed + stats.shadow + stats.blocked
               /\ declared <= stats.registrable + stats.skipped
               /\ stats.registrable + Registry!Cardinality(skipped) = Registry!Cardinality(Registry!MCPOperations)
    <2> DEFINE S == {e \in entries : e.op.id \in Selection}
               E == Among({"exposed"})
               H == Among({"shadow"})
               B == Among({"blocked"})
    <2>1. /\ stats.selected = Cardinality(S) /\ stats.exposed = Cardinality(E)
          /\ stats.shadow = Cardinality(H) /\ stats.blocked = Cardinality(B)
          /\ stats.registrable = Cardinality(entries)
          /\ stats.skipped = Cardinality(issues) + Cardinality(skipped)
      BY <1>1, <1>3, CountsAlike DEF RegistryInv
    <2>2. /\ IsFiniteSet(entries) /\ Cardinality(entries) \in Nat /\ Cardinality(skipped) \in Nat
          /\ Cardinality(entries) + Cardinality(skipped) = Cardinality(Enabled)
      BY <1>3, EntriesCount
    <2>3. /\ Cardinality(Enabled) \in Nat /\ declared \in Nat
          /\ declared <= Cardinality(Enabled) + Cardinality(issues)
      BY <1>1, EnabledCounts
    <2>4. Cardinality(issues) \in Nat BY <1>1, FS_CardinalityType DEF WalkInv
    <2>5. \A e \in entries : /\ e.placement \in {"exposed", "shadow", "blocked", "not_selected"}
                             /\ e.placement # "not_selected" <=> e.op.id \in Selection
      <3> SUFFICES ASSUME NEW e \in entries
                   PROVE  /\ e.placement \in {"exposed", "shadow", "blocked", "not_selected"}
                          /\ e.placement # "not_selected" <=> e.op.id \in Selection
        OBVIOUS
      <3>1. e = Registry!Entry(e.op) BY <1>3, EntriesSay
      <3> QED BY <3>1, EntrySays
    <2>6. /\ S = (E \cup H) \cup B /\ E \cap H = {} /\ (E \cup H) \cap B = {}
          /\ E \in SUBSET entries /\ H \in SUBSET entries /\ B \in SUBSET entries
      BY <2>5 DEF Among, Registry!Placed
    <2> HIDE DEF S, E, H, B
    <2>7. IsFiniteSet(E) /\ IsFiniteSet(H) /\ IsFiniteSet(B) BY <2>2, <2>6, FS_Subset
    <2>8. /\ IsFiniteSet(E \cup H)
          /\ Cardinality(E \cup H) = Cardinality(E) + Cardinality(H) - Cardinality({})
      BY <2>6, <2>7, FS_Union
    <2>9. Cardinality(S) = Cardinality(E \cup H) + Cardinality(B) - Cardinality({})
      BY <2>6, <2>7, <2>8, FS_Union
    <2>10. Cardinality({}) = 0 BY FS_EmptySet
    <2>11. Cardinality(E) \in Nat /\ Cardinality(H) \in Nat /\ Cardinality(B) \in Nat
      BY <2>7, FS_CardinalityType
    <2>12. Cardinality(S) = Cardinality(E) + Cardinality(H) + Cardinality(B) BY <2>8, <2>9, <2>10, <2>11
    <2>13. declared <= Cardinality(entries) + (Cardinality(issues) + Cardinality(skipped))
      BY <2>2, <2>3, <2>4
    <2>14. Registry!Cardinality(skipped) = Cardinality(skipped)
           /\ Registry!Cardinality(Registry!MCPOperations) = Cardinality(Enabled)
      BY CountsAlike DEF Enabled
    <2> QED BY <2>1, <2>2, <2>12, <2>13, <2>14
  <1> QED BY <1>2, <1>3 DEF NothingIsLost, Registry!NothingIsLost

(* What the model sees was reviewed as it stands, for every set of documents, policy *)
(* and selection: each tool of the default server is the only one of its name, and   *)
(* has the path and the parameters the review saw; no blocked operation is on the    *)
(* comparison server (exposure.go:55-155, registry.go:177-186, register.go:33-53).   *)
THEOREM OnlyReviewedIsEverPublished == Spec => []OnlyReviewedIsPublished
  <1>1. ContractInv => OnlyReviewedIsPublished BY PublishingInv
  <1> QED BY <1>1, ContractInvariant, PTL

(* Whatever the document, each of its operations is kept or reported, each candidate *)
(* kept can be called, and the counters of the summary add up (parser.go:97-451,     *)
(* registry.go:83-173).                                                              *)
THEOREM NothingIsEverLost == Spec => []NothingIsLost
  <1>1. ContractInv => NothingIsLost BY CountingInv
  <1> QED BY <1>1, ContractInvariant, PTL

-----------------------------------------------------------------------------
(* What the report calls compatible. *)

Declared == [input : Report!Schemas, output : SUBSET Fields, profile : Report!Profiles]
Offered == [input : {s \in Report!Schemas : ~s.extra}, output : SUBSET Fields, operation : Operations, blocked : BOOLEAN]

ReportInv ==
    /\ part = "report" => static \in Declared
    /\ classes # {} => /\ static \in Declared /\ dynamic \in Offered
                       /\ classes = Report!AssessCompatibility(static, dynamic)

LEMMA SchemasAre ==
    \A s \in Report!Schemas : s.required \subseteq DOMAIN s.props /\ s.extra \in BOOLEAN
  BY DEF Report!Schemas

(* A class is found or not. *)
LEMMA ClassIs ==
    \A name, differs : Report!Class(name, differs) = {} <=> ~differs
  BY DEF Report!Class

LEMMA AloneCompatible ==
    ASSUME NEW s, NEW d, Report!AssessCompatibility(s, d) = {"COMPATIBLE"}
    PROVE  /\ Report!CompareInputSchemas(s.input, d.input) = {}
           /\ Report!compareTopLevel(s.output, d.output) = {}
           /\ s.profile # None /\ ~s.profile.output /\ ~s.profile.semantic /\ ~s.profile.security
           /\ s.profile.operations = {d.operation} /\ ~d.blocked
  <1> DEFINE p == s.profile
             inputs == Report!CompareInputSchemas(s.input, d.input) # {}
             outputs == Report!compareTopLevel(s.output, d.output) # {} \/ (p # None /\ p.output)
             semantics == IF p = None THEN TRUE ELSE p.semantic \/ p.operations # {d.operation}
             security == d.blocked \/ (p # None /\ p.security)
             found == Report!Class("INPUT_MISMATCH", inputs) \cup Report!Class("OUTPUT_MISMATCH", outputs)
                      \cup Report!Class("SEMANTIC_MISMATCH", semantics) \cup Report!Class("SECURITY_MISMATCH", security)
  <1>1. Report!AssessCompatibility(s, d) = IF found = {} THEN {"COMPATIBLE"} ELSE found
    BY DEF Report!AssessCompatibility
  <1>2. "COMPATIBLE" \notin found
    <2> HIDE DEF inputs, outputs, semantics, security
    <2> QED BY DEF Report!Class
  <1>3. found = {} BY <1>1, <1>2
  <1>4. /\ Report!Class("INPUT_MISMATCH", inputs) = {} /\ Report!Class("OUTPUT_MISMATCH", outputs) = {}
        /\ Report!Class("SEMANTIC_MISMATCH", semantics) = {} /\ Report!Class("SECURITY_MISMATCH", security) = {}
    <2> HIDE DEF inputs, outputs, semantics, security
    <2> QED BY <1>3
  <1>5. ~inputs /\ ~outputs /\ ~semantics /\ ~security
    <2> HIDE DEF inputs, outputs, semantics, security
    <2> QED BY <1>4, ClassIs
  <1> QED BY <1>5

LEMMA SameInputs ==
    ASSUME NEW a \in Report!Schemas, NEW b \in Report!Schemas, Report!CompareInputSchemas(a, b) = {}, NEW input
    PROVE  Report!Valid(a, input) <=> Report!Valid(b, input)
  <1> DEFINE alone == (DOMAIN a.props \ DOMAIN b.props) \cup (DOMAIN b.props \ DOMAIN a.props)
             names == {<<"name", n>> : n \in alone}
             keywords(n) == {k \in Report!Keywords : a.props[n][k] # b.props[n][k]}
             rules(n) == {<<k, n>> : k \in keywords(n)}
             asked(n) == IF (n \in a.required) # (n \in b.required) THEN {<<"required", n>>} ELSE {}
             common == DOMAIN a.props \cap DOMAIN b.props
             each == UNION {rules(n) \cup asked(n) : n \in common}
             extra == IF a.extra # b.extra THEN {<<"extra", None>>} ELSE {}
  <1>1. /\ names = {} /\ extra = {}
        /\ \A n \in common : rules(n) = {} /\ asked(n) = {}
    <2>1. Report!CompareInputSchemas(a, b) = names \cup each \cup extra BY DEF Report!CompareInputSchemas
    <2>2. each = {} /\ names = {} /\ extra = {} BY <2>1
    <2>3. ASSUME NEW n \in common PROVE rules(n) = {} /\ asked(n) = {}
      <3>1. rules(n) \cup asked(n) \in {rules(m) \cup asked(m) : m \in common} BY <2>3
      <3> HIDE DEF rules, asked, common
      <3>2. rules(n) \cup asked(n) \subseteq each BY <3>1
      <3> QED BY <2>2, <3>2
    <2> QED BY <2>2, <2>3
  <1>2. DOMAIN a.props = DOMAIN b.props
    <2>1. alone = {}
      <3> HIDE DEF alone
      <3> QED BY <1>1
    <2> QED BY <2>1
  <1>3. \A n \in DOMAIN a.props : /\ \A k \in Report!Keywords : a.props[n][k] = b.props[n][k]
                                  /\ n \in a.required <=> n \in b.required
    <2> SUFFICES ASSUME NEW n \in DOMAIN a.props
                 PROVE  /\ \A k \in Report!Keywords : a.props[n][k] = b.props[n][k]
                        /\ n \in a.required <=> n \in b.required
      OBVIOUS
    <2>1. rules(n) = {} /\ asked(n) = {} BY <1>1, <1>2
    <2>2. keywords(n) = {}
      <3> HIDE DEF keywords
      <3> QED BY <2>1
    <2> QED BY <2>1, <2>2
  <1>4. a.extra = b.extra BY <1>1
  <1>5. a.required = b.required BY <1>2, <1>3, SchemasAre
  <1>6. \A n \in DOMAIN a.props : /\ a.props[n].type = b.props[n].type /\ a.props[n].enum = b.props[n].enum
                                  /\ a.props[n].maximum = b.props[n].maximum
    BY <1>3 DEF Report!Keywords
  <1>7. \A n \in DOMAIN a.props : \A v : Report!Accepts(a.props[n], v) <=> Report!Accepts(b.props[n], v)
    BY <1>6 DEF Report!Accepts
  <1> QED BY <1>2, <1>4, <1>5, <1>7 DEF Report!Valid

LEMMA ReportSays == ASSUME ReportInv PROVE CompatibleIsInterchangeable
  <1> SUFFICES ASSUME classes = {"COMPATIBLE"}
               PROVE  /\ \A input \in Report!Inputs : Report!Valid(static.input, input) <=> Report!Valid(dynamic.input, input)
                      /\ static.output = dynamic.output /\ ~dynamic.blocked
                      /\ static.profile = [operations |-> {dynamic.operation}, output |-> FALSE,
                                           semantic |-> FALSE, security |-> FALSE]
    BY DEF CompatibleIsInterchangeable, Report!CompatibleIsInterchangeable
  <1>1. /\ static \in Declared /\ dynamic \in Offered
        /\ Report!AssessCompatibility(static, dynamic) = {"COMPATIBLE"}
    BY DEF ReportInv
  <1>2. /\ Report!CompareInputSchemas(static.input, dynamic.input) = {}
        /\ Report!compareTopLevel(static.output, dynamic.output) = {}
        /\ static.profile # None /\ ~static.profile.output /\ ~static.profile.semantic /\ ~static.profile.security
        /\ static.profile.operations = {dynamic.operation} /\ ~dynamic.blocked
    BY <1>1, AloneCompatible
  <1>3. static.input \in Report!Schemas /\ dynamic.input \in Report!Schemas BY <1>1 DEF Declared, Offered
  <1>4. \A input : Report!Valid(static.input, input) <=> Report!Valid(dynamic.input, input)
    BY <1>2, <1>3, SameInputs
  <1>5. static.output = dynamic.output BY <1>1, <1>2 DEF Declared, Offered, Report!compareTopLevel
  <1>6. static.profile = [operations |-> {dynamic.operation}, output |-> FALSE, semantic |-> FALSE, security |-> FALSE]
    <2>1. static.profile \in [operations : SUBSET Operations \ {{}}, output : BOOLEAN, semantic : BOOLEAN, security : BOOLEAN]
      BY <1>1, <1>2 DEF Declared, Report!Profiles
    <2> QED BY <1>2, <2>1
  <1> QED BY <1>2, <1>4, <1>5, <1>6

(* Whatever the schemas, the results and what is declared of a static tool: the dynamic *)
(* tool the report calls compatible with it accepts the same inputs, has the same        *)
(* results and calls the same one operation (compat.go).                                 *)
THEOREM CompatibleIsAlwaysInterchangeable == Spec => []CompatibleIsInterchangeable
  <1>1. Init => ReportInv BY DEF Init, Report!Init, ReportInv, Declared
  <1>2. ReportInv /\ [Next]_<<part, registryVars, callingVars, reportVars, identityVars>> => ReportInv'
    <2> SUFFICES ASSUME ReportInv, [Next]_<<part, registryVars, callingVars, reportVars, identityVars>>
                 PROVE  ReportInv'
      OBVIOUS
    <2>1. CASE part = "report" /\ UNCHANGED part /\ Report!Next
      <3>1. /\ static' = static /\ dynamic' \in Offered
            /\ classes' = Report!AssessCompatibility(static, dynamic')
        BY <2>1 DEF Report!Next, Report!Assess, Offered
      <3>2. static \in Declared BY <2>1 DEF ReportInv
      <3>3. Report!AssessCompatibility(static, dynamic') = Report!AssessCompatibility(static', dynamic') BY <3>1
      <3> QED BY <3>1, <3>2, <3>3 DEF ReportInv, Declared
    <2>2. CASE UNCHANGED <<part, static, dynamic, classes>>
      <3>1. Report!AssessCompatibility(static, dynamic)' = Report!AssessCompatibility(static, dynamic) BY <2>2
      <3> QED BY <2>2, <3>1 DEF ReportInv, Declared, Offered
    <2> QED BY <2>1, <2>2 DEF Next, reportVars
  <1>3. ReportInv => CompatibleIsInterchangeable BY ReportSays
  <1> QED BY <1>1, <1>2, <1>3, PTL DEF Spec
=============================================================================

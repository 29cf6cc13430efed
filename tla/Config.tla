------------------------------- MODULE Config -------------------------------
(***************************************************************************)
(* Where settings come from (internal/config, and the flags of             *)
(* cmd/ableops-kafka-mcp): one YAML file and one environment, read by the   *)
(* server, by "ableops-mcp-auth enroll" and by "ableops-mcp-auth revoke".   *)
(*                                                                         *)
(* The file is read key by key in whatever order it has them; after that    *)
(* every load looks variables up one at a time, so that which variables a   *)
(* load has read is part of the state.  Sections are left out: a key stands *)
(* for section.key, and a repeated section is a repeated key.  Names of     *)
(* variables are equal if they differ in case only.                         *)
(***************************************************************************)
EXTENDS Naturals, FiniteSets

CONSTANTS
    KeyValues, \* [key -> the values it may have in the file]
    MaxKeys,   \* keys in the file
    EnvValues, \* [variable -> the values it may have]
    Flags,     \* [transport, origins]: flags of the server, None when not given
    None,
    Refused    \* what a load ends with that found something wrong

Loads == {"server", "enroll", "revoke"}
APIToken == "ABLEOPS_API_TOKEN"
AuthStore == "MCP_AUTH_STORE"
CAFile == "ABLEOPS_CA_FILE"
BackendVars == {"ABLEOPS_BASE_URL", "ABLEOPS_ALLOW_HTTP", "ABLEOPS_REQUEST_TIMEOUT",
                "ABLEOPS_MESSAGE_SAMPLE_ENABLED", "ABLEOPS_MESSAGE_SAMPLE_TOPICS"}
DynamicVars == {"ABLEOPS_DYNAMIC_TOOLS", "ABLEOPS_DYNAMIC_OPERATIONS", "ABLEOPS_DYNAMIC_REFRESH_INTERVAL"}
DelegationVars == {"ABLEOPS_WEB_DELEGATION", "ABLEOPS_WEB_DELEGATION_TTL"}
DelegationSecret == "ABLEOPS_WEB_DELEGATION_SECRET"
Settings == BackendVars \cup DynamicVars \cup {AuthStore, CAFile, "MCP_LOG_LEVEL"}

(* A path refers to a variable or to none; what is in force is absolute, or relative to *)
(* the file or to the directory of a load.                                              *)
Refs == DOMAIN EnvValues \cup {None}
Paths == [ref : Refs, abs : BOOLEAN]
Locations == [ref : Refs, base : {"root", "file"} \cup Loads]

(* A file may have every key, the path of the store is absolute or relative or not      *)
(* stated, and None is none of the words and places it is told from.                    *)
ConfigAssumption ==
    /\ MaxKeys \in Nat
    /\ \A f \in Flags : DOMAIN f = {"transport", "origins"}
    /\ {"token_env", "secret_env", "ca_file", "store_file"} \subseteq DOMAIN KeyValues
    /\ {AuthStore, CAFile} \subseteq DOMAIN EnvValues
    /\ EnvValues[AuthStore] \subseteq {None, "blank", "abs", "rel"}
    /\ KeyValues["ca_file"] \cup KeyValues["store_file"] \subseteq Paths
    /\ None \notin Loads \cup {"backend", "store", "dynamic", "delegation"} \cup {APIToken, DelegationSecret}
    /\ None \notin Locations

VARIABLES
    file,   \* [key -> its value, None when the file does not have it]
    phase,  \* "reading", "loading", "stopped" (a file nobody accepts)
    env,    \* what is known of the environment, the same for all loads
    load,   \* the load under way, None between loads
    step,   \* its next step
    draft,  \* what it has put together so far
    looked, \* [load -> the variables it has looked up]
    result  \* [load that has ended -> its configuration, or Refused]

vars == <<file, phase, env, load, step, draft, looked, result>>

Empty == [transport |-> None, origins |-> None, token |-> None, ca |-> None, url |-> None, sample |-> None,
          store |-> None, dynamic |-> None, operations |-> None, interval |-> None,
          delegation |-> FALSE, ttl |-> None, secret |-> None]

Init ==
    /\ file = [k \in DOMAIN KeyValues |-> None] /\ phase = "reading"
    /\ env = <<>> /\ load = None /\ step = None /\ draft = Empty
    /\ looked = [l \in Loads |-> {}] /\ result = <<>>

-----------------------------------------------------------------------------
(* The file. *)

Seen == {k \in DOMAIN file : file[k] # None}

(* Names a secret's variable may not have. *)
validTokenEnvName(v) == v \notin Settings
validSecretEnvName(v) == v \notin Settings \cup DelegationVars \cup {APIToken}

(* Types and the checks made while reading; everything else waits for its use. *)
ValidEntry(k, v) ==
    CASE k = "version" -> v = "1"
      [] k = "transport" -> v \in {"stdio", "http"}
      [] k \in {"allow_http", "sample_enabled", "dynamic", "web_delegation"} -> v \in {"true", "false"}
      [] k = "token_env" -> validTokenEnvName(v)
      [] k = "secret_env" -> validSecretEnvName(v)
      [] k = "unknown" -> FALSE
      [] OTHER -> TRUE

ReadKey(k, v) ==
    /\ phase = "reading" /\ Cardinality(Seen) < MaxKeys
    /\ IF k \notin Seen /\ ValidEntry(k, v)
       THEN file' = [file EXCEPT ![k] = v] /\ UNCHANGED phase
       ELSE phase' = "stopped" /\ UNCHANGED file
    /\ UNCHANGED <<env, load, step, draft, looked, result>>

(* No file at all, or one with its version. *)
EndOfFile ==
    /\ phase = "reading" /\ (Seen # {} => "version" \in Seen)
    /\ phase' = "loading"
    /\ UNCHANGED <<file, env, load, step, draft, looked, result>>

-----------------------------------------------------------------------------
(* Values. *)

Stated(v) == v \notin {None, "blank"}

(* The environment before the file. *)
Layered(var, key) == IF Stated(env[var]) THEN env[var] ELSE file[key]
Flag(v) == v \in {None, "true", "false"}

TokenVar == IF file["token_env"] = None THEN APIToken ELSE file["token_env"]
SecretVar == IF file["secret_env"] = None THEN DelegationSecret ELSE file["secret_env"]

(* A path of the file: ref is the variable it refers to, abs whether it is absolute   *)
(* without one.  The variable of the token may not be part of a path.                  *)
Reserved(ref) == ref \in {APIToken, file["token_env"]}
PathVars(p) == IF p = None \/ p.ref = None \/ Reserved(p.ref) THEN {} ELSE {p.ref}
Resolvable(p) == p.ref = None \/ (~Reserved(p.ref) /\ Stated(env[p.ref]))
Resolved(p) ==
    [ref |-> p.ref,
     base |-> IF (IF p.ref = None THEN p.abs ELSE env[p.ref] = "abs") THEN "root" ELSE "file"]

(* A path of the environment is relative to the process that reads it. *)
FromEnv(var) == [ref |-> var, base |-> IF env[var] = "abs" THEN "root" ELSE load]

-----------------------------------------------------------------------------
(* Loads. *)

Known(vs) == vs \subseteq looked[load]

(* The credentials the backend's client is built with.                  *)
(* Mutated form: the token is read first, and left out over HTTP later. *)
CredentialVarsAlways == {TokenVar}
CredentialVars == IF draft.transport = "http" THEN {} ELSE {TokenVar}

(* What the step under way reads next. *)
Needs ==
    CASE step = "backend" ->
             {CAFile, "MCP_LOG_LEVEL"} \cup BackendVars \cup CredentialVars
             \cup (IF Known({CAFile}) /\ ~Stated(env[CAFile]) THEN PathVars(file["ca_file"]) ELSE {})
      [] step = "store" ->
             {AuthStore} \cup
             (IF Known({AuthStore}) /\ ~Stated(env[AuthStore]) THEN PathVars(file["store_file"]) ELSE {})
      [] step = "dynamic" -> DynamicVars
      [] step = "delegation" -> DelegationVars \cup {SecretVar}
      [] OTHER -> {}

(* One variable after the other, in some fixed order.  A load that refuses what it *)
(* has read may have stopped before the last of them.                               *)
Getenv ==
    /\ load # None /\ Needs \ looked[load] # {}
    /\ LET v == CHOOSE v \in Needs \ looked[load] : TRUE IN
       /\ looked' = [looked EXCEPT ![load] = @ \cup {v}]
       /\ IF v \in DOMAIN env THEN UNCHANGED env
          ELSE \E val \in EnvValues[v] :
                  env' = [w \in DOMAIN env \cup {v} |-> IF w = v THEN val ELSE env[w]]
    /\ UNCHANGED <<file, phase, load, step, draft, result>>

Finish(r) ==
    /\ result' = [l \in DOMAIN result \cup {load} |-> IF l = load THEN r ELSE result[l]]
    /\ load' = None /\ step' = None /\ draft' = Empty
    /\ UNCHANGED <<file, phase, env, looked>>

Continue(ok, d, next) ==
    IF ~ok THEN Finish(Refused)
    ELSE IF next = None THEN Finish(d)
    ELSE draft' = d /\ step' = next /\ UNCHANGED <<file, phase, env, load, looked, result>>

(* Flags before the file. *)
Begin(l) ==
    /\ phase = "loading" /\ load = None /\ l \notin DOMAIN result
    /\ load' = l
    /\ IF l = "server"
       THEN \E f \in Flags :
              LET t == IF f.transport # None THEN f.transport
                       ELSE IF file["transport"] # None THEN file["transport"] ELSE "stdio"
                  o == IF f.origins # None THEN f.origins ELSE file["allowed_origins"] IN
              /\ t \in {"stdio", "http"}
              /\ draft' = [Empty EXCEPT !.transport = t, !.origins = o]
       ELSE draft' = Empty
    /\ step' = IF l = "revoke" THEN "store" ELSE "backend"
    /\ UNCHANGED <<file, phase, env, looked, result>>

Reading(s) == load # None /\ step = s /\ Needs \subseteq looked[load]

(* loadBackend, loadFrom and Validate.  The level of the log is one more option like *)
(* the timeout, read and checked the same way.                                       *)
Backend ==
    /\ Reading("backend")
    /\ LET http == draft.transport = "http"
           url == Layered("ABLEOPS_BASE_URL", "base_url")
           allow == Layered("ABLEOPS_ALLOW_HTTP", "allow_http")
           sample == Layered("ABLEOPS_MESSAGE_SAMPLE_ENABLED", "sample_enabled")
           topics == Layered("ABLEOPS_MESSAGE_SAMPLE_TOPICS", "sample_topics")
           path == file["ca_file"]
           caOK == Stated(env[CAFile]) \/ path = None \/ Resolvable(path)
           ok == /\ caOK
                 /\ url \in {"https"} \cup (IF allow = "true" THEN {"loopback"} ELSE {})
                 /\ Flag(allow) /\ Flag(sample)
                 /\ Layered("ABLEOPS_REQUEST_TIMEOUT", "request_timeout") # "bad"
                 /\ topics # "bad" /\ (sample = "true" => Stated(topics))
                 /\ ~http => Stated(env[TokenVar]) IN
       Continue(ok,
                [draft EXCEPT
                    !.token = IF http THEN None ELSE TokenVar,
                    !.url = url, !.sample = (sample = "true"),
                    !.ca = IF ~caOK THEN None ELSE IF Stated(env[CAFile]) THEN FromEnv(CAFile)
                           ELSE IF path = None THEN None ELSE Resolved(path)],
                IF http \/ load = "enroll" THEN "store" ELSE "dynamic")

StoreLocation == IF Stated(env[AuthStore]) THEN FromEnv(AuthStore) ELSE Resolved(file["store_file"])

authStore ==
    /\ Reading("store")
    /\ LET path == file["store_file"]
           ok == Stated(env[AuthStore]) \/ (path # None /\ Resolvable(path)) IN
       Continue(ok, IF ok THEN [draft EXCEPT !.store = StoreLocation] ELSE draft,
                IF load = "server" THEN "dynamic" ELSE None)

(* A list that is given and empty selects nothing; no list selects the default. *)
(* Mutated form: an empty list is no list.                                       *)
OperationsNonempty ==
    LET o == Layered("ABLEOPS_DYNAMIC_OPERATIONS", "operations") IN IF o = "empty" THEN None ELSE o
Operations == Layered("ABLEOPS_DYNAMIC_OPERATIONS", "operations")

(* The interval is checked whether or not the tools are enabled. *)
loadDynamic ==
    /\ Reading("dynamic")
    /\ LET on == Layered("ABLEOPS_DYNAMIC_TOOLS", "dynamic")
           interval == Layered("ABLEOPS_DYNAMIC_REFRESH_INTERVAL", "refresh_interval") IN
       Continue(Flag(on) /\ Operations # "bad" /\ interval # "bad",
                [draft EXCEPT !.dynamic = (on = "true"), !.operations = Operations, !.interval = interval],
                "delegation")

(* The secret is kept only while delegation is enabled, and delegation needs HTTP. *)
DelegationFits(on) == on => draft.transport = "http"

loadWebDelegation ==
    /\ Reading("delegation")
    /\ LET v == Layered("ABLEOPS_WEB_DELEGATION", "web_delegation")
           on == v = "true"
           ttl == Layered("ABLEOPS_WEB_DELEGATION_TTL", "ttl") IN
       Continue(Flag(v) /\ ttl # "bad" /\ (on => env[SecretVar] = "long") /\ DelegationFits(on),
                [draft EXCEPT !.delegation = on, !.ttl = ttl, !.secret = IF on THEN SecretVar ELSE None],
                None)

LoadStep == Backend \/ authStore \/ loadDynamic \/ loadWebDelegation
Next ==
    \/ \E k \in DOMAIN KeyValues : \E v \in KeyValues[k] : ReadKey(k, v)
    \/ EndOfFile
    \/ \E l \in Loads : Begin(l)
    \/ Getenv
    \/ LoadStep

Spec == Init /\ [][Next]_vars

-----------------------------------------------------------------------------
(* Properties. *)

Accepted(l) == l \in DOMAIN result /\ result[l] # Refused
Serving(t) == (load = "server" /\ draft.transport = t)
              \/ (Accepted("server") /\ result["server"].transport = t)

(* What a server reads over either transport. *)
ServerVars ==
    BackendVars \cup DynamicVars \cup DelegationVars \cup {CAFile, "MCP_LOG_LEVEL", SecretVar}
    \cup PathVars(file["ca_file"])

(* Each program reads the variables of its own settings and no other, whatever the     *)
(* file says, and even if it then refuses to start: a server over HTTP does not look at  *)
(* the variable of the backend's token ("HTTP 서버는 읽지 않음", docs/deployment.md:263),    *)
(* one over stdio not at those of the credential store, and revoke reads nothing but     *)
(* the path of the store (yaml.go:123).  A file may give one variable two uses, where     *)
(* no name is reserved: the token's may be one of the delegation (yaml.go:229 reserves    *)
(* all names but those).                                                                  *)
ReadsItsOwnOnly ==
    /\ Serving("http") /\ TokenVar \in looked["server"] => TokenVar \in DelegationVars \cup {SecretVar}
    /\ Serving("stdio") =>
           looked["server"] \cap ({AuthStore} \cup PathVars(file["store_file"])) \subseteq ServerVars
    /\ looked["revoke"] \subseteq {AuthStore} \cup PathVars(file["store_file"])

(* No path is put together from the variable of the token, wherever in the file it is *)
(* named: paths end in messages and in the process list ("인증 토큰 환경변수는 파일 경로에  *)
(* 사용할 수 없습니다", yaml.go:194).                                                     *)
PathsHoldNoToken ==
    \A l \in Loads : Accepted(l) =>
        \A p \in {result[l].ca, result[l].store} \ {None} : p.ref \notin {TokenVar, APIToken}

(* The server, enroll and revoke mean the same store if they read the same file and     *)
(* environment, though each runs in a directory of its own; only a relative path in the *)
(* environment is each program's own.                                                    *)
SameStore ==
    \A a, b \in Loads :
        Accepted(a) /\ Accepted(b) /\ result[a].store # None /\ result[b].store # None =>
            result[a].store = result[b].store \/ env[AuthStore] = "rel"

(* A configuration that is accepted is one the server can keep: over HTTP with a store   *)
(* and without a token of its own, over stdio with a token and without delegation, plain *)
(* HTTP to the backend on this host only, and a shared secret only where it is in use.    *)
Coherent ==
    Accepted("server") =>
        LET r == result["server"] IN
        /\ r.transport = "http" => r.token = None /\ r.store # None
        /\ r.transport = "stdio" => r.token # None /\ r.store = None /\ ~r.delegation
        /\ r.delegation <=> r.secret # None
        /\ r.url = "loopback" => Layered("ABLEOPS_ALLOW_HTTP", "allow_http") = "true"

(* What the operator states last is in force: of environment and file the first that   *)
(* states a value decides, an empty list included, and a wrong value there stops the    *)
(* start instead of giving way to the lower layer or a default.                         *)
Decides(var, key, value) ==
    /\ Stated(env[var]) => value = env[var] /\ value # "bad"
    /\ ~Stated(env[var]) => value = file[key] /\ value # "bad"
ChoiceInForce ==
    Accepted("server") =>
        LET r == result["server"] IN
        /\ Decides("ABLEOPS_DYNAMIC_OPERATIONS", "operations", r.operations)
        /\ Decides("ABLEOPS_DYNAMIC_REFRESH_INTERVAL", "refresh_interval", r.interval)
        /\ Decides("ABLEOPS_WEB_DELEGATION_TTL", "ttl", r.ttl)
        /\ Decides("ABLEOPS_BASE_URL", "base_url", r.url)
=============================================================================

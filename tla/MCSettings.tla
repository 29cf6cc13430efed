----------------------------- MODULE MCSettings -----------------------------
(* The three programs that load a configuration, with two sets of inputs: one around    *)
(* secrets and paths, one around values and their layers.                               *)
CONSTANTS InputSets, SecretKeys, SecretVars, SecretFlags, ValueKeys, ValueVars, ValueFlags, Unset, Refused

VARIABLES
    inputs,
    file, phase, env, load, step, draft, looked, result

Secrets == INSTANCE Config WITH KeyValues <- SecretKeys, EnvValues <- SecretVars, Flags <- SecretFlags, MaxKeys <- 5,
            None <- Unset
Values == INSTANCE Config WITH KeyValues <- ValueKeys, EnvValues <- ValueVars, Flags <- ValueFlags, MaxKeys <- 3,
            None <- Unset

ASSUME SettingsAssumption ==
    /\ Secrets!ConfigAssumption /\ Values!ConfigAssumption
    /\ InputSets \subseteq {"secrets", "values"} /\ DOMAIN SecretKeys = DOMAIN ValueKeys

settingsVars == <<file, phase, env, load, step, draft, looked, result>>

SettingsInit ==
    /\ inputs \in InputSets
    /\ Secrets!Init \* which is that of Values

SettingsNext ==
    /\ UNCHANGED inputs
    /\ (inputs = "secrets" /\ Secrets!Next) \/ (inputs = "values" /\ Values!Next)

SettingsSpec == SettingsInit /\ [][SettingsNext]_<<inputs, settingsVars>>

-----------------------------------------------------------------------------
(* Each program looks up the variables of its own settings only, and no path is put    *)
(* together from the variable of the token (yaml.go:123, 194).                          *)
ReadsItsOwnOnly == Secrets!ReadsItsOwnOnly /\ Secrets!PathsHoldNoToken

(* What the operator states last is in force, alike in all programs that read the same *)
(* file, and what is accepted is what a server can keep (config.go, dynamic.go,          *)
(* webdelegation.go, yaml.go).                                                           *)
ChoiceInForce == Secrets!ChoiceInForce /\ Secrets!SameStore /\ Secrets!Coherent

-----------------------------------------------------------------------------
(* Files and environments.  A variable or key without alternatives is not listed with *)
(* any: it is absent, or has the one value a start needs.                              *)
Path(ref, abs) == [ref |-> ref, abs |-> abs]

Keys == {"version", "transport", "allowed_origins", "base_url", "allow_http", "request_timeout", "ca_file",
         "store_file", "token_env", "sample_enabled", "sample_topics", "web_delegation", "ttl", "secret_env",
         "dynamic", "operations", "refresh_interval", "unknown"}
Vars == {"ABLEOPS_BASE_URL", "ABLEOPS_ALLOW_HTTP", "ABLEOPS_REQUEST_TIMEOUT", "ABLEOPS_CA_FILE",
         "ABLEOPS_MESSAGE_SAMPLE_ENABLED", "ABLEOPS_MESSAGE_SAMPLE_TOPICS",
         "ABLEOPS_DYNAMIC_TOOLS", "ABLEOPS_DYNAMIC_OPERATIONS", "ABLEOPS_DYNAMIC_REFRESH_INTERVAL",
         "ABLEOPS_WEB_DELEGATION", "ABLEOPS_WEB_DELEGATION_TTL", "ABLEOPS_WEB_DELEGATION_SECRET",
         "ABLEOPS_API_TOKEN", "MCP_AUTH_STORE", "MCP_LOG_LEVEL", "OWN_TOKEN", "SHARED", "HOME"}

(* Secrets, paths and who reads them. *)
MCSecretKeys ==
    [k \in Keys |->
        CASE k = "version" -> {"1"}
          [] k = "transport" -> {"http", "stdio"}
          [] k = "token_env" -> {"OWN_TOKEN", "MCP_AUTH_STORE", "ABLEOPS_WEB_DELEGATION_SECRET"}
          [] k = "store_file" -> {Path(Unset, FALSE), Path("HOME", FALSE), Path("OWN_TOKEN", FALSE), Path("SHARED", FALSE)}
          [] k = "ca_file" -> {Path("HOME", FALSE), Path("ABLEOPS_API_TOKEN", FALSE)}
          [] k = "secret_env" -> {"SHARED", "ABLEOPS_API_TOKEN"}
          [] k = "web_delegation" -> {"true"}
          [] OTHER -> {}]
MCSecretVars ==
    [v \in Vars |->
        CASE v = "ABLEOPS_BASE_URL" -> {"https"}
          [] v \in {"ABLEOPS_API_TOKEN", "OWN_TOKEN"} -> {"tok", Unset}
          [] v = "MCP_AUTH_STORE" -> {Unset, "abs", "rel"}
          [] v = "HOME" -> {Unset, "abs", "rel"}
          [] v \in {"SHARED", "ABLEOPS_WEB_DELEGATION_SECRET"} -> {Unset, "long", "short"}
          [] v = "ABLEOPS_WEB_DELEGATION" -> {Unset, "false"}
          [] OTHER -> {Unset}]
MCSecretFlags == {[transport |-> t, origins |-> Unset] : t \in {Unset, "stdio", "http"}}

(* Values and their layers. *)
MCValueKeys ==
    [k \in Keys |->
        CASE k = "version" -> {"1", "2"}
          [] k = "transport" -> {"http"}
          [] k = "allowed_origins" -> {"file"}
          [] k = "base_url" -> {"https", "loopback"}
          [] k = "allow_http" -> {"true"}
          [] k = "request_timeout" -> {"good", "bad"}
          [] k = "sample_enabled" -> {"true"}
          [] k = "sample_topics" -> {"good"}
          [] k = "dynamic" -> {"true", "odd"}
          [] k = "operations" -> {"listA", "empty", "bad"}
          [] k = "refresh_interval" -> {"short", "bad"}
          [] k = "ttl" -> {"short", "bad"}
          [] k = "unknown" -> {"x"}
          [] OTHER -> {}]
MCValueVars ==
    [v \in Vars |->
        CASE v = "ABLEOPS_BASE_URL" -> {Unset, "https", "loopback", "remote"}
          [] v = "ABLEOPS_ALLOW_HTTP" -> {Unset, "odd", "true"}
          [] v = "ABLEOPS_REQUEST_TIMEOUT" -> {"blank"}
          [] v = "ABLEOPS_MESSAGE_SAMPLE_ENABLED" -> {Unset, "true"}
          [] v = "ABLEOPS_DYNAMIC_OPERATIONS" -> {Unset, "blank", "listB", "bad"}
          [] v = "ABLEOPS_DYNAMIC_REFRESH_INTERVAL" -> {Unset, "long", "bad"}
          [] v = "ABLEOPS_WEB_DELEGATION_TTL" -> {Unset, "long", "bad"}
          [] v = "MCP_AUTH_STORE" -> {"abs"}
          [] v = "ABLEOPS_API_TOKEN" -> {"tok"}
          [] OTHER -> {Unset}]
MCValueFlags == {[transport |-> Unset, origins |-> Unset], [transport |-> "http", origins |-> Unset],
                 [transport |-> Unset, origins |-> "empty"]}
=============================================================================

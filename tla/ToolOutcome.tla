---------------------------- MODULE ToolOutcome ----------------------------
(***************************************************************************)
(* What a tool says of the answers it got (internal/tools/health.go,       *)
(* monitoring.go, impact_request.go, topic_detail.go, event_detail.go,     *)
(* event_operations.go, security.go, tools.go): the REST calls it makes,   *)
(* in which order, and the status and errors of its envelope.              *)
(*                                                                         *)
(* An answer keeps what statuses depend on.  A tool whose backend cannot   *)
(* tell an empty store from a failed one always reports "partial".         *)
(***************************************************************************)
EXTENDS Naturals, FiniteSets

CONSTANTS
    Counts, \* partition counters the backend reports
    None

OutcomeAssumption == Counts \subseteq Nat /\ None \notin {"ok", "partial", "error"}

VARIABLES
    tool,    \* the tool called
    include, \* the optional parts asked for
    reply,   \* reply[part]: the backend's answer, None while there is none
    asked,   \* parts requested so far
    status,  \* Envelope.Status, None before the envelope is finished
    errors   \* components of Envelope.Errors

vars == <<tool, include, reply, asked, status, errors>>

-----------------------------------------------------------------------------
(* Tools and their parts. *)

Optional ==
    [t \in {"cluster_health", "group_lag", "lag_overview", "storage", "config_audit", "reassignments",
            "series", "snapshot", "scram_audit", "acl_risk", "requests", "event_summary", "issues",
            "asset_impact", "topic_detail", "event_detail", "attention_policy"} |->
        CASE t = "asset_impact" -> {"impact"}
          [] t = "topic_detail" -> {"partitions"}
          [] t = "event_detail" -> {"occurrences", "actions", "issue", "playbook"}
          [] t = "attention_policy" -> {"attention_profile"}
          [] OTHER -> {}]
Tools == DOMAIN Optional

(* The parts every call asks for, in the order of the calls; clusterHealth's two  *)
(* run at once.                                                                   *)
Main(t) == CASE t = "cluster_health" -> {"connectivity", "partitions"}
             [] t = "issues" -> {"event_scope", "issues"}
             [] OTHER -> {t}

(* Parts the backend has no bounded API for are refused without a request. *)
Refused == {"actions", "issue"}

Failing == {"FORBIDDEN", "UNAVAILABLE", "NOT_FOUND", "UNSUPPORTED", "DISABLED", "ERROR"}
Probes == {"OK", "UNAVAILABLE"}
backendFailure(st) == st \in Failing

Error == [sent |-> FALSE]
Plain == [sent |-> TRUE]

(* What the backend may answer for a part. *)
Answers(part) ==
    {Error} \cup
    CASE part = "connectivity" -> [sent : {TRUE}, reachable : BOOLEAN, metadata : BOOLEAN]
      [] part = "partitions" -> IF tool = "topic_detail" THEN {Plain}
                                ELSE [sent : {TRUE}, st : Probes, total : Counts, failed : Counts]
      [] part = "group_lag" -> [sent : {TRUE}, st : Probes, found : BOOLEAN, code : {"OK", "NOT_FOUND"},
                                counted : Counts, failed : Counts]
      [] part = "lag_overview" -> [sent : {TRUE}, st : Probes, observed : BOOLEAN, partial : BOOLEAN,
                                   alerts : {"OK", "DISABLED", "UNAVAILABLE"}, synced : BOOLEAN]
      [] part \in {"storage", "config_audit"} ->
             [sent : {TRUE}, st : Probes, observed : BOOLEAN, partial : BOOLEAN]
      [] part = "reassignments" -> [sent : {TRUE}, st : Probes, partial : BOOLEAN]
      [] part = "series" -> [sent : {TRUE}, demo : BOOLEAN, lag : BOOLEAN, complete : BOOLEAN]
      [] part = "snapshot" -> [sent : {TRUE}, synced : BOOLEAN]
      [] part = "scram_audit" -> [sent : {TRUE}, st : Probes, supported : BOOLEAN]
      [] part = "acl_risk" -> [sent : {TRUE}, st : Probes]
      [] part \in {"event_summary", "event_scope"} -> [sent : {TRUE}, enabled : BOOLEAN]
      [] part = "issues" -> [sent : {TRUE}, empty : BOOLEAN]
      [] part = "asset_impact" -> [sent : {TRUE}, errors : BOOLEAN, synced : BOOLEAN, empty : BOOLEAN]
      [] part = "attention_profile" -> [sent : {TRUE}, same : BOOLEAN]
      [] OTHER -> {Plain}

Parts == UNION {Main(t) \cup Optional[t] : t \in Tools}

Init ==
    /\ tool \in Tools /\ include \in SUBSET Optional[tool]
    /\ reply = [p \in Parts |-> None]
    /\ asked = {} /\ status = None /\ errors = {}

-----------------------------------------------------------------------------
(* Asking. *)

Answered(p) == reply[p] # None
Sent(p) == Answered(p) /\ reply[p].sent

(* What may be asked next: the two of clusterHealth at once, a second part only when *)
(* the one before it was answered well, so that its answer vouches for the cluster.   *)
(* An impact is not asked of an asset the graph does not know.                        *)
NextParts ==
    IF tool = "cluster_health" THEN Main(tool) \ asked
    ELSE IF asked = {} THEN IF tool = "issues" THEN {"event_scope"} ELSE Main(tool)
    ELSE IF tool = "issues" THEN IF Sent("event_scope") THEN {"issues"} \ asked ELSE {}
    ELSE IF ~Sent(tool) \/ (tool = "asset_impact" /\ reply[tool].empty) THEN {}
    ELSE IF tool = "event_detail"
         THEN IF "occurrences" \in include \ asked THEN {"occurrences"}
              ELSE IF \A p \in asked : Answered(p) THEN {"playbook"} \cap (include \ asked)
              ELSE {}
    ELSE include \ (asked \cup Refused)

Ask(p) ==
    /\ status = None /\ p \in NextParts
    /\ asked' = asked \cup {p}
    /\ UNCHANGED <<tool, include, reply, status, errors>>

Answer(p) ==
    /\ p \in asked /\ ~Answered(p)
    /\ \E a \in Answers(p) : reply' = [reply EXCEPT ![p] = a]
    /\ UNCHANGED <<tool, include, asked, status, errors>>

-----------------------------------------------------------------------------
(* The envelope of each tool from its answers: a status and the components that failed. *)

Envelope(st, errs) == [status |-> st, errors |-> errs]
PartialIf(errs) == Envelope(IF errs = {} THEN "ok" ELSE "partial", errs)

(* Could anything be observed?  A failed probe counts failures of topics and of  *)
(* partitions together, so only a surplus proves a success.                      *)
PartitionsSeen(r) == ~backendFailure(r.st) \/ r.total > r.failed

clusterHealth ==
    LET c == reply["connectivity"]
        p == reply["partitions"]
        up == c.sent /\ c.reachable
        seen == p.sent /\ PartitionsSeen(p)
        errs == (IF ~up THEN {"connectivity"} ELSE IF c.metadata THEN {} ELSE {"cluster_metadata"})
                \cup (IF p.sent /\ ~backendFailure(p.st) /\ p.failed = 0 THEN {} ELSE {"partitions"})
    IN  IF ~up /\ ~seen THEN Envelope("error", errs) ELSE PartialIf(errs)

groupLag ==
    LET r == reply["group_lag"]
        why == {"group_lag"}
    IN  IF ~r.found /\ r.code = "NOT_FOUND" THEN Envelope("error", why)
        ELSE IF backendFailure(r.st)
             THEN Envelope(IF r.found /\ r.counted > 0 /\ r.failed > 0 THEN "partial" ELSE "error", why)
        ELSE IF ~r.found \/ (r.failed > 0 /\ r.counted = 0) THEN Envelope("error", why)
        ELSE Envelope(IF r.failed > 0 THEN "partial" ELSE "ok", IF r.failed > 0 THEN why ELSE {})

monitoringProbe(part, observed, partial) ==
    IF backendFailure(reply[part].st) THEN Envelope(IF observed THEN "partial" ELSE "error", {part})
    ELSE PartialIf(IF partial THEN {part} ELSE {})

(* Mutated form: alerts that were not read do not count. *)
AlertsReadAlways(r) == TRUE
AlertsRead(r) == r.alerts = "OK"

lagOverview ==
    LET r == reply["lag_overview"]
        probe == monitoringProbe("lag_overview", r.observed, r.partial)
    IN  Envelope(IF probe.status = "ok" /\ (~AlertsRead(r) \/ ~r.synced) THEN "partial" ELSE probe.status,
                 probe.errors \cup (IF AlertsRead(r) THEN {} ELSE {"lag_alerts"}))

metricSeries ==
    LET r == reply["series"]
    IN  Envelope(IF r.demo \/ ~r.lag \/ ~r.complete THEN "partial" ELSE "ok", {})

assetImpact ==
    LET g == reply["asset_impact"]
        errs == (IF g.errors THEN {"asset_graph"} ELSE {})
                \cup (IF Answered("impact") /\ ~Sent("impact") THEN {"impact"} ELSE {})
    IN  Envelope(IF errs # {} \/ ~g.synced \/ g.empty THEN "partial" ELSE "ok", errs)

FailedParts == {p \in asked : ~Sent(p)}

eventDetail == PartialIf(FailedParts \cup (include \cap Refused))

issues ==
    PartialIf((IF reply["issues"].empty THEN {"event_scope"} ELSE {})
              \cup (IF reply["event_scope"].enabled THEN {} ELSE {"collection"}))

attentionPolicy ==
    Envelope("partial", {"attention_overrides"} \cup FailedParts
        \cup {p \in asked \cap {"attention_profile"} : Sent(p) /\ ~reply[p].same})

audit ==
    LET r == reply[tool]
    IN  Envelope(IF backendFailure(r.st) THEN "error" ELSE "partial", {tool})

(* The first request that fails ends the call: failed(). *)
Outcome ==
    IF tool # "cluster_health" /\ \E p \in Main(tool) \cap asked : ~Sent(p)
    THEN Envelope("error", FailedParts)
    ELSE CASE tool = "cluster_health" -> clusterHealth
      [] tool = "group_lag" -> groupLag
      [] tool = "lag_overview" -> lagOverview
      [] tool \in {"storage", "config_audit"} ->
             monitoringProbe(tool, reply[tool].observed, reply[tool].partial)
      [] tool = "reassignments" -> monitoringProbe(tool, FALSE, reply[tool].partial)
      [] tool = "series" -> metricSeries
      [] tool = "snapshot" -> Envelope(IF reply[tool].synced THEN "ok" ELSE "partial", {})
      [] tool \in {"acl_risk", "scram_audit"} -> audit
      [] tool = "requests" -> Envelope("partial", {tool})
      [] tool = "event_summary" -> PartialIf(IF reply[tool].enabled THEN {} ELSE {"collection"})
      [] tool = "issues" -> issues
      [] tool = "asset_impact" -> assetImpact
      [] tool = "topic_detail" -> PartialIf(FailedParts)
      [] tool = "event_detail" -> eventDetail
      [] OTHER -> attentionPolicy

Finish ==
    /\ status = None
    /\ asked # {} /\ NextParts = {} /\ \A p \in asked : Answered(p)
    /\ status' = Outcome.status /\ errors' = Outcome.errors
    /\ UNCHANGED <<tool, include, reply, asked>>

Next == (\E p \in Parts : Ask(p) \/ Answer(p)) \/ Finish

Spec == Init /\ [][Next]_vars

-----------------------------------------------------------------------------
(* Requests are those of the tool; the envelope has one of three statuses. *)
TypeOK ==
    /\ tool \in Tools /\ include \subseteq Optional[tool]
    /\ asked \subseteq (Main(tool) \cup include) \ Refused
    /\ \A p \in Parts : Answered(p) => p \in asked
    /\ status \in {None, "ok", "partial", "error"}

(* Is an answer short of what it claims to report, as far as it shows? *)
Field(r, f, bad) == f \in DOMAIN r /\ r[f] = bad
Doubtful(r) ==
    \/ ~r.sent
    \/ "st" \in DOMAIN r /\ r.st \in Failing
    \/ "alerts" \in DOMAIN r /\ r.alerts # "OK"
    \/ "failed" \in DOMAIN r /\ r.failed > 0
    \/ \E f \in {"reachable", "metadata", "found", "synced", "enabled", "complete", "supported"} : Field(r, f, FALSE)
    \/ \E f \in {"partial", "errors", "empty", "demo"} : Field(r, f, TRUE)

(* "ok" is said of no less than the caller asked for: each part was requested and    *)
(* answered, and no answer shows a failure, a gap, a synthetic value or a missing     *)
(* observation time; a part that failed is named in the errors.  An answer that the   *)
(* backend itself says it truncated is no gap: the tools leave their status at "ok"   *)
(* and pass the mark on.  (With it, the type invariant.)                              *)
OkMeansComplete ==
    /\ TypeOK
    /\ status = "ok" =>
        /\ Main(tool) \cup include \subseteq asked
        /\ \A p \in asked : ~Doubtful(reply[p])
        /\ errors = {}
    /\ status # None => \A p \in asked : ~Sent(p) => p \in errors

(* An error of clusterHealth means that neither request observed anything: whatever *)
(* one of them saw is worth a partial result (health.go:43-107).                     *)
HealthIsFair ==
    tool = "cluster_health" /\ status # None =>
        (status = "error") =
            /\ ~Sent("connectivity") \/ ~reply["connectivity"].reachable
            /\ \/ ~Sent("partitions")
               \/ /\ reply["partitions"].st \in Failing
                  /\ reply["partitions"].total <= reply["partitions"].failed

(* Nothing is asked about an event, an asset, a topic or a policy of a cluster  *)
(* before the backend has vouched for it with the part that names the cluster   *)
(* (event_detail.go:92 "상세 소속 검증 이후에만 조회하며").                          *)
DetailFollowsMain ==
    tool \notin {"cluster_health", "issues"} /\ asked \cap Optional[tool] # {} => Sent(tool)
=============================================================================

---------------------------- MODULE RestAnswers ----------------------------
(***************************************************************************)
(* The operations of the REST client (internal/ableops: api.go,            *)
(* monitoring.go, security.go, topic_detail.go, event_detail.go,           *)
(* event_operations.go, impact_request.go, data_operations.go) and the     *)
(* answers they let through.                                               *)
(*                                                                         *)
(* Each operation is a record of what its code does with the names it is   *)
(* given (which go into the URL path, which it refuses, which it compares   *)
(* with the answer) and with the places of its DTO that hold a status or    *)
(* a free text.  The backend reads a path that keeps its RawPath without    *)
(* decoding it, as docs/api-mapping.md says of chi: the name it looks up    *)
(* is then the encoded one.                                                 *)
(***************************************************************************)
EXTENDS Naturals, FiniteSets

CONSTANTS
    Clusters, Objects, \* names callers may give: members of Name
    SampleTopics,      \* <<cluster, topic>> the sampling policy allows
    MaxFaults,         \* statuses of one answer that are not a good one
    Unverified,        \* <<operation, argument>>: not told from the answer by the code
    Global,            \* <<operation, argument>>: items may name none, they hold for all
    Unchecked          \* <<operation, place>>: statuses the code lets through unread

-----------------------------------------------------------------------------
(* Names.  A name is "plain", has characters that are percent-encoded ("spaced"), *)
(* one of / ; , whose encoding keeps the RawPath ("odd"), is white space          *)
(* ("blank") or "empty"; enc counts how often it was encoded.                     *)

Name == [text : {"plain", "spaced", "odd", "blank", "empty"}, enc : Nat]
Given(text) == [text |-> text, enc |-> 0]
Odd(n) == n.text = "odd" /\ n.enc = 0
Missing(n) == n.text \in {"blank", "empty"} /\ n.enc = 0
PathEscape(n) == IF n.text \in {"plain", "empty"} THEN n ELSE [n EXCEPT !.enc = @ + 1]

(* What the backend takes when no cluster is named. *)
Default == [text |-> "default", enc |-> 0]

AnswersAssumption ==
    /\ Clusters \subseteq Name /\ Objects \subseteq Name /\ Objects # {}
    /\ MaxFaults \in Nat /\ SampleTopics \subseteq Clusters \X Objects

-----------------------------------------------------------------------------
(* DTOs: where an answer has a status, a flag (it can only say yes or no), and    *)
(* which of them a text explains.  A text is raw when one of those is not good.   *)

DTO == [states |-> {}, flags |-> {}, explains |-> {}]
Own(places) == {<<p, p>> : p \in places}

ClusterHealthView == [DTO EXCEPT !.flags = {"error"}, !.explains = Own({"error"})]
PartitionHealthView == [DTO EXCEPT !.states = {"top", "issue"}, !.explains = Own({"top", "issue"})]
ConsumerGroupLagView == [states |-> {"top", "partition"}, flags |-> {"error"},
                         explains |-> Own({"top", "partition", "error"})]
EventItems == [DTO EXCEPT !.states = {"event"}]
RelatedIssue == [DTO EXCEPT !.states = {"issue"}]
TopicMetadataView == [DTO EXCEPT !.states = {"health"}, !.explains = Own({"health"})]
AssetGraph == [DTO EXCEPT !.flags = {"errors"}, !.explains = Own({"errors"})]
RequestHistory == [DTO EXCEPT !.states = {"request", "history"}]
RequestItems == [DTO EXCEPT !.states = {"request"}]
ConsumerLagView ==
    [DTO EXCEPT !.states = {"top", "alerts", "group", "groupStatus", "groupObservation",
                            "target", "targetObservation", "topic", "topicObservation"},
                !.explains = {<<"top", "top">>, <<"top", "alerts">>,
                              <<"group", "groupObservation">>, <<"target", "targetObservation">>}]
ClusterStorageView ==
    [states |-> {"top", "leaders", "broker", "leader"}, flags |-> {"logdir"},
     explains |-> Own({"top", "leaders", "broker", "leader"}) \cup {<<"broker", "logdir">>}]
ConfigAuditView == [states |-> {"top", "topic", "finding"}, flags |-> {"note"}, explains |-> Own({"note"})]
ReassignmentView == [DTO EXCEPT !.states = {"top", "item"}, !.explains = Own({"top", "item"})]
SecurityReport == [DTO EXCEPT !.states = {"top", "finding"}]
BackupItems == [DTO EXCEPT !.states = {"backup"}]
DDLAnswer == [DTO EXCEPT !.states = {"validation"}]

-----------------------------------------------------------------------------
(* Operations.
     path, query   arguments sent in the URL path, and in the query or body
     nonblank      arguments refused when they are blank or empty
     noOdd         arguments refused when they hold one of / ; ,
     echo          arguments compared with the answer itself
     items         arguments every item of the answer names and the code compares
     global        of these, the ones an item may leave empty: it holds for all
     observed      statuses that must tell of an observation, not of a failure
     dto           the places of the answer
     checked       statuses that are validated
     hides         <<text, place>>: the text is replaced when the place tells of a failure
     strict        a list that is missing, or counters that do not add up, are refused *)
Operation == [path |-> {}, query |-> {}, nonblank |-> {}, noOdd |-> {}, echo |-> {},
              items |-> {}, global |-> {}, dto |-> DTO, checked |-> {}, observed |-> {}, hides |-> {}, strict |-> FALSE]

Both == {"cluster", "object"}

(* The cluster in the path, never left out. *)
getCluster(o) == [o EXCEPT !.path = @ \cup {"cluster"}, !.nonblank = @ \cup {"cluster"}]

(* operationTarget: neither blank nor one of the ambiguous names. *)
operationTarget(args, o) == [o EXCEPT !.nonblank = @ \cup args, !.noOdd = @ \cup args]

(* Compared with the answer as a whole, item by item. *)
Echo(args, o) == [o EXCEPT !.echo = args]
ItemEcho(args, o) == [o EXCEPT !.items = args]

ByObject(o) == [o EXCEPT !.path = @ \cup {"object"}, !.nonblank = @ \cup {"object"}]
Returns(dto, checked, hides, o) == [o EXCEPT !.dto = dto, !.checked = checked, !.hides = hides]
Strict(o) == [o EXCEPT !.strict = TRUE]

(* api.go *)
CurrentUserID == Strict(Operation)
ListClusters == Strict(Operation)
ClusterHealth == Echo({"cluster"}, Returns(ClusterHealthView, {}, Own({"error"}), getCluster(Operation)))
PartitionHealth == Returns(PartitionHealthView, {"top", "issue"}, Own({"top", "issue"}), getCluster(Operation))
ListTopics == Echo({"cluster"}, getCluster(Operation))
ListConsumerGroups == Echo({"cluster"}, getCluster(Operation))
ConsumerGroupLag ==
    Echo({"object"}, Returns(ConsumerGroupLagView, {"top", "partition"}, Own({"top", "partition", "error"}),
                             ByObject(getCluster(Operation))))
ListClusterEvents == ItemEcho({"cluster"}, Strict(Returns(EventItems, {}, {}, getCluster(Operation))))

(* monitoring.go *)
(* A group's and a target's reason is replaced for its observation, not its status. *)
ObservedReasons == Own({"top"}) \cup {<<"top", "alerts">>, <<"group", "groupObservation">>,
                                     <<"target", "targetObservation">>}
(* Mutated form: the topics' statuses are not looked at. *)
ConsumerLagOverviewTopics ==
    Echo({"cluster"}, Returns(ConsumerLagView, ConsumerLagView.states \ {"topic"}, ObservedReasons,
                              getCluster(Operation)))
ConsumerLagOverview ==
    Echo({"cluster"}, Returns(ConsumerLagView, ConsumerLagView.states, ObservedReasons, getCluster(Operation)))
(* The object is the scope: a topic, a group of it, or neither.  The stored layers are  *)
(* the items.                                                                           *)
ConsumerLagPolicy ==
    Echo(Both, ItemEcho({"cluster"}, [getCluster(Operation) EXCEPT !.query = {"object"}]))
(* The metric is one of three known words. *)
MetricSeries == Echo(Both, Strict([getCluster(ByObject(Operation)) EXCEPT !.noOdd = {"object"}]))
ClusterStorage ==
    Returns(ClusterStorageView, {"top", "broker", "leader"},
            Own({"top", "leaders", "broker", "leader"}) \cup {<<"broker", "logdir">>},
            [getCluster(Operation) EXCEPT !.noOdd = {"cluster"}])
ClusterConfigAudit ==
    Echo({"cluster"}, Strict(Returns(ConfigAuditView, {"top", "topic", "finding"}, Own({"note"}),
                                     getCluster(Operation))))
PartitionReassignments ==
    Strict(Returns(ReassignmentView, {"top", "item"}, Own({"top", "item"}),
                   [getCluster(Operation) EXCEPT !.noOdd = {"cluster"}]))

(* security.go *)
ListIdentities == Echo({"cluster"}, Strict(getCluster(Operation)))
IdentityDetail == Echo(Both, Strict(ByObject(getCluster(Operation))))
ListACLs == Echo({"cluster"}, getCluster(Operation))
ListPrincipalACLs ==
    Echo({"cluster"}, ItemEcho({"object"}, Strict(ByObject(getCluster(Operation)))))
validSecurityReport(o) ==
    Echo({"cluster"}, Strict(Returns(SecurityReport, {"top", "finding"}, {}, o)))
ACLRisk == validSecurityReport(getCluster(Operation))
ScramAudit == validSecurityReport(getCluster(Operation))
ListRequests ==
    ItemEcho({"cluster"}, Strict(Returns(RequestItems, {"request"}, {},
        [Operation EXCEPT !.query = {"cluster"}, !.nonblank = {"cluster"}])))

(* topic_detail.go *)
TopicDetail == Echo({"object"}, ByObject(getCluster(Operation)))
TopicPartitions ==
    [Echo({"object"}, Strict(ByObject(getCluster(Operation)))) EXCEPT
        !.dto = TopicMetadataView, !.observed = {"health"}]
(* Mutated form: ambiguous names are refused of the group alone. *)
ConsumerGroupMembersByGroup == Strict([ByObject(getCluster(Operation)) EXCEPT !.noOdd = {"object"}])
ConsumerGroupMembers == Strict([ByObject(getCluster(Operation)) EXCEPT !.noOdd = Both])

(* event_detail.go *)
EventDetail == (* the event alone is in the path, the cluster is only compared *)
    Echo(Both, Strict(Returns(EventItems, {"event"}, {}, [ByObject(Operation) EXCEPT !.nonblank = Both])))
EventOccurrences == ItemEcho({"object"}, Strict(ByObject(Operation)))
EventIssue == Echo({"cluster"}, Strict(Returns(RelatedIssue, {}, {}, [Operation EXCEPT !.path = {"object"}])))
EventPlaybook == Echo({"object"}, [Operation EXCEPT !.path = {"object"}])

(* event_operations.go *)
ByQuery == [Operation EXCEPT !.query = {"cluster"}, !.nonblank = {"cluster"}]
EventSummary == Echo({"cluster"}, Strict(ByQuery))
ListOperationalIssues == ItemEcho({"cluster"}, Strict(Returns(EventItems, {"event"}, {}, ByQuery)))
(* The rule is chosen among the cluster's by its code. *)
Rule == Echo(Both, Strict([ByQuery EXCEPT !.query = Both, !.nonblank = Both]))
GetEventRule == Rule
GetAttentionRule == Rule
GetAttentionProfile == Echo({"cluster"}, Strict(getCluster(Operation)))
(* A window without a cluster is one of all clusters. *)
ListMaintenanceWindows == [ItemEcho({"cluster"}, Strict(ByQuery)) EXCEPT !.global = {"cluster"}]

(* impact_request.go *)
AssetRelations ==
    Echo(Both, Strict(Returns(AssetGraph, {}, Own({"errors"}),
        getCluster([Operation EXCEPT !.query = {"object"}, !.nonblank = {"object"}]))))
AssetImpact == Echo({"object"}, getCluster([Operation EXCEPT !.query = {"object"}, !.nonblank = {"object"}]))
RequestStatus ==
    Echo(Both, Returns(RequestHistory, {"request", "history"}, {}, [ByObject(Operation) EXCEPT !.nonblank = Both]))

(* data_operations.go *)
ResourceBackups ==
    ItemEcho({"cluster"}, Strict(Returns(BackupItems, {"backup"}, {},
        operationTarget({"cluster"}, getCluster(Operation)))))
SampleTopicMessages == operationTarget(Both, Strict(ByObject(getCluster(Operation))))
(* A principal and a table are matched against patterns that know no odd character. *)
Preview == operationTarget(Both, [Operation EXCEPT !.query = {"object"}])
PreviewACLPlan == ItemEcho({"object"}, Strict([Preview EXCEPT !.path = {"cluster"}]))
PreviewFlinkACLPlan == PreviewACLPlan
(* The cluster goes out in the body, and nothing in the answer names it. *)
PreviewFlinkDDL ==
    Echo({"object"}, Strict(Returns(DDLAnswer, {"validation"}, {}, [Preview EXCEPT !.query = Both])))

Operations ==
    [CurrentUserID |-> CurrentUserID, ListClusters |-> ListClusters, ClusterHealth |-> ClusterHealth, PartitionHealth |-> PartitionHealth,
     ListTopics |-> ListTopics, ListConsumerGroups |-> ListConsumerGroups,
     ConsumerGroupLag |-> ConsumerGroupLag, ListClusterEvents |-> ListClusterEvents,
     ConsumerLagOverview |-> ConsumerLagOverview, ConsumerLagPolicy |-> ConsumerLagPolicy,
     MetricSeries |-> MetricSeries, ClusterStorage |-> ClusterStorage,
     ClusterConfigAudit |-> ClusterConfigAudit, PartitionReassignments |-> PartitionReassignments,
     ListIdentities |-> ListIdentities, IdentityDetail |-> IdentityDetail, ListACLs |-> ListACLs,
     ListPrincipalACLs |-> ListPrincipalACLs, ACLRisk |-> ACLRisk, ScramAudit |-> ScramAudit,
     ListRequests |-> ListRequests, TopicDetail |-> TopicDetail, TopicPartitions |-> TopicPartitions,
     ConsumerGroupMembers |-> ConsumerGroupMembers, EventDetail |-> EventDetail,
     EventOccurrences |-> EventOccurrences, EventIssue |-> EventIssue, EventPlaybook |-> EventPlaybook,
     EventSummary |-> EventSummary, ListOperationalIssues |-> ListOperationalIssues,
     GetEventRule |-> GetEventRule, GetAttentionRule |-> GetAttentionRule,
     GetAttentionProfile |-> GetAttentionProfile, ListMaintenanceWindows |-> ListMaintenanceWindows,
     AssetRelations |-> AssetRelations, AssetImpact |-> AssetImpact, RequestStatus |-> RequestStatus,
     ResourceBackups |-> ResourceBackups, SampleTopicMessages |-> SampleTopicMessages,
     PreviewACLPlan |-> PreviewACLPlan, PreviewFlinkACLPlan |-> PreviewFlinkACLPlan,
     PreviewFlinkDDL |-> PreviewFlinkDDL]

-----------------------------------------------------------------------------
VARIABLES
    pc,     \* "sent", "answered", "accepted" or "refused"
    op,     \* the operation called
    given,  \* the names it was given
    answer  \* what the backend sent

vars == <<pc, op, given, answer>>

The == Operations[op]
NoAnswer == [subject |-> [a \in Both |-> Default]]

(* What the client refuses without asking: the operation's own guards, a path segment *)
(* that is empty, and a sample of a topic the policy does not name.                    *)
Refuses(o, g) ==
    \/ \E a \in o.nonblank : Missing(g[a])
    \/ \E a \in o.noOdd : Odd(g[a])
    \/ \E a \in o.path : g[a] = Given("empty")
    \/ o = SampleTopicMessages /\ <<g.cluster, g.object>> \notin SampleTopics

Init ==
    /\ op \in DOMAIN Operations
    /\ given \in [cluster : Clusters, object : Objects]
    /\ answer = NoAnswer
    /\ pc = IF Refuses(The, given) THEN "refused" ELSE "sent"

(* The names the backend looks up.  One odd name keeps the whole RawPath. *)
RawPath == \E a \in The.path : Odd(given[a])
LookedUp(a) ==
    IF a = "cluster" /\ Missing(given[a]) THEN Default
    ELSE IF a \in The.path /\ RawPath THEN PathEscape(given[a]) ELSE given[a]

(* Whose records the answer may hold: those looked up; and, when the operation filters *)
(* by query, those of the default cluster, if the backend does not know the filter.    *)
Filtered == "cluster" \in The.query
Subjects ==
    {[a \in Both |-> LookedUp(a)]} \cup
    (IF Filtered THEN {[a \in Both |-> IF a = "cluster" THEN Default ELSE LookedUp(a)]} ELSE {})

(* At most MaxFaults statuses that tell of a failure or that nobody defined. *)
Faulty(places) == {P \in SUBSET places : Cardinality(P) <= MaxFaults}
Statuses(dto) ==
    UNION {{[p \in dto.states \cup dto.flags |->
               IF p \in U THEN "unknown" ELSE IF p \in F THEN "failing" ELSE "good"] :
               U \in SUBSET (F \cap dto.states)} : F \in Faulty(dto.states \cup dto.flags)}

(* An item may also name no cluster: what holds for all clusters. *)
ForAll == Given("empty")
ItemSubjects == Subjects \cup {[s EXCEPT !.cluster = ForAll] : s \in Subjects}

BackendAnswers ==
    /\ pc = "sent"
    /\ \E s \in Subjects, st \in Statuses(The.dto), whole \in BOOLEAN :
         \E items \in SUBSET (IF The.items = {} THEN {} ELSE ItemSubjects) :
            answer' = [subject |-> s, items |-> items, status |-> st, whole |-> whole]
    /\ pc' = "answered"
    /\ UNCHANGED <<op, given>>

(* What the operation requires of the answer. *)
Echoed == \A a \in The.echo : answer.subject[a] = given[a]
ItemsEchoed ==
    \A i \in answer.items, a \in The.items : i[a] = given[a] \/ (a \in The.global /\ i[a] = ForAll)
validProbeStatus ==
    /\ \A p \in The.checked : answer.status[p] # "unknown"
    /\ \A p \in The.observed : answer.status[p] = "good"
Valid == Echoed /\ ItemsEchoed /\ validProbeStatus /\ (The.strict => answer.whole)

Decode ==
    /\ pc = "answered"
    /\ pc' = IF Valid THEN "accepted" ELSE "refused"
    /\ UNCHANGED <<op, given, answer>>

Next == BackendAnswers \/ Decode

Spec == Init /\ [][Next]_vars

-----------------------------------------------------------------------------
(* Properties. *)

(* What an operation returns to a tool is about the cluster and the object it was     *)
(* asked for: the answer as a whole where it has no items, every item where it has.    *)
(* The names of one path are decoded together or not at all, so a cluster with a slash *)
(* changes which group is looked up; where the answer does not name its subject, only  *)
(* a refusal before the call helps.  Unverified lists the arguments for which the code *)
(* does neither, Global those that an item may leave out because it holds for all.      *)
Asked(o) == o.path \cup o.query
AnswersAreAboutTheTarget ==
    pc = "accepted" =>
        \A a \in Asked(The) :
            \/ <<op, a>> \in Unverified
            \/ IF a \in The.items
               THEN \A i \in answer.items : i[a] = given[a] \/ (<<op, a>> \in Global /\ i[a] = ForAll)
               ELSE answer.subject[a] = given[a]

(* No operation returns an answer with a status its contract does not define: tools     *)
(* take every status that is not a failure for a success ("미정의 상태를 성공으로 해석하지     *)
(* 않는다", api.go:178).  Unchecked lists the places the code does not look at.           *)
StatusesAreKnown ==
    pc = "accepted" =>
        \A p \in The.dto.states : answer.status[p] = "unknown" => <<op, p>> \in Unchecked

(* The text with which the backend explains a failure never reaches a tool: it is         *)
(* replaced wherever the status next to it tells of one, and a status that would not tell *)
(* is refused ("조회 실패 원문에는 접속 프로필 등 내부 정보가 포함될 수 있어", api.go:188).       *)
Replaced(t) == \E p \in DOMAIN answer.status : <<t, p>> \in The.hides /\ answer.status[p] = "failing"
NoRawFailureText ==
    pc = "accepted" =>
        \A e \in The.dto.explains :
            answer.status[e[2]] # "good" => Replaced(e[1]) \/ <<op, e[2]>> \in Unchecked

=============================================================================

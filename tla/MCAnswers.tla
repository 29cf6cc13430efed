----------------------------- MODULE MCAnswers ------------------------------
(* The three stages between the backend's answer and the tool's: decoding one REST     *)
(* answer, joining the answers of one tool, fitting the result into its limits.  What   *)
(* a stage does depends on what it is given and on no state of another, so a behaviour  *)
(* is of one stage while the others rest.                                              *)
CONSTANTS
    Members, Clusters, Objects, SampleTopics, MaxFaults, Unverified, Global, Unchecked, Counts,
    MaxItems, MaxLimit, Nodes, Center, None

VARIABLES
    part,
    at, operation, given, answer,
    tool, include, reply, asked, status, errors,
    shape, limit, room, received, data, returned, hasMore, truncated, stage

Decoding == INSTANCE RestAnswers WITH op <- operation, pc <- at
Joining == INSTANCE ToolOutcome
Fitting == INSTANCE BoundedOutput WITH tool <- shape, pc <- stage

ASSUME AnswersAssumption ==
    /\ Decoding!AnswersAssumption /\ Joining!OutcomeAssumption /\ Fitting!OutputAssumption
    /\ Members \subseteq {"decoding", "joining", "fitting"}

decodingVars == <<at, operation, given, answer>>
joiningVars == <<tool, include, reply, asked, status, errors>>
fittingVars == <<shape, limit, room, received, data, returned, hasMore, truncated, stage>>
answersVars == <<part, decodingVars, joiningVars, fittingVars>>

DecodingRests ==
    at = "refused" /\ operation = "ListClusters" /\ given = <<>> /\ answer = Decoding!NoAnswer
JoiningRests ==
    /\ tool = "issues" /\ include = {} /\ reply = [p \in Joining!Parts |-> None]
    /\ asked = {} /\ status = None /\ errors = {}
FittingRests ==
    /\ shape = "list" /\ limit = 1 /\ room = 0
    /\ data = Fitting!Answer(<<>>, <<>>, Fitting!NoGraph, FALSE) /\ received = data
    /\ returned = 0 /\ hasMore = FALSE /\ truncated = TRUE /\ stage = "failed"

AnswersInit ==
    /\ part \in Members
    /\ IF part = "decoding" THEN Decoding!Init ELSE DecodingRests
    /\ IF part = "joining" THEN Joining!Init ELSE JoiningRests
    /\ IF part = "fitting" THEN Fitting!Init ELSE FittingRests

AnswersNext ==
    /\ UNCHANGED part
    /\ \/ part = "decoding" /\ Decoding!Next /\ UNCHANGED <<joiningVars, fittingVars>>
       \/ part = "joining" /\ Joining!Next /\ UNCHANGED <<decodingVars, fittingVars>>
       \/ part = "fitting" /\ Fitting!Next /\ UNCHANGED <<decodingVars, joiningVars>>

AnswersSpec == AnswersInit /\ [][AnswersNext]_answersVars
AnswersFairSpec == AnswersSpec /\ Fitting!Fairness

-----------------------------------------------------------------------------
(* What an operation returns is about the cluster and the object it was asked for, but *)
(* for the arguments in Unverified and the items that hold for all clusters (the        *)
(* operations of internal/ableops).                                                     *)
AnswersAreAboutTheTarget == Decoding!AnswersAreAboutTheTarget

(* No undefined status passes for a success and no text of a failure passes as it is,  *)
(* but for the places in Unchecked (api.go:178-188).                                    *)
StatusesAreKnown == Decoding!StatusesAreKnown /\ Decoding!NoRawFailureText

(* The status of a tool is neither better nor worse than the answers it stands on, and *)
(* no detail is asked for before its subject was vouched for (health.go, monitoring.go, *)
(* event_detail.go, and the other tools of ToolOutcome).                                *)
StatusIsHonest == Joining!OkMeansComplete /\ Joining!HealthIsFair /\ Joining!DetailFollowsMain

(* What was cut off is told, and what is left is whole (result.go, impact_request.go). *)
LossIsTold == Fitting!LossIsTold /\ Fitting!GraphIsWhole

(* Fitting ends: no shrink function reports progress without making any (result.go:77). *)
BoundEnds == Fitting!BoundEnds

-----------------------------------------------------------------------------
(* Names of every kind, and the exceptions the code makes: answers that do not name    *)
(* their cluster, or the event they were asked for, asked for without a guard for       *)
(* ambiguous names; statuses that are not looked at.                                    *)
Named(texts) == [text : texts, enc : {0}]
MCNames == Named({"plain", "spaced", "odd", "blank", "empty"})
MCSampleTopics == Named({"plain", "odd"}) \X Named({"plain", "spaced"})

MCUnverified ==
    {<<"PartitionHealth", "cluster">>, <<"ConsumerGroupLag", "cluster">>, <<"TopicDetail", "cluster">>,
     <<"TopicPartitions", "cluster">>, <<"AssetImpact", "cluster">>, <<"PreviewFlinkDDL", "cluster">>,
     <<"EventIssue", "object">>}

(* Maintenance windows of all clusters are listed with those of the one asked for. *)
MCGlobal == {<<"ListMaintenanceWindows", "cluster">>}

MCUncheckedEvents == {<<"ListClusterEvents", "event">>, <<"EventIssue", "issue">>}
MCUnchecked == MCUncheckedEvents \cup {<<"ClusterStorage", "leaders">>}
=============================================================================

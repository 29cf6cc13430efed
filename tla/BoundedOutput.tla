--------------------------- MODULE BoundedOutput ---------------------------
(***************************************************************************)
(* Fitting a tool's result into an MCP answer (internal/tools/result.go    *)
(* and the shrink function each tool gives to bound): lists are cut to the *)
(* tool's limit, then halved again and again until the JSON fits.          *)
(*                                                                         *)
(* An item is its position in the backend's answer.  The size of a result  *)
(* is the number of its items; room is how many the byte limits leave, -1  *)
(* when not even the envelope fits.                                        *)
(***************************************************************************)
EXTENDS Integers, FiniteSets, Sequences

CONSTANTS
    MaxItems,   \* longest list the backend answers with
    MaxLimit,   \* the tools' limit goes from 1 to this
    Nodes,      \* nodes of an asset graph
    Center      \* the asset asked about

OutputAssumption ==
    /\ MaxItems \in Nat \ {0} /\ MaxLimit \in Nat \ {0}
    /\ IsFiniteSet(Nodes) /\ Center \in Nodes

VARIABLES
    tool,       \* whose shrink function bound is given
    limit, room,
    received,   \* the backend's answer
    data,       \* what is left of it
    returned,   \* the Returned counter of the main list
    hasMore,    \* HasMore or PageTruncated
    truncated,  \* Envelope.Truncated
    pc          \* "cut", "bound", "sent" or "failed"

vars == <<tool, limit, room, received, data, returned, hasMore, truncated, pc>>

(* list: ListData, snapshotResult, members, requests, identities, windows, samples.   *)
(* page: events, issues, backups.  pair: health, lag, storage, audits, previews.      *)
(* history: request status.  points: metric series.  occurrences: event detail.       *)
Tools == {"list", "page", "pair", "history", "points", "occurrences", "graph"}

UpTo(n) == [i \in 1 .. n |-> i]
NodeLists == UNION {[1 .. n -> Nodes] : n \in 1 .. Cardinality(Nodes)}
EdgeLists == UNION {[1 .. n -> Nodes \X Nodes] : n \in 0 .. 2}
NoGraph == <<<<>>, <<>>>>

(* AssetRelations passes a graph on when its nodes are distinct, the centre is *)
(* one of them, and every edge joins two of them.                              *)
Graphs ==
    {g \in NodeLists \X EdgeLists :
        /\ \A i, j \in DOMAIN g[1] : i # j => g[1][i] # g[1][j]
        /\ \E i \in DOMAIN g[1] : g[1][i] = Center
        /\ \A k \in DOMAIN g[2] : \E i, j \in DOMAIN g[1] : g[2][k] = <<g[1][i], g[1][j]>>}
    \cup {NoGraph}

Answer(main, aux, graph, impact) ==
    [main |-> main, aux |-> aux, nodes |-> graph[1], edges |-> graph[2], impact |-> impact]
Lists(n, m) == Answer(UpTo(n), UpTo(m), NoGraph, FALSE)
Answers(t) ==
    IF t = "graph" THEN {Answer(<<>>, <<>>, g, i) : g \in Graphs, i \in BOOLEAN}
    ELSE {Lists(n, m) :
              n \in 0 .. MaxItems, m \in IF t \in {"list", "page", "points"} THEN {0} ELSE 0 .. MaxItems}

Init ==
    /\ tool \in Tools /\ limit \in 1 .. MaxLimit
    /\ received \in Answers(tool)
    /\ tool = "occurrences" => Len(received.main) <= limit + 1
    /\ room \in -1 .. 2 * MaxItems
    /\ data = received /\ returned = Len(received.main)
    /\ hasMore = FALSE /\ truncated = FALSE /\ pc = "cut"

-----------------------------------------------------------------------------
(* Cutting one list. *)

(* capItems, trimImpactItems, listData *)
First(s, n) == SubSeq(s, 1, IF n < Len(s) THEN n ELSE Len(s))
Last(s, n) == SubSeq(s, IF n < Len(s) THEN Len(s) - n + 1 ELSE 1, Len(s))

shrinkItems(s) == First(s, Len(s) \div 2)
(* Request history keeps its latest entries.  Mutated form: a last entry stays for ever. *)
ShrinkHistoryHalf(s) == Last(s, Len(s) - Len(s) \div 2)
ShrinkHistory(s) == Last(s, Len(s) - Len(s) \div 2 - 1)
(* A series keeps its latest points. *)
ShrinkPoints(s) == Last(s, Len(s) - (Len(s) + 1) \div 2)

(* The centre goes first, so that no limit drops it. *)
CenterFirst(ns) ==
    [i \in DOMAIN ns |-> IF i = 1 THEN Center ELSE IF ns[i] = Center THEN ns[1] ELSE ns[i]]

(* Edges between nodes that stay. *)
Joins(e, ns) == \E i, j \in DOMAIN ns : e = <<ns[i], ns[j]>>
EdgesAmong(es, ns) ==
    LET kept[k \in 0 .. Len(es)] ==
            IF k = 0 THEN <<>> ELSE IF Joins(es[k], ns) THEN Append(kept[k - 1], es[k]) ELSE kept[k - 1]
    IN  kept[Len(es)]

(* trimAssetData *)
TrimGraph(d, n) ==
    LET nodes == IF d.nodes = <<>> THEN <<>> ELSE First(CenterFirst(d.nodes), n)
    IN  [d EXCEPT !.nodes = nodes, !.edges = First(EdgesAmong(d.edges, nodes), n)]

-----------------------------------------------------------------------------
(* The tool's own limits.  Each list that lost items marks the result; a flag set once *)
(* stays set.  Mutated form: the last list cut has the say.                             *)

CutLists ==
    IF tool = "graph" THEN TrimGraph(received, limit)
    ELSE [received EXCEPT !.main = IF tool \in {"history", "points"} THEN Last(@, limit) ELSE First(@, limit),
                          !.aux = First(@, limit)]

Shorter(d, e) == \E f \in {"main", "aux", "nodes", "edges"} : Len(d[f]) < Len(e[f])

LostLast(d, e) == IF tool = "graph" THEN Shorter(d, e) ELSE Len(d.aux) < Len(e.aux)
Lost(d, e) == Shorter(d, e)

Cut ==
    /\ pc = "cut"
    /\ data' = CutLists
    /\ returned' = Len(data'.main)
    /\ hasMore' = (tool \in {"page", "occurrences"} /\ Len(data'.main) < Len(received.main))
    /\ truncated' = Lost(data', received)
    /\ pc' = "bound"
    /\ UNCHANGED <<tool, limit, room, received>>

-----------------------------------------------------------------------------
(* bound: one round of its loop, and the functions it shrinks with. *)

Size(d) == Len(d.main) + Len(d.aux) + Len(d.nodes) + Len(d.edges) + (IF d.impact THEN 1 ELSE 0)
Fits == Size(data) <= room

Longest(d) == IF Len(d.edges) > Len(d.nodes) THEN Len(d.edges) ELSE Len(d.nodes)

(* The second list is touched when nothing is left of the first. *)
ShrunkMain(d) ==
    [d EXCEPT !.main = CASE tool = "history" -> ShrinkHistory(@)
                         [] tool = "points" -> ShrinkPoints(@)
                         [] OTHER -> shrinkItems(@)]

CanShrink(d) ==
    IF tool = "graph" THEN Longest(d) > 1 \/ d.impact ELSE d.main # <<>> \/ d.aux # <<>>

Shrunk(d) ==
    IF tool = "graph"
    THEN IF Longest(d) > 1 THEN TrimGraph(d, Longest(d) \div 2) ELSE [d EXCEPT !.impact = FALSE]
    ELSE IF d.main # <<>> THEN ShrunkMain(d) ELSE [d EXCEPT !.aux = shrinkItems(@)]

Send ==
    /\ pc = "bound" /\ Fits
    /\ pc' = "sent"
    /\ UNCHANGED <<tool, limit, room, received, data, returned, hasMore, truncated>>

Count(d) == Len(d.main)

Shrink ==
    /\ pc = "bound" /\ ~Fits /\ CanShrink(data)
    /\ data' = Shrunk(data)
    /\ returned' = Count(data')
    /\ hasMore' = (hasMore \/ (tool \in {"page", "occurrences"} /\ data.main # <<>>))
    /\ truncated' = TRUE
    /\ UNCHANGED <<tool, limit, room, received, pc>>

(* Nothing left to give up: the data goes, the result is an error. *)
TooLarge ==
    /\ pc = "bound" /\ ~Fits /\ ~CanShrink(data)
    /\ truncated' = TRUE
    /\ pc' = "failed"
    /\ data' = Answer(<<>>, <<>>, NoGraph, FALSE) /\ returned' = 0
    /\ UNCHANGED <<tool, limit, room, received, hasMore>>

Next == Cut \/ Send \/ Shrink \/ TooLarge

Spec == Init /\ [][Next]_vars
(* A call runs bound to its end. *)
Fairness == WF_vars(Next)

-----------------------------------------------------------------------------
(* Lists hold what the backend sent, none longer than received or than the limit. *)
TypeOK ==
    /\ tool \in Tools /\ limit \in 1 .. MaxLimit /\ pc \in {"cut", "bound", "sent", "failed"}
    /\ hasMore \in BOOLEAN /\ truncated \in BOOLEAN
    /\ pc # "cut" =>
           \A f \in {"main", "aux", "nodes", "edges"} :
               Len(data[f]) <= limit /\ Len(data[f]) <= Len(received[f])

(* A reader who is told nothing was left out has everything: items given up for a limit, *)
(* for want of room or with the data as a whole show in truncated, and on a page in its  *)
(* own flag (result.go:77-104 and every caller of capItems).  What is sent is the head   *)
(* of a list, or the latest part of a history or a series, never a middle, and Returned  *)
(* is the number of its items (impact_request.go:218-231, monitoring.go:208-219).  (With *)
(* it, the type invariant.)                                                              *)
LossIsTold ==
    /\ TypeOK
    /\ pc \in {"sent", "failed"} /\ Shorter(data, received) => truncated
    /\ pc = "sent" /\ tool \in {"page", "occurrences"} /\ Len(data.main) < Len(received.main) => hasMore
    /\ pc = "sent" => returned = Len(data.main)
    /\ pc # "failed" =>
           data.main = IF tool \in {"history", "points"} THEN Last(received.main, Len(data.main))
                       ELSE First(received.main, Len(data.main))

(* An edge sent joins two nodes sent, and the asset asked about is among them, however *)
(* often the graph was cut (impact_request.go:128-165).                                 *)
GraphIsWhole ==
    pc \in {"bound", "sent"} /\ tool = "graph" =>
        /\ received.nodes # <<>> => data.nodes # <<>> /\ data.nodes[1] = Center
        /\ \A k \in DOMAIN data.edges : \A side \in {1, 2} :
               \E i \in DOMAIN data.nodes : data.nodes[i] = data.edges[k][side]

(* bound ends whatever is too large: every shrink function comes to an end. *)
BoundEnds == <>(pc \in {"sent", "failed"})
=============================================================================

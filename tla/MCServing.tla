----------------------------- MODULE MCServing ------------------------------
(* The three ways in which serving begins and ends, side by side: a runtime that the   *)
(* extension starts and stops, the process of a server, and one request over HTTP.     *)
(* They share no state, so a behaviour is of one of them while the others rest where    *)
(* none of their fair actions is enabled.                                              *)
CONSTANTS Members, Generations, Callers, Patient, Conns, Enabled, MaxWrites, None

VARIABLES
    part,
    runtime, handler, secret, caller, cancelled, starter, fields, runner, stopped, closer, served,
    transport, main, ctxDone, outcome, loop, listener, stopCalled, shutdown, deadline, conn, pending, withdrawn,
    req, pc, response, status, written, code, level, ended, call, told

Extension == INSTANCE RuntimeLifecycle WITH Requests <- Callers, req <- served
Process == INSTANCE ServerProcess WITH stopped <- listener, req <- pending, cancelled <- withdrawn
Answer == INSTANCE HttpAnswer WITH stopped <- told

extensionVars == <<runtime, handler, secret, caller, cancelled, starter, fields, runner, stopped, closer, served>>
processVars ==
    <<transport, main, ctxDone, outcome, loop, listener, stopCalled, shutdown, deadline, conn, pending, withdrawn>>
answerVars == <<req, pc, response, status, written, code, level, ended, call, told>>
vars == <<part, extensionVars, processVars, answerVars>>

ASSUME ServingAssumption ==
    Extension!LifecycleAssumption /\ Answer!AnswerAssumption /\ Members \subseteq {"extension", "process", "answer"}

ProcessRests ==
    /\ transport = "http" /\ main = "exited" /\ ctxDone = TRUE /\ outcome = "clean"
    /\ loop = "ended" /\ listener = "empty" /\ stopCalled = TRUE /\ shutdown = TRUE /\ deadline = TRUE
    /\ conn = [c \in Conns |-> "none"] /\ pending = [c \in Conns |-> "none"] /\ withdrawn = [c \in Conns |-> FALSE]
AnswerRests ==
    /\ req = [local |-> FALSE] /\ pc = "done" /\ response = [status |-> 403, cors |-> FALSE, body |-> <<>>]
    /\ status = 403 /\ written = TRUE /\ code = "forbidden" /\ level = "warn"
    /\ ended = None /\ call = None /\ told = FALSE

Init ==
    /\ part \in Members
    /\ Extension!Init
    /\ IF part = "process" THEN Process!Init ELSE ProcessRests
    /\ IF part = "answer" THEN Answer!Init ELSE AnswerRests

Next ==
    /\ UNCHANGED part
    /\ \/ part = "extension" /\ Extension!Next /\ UNCHANGED <<processVars, answerVars>>
       \/ part = "process" /\ Process!Next /\ UNCHANGED <<extensionVars, answerVars>>
       \/ part = "answer" /\ Answer!Next /\ UNCHANGED <<extensionVars, processVars>>
       \/ part = "answer" /\ pc = "done" /\ UNCHANGED vars \* a request that is done is done

Spec == Init /\ [][Next]_vars
FairSpec == Spec /\ Extension!Fairness /\ Process!Fairness /\ Answer!Fairness

-----------------------------------------------------------------------------
(* After Close no goroutine of the runtime asks the backend any more (app.go:261). *)
CloseWaits == Extension!CloseWaits

(* What serves fits together to the end: the secret a request carries is the one its  *)
(* handler compares with, also when the extension is stopped and started again between *)
(* the two reads (extension.go, current);                                              *)
(* and a process that reports a clean end has cut nobody off, one that leaves requests *)
(* behind has cancelled them (http.go, RunHTTP and serveHTTP).                         *)
NobodyIsCutOff ==
    /\ Extension!SecretFits
    /\ Process!CleanEndCutsNobody /\ Process!SurvivorsAreCancelled

(* An answer says what its reader may know: delegations go to servers only, errors hold *)
(* nothing of the request, and the audit tells the same outcome as the client was told  *)
(* (internal_delegation.go, http.go:521, audit).                                        *)
AnswersFitTheirReader == Answer!ServerToServerOnly /\ Answer!ErrorsSayNothing /\ Answer!AuditTellsTheOutcome

(* Every end comes: Close returns, a signal ends the process whatever clients do, and a *)
(* request and the tool it called come to an end when its client leaves or its deadline *)
(* passes (app.go:267, http.go:617-630, stdio.go:19, http.go:207).                       *)
EveryEndComes == Extension!StopReturns /\ Process!SignalEndsTheProcess /\ Answer!NothingOutlivesItsRequest
=============================================================================

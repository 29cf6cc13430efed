--------------------------- MODULE MCServing_proofs ---------------------------
(* Proofs about what a server is configured with (Config), for any files,       *)
(* environments and flags, and about how serving begins and ends, for any       *)
(* generations, requests and connections: the extension's runtime                *)
(* (RuntimeLifecycle), the process of a server (ServerProcess) and one request    *)
(* over HTTP (HttpAnswer), for responses of any length.                          *)
(*                                                                              *)
(* The order of starting and stopping is proved for a host that waits for the   *)
(* first load (Patient); what the managed extension, which does not, may see    *)
(* instead is shown by a run.                                                   *)
EXTENDS MCServing, MCSettings, Naturals, Sequences, TLAPS

LEMMA LifecycleAssumed == Patient \in BOOLEAN /\ None \notin Generations
  BY ServingAssumption DEF Extension!LifecycleAssumption

-----------------------------------------------------------------------------
(* The runtime of the extension. *)

(* A Start that was not waited for is over only when its call has returned; *)
(* a generation that is served, or closed, was started, and is not closed   *)
(* before its Start is over nor served after.                               *)
CallsInv ==
    /\ caller # None => caller = runtime
    /\ runtime # None => starter[runtime] # "none" /\ closer[runtime] = "none"
    /\ \A g \in Generations :
         /\ starter[g] \notin {"none", "done"} => caller = g
         /\ closer[g] # "none" => starter[g] = "done"

(* The fields of a generation are written after its runner was spawned, and *)
(* both of them, or there is neither a runner nor a field.                  *)
FieldsFit(g) ==
    /\ starter[g] \in {"none", "refresh", "spawn"} => fields[g] = {} /\ runner[g] = "none"
    /\ starter[g] = "set" => fields[g] # {"stopRefresh", "refreshDone"} /\ runner[g] # "none"
    /\ starter[g] = "done" =>
         \/ fields[g] = {} /\ runner[g] = "none"
         \/ fields[g] = {"stopRefresh", "refreshDone"} /\ runner[g] # "none"
FieldsInv == \A g \in Generations : FieldsFit(g)

(* Close does not wait for a channel that is nil, and returns only when there *)
(* is no runner any more.                                                     *)
CloseInv ==
    \A g \in Generations :
        /\ closer[g] # "stuck"
        /\ closer[g] = "closed" => runner[g] \in {"none", "ended"}

(* The runtime, its handler and its secret are set and cleared together, and  *)
(* a request that holds the lock has read the handler that is still there.    *)
TogetherInv ==
    /\ Extension!SecretFits
    /\ handler = runtime /\ secret = runtime
    /\ \A r \in Callers : served[r].pc = "current" => served[r].handler = handler

RuntimeInv == TogetherInv /\ CallsInv /\ FieldsInv /\ CloseInv
-----------------------------------------------------------------------------
(* Types and secrets, whether the host waits or not. *)

LEMMA TypedAtStart == ASSUME Extension!Init PROVE TogetherInv
  BY LifecycleAssumed DEF TogetherInv, Extension!Init, Extension!SecretFits, Extension!TypeOK, Extension!Ready

(* What a request reads under the lock is the handler and the secret of one runtime. *)
LEMMA RequestStepTyped ==
    ASSUME TogetherInv, NEW r \in Callers, Extension!Serve(r)
    PROVE  TogetherInv'
  <1> USE DEF TogetherInv, Extension!SecretFits, Extension!TypeOK, Extension!fieldVars
  <1>1. CASE Extension!ReadHandler(r)
    <2> DEFINE taken == [handler |-> handler, secret |-> None, pc |-> "current"]
    <2>1. taken \in [handler : Generations \cup {None}, secret : Generations \cup {None},
                     pc : {"idle", "current", "serving", "unavailable"}]
      OBVIOUS
    <2>2. taken.pc # "serving" /\ taken.handler = handler OBVIOUS
    <2>3. served' = [served EXCEPT ![r] = taken]
          /\ UNCHANGED <<runtime, handler, secret, caller, cancelled, starter, fields, runner, stopped, closer>>
      BY <1>1 DEF Extension!ReadHandler
    <2> HIDE DEF taken
    <2> QED BY <2>1, <2>2, <2>3
  <1>2. CASE Extension!ReadSecret(r)
    <2>1. served[r].pc = "current" /\ served[r].handler = handler /\ secret = handler
      BY <1>2 DEF Extension!ReadSecret
    <2> DEFINE pc1 == IF None \in {served[r].handler, secret} THEN "unavailable" ELSE "serving"
               taken == [served[r] EXCEPT !.secret = secret, !.pc = pc1]
    <2>2. served' = [served EXCEPT ![r] = taken]
          /\ UNCHANGED <<runtime, handler, secret, caller, cancelled, starter, fields, runner, stopped, closer>>
      BY <1>2 DEF Extension!ReadSecret
    <2>3. taken \in [handler : Generations \cup {None}, secret : Generations \cup {None},
                     pc : {"idle", "current", "serving", "unavailable"}]
      OBVIOUS
    <2>4. /\ taken.pc # "current" /\ taken.secret = taken.handler
          /\ taken.pc = "serving" => taken.handler # None
      BY <2>1
    <2> HIDE DEF taken
    <2> QED BY <2>2, <2>3, <2>4
  <1>3. CASE Extension!Answer(r) BY <1>3 DEF Extension!Answer, Extension!Ready
  <1> QED BY <1>1, <1>2, <1>3 DEF Extension!Serve

LEMMA GoroutineStepTyped ==
    ASSUME TogetherInv, NEW g \in Generations,
           Extension!Starting(g) \/ Extension!Run(g) \/ Extension!Closing(g)
    PROVE  TogetherInv'
  <1> USE DEF TogetherInv, Extension!SecretFits, Extension!TypeOK, Extension!fieldVars
  <1>1. CASE Extension!FirstLoad(g) BY <1>1 DEF Extension!FirstLoad
  <1>2. CASE Extension!Spawn(g) BY <1>2 DEF Extension!Spawn
  <1>3. CASE Extension!SetField(g) BY <1>3 DEF Extension!SetField
  <1>4. CASE Extension!Run(g) BY <1>4 DEF Extension!Run, Extension!Fire, Extension!Refreshed, Extension!RunEnds
  <1>5. CASE Extension!StopRefresh(g) BY <1>5 DEF Extension!StopRefresh
  <1>6. CASE Extension!CloseReturns(g) BY <1>6 DEF Extension!CloseReturns
  <1> QED BY <1>1, <1>2, <1>3, <1>4, <1>5, <1>6 DEF Extension!Starting, Extension!Closing

LEMMA SecretStep == TogetherInv /\ [Extension!Next]_Extension!vars => TogetherInv'
  <1> SUFFICES ASSUME TogetherInv, [Extension!Next]_Extension!vars PROVE TogetherInv' OBVIOUS
  <1> USE DEF TogetherInv, Extension!SecretFits, Extension!TypeOK, Extension!fieldVars
  <1>1. CASE UNCHANGED Extension!vars BY <1>1 DEF Extension!vars
  <1>2. ASSUME NEW g \in Generations,
               Extension!Start(g) \/ Extension!Starting(g) \/ Extension!Run(g) \/ Extension!Closing(g)
        PROVE TogetherInv'
    <2>1. CASE Extension!Start(g) BY <2>1 DEF Extension!Start, Extension!Unlocked
    <2> QED BY <1>2, <2>1, GoroutineStepTyped
  <1>3. CASE Extension!StartReturns BY <1>3 DEF Extension!StartReturns
  <1>4. CASE Extension!Cancel BY <1>4 DEF Extension!Cancel
  <1>5. CASE Extension!Stop BY <1>5 DEF Extension!Stop, Extension!Unlocked
  <1>6. ASSUME NEW r \in Callers, Extension!Serve(r) PROVE TogetherInv'
    BY <1>6, RequestStepTyped
  <1> QED BY <1>1, <1>2, <1>3, <1>4, <1>5, <1>6 DEF Extension!Next

-----------------------------------------------------------------------------
(* The order of starting and stopping, when the host waits for the first load. *)

LEMMA OrderAtStart == ASSUME Extension!Init PROVE RuntimeInv
  <1>1. TogetherInv BY TypedAtStart
  <1>2. CallsInv BY DEF Extension!Init, CallsInv
  <1>3. FieldsInv BY DEF Extension!Init, FieldsInv, FieldsFit
  <1>4. CloseInv BY DEF Extension!Init, CloseInv
  <1> QED BY <1>1, <1>2, <1>3, <1>4 DEF RuntimeInv

(* Only a generation that was never started is started, and only when no other is up. *)
LEMMA StartStep ==
    ASSUME RuntimeInv, NEW g \in Generations, Extension!Start(g)
    PROVE  CallsInv' /\ FieldsInv' /\ CloseInv'
  <1> USE DEF RuntimeInv, TogetherInv, Extension!SecretFits, Extension!TypeOK, Extension!fieldVars
  <1>1. /\ caller = None /\ runtime = None /\ starter[g] = "none" /\ runtime' = g /\ caller' = g
        /\ starter' = [starter EXCEPT ![g] = "refresh"]
        /\ UNCHANGED <<cancelled, fields, runner, stopped, closer, served>>
    BY DEF Extension!Start
  <1>2. starter'[g] = "refresh" /\ \A h \in Generations : h # g => starter'[h] = starter[h] BY <1>1
  <1>3. closer[g] = "none" BY <1>1 DEF CallsInv
  <1>4. CallsInv' BY <1>1, <1>2, <1>3, LifecycleAssumed DEF CallsInv
  <1>5. FieldsInv' BY <1>1, <1>2 DEF FieldsInv, FieldsFit
  <1>6. CloseInv' BY <1>1 DEF CloseInv
  <1> QED BY <1>4, <1>5, <1>6

(* A host that waits comes back from Start when the goroutine of Start is over. *)
LEMMA ReturnStep ==
    ASSUME Patient, RuntimeInv, Extension!StartReturns
    PROVE  CallsInv' /\ FieldsInv' /\ CloseInv'
  <1>1. /\ caller # None /\ starter[caller] = "done" /\ caller' = None
        /\ UNCHANGED <<runtime, handler, secret, cancelled, starter, fields, runner, stopped, closer, served>>
    BY DEF Extension!StartReturns, Extension!fieldVars
  <1>2. CallsInv' BY <1>1 DEF RuntimeInv, CallsInv
  <1> QED BY <1>1, <1>2 DEF RuntimeInv, FieldsInv, FieldsFit, CloseInv

(* The steps of the goroutine in app.Runtime.Start: the runner comes before the fields. *)
LEMMA StartingStep ==
    ASSUME RuntimeInv, NEW g \in Generations, Extension!Starting(g)
    PROVE  CallsInv' /\ FieldsInv' /\ CloseInv'
  <1> USE DEF RuntimeInv, TogetherInv, Extension!SecretFits, Extension!TypeOK, Extension!fieldVars
  <1>0. /\ starter[g] \notin {"none", "done"} /\ starter'[g] # "none"
        /\ \A h \in Generations : h # g => starter'[h] = starter[h]
        /\ UNCHANGED <<runtime, handler, secret, caller, cancelled, stopped, closer, served>>
    BY DEF Extension!Starting, Extension!FirstLoad, Extension!Spawn, Extension!SetField
  <1>1. caller = g /\ caller = runtime /\ closer[g] = "none" BY <1>0, LifecycleAssumed DEF CallsInv
  <1>2. CallsInv' BY <1>0, <1>1 DEF CallsInv
  <1>3. CASE Extension!FirstLoad(g)
    <2>1. starter[g] = "refresh" /\ starter'[g] \in {"spawn", "done"} /\ UNCHANGED <<fields, runner>>
      BY <1>3 DEF Extension!FirstLoad
    <2>2. FieldsInv' BY <1>0, <2>1 DEF FieldsInv, FieldsFit
    <2> QED BY <1>0, <1>2, <2>1, <2>2 DEF CloseInv
  <1>4. CASE Extension!Spawn(g)
    <2>1. /\ starter[g] = "spawn" /\ starter'[g] = "set" /\ runner'[g] = "waiting" /\ UNCHANGED fields
          /\ \A h \in Generations : h # g => runner'[h] = runner[h]
      BY <1>4 DEF Extension!Spawn
    <2>2. FieldsInv' BY <1>0, <2>1 DEF FieldsInv, FieldsFit
    <2>3. CloseInv' BY <1>0, <1>1, <2>1 DEF CloseInv
    <2> QED BY <1>2, <2>2, <2>3
  <1>5. CASE Extension!SetField(g)
    <2>1. PICK f \in {"stopRefresh", "refreshDone"} \ fields[g] :
            /\ fields' = [fields EXCEPT ![g] = @ \cup {f}]
            /\ starter' = [starter EXCEPT ![g] = IF fields[g] = {} THEN "set" ELSE "done"]
      BY <1>5 DEF Extension!SetField
    <2>2. starter[g] = "set" /\ runner[g] # "none" /\ UNCHANGED runner
      BY <1>5 DEF Extension!SetField, FieldsInv, FieldsFit
    <2>3. fields'[g] = fields[g] \cup {f} /\ \A h \in Generations : h # g => fields'[h] = fields[h] BY <2>1
    <2>4. fields[g] \subseteq {"stopRefresh", "refreshDone"} OBVIOUS
    <2>5. CASE fields[g] = {}
      <3>1. starter'[g] = "set" /\ fields'[g] = {f} BY <2>1, <2>3, <2>5
      <3>2. fields'[g] # {"stopRefresh", "refreshDone"}
        <4>1. "stopRefresh" # "refreshDone" OBVIOUS
        <4> QED BY <3>1, <4>1, Zenon
      <3>3. FieldsInv' BY <1>0, <2>2, <2>3, <3>1, <3>2 DEF FieldsInv, FieldsFit
      <3> QED BY <1>0, <1>2, <2>2, <3>3 DEF CloseInv
    <2>6. CASE fields[g] # {}
      <3>1. starter'[g] = "done" /\ fields'[g] = {"stopRefresh", "refreshDone"} BY <2>1, <2>3, <2>4, <2>6
      <3>2. FieldsInv' BY <1>0, <2>2, <2>3, <3>1 DEF FieldsInv, FieldsFit
      <3> QED BY <1>0, <1>2, <2>2, <3>2 DEF CloseInv
    <2> QED BY <2>5, <2>6
  <1> QED BY <1>3, <1>4, <1>5 DEF Extension!Starting

(* A runner that has ended stays so, and none appears by itself. *)
LEMMA RunStep ==
    ASSUME RuntimeInv, NEW g \in Generations, Extension!Run(g)
    PROVE  CallsInv' /\ FieldsInv' /\ CloseInv'
  <1> USE DEF RuntimeInv, TogetherInv, Extension!SecretFits, Extension!TypeOK, Extension!fieldVars
  <1>1. /\ runner[g] \notin {"none", "ended"} /\ runner'[g] # "none"
        /\ \A h \in Generations : h # g => runner'[h] = runner[h]
        /\ UNCHANGED <<runtime, handler, secret, caller, cancelled, starter, fields, stopped, closer, served>>
    BY DEF Extension!Run, Extension!Fire, Extension!Refreshed, Extension!RunEnds
  <1>2. CallsInv' BY <1>1 DEF CallsInv
  <1>3. FieldsInv' BY <1>1 DEF FieldsInv, FieldsFit
  <1>4. CloseInv' BY <1>1 DEF CloseInv
  <1> QED BY <1>2, <1>3, <1>4

(* The generation that Stop takes down has been started, and its Start is over. *)
LEMMA StopStep ==
    ASSUME RuntimeInv, Extension!Stop
    PROVE  CallsInv' /\ FieldsInv' /\ CloseInv'
  <1> USE DEF RuntimeInv, TogetherInv, Extension!SecretFits, Extension!TypeOK, Extension!fieldVars
  <1>1. /\ caller = None /\ runtime \in Generations /\ runtime' = None
        /\ closer' = [closer EXCEPT ![runtime] = "called"]
        /\ UNCHANGED <<caller, cancelled, starter, fields, runner, stopped, served>>
    BY DEF Extension!Stop
  <1>2. starter[runtime] = "done" BY <1>1, LifecycleAssumed DEF CallsInv
  <1>3. closer'[runtime] = "called" /\ \A h \in Generations : h # runtime => closer'[h] = closer[h] BY <1>1
  <1>4. CallsInv' BY <1>1, <1>2, <1>3 DEF CallsInv
  <1>5. FieldsInv' BY <1>1 DEF FieldsInv, FieldsFit
  <1>6. CloseInv' BY <1>1, <1>3 DEF CloseInv
  <1> QED BY <1>4, <1>5, <1>6

(* Close sees both fields, or neither and then there is no runner to wait for. *)
LEMMA ClosingStep ==
    ASSUME Patient, RuntimeInv, NEW g \in Generations, Extension!Closing(g)
    PROVE  CallsInv' /\ FieldsInv' /\ CloseInv'
  <1> USE DEF RuntimeInv, TogetherInv, Extension!SecretFits, Extension!TypeOK, Extension!fieldVars
  <1>1. closer[g] # "none" /\ UNCHANGED <<runtime, handler, secret, caller, cancelled, starter, fields, runner, served>>
        /\ \A h \in Generations : h # g => closer'[h] = closer[h]
    BY DEF Extension!Closing, Extension!StopRefresh, Extension!CloseReturns
  <1>2. starter[g] = "done" /\ runtime # g BY <1>1, LifecycleAssumed DEF CallsInv
  <1>3. \/ closer'[g] = "waiting"
        \/ closer'[g] = "closed" /\ runner[g] \in {"none", "ended"}
    <2>1. CASE Extension!CloseReturns(g) BY <2>1 DEF Extension!CloseReturns
    <2>2. CASE Extension!StopRefresh(g)
      <3>1. \/ fields[g] = {} /\ runner[g] = "none"
            \/ fields[g] = {"stopRefresh", "refreshDone"}
        BY <1>2 DEF FieldsInv, FieldsFit
      <3>2. Extension!Seen(g) = {fields[g]} BY DEF Extension!Seen
      <3> QED BY <2>2, <3>1, <3>2 DEF Extension!StopRefresh
    <2> QED BY <2>1, <2>2 DEF Extension!Closing
  <1>4. CallsInv' BY <1>1, <1>2, LifecycleAssumed DEF CallsInv
  <1>5. FieldsInv' BY <1>1 DEF FieldsInv, FieldsFit
  <1>6. CloseInv' BY <1>1, <1>3 DEF CloseInv
  <1> QED BY <1>4, <1>5, <1>6

(* No Close waits on a nil channel, and every one that has returned left no *)
(* goroutine behind; no generation is served before its Start is over to a  *)
(* host that can stop it.                                                   *)
LEMMA RuntimeStep ==
    ASSUME Patient, RuntimeInv, [Extension!Next]_Extension!vars
    PROVE  RuntimeInv'
  <1> SUFFICES CallsInv' /\ FieldsInv' /\ CloseInv' BY SecretStep DEF RuntimeInv
  <1>1. CASE UNCHANGED Extension!vars
    BY <1>1 DEF Extension!vars, Extension!fieldVars, RuntimeInv, CallsInv, FieldsInv, FieldsFit, CloseInv
  <1>2. ASSUME NEW g \in Generations,
               Extension!Start(g) \/ Extension!Starting(g) \/ Extension!Run(g) \/ Extension!Closing(g)
        PROVE  CallsInv' /\ FieldsInv' /\ CloseInv'
    BY <1>2, StartStep, StartingStep, RunStep, ClosingStep
  <1>3. CASE Extension!StartReturns BY <1>3, ReturnStep
  <1>4. CASE Extension!Cancel BY <1>4 DEF Extension!Cancel, Extension!fieldVars, RuntimeInv, CallsInv, FieldsInv, FieldsFit, CloseInv
  <1>5. CASE Extension!Stop BY <1>5, StopStep
  <1>6. ASSUME NEW r \in Callers, Extension!Serve(r)
        PROVE  CallsInv' /\ FieldsInv' /\ CloseInv'
    BY <1>6 DEF Extension!Serve, Extension!ReadHandler, Extension!ReadSecret, Extension!Answer,
                Extension!fieldVars, RuntimeInv, CallsInv, FieldsInv, FieldsFit, CloseInv
  <1> QED BY <1>1, <1>2, <1>3, <1>4, <1>5, <1>6 DEF Extension!Next

-----------------------------------------------------------------------------
(* A step of the sum, as each of its parts sees it. *)
LEMMA Parts ==
    ASSUME [Next]_vars
    PROVE  /\ [Extension!Next]_Extension!vars
           /\ [Process!Next]_Process!vars
  BY DEF Next, vars, extensionVars, processVars, answerVars, Extension!vars, Extension!fieldVars, Process!vars

(* The secret a request goes on with is the one of the runtime that serves it, *)
(* whatever is stopped and started meanwhile: both are read under the lock that *)
(* Start and Stop take to replace them (Extension.current).                    *)
LEMMA SecretAlwaysFits == Spec => []Extension!SecretFits
  <1>1. Init => TogetherInv BY TypedAtStart DEF Init
  <1>2. TogetherInv /\ [Next]_vars => TogetherInv' BY Parts, SecretStep
  <1>3. TogetherInv => Extension!SecretFits BY DEF TogetherInv
  <1> QED BY <1>1, <1>2, <1>3, PTL DEF Spec

(* Close waits until the periodic refresh has ended: after it no goroutine  *)
(* of the runtime asks the backend any more, for a host that waited for     *)
(* Start (app.Runtime.Close).                                               *)
THEOREM CloseAlwaysWaits == ASSUME Patient PROVE Spec => []CloseWaits
  <1>1. Init => RuntimeInv BY OrderAtStart DEF Init
  <1>2. RuntimeInv /\ [Next]_vars => RuntimeInv' BY Parts, RuntimeStep
  <1>3. RuntimeInv => CloseWaits BY DEF RuntimeInv, CallsInv, CloseInv, CloseWaits, Extension!CloseWaits
  <1> QED BY <1>1, <1>2, <1>3, PTL DEF Spec

-----------------------------------------------------------------------------
(* The process of a server. *)

(* What serveHTTP can rely on at each of its points.  The listener is opened once, *)
(* its error is serverClosed only after Shutdown, and everybody who leaves the     *)
(* select cancels the requests first.                                              *)
ServingInv ==
    /\ main \notin {"session", "sessionClosing"}
    /\ main \in {"start", "listen"} => loop = "none"
    /\ loop = "none" => \A c \in Conns : conn[c] = "none" /\ pending[c] = "none"
    /\ main \in {"start", "listen", "select"} => ~shutdown
    /\ main \in {"select", "shutdown", "drain"} => loop # "none"
    /\ loop # "none" /\ main # "select" => stopCalled
    /\ main \in {"shutdown", "drain"} => ctxDone
    /\ listener = "serverClosed" => shutdown

(* A clean end leaves nobody to serve; unless the connections were closed under   *)
(* their handlers, a request that arrived in time has a connection to answer on.  *)
CleanInv ==
    /\ main \in {"start", "listen", "select", "shutdown"} => outcome = "none"
    /\ outcome = "clean" =>
         /\ ctxDone /\ loop = "ended"
         /\ \A c \in Conns : conn[c] \in {"none", "closed"}
    /\ outcome # "startup" => \A c \in Conns : pending[c] = "running" => conn[c] = "active"

ProcessInv == Process!TypeOK /\ (transport = "http" => ServingInv /\ CleanInv)

LEMMA ProcessAtStart == ASSUME Process!Init \/ ProcessRests PROVE ProcessInv
  BY DEF Process!Init, ProcessRests, ProcessInv, Process!TypeOK, ServingInv, CleanInv

(* run and serveHTTP *)
LEMMA MainStep ==
    ASSUME ProcessInv, Process!Process \/ Process!Serving \/ Process!Session \/ Process!Signal \/ Process!Deadline
    PROVE  ProcessInv'
  <1> USE DEF ProcessInv, Process!TypeOK, ServingInv, CleanInv,
              Process!procVars, Process!serverVars, Process!clientVars
  <1>1. CASE Process!Started BY <1>1 DEF Process!Started
  <1>2. CASE Process!ListenFails BY <1>2 DEF Process!ListenFails
  <1>3. CASE Process!Listen BY <1>3 DEF Process!Listen
  <1>4. CASE Process!Stop BY <1>4 DEF Process!Stop
  <1>5. CASE Process!Exit BY <1>5 DEF Process!Exit, Process!Running
  <1>6. CASE Process!ServeStopped BY <1>6 DEF Process!ServeStopped
  <1>7. CASE Process!CallShutdown BY <1>7 DEF Process!CallShutdown
  <1>8. CASE Process!ShutdownFails BY <1>8 DEF Process!ShutdownFails
  <1>9. CASE Process!ShutdownSucceeds BY <1>9 DEF Process!ShutdownSucceeds
  <1>10. CASE Process!Drain BY <1>10 DEF Process!Drain
  <1>11. CASE Process!CloseSession BY <1>11 DEF Process!CloseSession
  <1>12. CASE Process!SessionEnds BY <1>12 DEF Process!SessionEnds
  <1>13. CASE Process!Signal BY <1>13 DEF Process!Signal
  <1>14. CASE Process!Deadline BY <1>14 DEF Process!Deadline
  <1> QED BY <1>1, <1>2, <1>3, <1>4, <1>5, <1>6, <1>7, <1>8, <1>9, <1>10, <1>11, <1>12, <1>13, <1>14
      DEF Process!Process, Process!Serving, Process!Session

(* net/http, the session and their clients *)
LEMMA ClientStep ==
    ASSUME ProcessInv, NEW c \in Conns, Process!Client(c) \/ Process!CloseIdle(c) \/ Process!AfterFunc(c)
    PROVE  ProcessInv'
  <1> USE DEF ProcessInv, Process!TypeOK, ServingInv, CleanInv,
              Process!procVars, Process!serverVars, Process!clientVars
  <1>1. CASE Process!Accept(c) BY <1>1 DEF Process!Accept
  <1>2. CASE Process!Request(c) BY <1>2 DEF Process!Request
  <1>3. CASE Process!Answer(c) BY <1>3 DEF Process!Answer, Process!Running
  <1>4. CASE Process!Call(c) BY <1>4 DEF Process!Call
  <1>5. CASE Process!Reply(c) BY <1>5 DEF Process!Reply
  <1>6. CASE Process!CloseIdle(c) BY <1>6 DEF Process!CloseIdle
  <1>7. CASE Process!AfterFunc(c) BY <1>7 DEF Process!AfterFunc
  <1> QED BY <1>1, <1>2, <1>3, <1>4, <1>5, <1>6, <1>7 DEF Process!Client

LEMMA ProcessStep == ASSUME ProcessInv, [Process!Next]_Process!vars PROVE ProcessInv'
  <1>1. CASE UNCHANGED Process!vars
    BY <1>1 DEF Process!vars, ProcessInv, Process!TypeOK, ServingInv, CleanInv
  <1>2. CASE Process!ServeEnds
    BY <1>2 DEF Process!ServeEnds, ProcessInv, Process!TypeOK, ServingInv, CleanInv,
                Process!procVars, Process!clientVars
  <1>3. CASE Process!Gone BY <1>1, <1>3 DEF Process!Gone
  <1> QED BY <1>1, <1>2, <1>3, MainStep, ClientStep DEF Process!Next

(* What serves fits together to the end: a request goes on with the secret of the *)
(* runtime that serves it (Extension.current); a server that reports a clean end  *)
(* has left no request on a live connection without its answer, and a request     *)
(* that outlives serveHTTP has a cancelled context.                               *)
THEOREM NobodyIsEverCutOff == Spec => []NobodyIsCutOff
  <1>1. Init => ProcessInv BY ProcessAtStart DEF Init
  <1>2. ProcessInv /\ [Next]_vars => ProcessInv' BY Parts, ProcessStep
  <1>3. ProcessInv => Process!CleanEndCutsNobody
    BY DEF ProcessInv, ServingInv, CleanInv, Process!CleanEndCutsNobody, Process!Over
  <1>4. ProcessInv => Process!SurvivorsAreCancelled
    BY DEF ProcessInv, ServingInv, Process!SurvivorsAreCancelled, Process!Over, Process!Running, Process!TypeOK
  <1> QED BY <1>1, <1>2, <1>3, <1>4, SecretAlwaysFits, PTL DEF Spec, NobodyIsCutOff

-----------------------------------------------------------------------------
(* One request over HTTP. *)

Early == {"boundary", "internal", "origin", "path", "guarded"}
NotFromHere == ~req.local \/ req.forwarded \/ ~req.peer
Denials == {"invalid_host", "proxy_request_denied", "peer_denied"}
Texts == {"ok", "grant", "transport", "status_text"}
Responses == [status : Nat, cors : BOOLEAN, body : Seq(Texts)]
Granted == \E i \in DOMAIN response.body : response.body[i] = "grant"

AnswerTypeOK ==
    /\ req \in Answer!Requests /\ pc \in Early \cup {"transport", "audit", "done"}
    /\ response \in Responses
    /\ status \in Nat /\ written \in BOOLEAN
    /\ ended \in {None, "timeout", "canceled"}

(* The header goes out once and the text of an error with it or after it, once. *)
ResponseInv ==
    /\ response.status = status
    /\ pc \in Early => status = 0 /\ code = "ok"
    /\ status = 0 => response.body = <<>>
    /\ status < 400 => ~written
    /\ status >= 400 => response.body = IF written THEN <<"status_text">> ELSE <<>>

(* How far a request comes says where it came from. *)
OriginInv ==
    /\ pc \notin {"boundary", "audit", "done"} => ~NotFromHere
    /\ pc = "internal" => Answer!Internal
    /\ pc \in {"boundary", "internal", "origin"} => ~response.cors
    /\ pc = "origin" => ~Answer!Internal
    /\ response.cors => req.origin = "listed" /\ ~Answer!Internal

OutcomeInv ==
    /\ pc \in {"audit", "done"} =>
         /\ status # 0 /\ (code = "ok" => status < 400)
         /\ NotFromHere => status = 403 /\ code \in Denials
    /\ pc = "done" /\ NotFromHere => level = "warn"
    /\ Granted =>
         /\ pc \in {"audit", "done"} /\ code = "ok"
         /\ Enabled /\ req.secret /\ ~req.marks /\ req.origin = "none" /\ ~NotFromHere

AnswerInv == AnswerTypeOK /\ ResponseInv /\ OriginInv /\ OutcomeInv

LEMMA OneText == ASSUME NEW t PROVE \A i \in DOMAIN <<t>> : <<t>>[i] = t
  OBVIOUS

LEMMA MoreText == \A b \in Seq(Texts), t \in Texts : Append(b, t) \in Seq(Texts)
  OBVIOUS

(* What a write leaves: st is the status the response has then. *)
LEMMA Written ==
    ASSUME AnswerTypeOK, ResponseInv, NEW first \in Nat, 0 < first, NEW text, Answer!Write(first, text),
           NEW st \in Nat, st = Answer!Sent(first), st < 400 => text \in Texts
    PROVE  /\ status' = st /\ 0 < st /\ response' \in Responses
           /\ response'.status = st /\ response'.cors = response.cors
           /\ st < 400 => ~written' /\ response'.body = Append(response.body, text)
           /\ 400 <= st => written' /\ response'.body = <<"status_text">>
  <1>1. 0 < st /\ status' = st BY DEF Answer!Write, Answer!Sent, AnswerTypeOK
  <1>2. response \in Responses /\ response.status = status BY DEF AnswerTypeOK, ResponseInv
  <1>3. PICK h \in Responses : h = Answer!Header(response, first)
    BY <1>2 DEF Answer!Header, Responses
  <1>8. h.status = st /\ h.cors = response.cors /\ h.body = response.body
    BY <1>2, <1>3 DEF Answer!Header, Answer!Sent, Responses
  <1>4. response' = Answer!Body(h, st, text) /\ (written' <=> written \/ st >= 400)
    BY <1>3 DEF Answer!Write
  <1>5. CASE st < 400
    <2>1. status < 400 BY <1>5 DEF Answer!Sent, AnswerTypeOK
    <2>2. ~written BY <2>1 DEF ResponseInv
    <2>3. ~written' BY <1>4, <1>5, <2>2
    <2>4. Append(h.body, text) \in Seq(Texts) BY <1>5 DEF Responses
    <2>5. response' = [h EXCEPT !.body = Append(h.body, text)] BY <1>4, <1>5 DEF Answer!Body
    <2>6. response' \in Responses /\ response'.status = h.status /\ response'.cors = h.cors
      BY <2>4, <2>5 DEF Responses
    <2>7. response'.body = Append(h.body, text) BY <2>4, <2>5 DEF Responses
    <2>8. ~(400 <= st) BY <1>5
    <2> QED BY <1>1, <1>8, <2>3, <2>6, <2>7, <2>8
  <1>6. CASE ~(st < 400) /\ written
    <2>1. response' = h BY <1>4, <1>6 DEF Answer!Body
    <2>2. status >= 400
      <3>1. ~(status < 400) BY <1>6 DEF ResponseInv
      <3> QED BY <3>1 DEF AnswerTypeOK
    <2>3. response.body = <<"status_text">> BY <1>6, <2>2 DEF ResponseInv
    <2> QED BY <1>1, <1>3, <1>4, <1>6, <1>8, <2>1, <2>3
  <1>7. CASE ~(st < 400) /\ ~written
    <2>1. response' = [h EXCEPT !.body = Append(h.body, "status_text")] BY <1>4, <1>7 DEF Answer!Body
    <2>2. response.body = <<>>
      <3>1. CASE status = 0 BY <3>1 DEF ResponseInv
      <3>2. CASE status >= 400 BY <1>7, <3>2 DEF ResponseInv
      <3> QED BY <1>7, <3>1, <3>2 DEF AnswerTypeOK, Answer!Sent
    <2>3. Append(h.body, "status_text") = <<"status_text">> BY <1>8, <2>2
    <2>4. Append(h.body, "status_text") \in Seq(Texts)
      <3>1. "status_text" \in Texts BY DEF Texts
      <3>2. h.body \in Seq(Texts) BY DEF Responses
      <3> QED BY <3>1, <3>2, MoreText
    <2>5. response' \in Responses /\ response'.status = h.status /\ response'.cors = h.cors
      BY <2>1, <2>4 DEF Responses
    <2>6. response'.body = <<"status_text">> BY <2>1, <2>3, <2>4 DEF Responses
    <2>7. written' BY <1>4, <1>7
    <2> QED BY <1>1, <1>7, <1>8, <2>5, <2>6, <2>7
  <1> QED BY <1>5, <1>6, <1>7

(* A refusal, at any of the checks. *)
LEMMA FailMoves ==
    ASSUME AnswerInv, pc \in Early, NEW st \in Nat, st >= 400, NEW failure, failure # "ok",
           Answer!Fail(st, failure), UNCHANGED <<req, level, ended, call, told>>,
           NotFromHere => st = 403 /\ failure \in Denials
    PROVE  AnswerInv'
  <1>1. /\ pc' = "audit" /\ code' = failure /\ Answer!Write(st, failure) BY DEF Answer!Fail
  <1>2. status = 0 /\ ~Granted
    <2>1. status = 0 /\ response.body = <<>> BY DEF AnswerInv, ResponseInv
    <2> QED BY <2>1 DEF Granted
  <1>3. 0 < st /\ ~(st < 400) /\ 400 <= st /\ st # 0 OBVIOUS
  <1>4. /\ status' = st /\ response' \in Responses
        /\ response'.status = st /\ response'.cors = response.cors
        /\ written' /\ response'.body = <<"status_text">>
    <2>1. st = Answer!Sent(st) BY <1>2 DEF Answer!Sent
    <2>2. AnswerTypeOK /\ ResponseInv BY DEF AnswerInv
    <2> QED BY <1>1, <1>3, <2>1, <2>2, Written
  <1>5. ~Granted'
    <2>1. \A i \in DOMAIN response'.body : response'.body[i] = "status_text" BY <1>4, OneText
    <2> QED BY <2>1 DEF Granted
  <1>6. AnswerTypeOK'
    <2>1. written' \in BOOLEAN BY <1>1 DEF Answer!Write
    <2> QED BY <1>1, <1>4, <2>1 DEF AnswerInv, AnswerTypeOK
  <1>7. ResponseInv' BY <1>1, <1>3, <1>4 DEF ResponseInv, Early
  <1>8. OriginInv' BY <1>1, <1>4 DEF AnswerInv, OriginInv, Answer!Internal
  <1>9. OutcomeInv' BY <1>1, <1>3, <1>4, <1>5 DEF OutcomeInv, NotFromHere
  <1> QED BY <1>6, <1>7, <1>8, <1>9 DEF AnswerInv

(* A check that lets the request on. *)
LEMMA PassMoves ==
    ASSUME AnswerInv, pc \in Early, NEW next \in Early \cup {"transport"}, next # "boundary",
           Answer!Pass(next), UNCHANGED <<req, level, ended, call, told>>,
           ~NotFromHere, next = "internal" => Answer!Internal,
           next \in {"internal", "origin"} => ~response.cors,
           next = "origin" => ~Answer!Internal
    PROVE  AnswerInv'
  <1>1. pc' = next /\ UNCHANGED <<response, status, written, code>> BY DEF Answer!Pass
  <1>2. AnswerTypeOK' BY <1>1 DEF AnswerInv, AnswerTypeOK
  <1>3. ResponseInv' BY <1>1 DEF AnswerInv, ResponseInv
  <1>4. OriginInv' BY <1>1 DEF AnswerInv, OriginInv, Answer!Internal, NotFromHere
  <1>5. ~Granted
    <2>1. response.body = <<>> BY DEF AnswerInv, ResponseInv
    <2> QED BY <2>1 DEF Granted
  <1>6. OutcomeInv' BY <1>1, <1>5 DEF AnswerInv, OutcomeInv, Granted, Early
  <1> QED BY <1>2, <1>3, <1>4, <1>6 DEF AnswerInv

(* An answer that is no error. *)
LEMMA AnswerMoves ==
    ASSUME AnswerInv, pc \in Early, ~NotFromHere, NEW st \in Nat, 0 < st, st < 400, NEW text \in {"ok", "grant"},
           Answer!Answer(st, text), UNCHANGED <<req, level, ended, call, told>>,
           text = "grant" => Enabled /\ req.secret /\ ~req.marks /\ req.origin = "none"
    PROVE  AnswerInv'
  <1>1. /\ pc' = "audit" /\ code' = code /\ Answer!Write(st, text) BY DEF Answer!Answer
  <1>2. status = 0 /\ response.body = <<>> /\ code = "ok" BY DEF AnswerInv, ResponseInv
  <1>3. text \in Texts BY DEF Texts
  <1>4. /\ status' = st /\ response' \in Responses
        /\ response'.status = st /\ response'.cors = response.cors
        /\ ~written' /\ response'.body = Append(<<>>, text)
    <2>1. st = Answer!Sent(st) BY <1>2 DEF Answer!Sent
    <2>2. AnswerTypeOK /\ ResponseInv BY DEF AnswerInv
    <2> QED BY <1>1, <1>2, <1>3, <2>1, <2>2, Written
  <1>5. response'.body = <<text>> BY <1>4
  <1>6. Granted' => text = "grant"
    <2> QED BY <1>5, OneText DEF Granted
  <1>7. AnswerTypeOK'
    <2>1. written' \in BOOLEAN BY <1>1 DEF Answer!Write
    <2> QED BY <1>1, <1>4, <2>1 DEF AnswerInv, AnswerTypeOK
  <1>8. ResponseInv' BY <1>1, <1>4 DEF ResponseInv, Early
  <1>9. OriginInv' BY <1>1, <1>4 DEF AnswerInv, OriginInv, Answer!Internal
  <1>10. OutcomeInv' BY <1>1, <1>2, <1>4, <1>6 DEF OutcomeInv, NotFromHere
  <1> QED BY <1>7, <1>8, <1>9, <1>10 DEF AnswerInv

LEMMA FailuresFail ==
    \A f \in Answer!BodyFailures \cup Answer!IssueFailures \cup Answer!AuthFailures \cup Answer!Limits :
        f[1] \in Nat /\ f[1] >= 400 /\ f[2] # "ok"
  BY DEF Answer!BodyFailures, Answer!IssueFailures, Answer!AuthFailures, Answer!Limits

LEMMA BoundaryMoves == ASSUME AnswerInv, Answer!Boundary PROVE AnswerInv'
  <1>1. pc \in Early /\ UNCHANGED <<req, level, ended, call, told>> /\ ~response.cors
    BY DEF Answer!Boundary, Early, AnswerInv, OriginInv
  <1>2. CASE ~req.local /\ Answer!Fail(403, "invalid_host") BY <1>1, <1>2, FailMoves DEF Denials
  <1>3. CASE req.forwarded /\ Answer!Fail(403, "proxy_request_denied") BY <1>1, <1>3, FailMoves DEF Denials
  <1>4. CASE ~req.peer /\ Answer!Fail(403, "peer_denied") BY <1>1, <1>4, FailMoves DEF Denials
  <1>5. CASE ~NotFromHere /\ Answer!Fail(429, "auth_rate_limit") BY <1>1, <1>5, FailMoves
  <1>6. CASE ~NotFromHere /\ Answer!Internal /\ Answer!Pass("internal")
    BY <1>1, <1>6, PassMoves DEF Early
  <1>7. CASE ~NotFromHere /\ ~Answer!Internal /\ Answer!Pass("origin")
    BY <1>1, <1>7, PassMoves DEF Early
  <1>8. \/ ~req.local /\ Answer!Fail(403, "invalid_host")
        \/ req.forwarded /\ Answer!Fail(403, "proxy_request_denied")
        \/ ~req.peer /\ Answer!Fail(403, "peer_denied")
        \/ ~NotFromHere /\ Answer!Fail(429, "auth_rate_limit")
        \/ ~NotFromHere /\ Answer!Pass(IF Answer!Internal THEN "internal" ELSE "origin")
    BY DEF Answer!Boundary, NotFromHere
  <1> QED BY <1>2, <1>3, <1>4, <1>5, <1>6, <1>7, <1>8

LEMMA InternalMoves == ASSUME AnswerInv, Answer!serveInternalDelegation PROVE AnswerInv'
  <1>1. pc \in Early /\ UNCHANGED <<req, level, ended, call, told>> /\ ~NotFromHere
    BY DEF Answer!serveInternalDelegation, Early, AnswerInv, OriginInv
  <1>2. CASE Answer!Fail(429, "global_limit") BY <1>1, <1>2, FailMoves
  <1>3. CASE Answer!Fail(404, "not_found") BY <1>1, <1>3, FailMoves
  <1>4. CASE Answer!Fail(403, "browser_request_denied") BY <1>1, <1>4, FailMoves
  <1>5. CASE Answer!Fail(405, "method_not_allowed") BY <1>1, <1>5, FailMoves
  <1>6. CASE Answer!Fail(401, "internal_authentication_required") BY <1>1, <1>6, FailMoves
  <1>7. CASE \E f \in Answer!BodyFailures \cup Answer!IssueFailures : Answer!Fail(f[1], f[2])
    BY <1>1, <1>7, FailuresFail, FailMoves
  <1>8. CASE Enabled /\ ~Answer!FromBrowser /\ req.secret /\ Answer!Answer(201, "grant")
    <2>1. ~req.marks /\ req.origin = "none" BY <1>8 DEF Answer!FromBrowser
    <2> QED BY <1>1, <1>8, <2>1, AnswerMoves
  <1> QED BY <1>2, <1>3, <1>4, <1>5, <1>6, <1>7, <1>8 DEF Answer!serveInternalDelegation

LEMMA OriginMoves == ASSUME AnswerInv, Answer!Origin PROVE AnswerInv'
  <1>1. /\ pc = "origin" /\ pc \in Early /\ UNCHANGED <<req, level, ended, call, told>>
        /\ ~NotFromHere /\ ~Answer!Internal
    BY DEF Answer!Origin, Early, AnswerInv, OriginInv
  <1>2. CASE Answer!Fail(403, "origin_denied") BY <1>1, <1>2, FailMoves
  <1>3. CASE /\ response' = [response EXCEPT !.cors = (req.origin = "listed")]
             /\ pc' = "path" /\ UNCHANGED <<status, written, code>>
    <2>1. /\ response' \in Responses /\ response'.status = response.status /\ response'.body = response.body
          /\ response'.cors => req.origin = "listed"
      BY <1>3 DEF AnswerInv, AnswerTypeOK, Responses
    <2>2. AnswerTypeOK' BY <1>1, <1>3, <2>1 DEF AnswerInv, AnswerTypeOK, Early
    <2>3. ResponseInv' BY <1>1, <1>3, <2>1 DEF AnswerInv, ResponseInv
    <2>4. OriginInv' BY <1>1, <1>3, <2>1 DEF OriginInv, NotFromHere, Answer!Internal
    <2>5. OutcomeInv' BY <1>1, <1>3, <2>1 DEF AnswerInv, OutcomeInv, Granted
    <2> QED BY <2>2, <2>3, <2>4, <2>5 DEF AnswerInv
  <1> QED BY <1>2, <1>3 DEF Answer!Origin

LEMMA PathMoves == ASSUME AnswerInv, Answer!Path PROVE AnswerInv'
  <1>1. pc \in Early /\ UNCHANGED <<req, level, ended, call, told>> /\ ~NotFromHere
    BY DEF Answer!Path, Early, AnswerInv, OriginInv
  <1>2. CASE Answer!Answer(200, "ok") BY <1>1, <1>2, AnswerMoves
  <1>3. CASE Answer!Fail(405, "method_not_allowed") BY <1>1, <1>3, FailMoves
  <1>4. CASE Answer!Fail(404, "not_found") BY <1>1, <1>4, FailMoves
  <1>5. CASE Answer!Fail(403, "preflight_denied") BY <1>1, <1>5, FailMoves
  <1>6. CASE Answer!Pass("guarded") BY <1>1, <1>6, PassMoves DEF Early
  <1>7. CASE Answer!WriteHeader(204) /\ pc' = "audit" /\ UNCHANGED code
    <2>1. status = 0 /\ code = "ok" /\ response.body = <<>> /\ response \in Responses /\ ~written /\ written \in BOOLEAN
      BY <1>1 DEF AnswerInv, AnswerTypeOK, ResponseInv
    <2>2. status' = 204 /\ response' = [response EXCEPT !.status = 204] /\ written' = written
      BY <1>7, <2>1 DEF Answer!WriteHeader, Answer!Sent, Answer!Header
    <2>3. /\ response' \in Responses /\ response'.status = 204 /\ response'.body = <<>>
          /\ response'.cors = response.cors
      BY <2>1, <2>2 DEF Responses
    <2>4. AnswerTypeOK' BY <1>1, <1>7, <2>1, <2>2, <2>3 DEF AnswerInv, AnswerTypeOK
    <2>5. ResponseInv' BY <1>7, <2>1, <2>2, <2>3 DEF ResponseInv, Early
    <2>6. OriginInv' BY <1>1, <1>7, <2>3 DEF AnswerInv, OriginInv, Answer!Internal
    <2>7. OutcomeInv' BY <1>1, <1>7, <2>1, <2>2, <2>3 DEF OutcomeInv, NotFromHere, Granted
    <2> QED BY <2>4, <2>5, <2>6, <2>7 DEF AnswerInv
  <1> QED BY <1>2, <1>3, <1>4, <1>5, <1>6, <1>7 DEF Answer!Path

LEMMA GuardedMoves == ASSUME AnswerInv, Answer!Guarded PROVE AnswerInv'
  <1>1. pc \in Early /\ UNCHANGED <<req, level, ended, call, told>> /\ ~NotFromHere
    BY DEF Answer!Guarded, Early, AnswerInv, OriginInv
  <1>2. CASE \E f \in Answer!AuthFailures \cup Answer!Limits : Answer!Fail(f[1], f[2])
    BY <1>1, <1>2, FailuresFail, FailMoves
  <1>3. CASE Answer!Fail(405, "method_not_allowed") BY <1>1, <1>3, FailMoves
  <1>4. CASE Answer!Fail(413, "request_too_large") BY <1>1, <1>4, FailMoves
  <1>5. CASE Answer!Fail(400, "invalid_request") BY <1>1, <1>5, FailMoves
  <1>6. CASE Answer!Fail(400, "credential_in_payload") BY <1>1, <1>6, FailMoves
  <1>7. CASE Answer!Pass("transport") BY <1>1, <1>7, PassMoves DEF Early
  <1> QED BY <1>2, <1>3, <1>4, <1>5, <1>6, <1>7 DEF Answer!Guarded

LEMMA HeaderMoves ==
    ASSUME AnswerInv, NEW st \in Nat, 0 < st, Answer!WriteHeader(st)
    PROVE  /\ status' \in Nat /\ status' > 0 /\ (status' = st \/ status' = status)
           /\ response' \in Responses /\ response'.status = status'
           /\ response'.cors = response.cors /\ response'.body = response.body
           /\ written' = written
           /\ status = 0 => response.body = <<>> /\ ~written
  <1>1. /\ status \in Nat /\ response \in Responses /\ response.status = status /\ written' = written
        /\ status = 0 => response.body = <<>> /\ ~written
    BY DEF AnswerInv, AnswerTypeOK, ResponseInv, Answer!WriteHeader
  <1>2. CASE status = 0
    <2>1. status' = st /\ response' = [response EXCEPT !.status = st]
      BY <1>2 DEF Answer!WriteHeader, Answer!Sent, Answer!Header
    <2> QED BY <1>1, <1>2, <2>1 DEF Responses
  <1>3. CASE status # 0
    <2>1. status' = status /\ response' = response
      BY <1>3 DEF Answer!WriteHeader, Answer!Sent, Answer!Header
    <2> QED BY <1>1, <1>3, <2>1
  <1> QED BY <1>2, <1>3

LEMMA TransportWritesMoves == ASSUME AnswerInv, Answer!TransportWrites PROVE AnswerInv'
  <1>1. /\ pc = "transport" /\ UNCHANGED <<req, pc, code, level, ended, call, told>>
        /\ ~NotFromHere /\ ~Granted
    BY DEF Answer!TransportWrites, AnswerInv, OriginInv, OutcomeInv
  <1>2. ASSUME NEW st \in {200, 202, 400, 404, 500}, Answer!WriteHeader(st) PROVE AnswerInv'
    <2>1. st \in Nat /\ 0 < st OBVIOUS
    <2>2. /\ status' \in Nat /\ status' > 0 /\ (status' = st \/ status' = status)
          /\ response' \in Responses /\ response'.status = status'
          /\ response'.cors = response.cors /\ response'.body = response.body
          /\ written' = written
          /\ status = 0 => response.body = <<>> /\ ~written
      BY <1>2, <2>1, HeaderMoves
    <2>3. status # 0 => status' = status
      BY <1>2 DEF Answer!WriteHeader, Answer!Sent
    <2>4. AnswerTypeOK' BY <1>1, <2>2 DEF AnswerInv, AnswerTypeOK
    <2>5. ResponseInv' BY <1>1, <2>2, <2>3 DEF AnswerInv, ResponseInv, Early
    <2>6. OriginInv' BY <1>1, <2>2 DEF AnswerInv, OriginInv, NotFromHere, Answer!Internal
    <2>7. OutcomeInv' BY <1>1, <2>2 DEF OutcomeInv, NotFromHere, Granted
    <2> QED BY <2>4, <2>5, <2>6, <2>7 DEF AnswerInv
  <1>3. ASSUME NEW first \in {200, 400}, Answer!Write(first, "transport") PROVE AnswerInv'
    <2>1. first \in Nat /\ 0 < first /\ "transport" \in Texts BY DEF Texts
    <2>2. PICK st \in Nat : st = Answer!Sent(first) BY <2>1 DEF AnswerInv, AnswerTypeOK, Answer!Sent
    <2>3. AnswerTypeOK /\ ResponseInv BY DEF AnswerInv
    <2>4. /\ status' = st /\ 0 < st /\ response' \in Responses
          /\ response'.status = st /\ response'.cors = response.cors
          /\ st < 400 => ~written' /\ response'.body = Append(response.body, "transport")
          /\ 400 <= st => written' /\ response'.body = <<"status_text">>
      BY <1>3, <2>1, <2>2, <2>3, Written
    <2>5. ~Granted'
      <3>1. CASE st < 400
        <4>1. response.body \in Seq(Texts) BY <2>3 DEF AnswerTypeOK, Responses
        <4>2. response'.body = Append(response.body, "transport") BY <2>4, <3>1
        <4>3. \A i \in DOMAIN response'.body : i \in DOMAIN response.body \/ response'.body[i] = "transport"
          BY <4>1, <4>2
        <4>4. \A i \in DOMAIN response.body : response'.body[i] = response.body[i] BY <4>1, <4>2
        <4> QED BY <1>1, <4>3, <4>4 DEF Granted
      <3>2. CASE ~(st < 400)
        <4>1. \A i \in DOMAIN response'.body : response'.body[i] = "status_text" BY <2>4, <3>2, OneText
        <4> QED BY <4>1 DEF Granted
      <3> QED BY <3>1, <3>2
    <2>6. written' \in BOOLEAN BY <1>3 DEF Answer!Write
    <2>7. AnswerTypeOK' BY <1>1, <2>4, <2>6 DEF AnswerInv, AnswerTypeOK
    <2>8. ResponseInv' BY <1>1, <2>4 DEF ResponseInv, Early
    <2>9. OriginInv' BY <1>1, <2>4 DEF AnswerInv, OriginInv, NotFromHere, Answer!Internal
    <2>10. OutcomeInv' BY <1>1, <2>5 DEF OutcomeInv, NotFromHere
    <2> QED BY <2>7, <2>8, <2>9, <2>10 DEF AnswerInv
  <1> QED BY <1>2, <1>3 DEF Answer!TransportWrites

LEMMA TransportReturnsMoves == ASSUME AnswerInv, Answer!TransportReturns PROVE AnswerInv'
  <1>1. /\ pc = "transport" /\ pc' = "audit" /\ UNCHANGED <<req, written, level, ended, call, told>>
        /\ ~NotFromHere /\ ~Granted
    BY DEF Answer!TransportReturns, AnswerInv, OriginInv, OutcomeInv
  <1>2. Answer!WriteHeader(200) BY DEF Answer!TransportReturns, Answer!WriteHeader
  <1>3. /\ status' \in Nat /\ status' > 0 /\ (status # 0 => status' = status) /\ (status = 0 => status' = 200)
        /\ response' \in Responses /\ response'.status = status'
        /\ response'.cors = response.cors /\ response'.body = response.body
        /\ status = 0 => response.body = <<>> /\ ~written
    BY <1>2, HeaderMoves DEF Answer!WriteHeader, Answer!Sent
  <1>4. code' = "ok" => status' < 400
    <2>1. code' = Answer!Outcome(response') BY DEF Answer!TransportReturns
    <2>2. ended # None => ended # "ok" BY DEF AnswerInv, AnswerTypeOK
    <2> QED BY <1>3, <2>1, <2>2 DEF Answer!Outcome
  <1>5. AnswerTypeOK' BY <1>1, <1>3 DEF AnswerInv, AnswerTypeOK
  <1>6. ResponseInv' BY <1>1, <1>3 DEF AnswerInv, ResponseInv, Early
  <1>7. OriginInv' BY <1>1, <1>3 DEF AnswerInv, OriginInv, Answer!Internal
  <1>8. OutcomeInv' BY <1>1, <1>3, <1>4 DEF OutcomeInv, NotFromHere, Granted
  <1> QED BY <1>5, <1>6, <1>7, <1>8 DEF AnswerInv

LEMMA AuditMoves == ASSUME AnswerInv, Answer!Audit PROVE AnswerInv'
  <1>1. /\ pc = "audit" /\ pc' = "done" /\ UNCHANGED <<req, response, status, written, code, ended, call, told>>
        /\ level' = IF code \in Answer!securityFailureCodes THEN "warn" ELSE "info"
    BY DEF Answer!Audit
  <1>2. code \in Denials => level' = "warn" BY <1>1 DEF Denials, Answer!securityFailureCodes
  <1>3. AnswerTypeOK' /\ ResponseInv' BY <1>1 DEF AnswerInv, AnswerTypeOK, ResponseInv, Early
  <1>4. OriginInv' BY <1>1 DEF AnswerInv, OriginInv, Answer!Internal
  <1>5. OutcomeInv' BY <1>1, <1>2 DEF AnswerInv, OutcomeInv, NotFromHere, Granted
  <1> QED BY <1>3, <1>4, <1>5 DEF AnswerInv

(* The tool and the end of the context leave the response alone. *)
LEMMA CallsMove ==
    ASSUME AnswerInv, UNCHANGED <<req, pc, response, status, written, code, level>>,
           ended' \in {None, "timeout", "canceled"}
    PROVE  AnswerInv'
  BY DEF AnswerInv, AnswerTypeOK, ResponseInv, OriginInv, OutcomeInv, NotFromHere, Granted, Answer!Internal

LEMMA AnswerStep == ASSUME AnswerInv, [Answer!Next]_Answer!vars PROVE AnswerInv'
  <1>1. ended \in {None, "timeout", "canceled"} BY DEF AnswerInv, AnswerTypeOK
  <1>2. CASE UNCHANGED Answer!vars BY <1>1, <1>2, CallsMove DEF Answer!vars
  <1>3. CASE Answer!CallArrives BY <1>1, <1>3, CallsMove DEF Answer!CallArrives
  <1>4. CASE Answer!CallBegins BY <1>1, <1>4, CallsMove DEF Answer!CallBegins
  <1>5. CASE Answer!AfterFunc BY <1>1, <1>5, CallsMove DEF Answer!AfterFunc
  <1>6. CASE Answer!CallEnds BY <1>1, <1>6, CallsMove DEF Answer!CallEnds
  <1>7. CASE \E why \in {"timeout", "canceled"} : Answer!ContextEnds(why)
    BY <1>7, CallsMove DEF Answer!ContextEnds
  <1> QED BY <1>2, <1>3, <1>4, <1>5, <1>6, <1>7, BoundaryMoves, InternalMoves, OriginMoves, PathMoves, GuardedMoves,
             TransportWritesMoves, TransportReturnsMoves, AuditMoves DEF Answer!Next, Answer!Handler

LEMMA AnswerBegins == ASSUME Answer!Init PROVE AnswerInv
  <1>1. /\ req \in Answer!Requests /\ pc = "boundary" /\ status = 0 /\ written = FALSE /\ code = "ok" /\ ended = None
        /\ response = [status |-> 0, cors |-> FALSE, body |-> <<>>]
    BY DEF Answer!Init
  <1>2. response \in Responses /\ response.status = 0 /\ response.cors = FALSE /\ response.body = <<>>
    BY <1>1 DEF Responses
  <1>3. ~Granted BY <1>2 DEF Granted
  <1>4. AnswerTypeOK BY <1>1, <1>2 DEF AnswerTypeOK, Early
  <1>5. ResponseInv BY <1>1, <1>2 DEF ResponseInv, Early
  <1>6. OriginInv BY <1>1, <1>2 DEF OriginInv
  <1>7. OutcomeInv BY <1>1, <1>3 DEF OutcomeInv
  <1> QED BY <1>4, <1>5, <1>6, <1>7 DEF AnswerInv

(* While another part runs there is one request, which was refused. *)
AnswersInv == IF part = "answer" THEN AnswerInv ELSE AnswerRests

LEMMA AnswersStep == ASSUME AnswersInv, [Next]_vars PROVE AnswersInv'
  <1>1. part' = part BY DEF Next, vars
  <1>2. CASE part = "answer"
    <2>1. AnswerInv BY <1>2 DEF AnswersInv
    <2>2. [Answer!Next]_Answer!vars BY <1>2 DEF Next, vars, answerVars, Answer!vars
    <2> QED BY <1>1, <1>2, <2>1, <2>2, AnswerStep DEF AnswersInv
  <1>3. CASE part # "answer"
    <2>1. AnswerRests BY <1>3 DEF AnswersInv
    <2>2. UNCHANGED answerVars BY <1>3 DEF Next, vars
    <2>3. AnswerRests' BY <2>1, <2>2 DEF AnswerRests, answerVars
    <2> QED BY <1>1, <1>3, <2>3 DEF AnswersInv
  <1> QED BY <1>2, <1>3

LEMMA AnswerFits == AnswerInv => AnswersFitTheirReader
  <1> SUFFICES ASSUME AnswerInv PROVE AnswersFitTheirReader OBVIOUS
  <1> USE DEF AnswerInv
  <1>1. Answer!ServerToServerOnly BY DEF Answer!ServerToServerOnly, OriginInv, OutcomeInv, Granted, NotFromHere
  <1>2. Answer!ErrorsSayNothing
    <2>1. response.status \in Nat BY DEF AnswerTypeOK, Responses
    <2> QED BY <2>1 DEF ResponseInv, Answer!ErrorsSayNothing
  <1>3. response.body = <<"grant">> => Granted
    <2>1. 1 \in DOMAIN <<"grant">> /\ <<"grant">>[1] = "grant" OBVIOUS
    <2> QED BY <2>1 DEF Granted
  <1>4. Answer!AuditTellsTheOutcome
    BY <1>3 DEF ResponseInv, OutcomeInv, NotFromHere, Answer!AuditTellsTheOutcome
  <1> QED BY <1>1, <1>2, <1>4 DEF AnswersFitTheirReader

LEMMA RefusalFits == AnswerRests => AnswersFitTheirReader
  <1> SUFFICES ASSUME AnswerRests PROVE AnswersFitTheirReader OBVIOUS
  <1>1. /\ response.status = 403 /\ response.cors = FALSE /\ response.body = <<>>
        /\ code = "forbidden" /\ level = "warn" /\ ~req.local
    BY DEF AnswerRests
  <1>2. DOMAIN response.body = {} /\ response.body # <<"grant">>
    <2>1. DOMAIN <<>> = {} /\ Len(<<"grant">>) = 1 OBVIOUS
    <2> QED BY <1>1, <2>1
  <1>3. Answer!ServerToServerOnly BY <1>1, <1>2 DEF Answer!ServerToServerOnly
  <1>4. Answer!ErrorsSayNothing BY <1>1 DEF Answer!ErrorsSayNothing
  <1>5. Answer!AuditTellsTheOutcome BY <1>1, <1>2 DEF Answer!AuditTellsTheOutcome
  <1> QED BY <1>3, <1>4, <1>5 DEF AnswersFitTheirReader

(* Whatever the request, and in whatever order its checks, the transport, the *)
(* tool and the client go on: a delegation is granted only to a server of this *)
(* host that knows the secret, an error says its status once and nothing else, *)
(* and the audit tells what the client was told (internal_delegation.go,       *)
(* http.go:521, safeHTTPWriter, audit).                                        *)
THEOREM AnswersAlwaysFit == Spec => []AnswersFitTheirReader
  <1>1. Init => AnswersInv BY AnswerBegins DEF Init, AnswersInv
  <1>2. AnswersInv /\ [Next]_vars => AnswersInv' BY AnswersStep
  <1>3. AnswersInv => AnswersFitTheirReader BY AnswerFits, RefusalFits DEF AnswersInv
  <1> QED BY <1>1, <1>2, <1>3, PTL DEF Spec
-----------------------------------------------------------------------------
(* What the three programs are configured with, for any files, environments and *)
(* flags.                                                                        *)

Programs == {"server", "enroll", "revoke"}
StoreVars == {Secrets!AuthStore} \cup Secrets!PathVars(file["store_file"])

(* What is stated in a file that is being read: names a token may have, paths. *)
FileFits ==
    /\ {"token_env", "ca_file", "store_file"} \subseteq DOMAIN file
    /\ file["token_env"] = Unset \/ Secrets!validTokenEnvName(file["token_env"])
    /\ \A k \in {"ca_file", "store_file"} : file[k] = Unset \/ \E p \in Secrets!Paths \cup Values!Paths : file[k] = p

(* No load runs while the file is read; a load that ran has ended with a result, and *)
(* one that did not begin has looked up nothing.                                       *)
LoadsInOrder ==
    /\ phase \in {"reading", "loading", "stopped"}
    /\ DOMAIN looked = Programs /\ DOMAIN result \subseteq Programs
    /\ load \in Programs \cup {Unset}
    /\ load # Unset => phase = "loading" /\ load \notin DOMAIN result
    /\ \A l \in Programs :
         /\ l \in DOMAIN result => phase = "loading"
         /\ l \notin DOMAIN result /\ load # l => looked[l] = {}
         /\ looked[l] \subseteq DOMAIN env

StoreEnvFits == Secrets!AuthStore \in DOMAIN env => env[Secrets!AuthStore] \in {Unset, "blank", "abs", "rel"}

(* The steps of each load: only a server has a transport, and over stdio it skips the *)
(* store; revoke does nothing else.                                                     *)
StepsFit ==
    load # Unset =>
        /\ load = "revoke" => step = "store" /\ draft.transport = Unset
        /\ load = "enroll" => step \in {"backend", "store"} /\ draft.transport = Unset
        /\ load = "server" =>
             /\ step \in {"backend", "store", "dynamic", "delegation"}
             /\ draft.transport \in {"stdio", "http"}
             /\ draft.transport = "stdio" => step # "store"

(* What was looked up, by transport. *)
LookedOwn(d) ==
    /\ d.transport = "http" => looked["server"] \subseteq Secrets!ServerVars \cup StoreVars
    /\ d.transport = "stdio" => looked["server"] \subseteq Secrets!ServerVars \cup {Secrets!TokenVar}
LookedFits ==
    /\ load = "server" => LookedOwn(draft)
    /\ Secrets!Accepted("server") => LookedOwn(result["server"])
    /\ looked["revoke"] \subseteq StoreVars

(* What each step left in a configuration, and that it still follows from file and *)
(* environment.                                                                      *)
Elsewhere(place) == place.ref \notin {Secrets!TokenVar, Secrets!APIToken}
BackendIs(d) ==
    /\ {"ABLEOPS_BASE_URL", "ABLEOPS_ALLOW_HTTP"} \subseteq DOMAIN env
    /\ Secrets!Decides("ABLEOPS_BASE_URL", "base_url", d.url)
    /\ d.url = "loopback" => Secrets!Layered("ABLEOPS_ALLOW_HTTP", "allow_http") = "true"
    /\ d.token = IF d.transport = "http" THEN Unset ELSE Secrets!TokenVar
CAIs(d) == d.ca = Unset \/ Elsewhere(d.ca)
StoreAt(l) ==
    IF Secrets!Stated(env[Secrets!AuthStore])
    THEN [ref |-> Secrets!AuthStore, base |-> IF env[Secrets!AuthStore] = "abs" THEN "root" ELSE l]
    ELSE Secrets!Resolved(file["store_file"])
StoreIs(l, d) ==
    /\ StoreVars \subseteq DOMAIN env \/ (Secrets!AuthStore \in DOMAIN env /\ Secrets!Stated(env[Secrets!AuthStore]))
    /\ Secrets!Stated(env[Secrets!AuthStore])
       \/ (file["store_file"] # Unset /\ Secrets!Resolvable(file["store_file"]))
    /\ d.store = StoreAt(l)
DynamicIs(d) ==
    /\ {"ABLEOPS_DYNAMIC_OPERATIONS", "ABLEOPS_DYNAMIC_REFRESH_INTERVAL"} \subseteq DOMAIN env
    /\ Secrets!Decides("ABLEOPS_DYNAMIC_OPERATIONS", "operations", d.operations)
    /\ Secrets!Decides("ABLEOPS_DYNAMIC_REFRESH_INTERVAL", "refresh_interval", d.interval)
DelegationIs(d) ==
    /\ "ABLEOPS_WEB_DELEGATION_TTL" \in DOMAIN env
    /\ Secrets!Decides("ABLEOPS_WEB_DELEGATION_TTL", "ttl", d.ttl)
    /\ d.delegation \in BOOLEAN /\ d.secret = IF d.delegation THEN Secrets!SecretVar ELSE Unset
    /\ d.delegation => d.transport = "http"

DraftFits ==
    load # Unset =>
        /\ CAIs(draft)
        /\ load # "revoke" /\ step # "backend" => BackendIs(draft)
        /\ step \in {"dynamic", "delegation"} =>
               IF draft.transport = "http" THEN StoreIs(load, draft) ELSE draft.store = Unset
        /\ step \in {"backend", "store"} => draft.store = Unset
        /\ step = "delegation" => DynamicIs(draft)
ResultFits(l, d) ==
    /\ CAIs(d)
    /\ d.store = Unset \/ StoreIs(l, d)
    /\ l = "server" =>
         /\ d.transport \in {"stdio", "http"}
         /\ BackendIs(d) /\ DynamicIs(d) /\ DelegationIs(d)
         /\ IF d.transport = "http" THEN StoreIs(l, d) ELSE d.store = Unset
ResultsFit == \A l \in Programs : Secrets!Accepted(l) => ResultFits(l, result[l])

SettingsInv ==
    /\ FileFits /\ LoadsInOrder /\ StoreEnvFits /\ StepsFit /\ LookedFits /\ DraftFits /\ ResultsFit

(* The steps of both instances in one form. *)
KeyRead ==
    /\ phase = "reading" /\ phase' \in {"reading", "stopped"}
    /\ \/ file' = file
       \/ \E k, v :
            /\ Secrets!ValidEntry(k, v) /\ file' = [file EXCEPT ![k] = v]
            /\ k \in {"ca_file", "store_file"} => v \in Secrets!Paths \cup Values!Paths
    /\ UNCHANGED <<env, load, step, draft, looked, result>>
Began(l) ==
    /\ phase = "loading" /\ load = Unset /\ l \notin DOMAIN result
    /\ load' = l
    /\ IF l = "server"
       THEN \E o : \E t \in {"stdio", "http"} : draft' = [Secrets!Empty EXCEPT !.transport = t, !.origins = o]
       ELSE draft' = Secrets!Empty
    /\ step' = IF l = "revoke" THEN "store" ELSE "backend"
    /\ UNCHANGED <<file, phase, env, looked, result>>
LookedUp(v) ==
    /\ load # Unset /\ v \in Secrets!Needs
    /\ looked' = [looked EXCEPT ![load] = @ \cup {v}]
    /\ \/ v \in DOMAIN env /\ env' = env
       \/ \E val : /\ v = Secrets!AuthStore => val \in {Unset, "blank", "abs", "rel"}
                   /\ v \notin DOMAIN env /\ env' = [w \in DOMAIN env \cup {v} |-> IF w = v THEN val ELSE env[w]]
    /\ UNCHANGED <<file, phase, load, step, draft, result>>

LEMMA BothRead ==
    ASSUME (\E k \in DOMAIN SecretKeys : \E v \in SecretKeys[k] : Secrets!ReadKey(k, v))
           \/ (\E k \in DOMAIN ValueKeys : \E v \in ValueKeys[k] : Values!ReadKey(k, v))
    PROVE  KeyRead
  <1>1. CASE \E k \in DOMAIN SecretKeys : \E v \in SecretKeys[k] : Secrets!ReadKey(k, v)
    <2>1. PICK k \in DOMAIN SecretKeys : \E v \in SecretKeys[k] : Secrets!ReadKey(k, v) BY <1>1
    <2>2. PICK v \in SecretKeys[k] : Secrets!ReadKey(k, v) BY <2>1
    <2>3. k \in {"ca_file", "store_file"} => v \in Secrets!Paths
      BY <2>2, SettingsAssumption DEF Secrets!ConfigAssumption
    <2> QED BY <2>2, <2>3 DEF KeyRead, Secrets!ReadKey
  <1>2. CASE \E k \in DOMAIN ValueKeys : \E v \in ValueKeys[k] : Values!ReadKey(k, v)
    <2>1. PICK k \in DOMAIN ValueKeys : \E v \in ValueKeys[k] : Values!ReadKey(k, v) BY <1>2
    <2>2. PICK v \in ValueKeys[k] : Values!ReadKey(k, v) BY <2>1
    <2>3. k \in {"ca_file", "store_file"} => v \in Values!Paths
      BY <2>2, SettingsAssumption DEF Values!ConfigAssumption
    <2>4. Values!ValidEntry(k, v) <=> Secrets!ValidEntry(k, v)
      BY DEF Values!ValidEntry, Secrets!ValidEntry, Values!validTokenEnvName, Secrets!validTokenEnvName,
             Values!validSecretEnvName, Secrets!validSecretEnvName, Values!Settings, Secrets!Settings,
             Values!BackendVars, Secrets!BackendVars, Values!DynamicVars, Secrets!DynamicVars,
             Values!DelegationVars, Secrets!DelegationVars, Values!AuthStore, Secrets!AuthStore,
             Values!CAFile, Secrets!CAFile, Values!APIToken, Secrets!APIToken
    <2> QED BY <2>2, <2>3, <2>4 DEF KeyRead, Values!ReadKey
  <1> QED BY <1>1, <1>2

LEMMA BothBegin ==
    ASSUME NEW l, Secrets!Begin(l) \/ Values!Begin(l)
    PROVE  Began(l)
  <1>1. CASE Secrets!Begin(l) BY <1>1 DEF Secrets!Begin, Began
  <1>2. CASE Values!Begin(l)
    <2>1. Values!Empty = Secrets!Empty BY DEF Values!Empty, Secrets!Empty
    <2> QED BY <1>2, <2>1 DEF Values!Begin, Began
  <1> QED BY <1>1, <1>2

LEMMA BothNeed == Values!Needs = Secrets!Needs
  BY Zenon DEF Values!Needs, Secrets!Needs, Values!CAFile, Secrets!CAFile, Values!BackendVars, Secrets!BackendVars,
         Values!CredentialVars, Secrets!CredentialVars, Values!TokenVar, Secrets!TokenVar,
         Values!APIToken, Secrets!APIToken, Values!Known, Secrets!Known, Values!Stated, Secrets!Stated,
         Values!PathVars, Secrets!PathVars, Values!Reserved, Secrets!Reserved, Values!AuthStore, Secrets!AuthStore,
         Values!DynamicVars, Secrets!DynamicVars, Values!DelegationVars, Secrets!DelegationVars,
         Values!SecretVar, Secrets!SecretVar, Values!DelegationSecret, Secrets!DelegationSecret

LEMMA BothLook ==
    ASSUME Secrets!Getenv \/ Values!Getenv
    PROVE  \E v : LookedUp(v)
  <1>1. CASE Secrets!Getenv
    <2>1. PICK v : v = CHOOSE w \in Secrets!Needs \ looked[load] : TRUE OBVIOUS
    <2>2. v \in Secrets!Needs BY <1>1, <2>1 DEF Secrets!Getenv
    <2>3. SecretVars[Secrets!AuthStore] \subseteq {Unset, "blank", "abs", "rel"}
      BY SettingsAssumption DEF Secrets!ConfigAssumption
    <2>4. LookedUp(v) BY <1>1, <2>1, <2>2, <2>3 DEF Secrets!Getenv, LookedUp
    <2> QED BY <2>4
  <1>2. CASE Values!Getenv
    <2>1. PICK v : v = CHOOSE w \in Values!Needs \ looked[load] : TRUE OBVIOUS
    <2>2. v \in Values!Needs BY <1>2, <2>1 DEF Values!Getenv
    <2>3. ValueVars[Secrets!AuthStore] \subseteq {Unset, "blank", "abs", "rel"}
      BY SettingsAssumption DEF Values!ConfigAssumption, Values!AuthStore, Secrets!AuthStore
    <2>4. LookedUp(v) BY <1>2, <2>1, <2>2, <2>3, BothNeed DEF Values!Getenv, LookedUp
    <2> QED BY <2>4
  <1> QED BY <1>1, <1>2

(* The conditions and results of a step are the same in both. *)
LEMMA BothStep ==
    ASSUME Values!LoadStep
    PROVE  Secrets!LoadStep
  <1> USE DEF Values!Reading, Secrets!Reading, Values!Continue, Secrets!Continue, Values!Finish, Secrets!Finish,
         Values!Empty, Secrets!Empty,
         Values!Layered, Secrets!Layered, Values!Stated, Secrets!Stated, Values!Flag, Secrets!Flag
  <1>1. CASE Values!Backend
    BY <1>1, BothNeed, Zenon
       DEF Values!LoadStep, Secrets!LoadStep, Values!Backend, Secrets!Backend, Values!TokenVar, Secrets!TokenVar,
         Values!APIToken, Secrets!APIToken, Values!CAFile, Secrets!CAFile, Values!Resolvable, Secrets!Resolvable,
         Values!Resolved, Secrets!Resolved, Values!FromEnv, Secrets!FromEnv, Values!Reserved, Secrets!Reserved
  <1>2. CASE Values!authStore
    BY <1>2, BothNeed, Zenon
       DEF Values!LoadStep, Secrets!LoadStep, Values!authStore, Secrets!authStore, Values!StoreLocation,
         Secrets!StoreLocation, Values!AuthStore, Secrets!AuthStore, Values!Resolvable, Secrets!Resolvable,
         Values!Resolved, Secrets!Resolved, Values!FromEnv, Secrets!FromEnv, Values!Reserved, Secrets!Reserved,
         Values!APIToken, Secrets!APIToken
  <1>3. CASE Values!loadDynamic
    BY <1>3, BothNeed, Zenon
       DEF Values!LoadStep, Secrets!LoadStep, Values!loadDynamic, Secrets!loadDynamic, Values!Operations, Secrets!Operations
  <1>4. CASE Values!loadWebDelegation
    BY <1>4, BothNeed, Zenon
       DEF Values!LoadStep, Secrets!LoadStep, Values!loadWebDelegation, Secrets!loadWebDelegation,
         Values!SecretVar, Secrets!SecretVar, Values!DelegationSecret, Secrets!DelegationSecret,
         Values!DelegationFits, Secrets!DelegationFits
  <1> QED BY <1>1, <1>2, <1>3, <1>4 DEF Values!LoadStep

LEMMA SettingsSteps ==
    ASSUME SettingsNext
    PROVE  \/ KeyRead \/ Secrets!EndOfFile \/ (\E l \in Programs : Began(l)) \/ (\E v : LookedUp(v))
           \/ Secrets!LoadStep
  <1>1. CASE Secrets!Next
    BY <1>1, BothRead, BothBegin, BothLook DEF Secrets!Next, Programs, Secrets!Loads
  <1>2. CASE Values!Next
    <2>1. Values!EndOfFile => Secrets!EndOfFile
      BY Zenon DEF Values!EndOfFile, Secrets!EndOfFile, Values!Seen, Secrets!Seen
    <2> QED BY <1>2, <2>1, BothRead, BothBegin, BothLook, BothStep DEF Values!Next, Programs, Values!Loads
  <1> QED BY <1>1, <1>2 DEF SettingsNext

-----------------------------------------------------------------------------
(* The invariant, step by step. *)

LEMMA UnsetIsNoWord ==
    /\ Unset \notin Programs \cup {"backend", "store", "dynamic", "delegation"}
    /\ Unset \notin {Secrets!APIToken, Secrets!DelegationSecret}
  BY SettingsAssumption DEF Secrets!ConfigAssumption, Secrets!Loads, Programs

(* Nothing was looked up or loaded yet: only the file matters. *)
LEMMA NothingLoaded ==
    ASSUME load = Unset, phase \in {"reading", "loading", "stopped"}, DOMAIN looked = Programs, DOMAIN result \subseteq Programs,
           \A l \in Programs : l \notin DOMAIN result /\ looked[l] = {}, StoreEnvFits, FileFits
    PROVE  SettingsInv
  <1>1. LoadsInOrder BY DEF LoadsInOrder
  <1>2. \A l \in Programs : ~Secrets!Accepted(l) BY DEF Secrets!Accepted
  <1>3. load # "server" BY UnsetIsNoWord DEF Programs
  <1>4. StepsFit /\ DraftFits BY DEF StepsFit, DraftFits
  <1>5. LookedFits BY <1>2, <1>3 DEF LookedFits, Programs
  <1>6. ResultsFit BY <1>2 DEF ResultsFit
  <1> QED BY <1>1, <1>4, <1>5, <1>6 DEF SettingsInv

LEMMA SettingsAtStart ==
    ASSUME SettingsInit
    PROVE  SettingsInv
  <1>1. /\ load = Unset /\ phase = "reading" /\ env = <<>>
        /\ looked = [l \in Programs |-> {}] /\ result = <<>>
        /\ file = [k \in DOMAIN SecretKeys |-> Unset]
    BY DEF SettingsInit, Secrets!Init, Secrets!Loads, Programs
  <1>2. FileFits BY <1>1, SettingsAssumption DEF FileFits, Secrets!ConfigAssumption
  <1>3. StoreEnvFits BY <1>1 DEF StoreEnvFits
  <1>4. \A l \in Programs : l \notin DOMAIN result BY <1>1 DEF Programs
  <1>5. DOMAIN result \subseteq Programs BY <1>1
  <1>6. DOMAIN looked = Programs /\ \A l \in Programs : looked[l] = {} BY <1>1
  <1>7. load = Unset /\ phase \in {"reading", "loading", "stopped"} BY <1>1
  <1> QED BY <1>2, <1>3, <1>4, <1>5, <1>6, <1>7, NothingLoaded

LEMMA ReadStep ==
    ASSUME SettingsInv, KeyRead
    PROVE  SettingsInv'
  <1>1. /\ load = Unset /\ \A l \in Programs : l \notin DOMAIN result /\ looked[l] = {}
        /\ DOMAIN looked = Programs /\ DOMAIN result \subseteq Programs
    BY UnsetIsNoWord DEF SettingsInv, LoadsInOrder, KeyRead
  <1>2. FileFits'
    <2>1. CASE file' = file BY <2>1 DEF SettingsInv, FileFits
    <2>2. CASE file' # file
      <3>1. PICK k, v :
              /\ Secrets!ValidEntry(k, v) /\ file' = [file EXCEPT ![k] = v]
              /\ k \in {"ca_file", "store_file"} => v \in Secrets!Paths \cup Values!Paths
        BY <2>2 DEF KeyRead
      <3>2. k = "token_env" => Secrets!validTokenEnvName(v) BY <3>1 DEF Secrets!ValidEntry
      <3>3. {"token_env", "ca_file", "store_file"} \subseteq DOMAIN file' BY <3>1 DEF SettingsInv, FileFits
      <3>4. \A j \in {"token_env", "ca_file", "store_file"} : file'[j] = IF j = k THEN v ELSE file[j]
        BY <3>1 DEF SettingsInv, FileFits
      <3>5. file'["token_env"] = Unset \/ Secrets!validTokenEnvName(file["token_env"])'
        BY <3>2, <3>4 DEF SettingsInv, FileFits, Secrets!validTokenEnvName
      <3>6. \A j \in {"ca_file", "store_file"} : file'[j] = Unset \/ \E p \in Secrets!Paths \cup Values!Paths : file'[j] = p
        BY <3>1, <3>4 DEF SettingsInv, FileFits
      <3> QED BY <3>3, <3>5, <3>6 DEF FileFits
    <2> QED BY <2>1, <2>2
  <1>3. StoreEnvFits' BY DEF SettingsInv, StoreEnvFits, KeyRead
  <1>4. /\ load' = Unset /\ phase' \in {"reading", "loading", "stopped"} /\ DOMAIN looked' = Programs /\ DOMAIN result' \subseteq Programs
        /\ \A l \in Programs : l \notin DOMAIN result' /\ looked'[l] = {}
    BY <1>1 DEF KeyRead
  <1>5. LoadsInOrder' BY <1>4 DEF LoadsInOrder
  <1>6. \A l \in Programs : ~Secrets!Accepted(l)' BY <1>4 DEF Secrets!Accepted
  <1>7. load' # "server" BY <1>4, UnsetIsNoWord DEF Programs
  <1>8. StepsFit' /\ DraftFits' BY <1>4 DEF StepsFit, DraftFits
  <1>9. LookedFits' BY <1>4, <1>6, <1>7 DEF LookedFits, Programs
  <1>10. ResultsFit' BY <1>6 DEF ResultsFit
  <1> QED BY <1>2, <1>3, <1>5, <1>8, <1>9, <1>10 DEF SettingsInv

LEMMA FileEndStep ==
    ASSUME SettingsInv, Secrets!EndOfFile
    PROVE  SettingsInv'
  <1>1. /\ load = Unset /\ \A l \in Programs : l \notin DOMAIN result /\ looked[l] = {}
        /\ DOMAIN looked = Programs /\ DOMAIN result \subseteq Programs
    BY UnsetIsNoWord DEF SettingsInv, LoadsInOrder, Secrets!EndOfFile
  <1>2. FileFits' /\ StoreEnvFits'
    BY DEF SettingsInv, FileFits, StoreEnvFits, Secrets!EndOfFile, Secrets!validTokenEnvName
  <1>3. /\ load' = Unset /\ phase' = "loading" /\ DOMAIN looked' = Programs /\ DOMAIN result' \subseteq Programs
        /\ \A l \in Programs : l \notin DOMAIN result' /\ looked'[l] = {}
    BY <1>1 DEF Secrets!EndOfFile
  <1>4. LoadsInOrder' BY <1>3 DEF LoadsInOrder
  <1>5. \A l \in Programs : ~Secrets!Accepted(l)' BY <1>3 DEF Secrets!Accepted
  <1>6. load' # "server" BY <1>3, UnsetIsNoWord DEF Programs
  <1>7. StepsFit' /\ DraftFits' BY <1>3 DEF StepsFit, DraftFits
  <1>8. LookedFits' BY <1>3, <1>5, <1>6 DEF LookedFits, Programs
  <1>9. ResultsFit' BY <1>5 DEF ResultsFit
  <1> QED BY <1>2, <1>4, <1>7, <1>8, <1>9 DEF SettingsInv

(* What was put together stays true while variables are looked up, since those it *)
(* was put together from are known.                                                *)
LEMMA FactsStay ==
    ASSUME UNCHANGED file, DOMAIN env \subseteq DOMAIN env', \A w \in DOMAIN env : env'[w] = env[w]
    PROVE  /\ \A d : BackendIs(d) => BackendIs(d)'
           /\ \A d : CAIs(d) => CAIs(d)'
           /\ \A l, d : StoreIs(l, d) => StoreIs(l, d)'
           /\ \A d : DynamicIs(d) => DynamicIs(d)'
           /\ \A d : DelegationIs(d) => DelegationIs(d)'
           /\ \A l, d : ResultFits(l, d) => ResultFits(l, d)'
  <1>1. ASSUME NEW d, BackendIs(d) PROVE BackendIs(d)'
    BY <1>1 DEF BackendIs, Secrets!Decides, Secrets!Layered, Secrets!Stated, Secrets!TokenVar
  <1>2. ASSUME NEW d, CAIs(d) PROVE CAIs(d)'
    BY <1>2 DEF CAIs, Elsewhere, Secrets!TokenVar, Secrets!APIToken
  <1>3. ASSUME NEW l, NEW d, StoreIs(l, d) PROVE StoreIs(l, d)'
    <2> DEFINE A == Secrets!AuthStore
               p == file["store_file"]
    <2>1. A \in DOMAIN env BY <1>3 DEF StoreIs, StoreVars
    <2>2. env'[A] = env[A] /\ (Secrets!Stated(env[A]))' = Secrets!Stated(env[A]) BY <2>1 DEF Secrets!Stated, Secrets!AuthStore
    <2>3. StoreVars' = StoreVars BY DEF StoreVars, Secrets!PathVars, Secrets!Reserved, Secrets!APIToken, Secrets!AuthStore
    <2>4. CASE Secrets!Stated(env[A])
      <3>1. StoreAt(l)' = StoreAt(l) BY <2>2, <2>4 DEF StoreAt, Secrets!AuthStore
      <3> QED BY <1>3, <2>1, <2>2, <2>4, <3>1 DEF StoreIs, Secrets!AuthStore
    <2>5. CASE ~Secrets!Stated(env[A])
      <3>1. p # Unset /\ Secrets!Resolvable(p) /\ StoreVars \subseteq DOMAIN env BY <1>3, <2>5 DEF StoreIs
      <3>2. p.ref = Unset \/ (~Secrets!Reserved(p.ref) /\ p.ref \in DOMAIN env)
        BY <3>1 DEF Secrets!Resolvable, StoreVars, Secrets!PathVars
      <3>3. Secrets!Resolved(p)' = Secrets!Resolved(p) BY <3>2 DEF Secrets!Resolved
      <3>4. (p # Unset /\ Secrets!Resolvable(p))'
        BY <3>1, <3>2 DEF Secrets!Resolvable, Secrets!Reserved, Secrets!Stated, Secrets!APIToken
      <3>5. StoreAt(l)' = StoreAt(l) BY <2>2, <2>5, <3>3 DEF StoreAt, Secrets!AuthStore
      <3> QED BY <1>3, <2>3, <3>1, <3>4, <3>5 DEF StoreIs
    <2> QED BY <2>4, <2>5
  <1>4. ASSUME NEW d, DynamicIs(d) PROVE DynamicIs(d)'
    BY <1>4 DEF DynamicIs, Secrets!Decides, Secrets!Stated
  <1>5. ASSUME NEW d, DelegationIs(d) PROVE DelegationIs(d)'
    BY <1>5 DEF DelegationIs, Secrets!Decides, Secrets!Stated, Secrets!SecretVar
  <1>6. ASSUME NEW l, NEW d, ResultFits(l, d) PROVE ResultFits(l, d)'
    BY <1>1, <1>2, <1>3, <1>4, <1>5, <1>6 DEF ResultFits
  <1> QED BY <1>1, <1>2, <1>3, <1>4, <1>5, <1>6

LEMMA BeginStep ==
    ASSUME SettingsInv, NEW l \in Programs, Began(l)
    PROVE  SettingsInv'
  <1>0. UNCHANGED <<file, env, phase, looked, result>> /\ load = Unset /\ load' = l /\ l \notin DOMAIN result /\ phase = "loading"
    BY DEF Began
  <1>1. FileFits' /\ StoreEnvFits'
    BY <1>0 DEF SettingsInv, FileFits, StoreEnvFits, Secrets!validTokenEnvName
  <1>2. LoadsInOrder' BY <1>0, UnsetIsNoWord DEF SettingsInv, LoadsInOrder
  <1>3. looked[l] = {} BY <1>0, UnsetIsNoWord DEF SettingsInv, LoadsInOrder
  <1>4. /\ draft'.ca = Unset /\ draft'.store = Unset
        /\ IF l = "server" THEN draft'.transport \in {"stdio", "http"} ELSE draft'.transport = Unset
        /\ step' = IF l = "revoke" THEN "store" ELSE "backend"
    <2>1. CASE l = "server"
      <3>1. PICK o : \E t \in {"stdio", "http"} : draft' = [Secrets!Empty EXCEPT !.transport = t, !.origins = o]
        BY <2>1 DEF Began
      <3>2. PICK t \in {"stdio", "http"} : draft' = [Secrets!Empty EXCEPT !.transport = t, !.origins = o] BY <3>1
      <3>3. draft'.ca = Unset /\ draft'.store = Unset /\ draft'.transport = t BY <3>2 DEF Secrets!Empty
      <3> QED BY <2>1, <3>3 DEF Began
    <2>2. CASE l # "server" BY <2>2 DEF Began, Secrets!Empty
    <2> QED BY <2>1, <2>2
  <1>5. StepsFit' BY <1>0, <1>4 DEF StepsFit, Programs
  <1>6. DraftFits' BY <1>0, <1>4 DEF DraftFits, CAIs
  <1>7. LookedFits'
    <2>1. l = "server" => LookedOwn(draft)' BY <1>0, <1>3 DEF LookedOwn
    <2>2. Secrets!Accepted("server")' => LookedOwn(result["server"])'
      BY <1>0 DEF SettingsInv, LookedFits, Secrets!Accepted, LookedOwn, StoreVars, Secrets!ServerVars, Secrets!PathVars,
                  Secrets!Reserved, Secrets!TokenVar, Secrets!SecretVar
    <2>3. looked'["revoke"] \subseteq StoreVars'
      BY <1>0 DEF SettingsInv, LookedFits, StoreVars, Secrets!PathVars, Secrets!Reserved
    <2> QED BY <1>0, <2>1, <2>2, <2>3 DEF LookedFits
  <1>8. ResultsFit'
    <2> SUFFICES ASSUME NEW k \in Programs, Secrets!Accepted(k)' PROVE ResultFits(k, result[k])'
      BY DEF ResultsFit
    <2>1. PICK d : d = result[k] OBVIOUS
    <2>2. ResultFits(k, d) BY <1>0, <2>1 DEF SettingsInv, ResultsFit, Secrets!Accepted
    <2>3. ResultFits(k, d)' BY <1>0, <2>2, FactsStay
    <2> QED BY <1>0, <2>1, <2>3
  <1> QED BY <1>1, <1>2, <1>5, <1>6, <1>7, <1>8 DEF SettingsInv

(* A step needs what belongs to its load. *)
LEMMA NeedsFit ==
    ASSUME StepsFit, load \in Programs
    PROVE  /\ load = "revoke" => Secrets!Needs \subseteq StoreVars
           /\ load = "server" /\ draft.transport = "http" => Secrets!Needs \subseteq Secrets!ServerVars \cup StoreVars
           /\ load = "server" /\ draft.transport = "stdio" =>
                  Secrets!Needs \subseteq Secrets!ServerVars \cup {Secrets!TokenVar}
  <1>0. load # Unset BY UnsetIsNoWord
  <1>1. step = "store" => Secrets!Needs \subseteq StoreVars BY DEF Secrets!Needs, StoreVars
  <1>2. step = "backend" => Secrets!Needs \subseteq Secrets!ServerVars \cup Secrets!CredentialVars
    BY DEF Secrets!Needs, Secrets!ServerVars
  <1>3. step = "dynamic" => Secrets!Needs \subseteq Secrets!ServerVars BY DEF Secrets!Needs, Secrets!ServerVars
  <1>4. step = "delegation" => Secrets!Needs \subseteq Secrets!ServerVars BY DEF Secrets!Needs, Secrets!ServerVars
  <1>5. Secrets!CredentialVars = IF draft.transport = "http" THEN {} ELSE {Secrets!TokenVar} BY DEF Secrets!CredentialVars
  <1>6. CASE load = "revoke" BY <1>0, <1>1, <1>6 DEF StepsFit
  <1>7. CASE load = "enroll" BY <1>7
  <1>8. CASE load = "server"
    <2>1. step \in {"backend", "store", "dynamic", "delegation"} /\ (draft.transport = "stdio" => step # "store")
      BY <1>0, <1>8 DEF StepsFit
    <2> QED BY <1>1, <1>2, <1>3, <1>4, <1>5, <1>8, <2>1
  <1> QED BY <1>6, <1>7, <1>8 DEF Programs

LEMMA LookStep ==
    ASSUME SettingsInv, NEW v, LookedUp(v)
    PROVE  SettingsInv'
  <1>0. UNCHANGED <<file, phase, load, step, draft, result>> /\ load # Unset /\ v \in Secrets!Needs
    BY DEF LookedUp
  <1>1. load \in Programs BY <1>0 DEF SettingsInv, LoadsInOrder
  <1>2. /\ DOMAIN env' = DOMAIN env \cup {v} /\ \A w \in DOMAIN env : env'[w] = env[w]
        /\ v = Secrets!AuthStore /\ v \notin DOMAIN env => env'[v] \in {Unset, "blank", "abs", "rel"}
    BY DEF LookedUp
  <1>3. /\ DOMAIN looked' = Programs
        /\ \A l \in Programs : looked'[l] = IF l = load THEN looked[l] \cup {v} ELSE looked[l]
    BY <1>1 DEF LookedUp, SettingsInv, LoadsInOrder
  <1>4. FileFits' BY <1>0 DEF SettingsInv, FileFits, Secrets!validTokenEnvName
  <1>5. LoadsInOrder' BY <1>0, <1>1, <1>2, <1>3 DEF SettingsInv, LoadsInOrder
  <1>6. StoreEnvFits' BY <1>2 DEF SettingsInv, StoreEnvFits, Secrets!AuthStore
  <1>7. StepsFit' BY <1>0 DEF SettingsInv, StepsFit
  <1>8. LookedFits'
    <2>1. /\ StoreVars' = StoreVars /\ Secrets!ServerVars' = Secrets!ServerVars /\ Secrets!TokenVar' = Secrets!TokenVar
      BY <1>0 DEF StoreVars, Secrets!PathVars, Secrets!Reserved, Secrets!ServerVars, Secrets!SecretVar, Secrets!TokenVar
    <2>2. \A l \in Programs : l # load => looked'[l] = looked[l] BY <1>3
    <2>3. looked'["revoke"] \subseteq StoreVars'
      BY <1>1, <1>0, <1>3, <2>1, NeedsFit DEF SettingsInv, LookedFits, Programs
    <2>4. load = "server" => LookedOwn(draft)'
      BY <1>0, <1>1, <1>3, <2>1, NeedsFit DEF SettingsInv, LookedFits, LookedOwn, Programs
    <2>5. Secrets!Accepted("server")' => LookedOwn(result["server"])'
      <3>1. SUFFICES ASSUME Secrets!Accepted("server") PROVE LookedOwn(result["server"])'
        BY <1>0 DEF Secrets!Accepted
      <3>2. load # "server" BY <1>0, <3>1, UnsetIsNoWord DEF SettingsInv, LoadsInOrder, Secrets!Accepted
      <3>3. looked'["server"] = looked["server"] BY <2>2, <3>2 DEF Programs
      <3> QED BY <1>0, <2>1, <3>1, <3>3 DEF SettingsInv, LookedFits, LookedOwn
    <2> QED BY <1>0, <2>3, <2>4, <2>5 DEF LookedFits
  <1>9. DraftFits'
    <2>1. PICK d : d = draft OBVIOUS
    <2>2. PICK l : l = load OBVIOUS
    <2>3. /\ CAIs(d) => CAIs(d)'
          /\ BackendIs(d) => BackendIs(d)'
          /\ StoreIs(l, d) => StoreIs(l, d)'
          /\ DynamicIs(d) => DynamicIs(d)'
      BY <1>0, <1>2, FactsStay
    <2>4. /\ CAIs(d)
          /\ l # "revoke" /\ step # "backend" => BackendIs(d)
          /\ step \in {"dynamic", "delegation"} =>
                 IF d.transport = "http" THEN StoreIs(l, d) ELSE d.store = Unset
          /\ step \in {"backend", "store"} => d.store = Unset
          /\ step = "delegation" => DynamicIs(d)
      BY <1>0, <2>1, <2>2 DEF SettingsInv, DraftFits
    <2>5. d = draft' /\ l = load' /\ step' = step BY <1>0, <2>1, <2>2
    <2> QED BY <2>3, <2>4, <2>5 DEF DraftFits
  <1>10. ResultsFit'
    <2> SUFFICES ASSUME NEW k \in Programs, Secrets!Accepted(k)' PROVE ResultFits(k, result[k])'
      BY DEF ResultsFit
    <2>1. PICK d : d = result[k] OBVIOUS
    <2>2. ResultFits(k, d) BY <1>0, <2>1 DEF SettingsInv, ResultsFit, Secrets!Accepted
    <2>3. ResultFits(k, d)' BY <1>0, <1>2, <2>2, FactsStay
    <2> QED BY <1>0, <2>1, <2>3
  <1> QED BY <1>4, <1>5, <1>6, <1>7, <1>8, <1>9, <1>10 DEF SettingsInv

(* A load ends with a configuration that fits, or refused. *)
LEMMA EndStep ==
    ASSUME SettingsInv, load \in Programs, NEW d, d # Refused => ResultFits(load, d),
           load = "server" /\ d # Refused => LookedOwn(d), Secrets!Finish(d)
    PROVE  SettingsInv'
  <1>0. UNCHANGED <<file, phase, env, looked>> /\ load' = Unset BY DEF Secrets!Finish
  <1>1. PICK l : l = load OBVIOUS
  <1>2. /\ DOMAIN result' = DOMAIN result \cup {l} /\ result'[l] = d
        /\ \A k \in DOMAIN result : k # l => result'[k] = result[k]
    BY <1>1 DEF Secrets!Finish
  <1>3. FileFits' /\ StoreEnvFits'
    BY <1>0 DEF SettingsInv, FileFits, StoreEnvFits, Secrets!validTokenEnvName
  <1>4. LoadsInOrder' BY <1>0, <1>1, <1>2, UnsetIsNoWord DEF SettingsInv, LoadsInOrder
  <1>5. load' # "server" BY <1>0, UnsetIsNoWord DEF Programs
  <1>6. StepsFit' /\ DraftFits' BY <1>0 DEF StepsFit, DraftFits
  <1>7. StoreVars' = StoreVars /\ Secrets!ServerVars' = Secrets!ServerVars /\ Secrets!TokenVar' = Secrets!TokenVar
    BY <1>0 DEF StoreVars, Secrets!PathVars, Secrets!Reserved, Secrets!ServerVars, Secrets!SecretVar, Secrets!TokenVar
  <1>8. LookedFits'
    <2>1. ASSUME Secrets!Accepted("server")' PROVE LookedOwn(result["server"])'
      <3>1. CASE l = "server"
        <4>1. LookedOwn(d) BY <1>1, <1>2, <2>1, <3>1 DEF Secrets!Accepted
        <4>2. LookedOwn(d)' BY <1>0, <1>7, <4>1 DEF LookedOwn
        <4> QED BY <1>2, <3>1, <4>2
      <3>2. CASE l # "server"
        <4>1. Secrets!Accepted("server") /\ result'["server"] = result["server"]
          BY <1>2, <2>1, <3>2 DEF Secrets!Accepted
        <4> QED BY <1>0, <1>7, <4>1 DEF SettingsInv, LookedFits, LookedOwn
      <3> QED BY <3>1, <3>2
    <2>2. looked'["revoke"] \subseteq StoreVars' BY <1>0, <1>7 DEF SettingsInv, LookedFits
    <2> QED BY <1>5, <2>1, <2>2 DEF LookedFits
  <1>9. ResultsFit'
    <2> SUFFICES ASSUME NEW k \in Programs, Secrets!Accepted(k)' PROVE ResultFits(k, result[k])'
      BY DEF ResultsFit
    <2>1. CASE k = l
      <3>1. ResultFits(k, d) BY <1>1, <1>2, <2>1 DEF Secrets!Accepted
      <3>2. ResultFits(k, d)' BY <1>0, <3>1, FactsStay
      <3> QED BY <1>2, <2>1, <3>2
    <2>2. CASE k # l
      <3>1. PICK c : c = result[k] OBVIOUS
      <3>2. k \in DOMAIN result /\ result'[k] = c /\ c # Refused BY <1>2, <2>2, <3>1 DEF Secrets!Accepted
      <3>3. ResultFits(k, c) BY <3>1, <3>2 DEF SettingsInv, ResultsFit, Secrets!Accepted
      <3>4. ResultFits(k, c)' BY <1>0, <3>3, FactsStay
      <3> QED BY <3>2, <3>4
    <2> QED BY <2>1, <2>2
  <1> QED BY <1>3, <1>4, <1>6, <1>8, <1>9 DEF SettingsInv

(* A load goes on with its next step. *)
LEMMA GoOn ==
    ASSUME SettingsInv, load \in Programs, StepsFit', DraftFits', draft'.transport = draft.transport,
           UNCHANGED <<file, phase, env, load, looked, result>>
    PROVE  SettingsInv'
  <1>1. FileFits' /\ StoreEnvFits' /\ LoadsInOrder'
    BY DEF SettingsInv, FileFits, StoreEnvFits, LoadsInOrder, Secrets!validTokenEnvName
  <1>2. StoreVars' = StoreVars /\ Secrets!ServerVars' = Secrets!ServerVars /\ Secrets!TokenVar' = Secrets!TokenVar
    BY DEF StoreVars, Secrets!PathVars, Secrets!Reserved, Secrets!ServerVars, Secrets!SecretVar, Secrets!TokenVar
  <1>3. LookedFits' BY <1>2 DEF SettingsInv, LookedFits, LookedOwn, Secrets!Accepted
  <1>4. ResultsFit'
    <2> SUFFICES ASSUME NEW k \in Programs, Secrets!Accepted(k)' PROVE ResultFits(k, result[k])'
      BY DEF ResultsFit
    <2>1. PICK d : d = result[k] OBVIOUS
    <2>2. ResultFits(k, d) BY <2>1 DEF SettingsInv, ResultsFit, Secrets!Accepted
    <2>3. ResultFits(k, d)' BY <2>2, FactsStay
    <2> QED BY <2>1, <2>3
  <1> QED BY <1>1, <1>3, <1>4 DEF SettingsInv

(* Refusing ends a load whatever it has put together. *)
LEMMA RefuseStep ==
    ASSUME SettingsInv, load \in Programs, Secrets!Finish(Refused)
    PROVE  SettingsInv'
  <1>1. PICK d : d = Refused OBVIOUS
  <1>2. d # Refused => ResultFits(load, d) BY <1>1
  <1>3. load = "server" /\ d # Refused => LookedOwn(d) BY <1>1
  <1>4. Secrets!Finish(d) BY <1>1
  <1> QED BY <1>2, <1>3, <1>4, EndStep

(* The steps of a load. *)
LEMMA BackendStep ==
    ASSUME SettingsInv, Secrets!Backend
    PROVE  SettingsInv'
  <1> DEFINE http == draft.transport = "http"
             path == file["ca_file"]
             url == Secrets!Layered("ABLEOPS_BASE_URL", "base_url")
             allow == Secrets!Layered("ABLEOPS_ALLOW_HTTP", "allow_http")
             caOK == Secrets!Stated(env[Secrets!CAFile]) \/ path = Unset \/ Secrets!Resolvable(path)
             ca == IF ~caOK THEN Unset ELSE IF Secrets!Stated(env[Secrets!CAFile]) THEN Secrets!FromEnv(Secrets!CAFile)
                   ELSE IF path = Unset THEN Unset ELSE Secrets!Resolved(path)
             sample == Secrets!Layered("ABLEOPS_MESSAGE_SAMPLE_ENABLED", "sample_enabled") = "true"
             made == [draft EXCEPT !.token = IF http THEN Unset ELSE Secrets!TokenVar, !.url = url, !.sample = sample, !.ca = ca]
             next == IF http \/ load = "enroll" THEN "store" ELSE "dynamic"
  <1>1. /\ load # Unset /\ step = "backend" /\ Secrets!Needs \subseteq looked[load]
        /\ \/ Secrets!Finish(Refused)
           \/ /\ caOK /\ url \in {"https"} \cup (IF allow = "true" THEN {"loopback"} ELSE {})
              /\ draft' = made /\ step' = next /\ UNCHANGED <<file, phase, env, load, looked, result>>
    <2>1. next # Unset BY UnsetIsNoWord
    <2> HIDE DEF next, made, caOK, url, allow
    <2>2. load # Unset /\ step = "backend" /\ Secrets!Needs \subseteq looked[load] BY DEF Secrets!Backend, Secrets!Reading
    <2>3. \E ok \in BOOLEAN :
             /\ ok => caOK /\ url \in {"https"} \cup (IF allow = "true" THEN {"loopback"} ELSE {})
             /\ Secrets!Continue(ok, made, next)
      BY Zenon DEF Secrets!Backend, next, made, caOK, url, allow
    <2> QED BY <2>1, <2>2, <2>3 DEF Secrets!Continue
  <1>2. load \in Programs BY <1>1 DEF SettingsInv, LoadsInOrder
  <1>3. CASE Secrets!Finish(Refused) BY <1>2, <1>3, RefuseStep
  <1>4. CASE ~Secrets!Finish(Refused)
    <2> HIDE DEF made
    <2>1. caOK /\ draft' = made /\ step' = next /\ UNCHANGED <<file, phase, env, load, looked, result>>
          /\ url \in {"https"} \cup (IF allow = "true" THEN {"loopback"} ELSE {})
      BY <1>1, <1>4
    <2>2. /\ made.transport = draft.transport /\ made.store = draft.store /\ made.ca = ca /\ made.url = url
          /\ made.token = IF http THEN Unset ELSE Secrets!TokenVar
      BY DEF made
    <2>3. {"ABLEOPS_BASE_URL", "ABLEOPS_ALLOW_HTTP"} \subseteq DOMAIN env
      <3>1. {"ABLEOPS_BASE_URL", "ABLEOPS_ALLOW_HTTP"} \subseteq Secrets!Needs
        BY <1>1 DEF Secrets!Needs, Secrets!BackendVars
      <3> QED BY <1>1, <1>2, <3>1 DEF SettingsInv, LoadsInOrder
    <2>4. url # "bad" /\ (url = "loopback" => allow = "true") BY <2>1
    <2>5. Secrets!Decides("ABLEOPS_BASE_URL", "base_url", url) BY <2>4 DEF Secrets!Decides, Secrets!Layered
    <2>6. ca = Unset \/ Elsewhere(ca)
      <3>1. Secrets!TokenVar \notin Secrets!Settings
        BY DEF SettingsInv, FileFits, Secrets!TokenVar, Secrets!validTokenEnvName, Secrets!Settings, Secrets!APIToken,
               Secrets!BackendVars, Secrets!DynamicVars, Secrets!AuthStore, Secrets!CAFile
      <3>2. Secrets!FromEnv(Secrets!CAFile).ref = Secrets!CAFile BY DEF Secrets!FromEnv
      <3>3. Secrets!CAFile \notin {Secrets!TokenVar, Secrets!APIToken}
        BY <3>1 DEF Secrets!Settings, Secrets!CAFile, Secrets!APIToken
      <3>4. Secrets!Resolvable(path) => Secrets!Resolved(path).ref \notin {Secrets!TokenVar, Secrets!APIToken}
        BY UnsetIsNoWord DEF Secrets!Resolvable, Secrets!Resolved, Secrets!Reserved, Secrets!TokenVar
      <3> QED BY <3>2, <3>3, <3>4 DEF Elsewhere
    <2> HIDE DEF url, allow, ca, caOK
    <2>7. StepsFit' BY <1>1, <2>1, <2>2 DEF SettingsInv, StepsFit
    <2>8. BackendIs(draft)'
      <3>1. draft'.transport = draft.transport /\ draft'.url = url /\ draft'.token = IF http THEN Unset ELSE Secrets!TokenVar
        BY <2>1, <2>2
      <3>2. /\ Secrets!Decides("ABLEOPS_BASE_URL", "base_url", draft'.url)
            /\ (draft'.url = "loopback" => allow = "true")
        BY <2>4, <2>5, <3>1
      <3>3. BackendIs(draft') BY <2>3, <3>1, <3>2 DEF BackendIs, allow
      <3> QED BY <2>1, <3>3, FactsStay
    <2>9. CAIs(draft)' BY <2>1, <2>2, <2>6 DEF CAIs, Elsewhere, Secrets!TokenVar, Secrets!APIToken
    <2>10. draft'.store = Unset BY <1>1, <2>1, <2>2 DEF SettingsInv, DraftFits
    <2>11. DraftFits'
      <3>1. step' = "dynamic" => draft'.transport # "http" BY <2>1, <2>2
      <3>2. step' \in {"store", "dynamic"} BY <2>1
      <3> QED BY <2>8, <2>9, <2>10, <3>1, <3>2 DEF DraftFits
    <2> QED BY <1>2, <2>1, <2>2, <2>7, <2>11, GoOn
  <1> QED BY <1>3, <1>4

LEMMA StoreStep ==
    ASSUME SettingsInv, Secrets!authStore
    PROVE  SettingsInv'
  <1> DEFINE A == Secrets!AuthStore
             path == file["store_file"]
             found == Secrets!Stated(env[A]) \/ (path # Unset /\ Secrets!Resolvable(path))
             made == [draft EXCEPT !.store = Secrets!StoreLocation]
  <1>1. /\ load # Unset /\ step = "store" /\ Secrets!Needs \subseteq looked[load]
        /\ \/ Secrets!Finish(Refused)
           \/ found /\ load = "server" /\ draft' = made /\ step' = "dynamic"
              /\ UNCHANGED <<file, phase, env, load, looked, result>>
           \/ found /\ load # "server" /\ Secrets!Finish(made)
    <2> HIDE DEF made, found
    <2>1. load # Unset /\ step = "store" /\ Secrets!Needs \subseteq looked[load] BY DEF Secrets!authStore, Secrets!Reading
    <2>2. Secrets!Continue(found, IF found THEN made ELSE draft, IF load = "server" THEN "dynamic" ELSE Unset)
      BY Zenon DEF Secrets!authStore, made, found
    <2> QED BY <2>1, <2>2, UnsetIsNoWord DEF Secrets!Continue
  <1>2. load \in Programs BY <1>1 DEF SettingsInv, LoadsInOrder
  <1>3. CASE Secrets!Finish(Refused) BY <1>2, <1>3, RefuseStep
  <1>4. CASE found /\ ~Secrets!Finish(Refused)
    <2>1. A \in DOMAIN env /\ (~Secrets!Stated(env[A]) => StoreVars \subseteq DOMAIN env)
      <3>1. A \in Secrets!Needs BY <1>1 DEF Secrets!Needs
      <3>2. A \in looked[load] BY <1>1, <3>1
      <3>3. ~Secrets!Stated(env[A]) => StoreVars \subseteq Secrets!Needs
        BY <1>1, <3>2 DEF Secrets!Needs, Secrets!Known, StoreVars
      <3> QED BY <1>1, <1>2, <3>2, <3>3 DEF SettingsInv, LoadsInOrder
    <2>2. Secrets!StoreLocation = StoreAt(load) BY DEF Secrets!StoreLocation, StoreAt, Secrets!FromEnv
    <2>3. /\ made.store = StoreAt(load) /\ made.transport = draft.transport /\ made.ca = draft.ca
          /\ made.url = draft.url /\ made.token = draft.token
      BY <2>2
    <2> HIDE DEF made
    <2>4. StoreIs(load, made) BY <1>4, <2>1, <2>3 DEF StoreIs
    <2>5. CAIs(made) /\ (load # "revoke" => BackendIs(made))
      BY <1>1, <2>3 DEF SettingsInv, DraftFits, CAIs, BackendIs
    <2>6. CASE load = "server" /\ draft' = made /\ step' = "dynamic" /\ UNCHANGED <<file, phase, env, load, looked, result>>
      <3>1. PICK d, l : d = made /\ l = load OBVIOUS
      <3>2. CAIs(d)' /\ BackendIs(d)' /\ StoreIs(l, d)' BY <2>4, <2>5, <2>6, <3>1, FactsStay
      <3>3. draft' = d /\ load' = l /\ step' = "dynamic" BY <2>6, <3>1
      <3>4. StepsFit' BY <1>1, <2>3, <2>6 DEF SettingsInv, StepsFit
      <3>5. draft.transport = "http" BY <1>1, <2>6 DEF SettingsInv, StepsFit
      <3>6. DraftFits' BY <2>3, <2>6, <3>2, <3>3, <3>5 DEF DraftFits
      <3> QED BY <1>2, <2>3, <2>6, <3>4, <3>6, GoOn
    <2>7. CASE load # "server" /\ Secrets!Finish(made)
      <3>1. PICK d : d = made OBVIOUS
      <3>2. ResultFits(load, d) BY <2>4, <2>5, <2>7, <3>1 DEF ResultFits
      <3>3. Secrets!Finish(d) BY <2>7, <3>1
      <3> QED BY <1>2, <2>7, <3>2, <3>3, EndStep
    <2> QED BY <1>1, <1>4, <2>6, <2>7
  <1> QED BY <1>1, <1>3, <1>4

LEMMA DynamicStep ==
    ASSUME SettingsInv, Secrets!loadDynamic
    PROVE  SettingsInv'
  <1> DEFINE on == Secrets!Layered("ABLEOPS_DYNAMIC_TOOLS", "dynamic")
             interval == Secrets!Layered("ABLEOPS_DYNAMIC_REFRESH_INTERVAL", "refresh_interval")
             made == [draft EXCEPT !.dynamic = (on = "true"), !.operations = Secrets!Operations, !.interval = interval]
  <1>1. /\ load # Unset /\ step = "dynamic" /\ Secrets!Needs \subseteq looked[load]
        /\ \/ Secrets!Finish(Refused)
           \/ /\ Secrets!Operations # "bad" /\ interval # "bad"
              /\ draft' = made /\ step' = "delegation" /\ UNCHANGED <<file, phase, env, load, looked, result>>
    <2> HIDE DEF made, interval
    <2>1. load # Unset /\ step = "dynamic" /\ Secrets!Needs \subseteq looked[load]
      BY DEF Secrets!loadDynamic, Secrets!Reading
    <2>2. \E ok \in BOOLEAN :
             (ok => Secrets!Operations # "bad" /\ interval # "bad") /\ Secrets!Continue(ok, made, "delegation")
      BY Zenon DEF Secrets!loadDynamic, made, interval
    <2> QED BY <2>1, <2>2, UnsetIsNoWord DEF Secrets!Continue
  <1>2. load \in Programs BY <1>1 DEF SettingsInv, LoadsInOrder
  <1>3. CASE Secrets!Finish(Refused) BY <1>2, <1>3, RefuseStep
  <1>4. CASE ~Secrets!Finish(Refused)
    <2>0. load = "server" BY <1>1, <1>2 DEF SettingsInv, StepsFit, Programs
    <2>1. {"ABLEOPS_DYNAMIC_OPERATIONS", "ABLEOPS_DYNAMIC_REFRESH_INTERVAL"} \subseteq DOMAIN env
      <3>1. {"ABLEOPS_DYNAMIC_OPERATIONS", "ABLEOPS_DYNAMIC_REFRESH_INTERVAL"} \subseteq Secrets!Needs
        BY <1>1 DEF Secrets!Needs, Secrets!DynamicVars
      <3> QED BY <1>1, <1>2, <3>1 DEF SettingsInv, LoadsInOrder
    <2>2. /\ made.store = draft.store /\ made.transport = draft.transport /\ made.ca = draft.ca
          /\ made.url = draft.url /\ made.token = draft.token
          /\ made.operations = Secrets!Operations /\ made.interval = interval
      OBVIOUS
    <2>3. /\ Secrets!Decides("ABLEOPS_DYNAMIC_OPERATIONS", "operations", Secrets!Operations)
          /\ Secrets!Decides("ABLEOPS_DYNAMIC_REFRESH_INTERVAL", "refresh_interval", interval)
      BY <1>1, <1>4 DEF Secrets!Decides, Secrets!Layered, Secrets!Operations
    <2> HIDE DEF made, interval
    <2>4. /\ CAIs(made) /\ BackendIs(made) /\ DynamicIs(made)
          /\ IF made.transport = "http" THEN StoreIs(load, made) ELSE made.store = Unset
      BY <1>1, <2>0, <2>1, <2>2, <2>3 DEF SettingsInv, DraftFits, CAIs, BackendIs, DynamicIs, StoreIs
    <2>5. PICK d, l : d = made /\ l = load OBVIOUS
    <2>6. /\ CAIs(d)' /\ BackendIs(d)' /\ DynamicIs(d)'
          /\ IF d.transport = "http" THEN StoreIs(l, d)' ELSE d.store = Unset
      BY <1>1, <1>4, <2>4, <2>5, FactsStay
    <2>7. draft' = d /\ load' = l /\ step' = "delegation" BY <1>1, <1>4, <2>5
    <2>8. StepsFit' BY <1>1, <1>4, <2>0, <2>2 DEF SettingsInv, StepsFit
    <2>9. DraftFits' BY <2>6, <2>7 DEF DraftFits
    <2> QED BY <1>1, <1>2, <1>4, <2>2, <2>8, <2>9, GoOn
  <1> QED BY <1>1, <1>3, <1>4

LEMMA DelegationStep ==
    ASSUME SettingsInv, Secrets!loadWebDelegation
    PROVE  SettingsInv'
  <1> DEFINE on == Secrets!Layered("ABLEOPS_WEB_DELEGATION", "web_delegation") = "true"
             ttl == Secrets!Layered("ABLEOPS_WEB_DELEGATION_TTL", "ttl")
             made == [draft EXCEPT !.delegation = on, !.ttl = ttl, !.secret = IF on THEN Secrets!SecretVar ELSE Unset]
  <1>1. /\ load # Unset /\ step = "delegation" /\ Secrets!Needs \subseteq looked[load]
        /\ \/ Secrets!Finish(Refused)
           \/ ttl # "bad" /\ Secrets!DelegationFits(on) /\ Secrets!Finish(made)
    <2> HIDE DEF made, ttl, on
    <2>1. load # Unset /\ step = "delegation" /\ Secrets!Needs \subseteq looked[load]
      BY DEF Secrets!loadWebDelegation, Secrets!Reading
    <2>2. \E ok \in BOOLEAN :
             (ok => ttl # "bad" /\ Secrets!DelegationFits(on)) /\ Secrets!Continue(ok, made, Unset)
      BY Zenon DEF Secrets!loadWebDelegation, made, ttl, on
    <2> QED BY <2>1, <2>2 DEF Secrets!Continue
  <1>2. load \in Programs BY <1>1 DEF SettingsInv, LoadsInOrder
  <1>3. CASE Secrets!Finish(Refused) BY <1>2, <1>3, RefuseStep
  <1>4. CASE ~Secrets!Finish(Refused)
    <2>0. load = "server" BY <1>1, <1>2 DEF SettingsInv, StepsFit, Programs
    <2>1. "ABLEOPS_WEB_DELEGATION_TTL" \in DOMAIN env
      <3>1. "ABLEOPS_WEB_DELEGATION_TTL" \in Secrets!Needs BY <1>1 DEF Secrets!Needs, Secrets!DelegationVars
      <3> QED BY <1>1, <1>2, <3>1 DEF SettingsInv, LoadsInOrder
    <2>2. /\ made.store = draft.store /\ made.transport = draft.transport /\ made.ca = draft.ca
          /\ made.url = draft.url /\ made.token = draft.token
          /\ made.operations = draft.operations /\ made.interval = draft.interval
          /\ made.delegation = on /\ made.ttl = ttl /\ made.secret = IF on THEN Secrets!SecretVar ELSE Unset
      OBVIOUS
    <2>3. Secrets!Decides("ABLEOPS_WEB_DELEGATION_TTL", "ttl", ttl)
      BY <1>1, <1>4 DEF Secrets!Decides, Secrets!Layered
    <2>4. on \in BOOLEAN /\ (on => draft.transport = "http") BY <1>1, <1>4 DEF Secrets!DelegationFits
    <2>5. PICK d : d = made OBVIOUS
    <2> HIDE DEF made, ttl, on
    <2>6. draft.transport \in {"stdio", "http"} BY <1>1, <2>0 DEF SettingsInv, StepsFit
    <2>7. ResultFits(load, d)
      <3>1. CAIs(d) /\ BackendIs(d) /\ DynamicIs(d)
        BY <1>1, <2>0, <2>2, <2>5 DEF SettingsInv, DraftFits, CAIs, BackendIs, DynamicIs
      <3>2. IF d.transport = "http" THEN StoreIs(load, d) ELSE d.store = Unset
        BY <1>1, <2>0, <2>2, <2>5 DEF SettingsInv, DraftFits, StoreIs
      <3>3. DelegationIs(d) BY <2>1, <2>2, <2>3, <2>4, <2>5 DEF DelegationIs
      <3> QED BY <2>2, <2>5, <2>6, <3>1, <3>2, <3>3 DEF ResultFits
    <2>8. LookedOwn(d) BY <2>0, <2>2, <2>5 DEF SettingsInv, LookedFits, LookedOwn
    <2>9. Secrets!Finish(d) BY <1>1, <1>4, <2>5
    <2> QED BY <1>2, <2>7, <2>8, <2>9, EndStep
  <1> QED BY <1>3, <1>4

-----------------------------------------------------------------------------
(* What the invariant says of the settings in force. *)

LEMMA SettingsFit ==
    ASSUME SettingsInv
    PROVE  ReadsItsOwnOnly /\ ChoiceInForce
  <1>0. Secrets!TokenVar \notin Secrets!Settings
    BY DEF SettingsInv, FileFits, Secrets!TokenVar, Secrets!validTokenEnvName, Secrets!Settings, Secrets!APIToken,
           Secrets!BackendVars, Secrets!DynamicVars, Secrets!AuthStore, Secrets!CAFile
  <1>1. \A p : Secrets!TokenVar \notin Secrets!PathVars(p)
    BY DEF Secrets!PathVars, Secrets!Reserved, Secrets!TokenVar
  <1>2. \A t \in {"stdio", "http"} : Secrets!Serving(t) =>
           \E d : d.transport = t /\ LookedOwn(d)
    BY DEF SettingsInv, LookedFits, Secrets!Serving
  <1>3. Secrets!ReadsItsOwnOnly
    <2>1. ASSUME Secrets!Serving("http"), Secrets!TokenVar \in looked["server"]
          PROVE  Secrets!TokenVar \in Secrets!DelegationVars \cup {Secrets!SecretVar}
      <3>1. looked["server"] \subseteq Secrets!ServerVars \cup StoreVars BY <1>2, <2>1 DEF LookedOwn
      <3>2. Secrets!TokenVar \in Secrets!ServerVars BY <1>0, <1>1, <2>1, <3>1 DEF StoreVars, Secrets!Settings
      <3> QED BY <1>0, <1>1, <3>2 DEF Secrets!ServerVars, Secrets!Settings
    <2>2. ASSUME Secrets!Serving("stdio")
          PROVE  looked["server"] \cap ({Secrets!AuthStore} \cup Secrets!PathVars(file["store_file"])) \subseteq Secrets!ServerVars
      <3>1. looked["server"] \subseteq Secrets!ServerVars \cup {Secrets!TokenVar} BY <1>2, <2>2 DEF LookedOwn
      <3> QED BY <1>0, <1>1, <3>1 DEF Secrets!Settings
    <2>3. looked["revoke"] \subseteq {Secrets!AuthStore} \cup Secrets!PathVars(file["store_file"])
      BY DEF SettingsInv, LookedFits, StoreVars
    <2> QED BY <2>1, <2>2, <2>3 DEF Secrets!ReadsItsOwnOnly
  <1>4. ASSUME NEW l \in Programs, NEW d, StoreIs(l, d) PROVE Elsewhere(d.store)
    <2>1. CASE Secrets!Stated(env[Secrets!AuthStore])
      <3>1. d.store.ref = Secrets!AuthStore BY <1>4, <2>1 DEF StoreIs, StoreAt
      <3> QED BY <1>0, <3>1 DEF Elsewhere, Secrets!Settings, Secrets!AuthStore, Secrets!APIToken
    <2>2. CASE ~Secrets!Stated(env[Secrets!AuthStore])
      <3>1. d.store.ref = file["store_file"].ref /\ Secrets!Resolvable(file["store_file"])
        BY <1>4, <2>2 DEF StoreIs, StoreAt, Secrets!Resolved
      <3> QED BY <3>1, UnsetIsNoWord DEF Elsewhere, Secrets!Resolvable, Secrets!Reserved, Secrets!TokenVar
    <2> QED BY <2>1, <2>2
  <1>5. Secrets!PathsHoldNoToken
    BY <1>4 DEF SettingsInv, ResultsFit, ResultFits, CAIs, Elsewhere, Secrets!PathsHoldNoToken, Programs, Secrets!Loads
  <1>6. ASSUME NEW l \in Programs, NEW d, StoreIs(l, d) PROVE d.store # Unset
    <2>1. CASE Secrets!Stated(env[Secrets!AuthStore])
      <3>1. d.store = [ref |-> Secrets!AuthStore, base |-> IF env[Secrets!AuthStore] = "abs" THEN "root" ELSE l]
        BY <1>6, <2>1 DEF StoreIs, StoreAt
      <3>2. d.store \in Secrets!Locations
        BY <1>6, <3>1, SettingsAssumption
           DEF Secrets!ConfigAssumption, Secrets!Locations, Secrets!Refs, Secrets!Loads, Programs
      <3> QED BY <3>2, SettingsAssumption DEF Secrets!ConfigAssumption
    <2>2. CASE ~Secrets!Stated(env[Secrets!AuthStore])
      <3>1. PICK p \in Secrets!Paths \cup Values!Paths : file["store_file"] = p
        BY <1>6, <2>2 DEF SettingsInv, FileFits, StoreIs
      <3>2. d.store = [ref |-> p.ref, base |-> IF (IF p.ref = Unset THEN p.abs ELSE env[p.ref] = "abs") THEN "root" ELSE "file"]
        BY <1>6, <2>2, <3>1 DEF StoreIs, StoreAt, Secrets!Resolved
      <3>3. p.ref \in Secrets!Refs \cup Values!Refs BY DEF Secrets!Paths, Values!Paths
      <3>4. d.store \in Secrets!Locations \cup Values!Locations
        BY <3>2, <3>3 DEF Secrets!Locations, Values!Locations
      <3> QED BY <3>4, SettingsAssumption DEF Secrets!ConfigAssumption, Values!ConfigAssumption
    <2> QED BY <2>1, <2>2
  <1>7. Secrets!SameStore
    <2> SUFFICES ASSUME NEW a \in Programs, NEW b \in Programs, Secrets!Accepted(a), Secrets!Accepted(b),
                        result[a].store # Unset, result[b].store # Unset, env[Secrets!AuthStore] # "rel"
                 PROVE  result[a].store = result[b].store
      BY DEF Secrets!SameStore, Programs, Secrets!Loads
    <2>1. StoreIs(a, result[a]) /\ StoreIs(b, result[b]) BY DEF SettingsInv, ResultsFit, ResultFits
    <2>2. Secrets!AuthStore \in DOMAIN env BY <2>1 DEF StoreIs, StoreVars
    <2>3. Secrets!Stated(env[Secrets!AuthStore]) => env[Secrets!AuthStore] = "abs"
      BY <2>2 DEF SettingsInv, StoreEnvFits, Secrets!Stated
    <2>4. StoreAt(a) = StoreAt(b) BY <2>3 DEF StoreAt
    <2> QED BY <2>1, <2>4 DEF StoreIs
  <1>8. ASSUME Secrets!Accepted("server") PROVE ResultFits("server", result["server"])
    BY <1>8 DEF SettingsInv, ResultsFit, Programs
  <1>9. Secrets!Coherent
    <2> SUFFICES ASSUME Secrets!Accepted("server"), NEW r, r = result["server"]
                 PROVE  /\ r.transport = "http" => r.token = Unset /\ r.store # Unset
                        /\ r.transport = "stdio" => r.token # Unset /\ r.store = Unset /\ ~r.delegation
                        /\ r.delegation <=> r.secret # Unset
                        /\ r.url = "loopback" => Secrets!Layered("ABLEOPS_ALLOW_HTTP", "allow_http") = "true"
      BY DEF Secrets!Coherent
    <2>1. ResultFits("server", r) BY <1>8
    <2>2. Secrets!TokenVar # Unset /\ Secrets!SecretVar # Unset
      BY UnsetIsNoWord DEF Secrets!TokenVar, Secrets!SecretVar
    <2>3. r.transport = "http" => r.store # Unset BY <1>6, <2>1 DEF ResultFits, Programs
    <2>4. (r.delegation <=> r.secret # Unset) /\ (r.transport = "stdio" => ~r.delegation)
      BY <2>1, <2>2 DEF ResultFits, DelegationIs
    <2> QED BY <2>1, <2>2, <2>3, <2>4 DEF ResultFits, BackendIs
  <1>10. Secrets!ChoiceInForce
    BY <1>8 DEF ResultFits, BackendIs, DynamicIs, DelegationIs, Secrets!ChoiceInForce
  <1> QED BY <1>3, <1>5, <1>7, <1>9, <1>10 DEF ReadsItsOwnOnly, ChoiceInForce

LEMMA SettingsAlwaysFit == SettingsSpec => [](ReadsItsOwnOnly /\ ChoiceInForce)
  <1>1. SettingsInit => SettingsInv BY SettingsAtStart
  <1>2. SettingsInv /\ [SettingsNext]_<<inputs, settingsVars>> => SettingsInv'
    <2>1. ASSUME SettingsInv, SettingsNext PROVE SettingsInv'
      BY <2>1, SettingsSteps, ReadStep, FileEndStep, BeginStep, LookStep, BackendStep, StoreStep, DynamicStep,
         DelegationStep DEF Secrets!LoadStep
    <2>2. ASSUME SettingsInv, UNCHANGED <<inputs, settingsVars>> PROVE SettingsInv'
      <3>1. UNCHANGED <<file, phase, env, load, step, draft, looked, result>> BY <2>2 DEF settingsVars
      <3> QED
        BY <2>2, <3>1 DEF SettingsInv, FileFits, LoadsInOrder, StoreEnvFits, StepsFit, LookedFits, LookedOwn, DraftFits,
           ResultsFit, ResultFits, CAIs, Elsewhere, BackendIs, StoreIs, StoreAt, DynamicIs, DelegationIs, StoreVars,
           Secrets!Accepted, Secrets!Decides, Secrets!Stated, Secrets!Layered, Secrets!ServerVars, Secrets!TokenVar,
           Secrets!SecretVar, Secrets!PathVars, Secrets!Reserved, Secrets!Resolvable, Secrets!Resolved,
           Secrets!validTokenEnvName
    <2> QED BY <2>1, <2>2
  <1>3. SettingsInv => ReadsItsOwnOnly /\ ChoiceInForce BY SettingsFit
  <1> QED BY <1>1, <1>2, <1>3, PTL DEF SettingsSpec

(* Every program looks up the variables of its own settings and no other, for any files, *)
(* environments and flags.                                                                *)
THEOREM ReadsOnlyItsOwn == SettingsSpec => []ReadsItsOwnOnly
  <1>1. ReadsItsOwnOnly /\ ChoiceInForce => ReadsItsOwnOnly OBVIOUS
  <1> QED BY <1>1, SettingsAlwaysFit, PTL

(* What is stated last is in force, alike in all programs that read it, for any files,  *)
(* environments and flags.                                                                *)
THEOREM ChoiceStaysInForce == SettingsSpec => []ChoiceInForce
  <1>1. ReadsItsOwnOnly /\ ChoiceInForce => ChoiceInForce OBVIOUS
  <1> QED BY <1>1, SettingsAlwaysFit, PTL
=============================================================================

-------------------------- MODULE RuntimeLifecycle --------------------------
(***************************************************************************)
(* Starting and stopping the MCP runtime: app.Runtime (internal/app/app.go) *)
(* under the managed extension (internal/extension/extension.go), which    *)
(* does not wait for the first contract load for longer than               *)
(* initialRefreshWait, and under the standalone program, which waits.      *)
(*                                                                         *)
(* Every Start assembles a runtime of its own, a generation: its handler   *)
(* and its secret.  The host is external: it calls Start, serves requests, *)
(* calls Stop, and cancels the context it passed to Start at any time.     *)
(***************************************************************************)
EXTENDS Naturals, FiniteSets

CONSTANTS
    Generations,    \* the calls of Start
    Requests,       \* /internal/delegations and /mcp requests of the host
    Patient,        \* Start returns only when the first load is over
    None

LifecycleAssumption == Patient \in BOOLEAN /\ None \notin Generations

VARIABLES
    runtime,    \* Extension.runtime: a generation, or None
    handler,    \* Extension.handler: the generation it belongs to, or None
    secret,     \* Extension.secret: likewise
    caller,     \* the Start call in progress, or None
    cancelled,  \* the context of Start is cancelled
    starter,    \* starter[g]: the goroutine in runtime.Start
    fields,     \* fields[g]: those of stopRefresh, refreshDone that are set
    runner,     \* runner[g]: the goroutine in dynamic.Run
    stopped,    \* stopped[g]: stopRefresh was called
    closer,     \* closer[g]: Close of the generation
    req         \* req[r]: the handler and the secret that current() gave a request

fieldVars == <<runtime, handler, secret>>
vars == <<fieldVars, caller, cancelled, starter, fields, runner, stopped, closer, req>>

Ready == [handler |-> None, secret |-> None, pc |-> "idle"]

TypeOK ==
    /\ {runtime, handler, secret, caller} \subseteq Generations \cup {None}
    /\ cancelled \in BOOLEAN
    /\ starter \in [Generations -> {"none", "refresh", "spawn", "set", "done"}]
    /\ fields \in [Generations -> SUBSET {"stopRefresh", "refreshDone"}]
    /\ runner \in [Generations -> {"none", "waiting", "refreshing", "ended"}]
    /\ stopped \in [Generations -> BOOLEAN]
    /\ closer \in [Generations -> {"none", "called", "waiting", "stuck", "closed"}]
    /\ req \in [Requests -> [handler : Generations \cup {None}, secret : Generations \cup {None},
                             pc : {"idle", "current", "serving", "unavailable"}]]

Init ==
    /\ runtime = None /\ handler = None /\ secret = None /\ caller = None /\ cancelled = FALSE
    /\ starter = [g \in Generations |-> "none"] /\ fields = [g \in Generations |-> {}]
    /\ runner = [g \in Generations |-> "none"] /\ stopped = [g \in Generations |-> FALSE]
    /\ closer = [g \in Generations |-> "none"]
    /\ req = [r \in Requests |-> Ready]

-----------------------------------------------------------------------------
(* Extension.Start *)

(* Mutated form: the fields are written without the lock. *)
AlwaysUnlocked == TRUE

(* Extension.mu: its writers, Start and Stop, wait for every current() that *)
(* holds it.                                                                *)
Unlocked == \A r \in Requests : req[r].pc # "current"

(* The runtime is assembled and published, and its Start begins in a       *)
(* goroutine.  The host starts one generation after the other.             *)
Start(g) ==
    /\ caller = None /\ runtime = None /\ starter[g] = "none"
    /\ \A h \in Generations : closer[h] \in {"none", "closed"}
    /\ Unlocked
    /\ runtime' = g /\ handler' = g /\ secret' = g
    /\ caller' = g
    /\ starter' = [starter EXCEPT ![g] = "refresh"]
    /\ UNCHANGED <<cancelled, fields, runner, stopped, closer, req>>

(* done, a cancelled context, or initialRefreshWait *)
StartReturns ==
    /\ caller # None
    /\ Patient => starter[caller] = "done"
    /\ caller' = None
    /\ UNCHANGED <<fieldVars, cancelled, starter, fields, runner, stopped, closer, req>>

Cancel ==
    /\ ~cancelled /\ cancelled' = TRUE
    /\ UNCHANGED <<fieldVars, caller, starter, fields, runner, stopped, closer, req>>

-----------------------------------------------------------------------------
(* app.Runtime.Start *)

(* The first Refresh ends; without dynamic tools there is none and no runner. *)
FirstLoad(g) ==
    /\ starter[g] = "refresh"
    /\ \E next \in {"spawn", "done"} : starter' = [starter EXCEPT ![g] = next]
    /\ UNCHANGED <<fieldVars, caller, cancelled, fields, runner, stopped, closer, req>>

Spawn(g) ==
    /\ starter[g] = "spawn"
    /\ starter' = [starter EXCEPT ![g] = "set"] /\ runner' = [runner EXCEPT ![g] = "waiting"]
    /\ UNCHANGED <<fieldVars, caller, cancelled, fields, stopped, closer, req>>

(* The two fields are written without a lock; a concurrent Close may see *)
(* them in either order.                                                 *)
SetField(g) ==
    /\ starter[g] = "set"
    /\ \E f \in {"stopRefresh", "refreshDone"} \ fields[g] :
         /\ fields' = [fields EXCEPT ![g] = @ \cup {f}]
         /\ starter' = [starter EXCEPT ![g] = IF fields[g] = {} THEN "set" ELSE "done"]
    /\ UNCHANGED <<fieldVars, caller, cancelled, runner, stopped, closer, req>>

-----------------------------------------------------------------------------
(* dynamic.Run: select between the context and the timer *)

ContextDone(g) == cancelled \/ stopped[g]

Fire(g) ==
    /\ runner[g] = "waiting"
    /\ runner' = [runner EXCEPT ![g] = "refreshing"]
    /\ UNCHANGED <<fieldVars, caller, cancelled, starter, fields, stopped, closer, req>>

Refreshed(g) ==
    /\ runner[g] = "refreshing"
    /\ runner' = [runner EXCEPT ![g] = "waiting"]
    /\ UNCHANGED <<fieldVars, caller, cancelled, starter, fields, stopped, closer, req>>

RunEnds(g) ==
    /\ runner[g] = "waiting" /\ ContextDone(g)
    /\ runner' = [runner EXCEPT ![g] = "ended"]
    /\ UNCHANGED <<fieldVars, caller, cancelled, starter, fields, stopped, closer, req>>

-----------------------------------------------------------------------------
(* Extension.Stop, app.Runtime.Close *)

(* The handler and the secret are cleared before Close; a Stop that finds *)
(* the extension not started returns at once.                             *)
Stop ==
    /\ caller = None /\ runtime # None
    /\ Unlocked
    /\ runtime' = None /\ handler' = None /\ secret' = None
    /\ closer' = [closer EXCEPT ![runtime] = "called"]
    /\ UNCHANGED <<caller, cancelled, starter, fields, runner, stopped, req>>

(* What Close sees of the fields: nothing orders its reads after the writes *)
(* of a Start that was not waited for.                                      *)
Seen(g) == IF Patient THEN {fields[g]} ELSE SUBSET fields[g]

(* stopRefresh is called when it is set; then Close waits for refreshDone, *)
(* and for ever if that is still nil.                                      *)
StopRefresh(g) ==
    /\ closer[g] = "called"
    /\ \E seen \in Seen(g) :
         \/ /\ "stopRefresh" \in seen
            /\ stopped' = [stopped EXCEPT ![g] = TRUE]
            /\ closer' = [closer EXCEPT ![g] = IF "refreshDone" \in seen THEN "waiting" ELSE "stuck"]
         \/ /\ "stopRefresh" \notin seen
            /\ closer' = [closer EXCEPT ![g] = "closed"]
            /\ UNCHANGED stopped
    /\ UNCHANGED <<fieldVars, caller, cancelled, starter, fields, runner, req>>

(* Mutated form: Close does not wait for the goroutine. *)
CloseReturnsAtOnce(g) ==
    /\ closer[g] = "waiting"
    /\ closer' = [closer EXCEPT ![g] = "closed"]
    /\ UNCHANGED <<fieldVars, caller, cancelled, starter, fields, runner, stopped, req>>

CloseReturns(g) ==
    /\ closer[g] = "waiting" /\ runner[g] = "ended"
    /\ closer' = [closer EXCEPT ![g] = "closed"]
    /\ UNCHANGED <<fieldVars, caller, cancelled, starter, fields, runner, stopped, req>>

-----------------------------------------------------------------------------
(* Requests *)

(* serveDelegation: current() reads the handler and then the secret, under the *)
(* read lock; an /mcp request takes both likewise and drops the secret.        *)
ReadHandler(r) ==
    /\ req[r].pc = "idle"
    /\ req' = [req EXCEPT ![r] = [handler |-> handler, secret |-> None, pc |-> "current"]]
    /\ UNCHANGED <<fieldVars, caller, cancelled, starter, fields, runner, stopped, closer>>

(* The handler serves the request, with the secret in the header, for as long *)
(* as it takes, whatever becomes of the extension meanwhile.                  *)
ReadSecret(r) ==
    /\ req[r].pc = "current"
    /\ req' = [req EXCEPT ![r].secret = secret,
                          ![r].pc = IF None \in {req[r].handler, secret} THEN "unavailable" ELSE "serving"]
    /\ UNCHANGED <<fieldVars, caller, cancelled, starter, fields, runner, stopped, closer>>

Answer(r) ==
    /\ req[r].pc \in {"serving", "unavailable"}
    /\ req' = [req EXCEPT ![r] = Ready]
    /\ UNCHANGED <<fieldVars, caller, cancelled, starter, fields, runner, stopped, closer>>
-----------------------------------------------------------------------------
Run(g) == Fire(g) \/ Refreshed(g) \/ RunEnds(g)
Starting(g) == FirstLoad(g) \/ Spawn(g) \/ SetField(g)
Closing(g) == StopRefresh(g) \/ CloseReturns(g)
Serve(r) == ReadHandler(r) \/ ReadSecret(r) \/ Answer(r)

Next ==
    \/ \E g \in Generations : Start(g) \/ Starting(g) \/ Run(g) \/ Closing(g)
    \/ StartReturns \/ Cancel \/ Stop
    \/ \E r \in Requests : Serve(r)

Spec == Init /\ [][Next]_vars

(* Goroutines go on: a load ends by the timeout of the client.  When the     *)
(* context and the timer are both ready select picks one at random, so it    *)
(* does not pick the timer for ever.                                         *)
Fairness ==
    \A g \in Generations :
        /\ WF_vars(Starting(g)) /\ WF_vars(Closing(g))
        /\ WF_vars(Refreshed(g)) /\ SF_vars(RunEnds(g))

-----------------------------------------------------------------------------
(* Properties *)

(* "Close stops the periodic refresh and waits until it has ended" (app.go): *)
(* after Close no goroutine of the runtime asks the backend any more.        *)
CloseWaits ==
    \A g \in Generations : closer[g] = "closed" =>
        starter[g] \in {"none", "done"} /\ runner[g] \in {"none", "ended"}

(* The secret a request carries is the one its handler compares with, also   *)
(* when the extension is stopped and started again between the two reads:    *)
(* the lock keeps Start and Stop out.  (With it, the type invariant.)         *)
SecretFits ==
    /\ TypeOK
    /\ \A r \in Requests : req[r].pc = "serving" => req[r].handler # None /\ req[r].secret = req[r].handler

(* Close comes back: it never waits for a goroutine that does not end. *)
StopReturns == \A g \in Generations : (closer[g] = "called") ~> (closer[g] = "closed")
=============================================================================

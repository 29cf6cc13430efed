---------------------------- MODULE ServerProcess ----------------------------
(***************************************************************************)
(* The process that serves the runtime: main (cmd/ableops-kafka-mcp), its  *)
(* HTTP server (serveHTTP, internal/mcpserver/http.go) and its stdio       *)
(* session (stdio.go).  A signal, a failing listener, requests that do not *)
(* end, and the timeout of the shutdown come in any order.                 *)
(*                                                                         *)
(* net/http and the MCP SDK are external: what they do to connections and  *)
(* sessions is modelled from how this code uses them.                      *)
(***************************************************************************)
EXTENDS Naturals

CONSTANTS Conns  \* client connections (http) or requests of the session (stdio)

VARIABLES
    transport,  \* "http" or "stdio"
    main,       \* where run is
    ctxDone,    \* the context of NotifyContext is cancelled
    outcome,    \* what RunHTTP or RunStdio returned
    loop,       \* the goroutine in server.Serve: "none", "accepting", "ended"
    stopped,    \* the channel of capacity one: "empty", or the error in it
    stopCalled, \* stopRequests was called
    shutdown,   \* server.Shutdown was called
    deadline,   \* shutdownCtx is over
    conn,       \* conn[c]: "none", "idle", "active", "closed"
    req,        \* req[c]: "none", "running", "late", "answered", "cut"
    cancelled   \* cancelled[c]: the stdio request's own context

procVars == <<main, outcome>>
serverVars == <<loop, stopped, stopCalled, shutdown, deadline>>
clientVars == <<conn, req, cancelled>>
vars == <<transport, main, ctxDone, outcome, loop, stopped, stopCalled, shutdown, deadline,
          conn, req, cancelled>>

Running(c) == req[c] \in {"running", "late"}

TypeOK ==
    /\ transport \in {"http", "stdio"}
    /\ main \in {"start", "listen", "select", "shutdown", "drain", "session",
                 "sessionClosing", "returned", "close", "exited"}
    /\ ctxDone \in BOOLEAN /\ outcome \in {"none", "clean", "startup", "protocol"}
    /\ loop \in {"none", "accepting", "ended"} /\ stopped \in {"empty", "failed", "serverClosed"}
    /\ stopCalled \in BOOLEAN /\ shutdown \in BOOLEAN /\ deadline \in BOOLEAN
    /\ conn \in [Conns -> {"none", "idle", "active", "closed"}]
    /\ req \in [Conns -> {"none", "running", "late", "answered", "cut"}]
    /\ cancelled \in [Conns -> BOOLEAN]

Init ==
    /\ transport \in {"http", "stdio"}
    /\ main = "start" /\ ctxDone = FALSE /\ outcome = "none"
    /\ loop = "none" /\ stopped = "empty" /\ stopCalled = FALSE /\ shutdown = FALSE /\ deadline = FALSE
    /\ conn = [c \in Conns |-> "none"] /\ req = [c \in Conns |-> "none"]
    /\ cancelled = [c \in Conns |-> FALSE]

-----------------------------------------------------------------------------
(* run *)

(* SIGINT or SIGTERM; while stop was not called another one has no effect. *)
Signal ==
    /\ main # "exited" /\ ~ctxDone /\ ctxDone' = TRUE
    /\ UNCHANGED <<transport, procVars, serverVars, clientVars>>

(* runtime.Start ends: the first load is over or its context is. *)
Started ==
    /\ main = "start"
    /\ main' = IF transport = "http" THEN "listen" ELSE "session"
    /\ UNCHANGED <<transport, ctxDone, outcome, serverVars, clientVars>>

(* The address is in use or cannot be opened. *)
ListenFails ==
    /\ main = "listen"
    /\ main' = "returned" /\ outcome' = "startup"
    /\ UNCHANGED <<transport, ctxDone, serverVars, clientVars>>

Listen ==
    /\ main = "listen"
    /\ main' = "select" /\ loop' = "accepting"
    /\ UNCHANGED <<transport, ctxDone, outcome, stopped, stopCalled, shutdown, deadline, clientVars>>

(* The deferred stop cancels the context of the process; runtime.Close, the *)
(* deferred call after it, waits for the periodic refresh                   *)
(* (RuntimeLifecycle); os.Exit then cuts what still runs.                   *)
Stop ==
    /\ main = "returned"
    /\ main' = "close" /\ ctxDone' = TRUE
    /\ UNCHANGED <<transport, outcome, serverVars, clientVars>>

Exit ==
    /\ main = "close"
    /\ main' = "exited"
    /\ conn' = [c \in Conns |-> IF conn[c] = "none" THEN "none" ELSE "closed"]
    /\ req' = [c \in Conns |-> IF Running(c) THEN "cut" ELSE req[c]]
    /\ UNCHANGED <<transport, ctxDone, outcome, serverVars, cancelled>>

-----------------------------------------------------------------------------
(* serveHTTP *)

(* The select takes the error of Serve.  serverClosed cannot be there yet:  *)
(* only the other case calls Shutdown.  The deferred stopRequests runs.     *)
ServeStopped ==
    /\ main = "select" /\ stopped # "empty"
    /\ stopped' = "empty" /\ stopCalled' = TRUE
    /\ main' = "returned"
    /\ outcome' = IF stopped = "serverClosed" THEN "clean" ELSE "startup"
    /\ UNCHANGED <<transport, ctxDone, loop, shutdown, deadline, clientVars>>

CallShutdown ==
    /\ main = "select" /\ ctxDone
    /\ stopCalled' = TRUE /\ shutdown' = TRUE /\ main' = "shutdown"
    /\ UNCHANGED <<transport, ctxDone, outcome, loop, stopped, deadline, clientVars>>

Deadline ==
    /\ main = "shutdown" /\ ~deadline /\ deadline' = TRUE
    /\ UNCHANGED <<transport, ctxDone, procVars, loop, stopped, stopCalled, shutdown, clientVars>>

(* Mutated form: Shutdown gets no context of its own. *)
ShutdownFailsNever == FALSE

(* Shutdown gives up at the deadline; Close closes the connections and does *)
(* not wait for their handlers.                                             *)
ShutdownFails ==
    /\ main = "shutdown" /\ loop = "ended" /\ deadline
    /\ main' = "drain" /\ outcome' = "startup"
    /\ conn' = [c \in Conns |-> IF conn[c] = "none" THEN "none" ELSE "closed"]
    /\ UNCHANGED <<transport, ctxDone, serverVars, req, cancelled>>

(* All the connections are closed: ctx.Err, which run takes for a clean end. *)
ShutdownSucceeds ==
    /\ main = "shutdown" /\ loop = "ended"
    /\ \A c \in Conns : conn[c] \in {"none", "closed"}
    /\ main' = "drain" /\ outcome' = "clean"
    /\ UNCHANGED <<transport, ctxDone, serverVars, clientVars>>

(* <-stopped *)
Drain ==
    /\ main = "drain" /\ stopped # "empty"
    /\ stopped' = "empty" /\ main' = "returned"
    /\ UNCHANGED <<transport, ctxDone, outcome, loop, stopCalled, shutdown, deadline, clientVars>>

-----------------------------------------------------------------------------
(* net/http: the accept loop, the connections, Shutdown's polling *)

(* Accept fails, or Shutdown closed the listener. *)
ServeEnds ==
    /\ loop = "accepting"
    /\ loop' = "ended"
    /\ stopped' = IF shutdown THEN "serverClosed" ELSE "failed"
    /\ UNCHANGED <<transport, procVars, ctxDone, stopCalled, shutdown, deadline, clientVars>>

Accept(c) ==
    /\ loop = "accepting" /\ ~shutdown /\ conn[c] = "none"
    /\ conn' = [conn EXCEPT ![c] = "idle"]
    /\ UNCHANGED <<transport, procVars, ctxDone, serverVars, req, cancelled>>

(* A keep-alive connection carries one request after the other. *)
Request(c) ==
    /\ transport = "http" /\ main # "exited" /\ conn[c] = "idle"
    /\ conn' = [conn EXCEPT ![c] = "active"]
    /\ req' = [req EXCEPT ![c] = "running"]
    /\ UNCHANGED <<transport, procVars, ctxDone, serverVars, cancelled>>

(* Shutdown closes an idle connection; a request that was already read from *)
(* it still reaches the handler.                                            *)
CloseIdle(c) ==
    /\ main = "shutdown" /\ conn[c] = "idle"
    /\ conn' = [conn EXCEPT ![c] = "closed"]
    /\ \E now \in {req[c], "late"} : req' = [req EXCEPT ![c] = now]
    /\ UNCHANGED <<transport, procVars, ctxDone, serverVars, cancelled>>

(* After Shutdown was called the connection of an answer is not kept. *)
Answer(c) ==
    /\ transport = "http" /\ main # "exited" /\ Running(c)
    /\ req' = [req EXCEPT ![c] = IF conn[c] = "closed" THEN "cut" ELSE "answered"]
    /\ \E now \in (IF conn[c] = "active" /\ ~shutdown THEN {"idle", "closed"} ELSE {"closed"}) :
         conn' = [conn EXCEPT ![c] = now]
    /\ UNCHANGED <<transport, procVars, ctxDone, serverVars, cancelled>>

-----------------------------------------------------------------------------
(* RunStdio: the middleware ties the context of a request to the process *)

Call(c) ==
    /\ main = "session" /\ req[c] # "running"
    /\ req' = [req EXCEPT ![c] = "running"]
    /\ cancelled' = [cancelled EXCEPT ![c] = ctxDone]
    /\ UNCHANGED <<transport, procVars, ctxDone, serverVars, conn>>

(* The end of the process reaches a call under way. *)
AfterFunc(c) ==
    /\ transport = "stdio" /\ req[c] = "running" /\ ctxDone /\ ~cancelled[c]
    /\ cancelled' = [cancelled EXCEPT ![c] = TRUE]
    /\ UNCHANGED <<transport, procVars, ctxDone, serverVars, conn, req>>

Reply(c) ==
    /\ transport = "stdio" /\ main # "exited" /\ req[c] = "running"
    /\ req' = [req EXCEPT ![c] = "answered"]
    /\ UNCHANGED <<transport, procVars, ctxDone, serverVars, conn, cancelled>>

(* server.Run closes the session when the context of the process is done:  *)
(* no further request is taken, and those that run are waited for.          *)
CloseSession ==
    /\ main = "session" /\ ctxDone
    /\ main' = "sessionClosing"
    /\ UNCHANGED <<transport, ctxDone, outcome, serverVars, clientVars>>

(* The end or an error of the input ends the session as well. *)
SessionEnds ==
    /\ main \in {"session", "sessionClosing"} /\ \A c \in Conns : req[c] # "running"
    /\ outcome' \in (IF main = "sessionClosing" THEN {"clean"} ELSE {"clean", "protocol"})
    /\ main' = "returned"
    /\ UNCHANGED <<transport, ctxDone, serverVars, clientVars>>

-----------------------------------------------------------------------------
Serving == ServeStopped \/ CallShutdown \/ ShutdownFails \/ ShutdownSucceeds \/ Drain
Session == CloseSession \/ SessionEnds
Process == Started \/ ListenFails \/ Listen \/ Stop \/ Exit
Client(c) == Accept(c) \/ Request(c) \/ Answer(c) \/ Call(c) \/ Reply(c)

(* The process is gone. *)
Gone == main = "exited" /\ UNCHANGED vars

Next ==
    \/ Signal \/ Process \/ Serving \/ ServeEnds \/ Deadline \/ Session \/ Gone
    \/ \E c \in Conns : Client(c) \/ CloseIdle(c) \/ AfterFunc(c)

Spec == Init /\ [][Next]_vars

(* Goroutines and timers go on, and Shutdown makes the accept loop end.  The *)
(* HTTP handlers and the clients owe nothing.  Over stdio a handler whose    *)
(* context is cancelled ends, for every wait of a tool takes that context.   *)
Fairness ==
    /\ WF_vars(Process) /\ WF_vars(Serving) /\ WF_vars(Deadline)
    /\ WF_vars(shutdown /\ ServeEnds) /\ WF_vars(ctxDone /\ Session)
    /\ \A c \in Conns :
         WF_vars(AfterFunc(c)) /\ WF_vars(cancelled[c] /\ Reply(c))

-----------------------------------------------------------------------------
(* Properties *)

Over == main \in {"returned", "close", "exited"}

(* Over HTTP the process ends with exit code 0 only when it was asked to,    *)
(* and then every request that reached a live connection had its answer: a   *)
(* request that is cut off is reported as a failed shutdown (serveHTTP,      *)
(* run).  (With it, the type invariant.)                                     *)
CleanEndCutsNobody ==
    /\ TypeOK
    /\ transport = "http" /\ Over /\ outcome = "clean" =>
         ctxDone /\ \A c \in Conns : req[c] # "running" /\ conn[c] \in {"none", "closed"}

(* A request that outlives serveHTTP has a cancelled context, on every way   *)
(* out: "cancels the requests in progress, then tidies up" (RunHTTP).        *)
SurvivorsAreCancelled ==
    transport = "http" /\ Over => \A c \in Conns : Running(c) => ctxDone \/ stopCalled

(* A signal ends the process, whatever the clients and the HTTP handlers do: *)
(* the wait for them has a limit, and nobody waits on stopped for ever.      *)
SignalEndsTheProcess == ctxDone ~> (main = "exited")
=============================================================================

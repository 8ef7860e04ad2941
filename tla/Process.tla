------------------------------ MODULE Process ------------------------------
(***************************************************************************)
(* The life of the process: run in cmd/sh-mcp-go/main.go, Load in          *)
(* internal/infrastructure/config, Build and Shutdown in                   *)
(* internal/bootstrap, HTTPServer.Start and ServeStdio and ServeSSE.       *)
(* The MCP library is external: its stdio server ends at the end of its    *)
(* input, at an error, and at a signal that arrives while it runs; its SSE *)
(* server ends at an error only.  So is http.Server, whose Shutdown waits  *)
(* for the requests in flight until its context is done.                   *)
(***************************************************************************)
EXTENDS Naturals

CONSTANTS
    Transports,    \* the settings of mcp.transport that are tried
    MaxRequests    \* requests the HTTP server has at once

ASSUME TransportsAssumption == "unset" \notin Transports
ASSUME MaxRequestsAssumption == MaxRequests \in Nat

VARIABLES
    main,        \* where run is
    setting,     \* mcp.transport in the file and the environment
    transport,   \* the one the configuration says
    told,        \* whether the root context is done
    stopping,    \* whether the context of the errgroup is done
    mcp, http,   \* the goroutines of the errgroup
    firstErr,    \* the error the errgroup keeps
    requests,    \* HTTP requests in flight
    store,       \* the database handle
    early,       \* history: a component failed before it was told to stop
    exit         \* the exit status

vars == <<main, setting, transport, told, stopping, mcp, http, firstErr,
          requests, store, early, exit>>
components == <<mcp, http, firstErr, requests, early>>

Returned == {"ok", "failed", "cancelled"}

\* The settings that pass the validation, and those run has a server for.
Accepted == {"stdio", "sse", "http"}
Served == {"stdio", "sse"}

TypeOK ==
    /\ main \in {"loading", "opening", "wiring", "serving", "shutdown",
                "exited"}
    /\ setting \in Transports \cup {"unset"}
    /\ transport \in Accepted \cup {"unset"}
    /\ told \in BOOLEAN /\ stopping \in BOOLEAN /\ early \in BOOLEAN
    /\ mcp \in {"off", "starting", "serving", "interrupted"} \cup Returned
    /\ http \in {"off", "listening"} \cup Returned
    /\ firstErr \in {"none", "failed", "cancelled"}
    /\ requests \in 0..MaxRequests
    /\ store \in {"closed", "open"}
    /\ exit \in {"none", "success", "failure", "killed"}

Init ==
    /\ main = "loading"
    /\ setting \in Transports \cup {"unset"} /\ transport = "unset"
    /\ told = FALSE /\ stopping = FALSE /\ early = FALSE
    /\ mcp = "off" /\ http = "off" /\ firstErr = "none"
    /\ requests = 0 /\ store = "closed" /\ exit = "none"

\* The default is stdio.  A setting that is not valid, or a file that cannot
\* be read, ends run before anything is opened.
Load ==
    /\ main = "loading"
    /\ LET effective == IF setting = "unset" THEN "stdio" ELSE setting IN
       /\ effective \in Accepted
       /\ transport' = effective
    /\ main' = "opening"
    /\ UNCHANGED <<setting, told, stopping, components, store, exit>>

LoadFails ==
    /\ main = "loading"
    /\ main' = "exited" /\ exit' = "failure"
    /\ UNCHANGED <<setting, transport, told, stopping, components, store>>

\* Until run has caught the signals they end the process.
Killed ==
    /\ main = "loading"
    /\ main' = "exited" /\ exit' = "killed"
    /\ UNCHANGED <<setting, transport, told, stopping, components, store>>

\* SIGINT or SIGTERM.  Any further one changes nothing: the signals stay
\* caught until run returns.
Signal ==
    /\ main \notin {"loading", "exited"} /\ ~told
    /\ told' = TRUE /\ stopping' = TRUE
    /\ mcp' = IF transport = "stdio" /\ mcp = "serving"
              THEN "interrupted" ELSE mcp
    /\ UNCHANGED <<main, setting, transport, http, firstErr, requests, store,
                   early, exit>>

-----------------------------------------------------------------------------
(* Build                                                                   *)

\* The schema is applied under the root context.
OpenStore ==
    /\ main = "opening" /\ ~told
    /\ main' = "wiring" /\ store' = "open"
    /\ UNCHANGED <<setting, transport, told, stopping, components, exit>>

\* run returns the error; what was opened stays open.
BuildFails ==
    /\ main \in {"opening", "wiring"}
    /\ main' = "exited" /\ exit' = "failure"
    /\ UNCHANGED <<setting, transport, told, stopping, components, store>>

Built ==
    /\ main = "wiring"
    /\ main' = "serving" /\ mcp' = "starting" /\ http' = "listening"
    /\ UNCHANGED <<setting, transport, told, stopping, firstErr, requests,
                   store, early, exit>>

-----------------------------------------------------------------------------
(* The errgroup and its goroutines                                         *)

\* Mutant of Report: the last result is kept.
ReportLast(result) ==
    /\ firstErr' = result /\ stopping' = TRUE
    /\ early' = (early \/ (result = "failed" /\ ~stopping))

\* The first error of the group is kept and cancels the group's context.
Report(result) ==
    /\ IF result # "ok" /\ firstErr = "none"
       THEN firstErr' = result /\ stopping' = TRUE
       ELSE UNCHANGED <<firstErr, stopping>>
    /\ early' = (early \/ (result = "failed" /\ ~stopping))

McpReturns(result) ==
    /\ mcp' = result
    /\ Report(result)
    /\ UNCHANGED <<main, setting, transport, told, http, requests, store,
                   exit>>

\* Neither transport looks at the context.
McpStarts ==
    /\ mcp = "starting" /\ transport \in Served
    /\ mcp' = "serving"
    /\ UNCHANGED <<main, setting, transport, told, stopping, http, firstErr,
                   requests, store, early, exit>>

\* Mutant of UnknownTransport: it is logged, and no error.
UnknownTransportIgnored ==
    /\ mcp = "starting" /\ transport \notin Served
    /\ McpReturns("ok")

UnknownTransport ==
    /\ mcp = "starting" /\ transport \notin Served
    /\ McpReturns("failed")

InputEnds ==
    /\ mcp = "serving" /\ transport = "stdio"
    /\ McpReturns("ok")

McpFails ==
    /\ mcp = "serving"
    /\ McpReturns("failed")

Interrupted ==
    /\ mcp = "interrupted"
    /\ \E result \in {"ok", "cancelled"} : McpReturns(result)

HttpReturns(result) ==
    /\ http' = result
    /\ Report(result)
    /\ UNCHANGED <<main, setting, transport, told, mcp, requests, store,
                   exit>>

Accept ==
    /\ http = "listening" /\ requests < MaxRequests
    /\ requests' = requests + 1
    /\ UNCHANGED <<main, setting, transport, told, stopping, mcp, http,
                   firstErr, store, early, exit>>

Answer ==
    /\ main # "exited" /\ requests > 0
    /\ requests' = requests - 1
    /\ UNCHANGED <<main, setting, transport, told, stopping, mcp, http,
                   firstErr, store, early, exit>>

ListenFails ==
    /\ http = "listening"
    /\ HttpReturns("failed")

\* Mutant of HttpStops: it stops for another component's error only.
HttpStopsForErrors ==
    /\ http = "listening" /\ firstErr # "none"
    /\ HttpReturns(IF requests = 0 THEN "ok" ELSE "cancelled")

\* The context of the shutdown derives from the one that is done.
HttpStops ==
    /\ http = "listening" /\ stopping
    /\ HttpReturns(IF requests = 0 THEN "ok" ELSE "cancelled")

-----------------------------------------------------------------------------
(* The end of run                                                          *)

\* Mutant of Wait: it returns at the first error.
WaitForOne ==
    /\ main = "serving"
    /\ {mcp, http} \subseteq Returned \/ firstErr # "none"
    /\ main' = "shutdown"
    /\ UNCHANGED <<setting, transport, told, stopping, components, store,
                   exit>>

Wait ==
    /\ main = "serving" /\ {mcp, http} \subseteq Returned
    /\ main' = "shutdown"
    /\ UNCHANGED <<setting, transport, told, stopping, components, store,
                   exit>>

\* Mutant of Shutdown: after a signal any error is taken for a clean stop.
ShutdownForgiving ==
    /\ main = "shutdown"
    /\ store' = "closed" /\ main' = "exited"
    /\ exit' = IF firstErr = "failed" /\ ~told THEN "failure" ELSE "success"
    /\ UNCHANGED <<setting, transport, told, stopping, components>>

\* Shutdown closes the store; main turns the error into the exit status.
Shutdown ==
    /\ main = "shutdown"
    /\ store' = "closed" /\ main' = "exited"
    /\ exit' = IF firstErr = "failed" THEN "failure" ELSE "success"
    /\ UNCHANGED <<setting, transport, told, stopping, components>>

\* The MCP server serves on, whether or not the process is told to stop.
Waiting == (mcp = "serving" \/ main = "exited") /\ UNCHANGED vars

Next ==
    \/ Load
    \/ LoadFails
    \/ Killed
    \/ Signal
    \/ OpenStore
    \/ BuildFails
    \/ Built
    \/ McpStarts
    \/ UnknownTransport
    \/ InputEnds
    \/ McpFails
    \/ Interrupted
    \/ Accept
    \/ Answer
    \/ ListenFails
    \/ HttpStops
    \/ Wait
    \/ Shutdown
    \/ Waiting

\* What goes on by itself.  Nothing forces an error, a signal, the end of the
\* input, or a request to be answered.
Fairness ==
    /\ WF_vars(Load \/ LoadFails)
    /\ WF_vars(OpenStore \/ BuildFails) /\ WF_vars(Built)
    /\ WF_vars(McpStarts) /\ WF_vars(UnknownTransport) /\ WF_vars(Interrupted)
    /\ WF_vars(HttpStops) /\ WF_vars(Wait) /\ WF_vars(Shutdown)

Spec == Init /\ [][Next]_vars /\ Fairness
-----------------------------------------------------------------------------
(* Properties                                                              *)

\* While a component runs, the store its handlers use is open.
OpenWhileServing ==
    mcp \in {"starting", "serving", "interrupted"} \/ http = "listening"
        => store = "open"

\* A component that fails while nobody wanted the process to stop turns up in
\* the exit status, whatever the others return and whichever signal follows.
FailureIsReported == exit = "success" => ~early

\* A signal that finds the stdio server running ends the process.
SignalStops == mcp = "interrupted" ~> main = "exited"

\* A process that is set to a transport it does not serve ends, whether the
\* validation refuses the setting or run does, with its components started.
UnknownTransportStops ==
    setting \notin Served \cup {"unset"} ~> main = "exited"

-----------------------------------------------------------------------------
(* What the documentation and the comments claim and the code does not do  *)

\* Run components concurrently; stop all on first error or signal (main.go).
StopsOnErrorOrSignal == stopping /\ main = "serving" ~> main = "exited"
=============================================================================

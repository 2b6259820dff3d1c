------------------------------- MODULE Lifecycle -------------------------------
(***************************************************************************)
(* The life of a gateway process: run (cmd/vault-gateway/main.go) builds   *)
(* the parts, Server.Start (internal/server/server.go) launches the API    *)
(* and the metrics/health server in goroutines of their own and waits for  *)
(* a signal or for a server to fail, and shutdown drains both within one   *)
(* grace period, closes the backend and lets the process end.              *)
(*                                                                         *)
(* The goroutines of the servers and of the handlers run at their own      *)
(* pace: a signal may come before a server listens, a server may fail      *)
(* while the other starts, and a handler may outlast the grace period.     *)
(* net/http's Shutdown and ListenAndServe are modelled from their use.     *)
(***************************************************************************)
EXTENDS Integers, Sequences, FiniteSets

CONSTANTS
  Request,     \* handler goroutines, of either server
  Grace,       \* server.shutdownGracePeriod, in ticks
  Horizon      \* bound on the clock before shutdown begins

ASSUME LifecycleAssumption == Grace \in Nat \ {0} /\ Horizon \in Nat

Server == {"api", "metrics"}
Sweeper == {"tokens", "limiters"}

VARIABLES
  now,
  main,         \* where the main goroutine is
  signalled,    \* SIGTERM or SIGINT has cancelled the context
  server,       \* server -> its goroutine: "none", "launched", "serving", "failed" or "closed"
  stopping,     \* server -> Shutdown has been called on it
  errCh,        \* the errors sent and not yet received, capacity 2
  deadline,     \* end of the grace period, once shutdown began
  began,        \* history: when shutdown began
  errors,       \* what shutdown or Start has to report
  open,         \* the backend is built and not closed
  sweepers,     \* the cleanup goroutines that run
  handler,      \* request -> the server that runs it, "none", or "cut"
  exit          \* "none", "ok" or "fatal"

vars == <<now, main, signalled, server, stopping, errCh, deadline, began, errors, open,
          sweepers, handler, exit>>
serverVars == <<server, stopping, errCh>>
mainVars == <<main, deadline, began, errors, open, exit>>

\* The handlers a server runs.
Running(s) == {r \in Request : handler[r] = s}

\* The process ends: every goroutine with it.
Terminate(status) ==
  /\ main' = "exited" /\ exit' = status
  /\ handler' = [r \in Request |-> IF handler[r] \in Server THEN "cut" ELSE handler[r]]
  /\ sweepers' = {}

Init ==
  /\ now = 0 /\ main = "config" /\ signalled = FALSE
  /\ server = [s \in Server |-> "none"] /\ stopping = [s \in Server |-> FALSE]
  /\ errCh = <<>> /\ deadline = 0 /\ began = 0 /\ errors = {}
  /\ open = FALSE /\ sweepers = {}
  /\ handler = [r \in Request |-> "none"]
  /\ exit = "none"

--------------------------------------------------------------------------------
(* Plausible bugs, used to show that the properties can fail. *)

\* The metrics server gets a grace period of its own.
MutantNextDeadline == now + Grace

\* Only the metrics server's error is returned.
MutantReported(s) == IF s = "api" THEN {} ELSE {s}

\* The backend is closed before the servers are drained.
MutantWake(cause) ==
  /\ main = "waiting"
  /\ main' = "api" /\ deadline' = now + Grace /\ began' = now /\ errors' = cause
  /\ open' = FALSE
  /\ UNCHANGED <<now, signalled, server, stopping, sweepers, handler, exit>>

\* A failed server's error is dropped.
MutantServerFails(s) ==
  /\ server[s] \in {"launched", "serving"} /\ ~stopping[s]
  /\ server' = [server EXCEPT ![s] = "failed"]
  /\ UNCHANGED <<now, signalled, stopping, errCh, sweepers, handler, mainVars>>

\* Start returns shutdown's error where it should return the server's.
MutantCause == {}

--------------------------------------------------------------------------------
(* run: configuration, backend and validator in this order, then Start. *)

Boot ==
  /\ \/ main = "config" /\ main' = "backend" /\ UNCHANGED <<open, sweepers>>
     \/ main = "backend" /\ main' = "validator" /\ open' = TRUE /\ UNCHANGED sweepers
     \/ main = "validator" /\ main' = "start metrics" /\ sweepers' = {"tokens"} /\ UNCHANGED open
  /\ UNCHANGED <<now, signalled, serverVars, deadline, began, errors, handler, exit>>

\* An unreadable or invalid configuration, a backend or validator that cannot be built.
BootFails ==
  /\ main \in {"config", "backend", "validator"}
  /\ Terminate("fatal")
  /\ UNCHANGED <<now, signalled, serverVars, deadline, began, errors, open>>

\* SIGTERM or SIGINT.  Before signal.NotifyContext it kills the process; later ones
\* than the first change nothing.
Signal ==
  /\ ~signalled /\ main # "exited"
  /\ IF main = "config"
     THEN Terminate("fatal") /\ UNCHANGED signalled
     ELSE signalled' = TRUE /\ UNCHANGED <<main, exit, handler, sweepers>>
  /\ UNCHANGED <<now, serverVars, deadline, began, errors, open>>

\* The goroutine of startTokenCleanup also ends with the context.
TokenSweeperStops ==
  /\ signalled /\ "tokens" \in sweepers
  /\ sweepers' = sweepers \ {"tokens"}
  /\ UNCHANGED <<now, signalled, serverVars, handler, mainVars>>

--------------------------------------------------------------------------------
(* Server.Start *)

Launching(s) == IF s = "metrics" THEN "start metrics" ELSE "start api"

\* The go statement of a server: from here on its goroutine runs beside main.
Launch(s) ==
  /\ main = Launching(s)
  /\ main' = IF s = "metrics" THEN "start api" ELSE "start cleanup"
  /\ server' = [server EXCEPT ![s] = "launched"]
  /\ UNCHANGED <<now, signalled, stopping, errCh, deadline, began, errors, open, sweepers,
                 handler, exit>>

\* startLimiterCleanup, after the servers may already serve; then the select.  The
\* rate limit is taken to be on: without it there is no cleanup goroutine.
StartCleanup ==
  /\ main = "start cleanup"
  /\ main' = "waiting"
  /\ sweepers' = sweepers \cup {"limiters"}
  /\ UNCHANGED <<now, signalled, serverVars, deadline, began, errors, open, handler, exit>>

\* ListenAndServe in the goroutine of a server: it listens, unless Shutdown came first.
Listen(s) ==
  /\ server[s] = "launched" /\ main # "exited"
  /\ server' = [server EXCEPT ![s] = IF stopping[s] THEN "closed" ELSE "serving"]
  /\ UNCHANGED <<now, signalled, stopping, errCh, sweepers, handler, mainVars>>

\* The port is taken, the certificate is bad, Accept fails.
ServerFails(s) ==
  /\ server[s] \in {"launched", "serving"} /\ ~stopping[s] /\ main # "exited"
  /\ server' = [server EXCEPT ![s] = "failed"]
  /\ errCh' = Append(errCh, s)
  /\ UNCHANGED <<now, signalled, stopping, sweepers, handler, mainVars>>

\* http.ErrServerClosed: the goroutine ends and reports nothing.
ServerClosed(s) ==
  /\ server[s] = "serving" /\ stopping[s] /\ main # "exited"
  /\ server' = [server EXCEPT ![s] = "closed"]
  /\ UNCHANGED <<now, signalled, stopping, errCh, sweepers, handler, mainVars>>

\* A request is accepted, and answered.
HandlerStarts(r, s) ==
  /\ handler[r] = "none" /\ server[s] = "serving" /\ ~stopping[s] /\ main # "exited"
  /\ handler' = [handler EXCEPT ![r] = s]
  /\ UNCHANGED <<now, signalled, serverVars, sweepers, mainVars>>

HandlerEnds(r) ==
  /\ handler[r] \in Server
  /\ handler' = [handler EXCEPT ![r] = "none"]
  /\ UNCHANGED <<now, signalled, serverVars, sweepers, mainVars>>

--------------------------------------------------------------------------------
(* shutdown *)

Wake(cause) ==
  /\ main = "waiting"
  /\ main' = "api" /\ deadline' = now + Grace /\ began' = now /\ errors' = cause
  /\ UNCHANGED <<now, signalled, server, stopping, open, sweepers, handler, exit>>

\* The select of Start takes any ready branch: the context's, or a server's error.
WakeOnSignal == signalled /\ Wake({}) /\ UNCHANGED errCh
Cause == {Head(errCh)}
WakeOnError == errCh # <<>> /\ Wake(Cause) /\ errCh' = Tail(errCh)

NextDeadline == deadline
Reported(s) == {s}

\* Where main is while Shutdown of s waits, and where it goes when Shutdown returns.
Draining(s) == IF s = "api" THEN "draining api" ELSE "draining metrics"
After(s) == IF s = "api" THEN "metrics" ELSE "close"
Drained(s) ==
  /\ main' = After(s)
  /\ deadline' = IF s = "api" THEN NextDeadline ELSE deadline

\* http.Server.Shutdown: no new connection; return at once if the server is idle.
Shutdown(s) ==
  /\ main = s
  /\ stopping' = [stopping EXCEPT ![s] = TRUE]
  /\ IF Running(s) = {} THEN Drained(s) ELSE main' = Draining(s) /\ UNCHANGED deadline
  /\ UNCHANGED <<now, signalled, server, errCh, began, errors, open, sweepers, handler, exit>>

DrainEnds(s) ==
  /\ main = Draining(s) /\ Running(s) = {}
  /\ Drained(s)
  /\ UNCHANGED <<now, signalled, serverVars, began, errors, open, sweepers, handler, exit>>

\* The grace period is over: Shutdown gives up and leaves the handlers running.
DrainTimesOut(s) ==
  /\ main = Draining(s) /\ now >= deadline
  /\ Drained(s)
  /\ errors' = errors \cup Reported(s)
  /\ UNCHANGED <<now, signalled, serverVars, began, open, sweepers, handler, exit>>

\* backend.Close; its error is only logged.
CloseBackend ==
  /\ main = "close"
  /\ open' = FALSE /\ main' = "return"
  /\ UNCHANGED <<now, signalled, serverVars, deadline, began, errors, sweepers, handler, exit>>

\* Start and run return, their deferred stopCleanups close the sweepers, main exits.
Return ==
  /\ main = "return"
  /\ Terminate(IF errors = {} THEN "ok" ELSE "fatal")
  /\ UNCHANGED <<now, signalled, serverVars, deadline, began, errors, open>>

\* Main's own steps take no time; it waits only for a cause to shut down and for drains.
Waits ==
  \/ main \in {"config", "backend", "validator"} /\ now < Horizon
  \/ main = "waiting" /\ ~signalled /\ errCh = <<>> /\ now < Horizon
  \/ \E s \in Server : main = Draining(s) /\ Running(s) # {} /\ now < deadline

Tick ==
  /\ Waits
  /\ now' = now + 1
  /\ UNCHANGED <<signalled, serverVars, sweepers, handler, mainVars>>

Main ==
  \/ Boot \/ BootFails \/ StartCleanup \/ WakeOnSignal \/ WakeOnError
  \/ (\E s \in Server : Launch(s) \/ Shutdown(s) \/ DrainEnds(s) \/ DrainTimesOut(s))
  \/ CloseBackend \/ Return

Exited == main = "exited" /\ UNCHANGED vars

Next ==
  \/ Main \/ Signal \/ TokenSweeperStops \/ Tick \/ Exited
  \/ \E s \in Server : Listen(s) \/ ServerFails(s) \/ ServerClosed(s)
  \/ \E r \in Request, s \in Server : HandlerStarts(r, s)
  \/ \E r \in Request : HandlerEnds(r)

\* The main goroutine and the clock run on; handlers may hang.
Fairness == WF_vars(Main) /\ WF_vars(Tick)

Spec == Init /\ [][Next]_vars /\ Fairness

--------------------------------------------------------------------------------
(* Properties *)

\* The process reports success only if no request was cut off by its end: a drain
\* that timed out, on either server, makes the exit fatal.
CleanExitMeansDrained == exit = "ok" => \A r \in Request : handler[r] # "cut"

\* However the two drains share it, shutdown ends within one grace period of the
\* moment it began.
ShutdownBounded ==
  main \in {"api", "draining api", "metrics", "draining metrics", "close", "return"}
    => now <= began + Grace

\* The backend is open for every handler, but for those that outlast the grace period,
\* and these find it closed only in the last moment of the process.
BackendOutlivesHandlers ==
  (\E s \in Server : Running(s) # {}) => open \/ (main = "return" /\ now >= deadline)

\* Start swallows no error it received: a process that reports success was told to
\* stop, and the error of every server that failed is still unread in errCh, where the
\* select, free to take either ready branch, or the shutdown under way left it.
SuccessSwallowsNoError ==
  exit = "ok" =>
    /\ signalled
    /\ \A s \in Server : server[s] = "failed" => \E i \in 1 .. Len(errCh) : errCh[i] = s

\* No half-alive gateway: a signal, or the failure of either server, ends the
\* process, even when handlers hang.
CauseEndsProcess == (signalled \/ \E s \in Server : server[s] = "failed") ~> main = "exited"
================================================================================

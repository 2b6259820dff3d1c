---------------------------- MODULE LifecycleProofs ----------------------------
(***************************************************************************)
(* The life of the process for every set of requests, every grace period   *)
(* and every horizon: what a clean exit means, how long shutdown takes,    *)
(* when the backend is closed, which errors a success may hide, and that   *)
(* no server ever blocks on the error channel.                             *)
(***************************************************************************)
EXTENDS Lifecycle, SequenceTheorems, TLAPS

Booting == {"config", "backend", "validator"}
Starting == {"start metrics", "start api", "start cleanup"}
ShuttingDown == {"api", "draining api", "metrics", "draining metrics", "close", "return"}
Place == Booting \cup Starting \cup {"waiting", "exited"} \cup ShuttingDown

\* The places of main before a server's goroutine is launched, and after its drain.
NotLaunched(s) == Booting \cup IF s = "metrics" THEN {"start metrics"}
                                               ELSE {"start metrics", "start api"}
Past(s) == IF s = "api" THEN {"metrics", "draining metrics", "close", "return"}
                        ELSE {"close", "return"}

TypeOK ==
  /\ now \in Nat /\ deadline \in Nat /\ began \in Nat
  /\ main \in Place
  /\ signalled \in BOOLEAN /\ open \in BOOLEAN
  /\ server \in [Server -> {"none", "launched", "serving", "failed", "closed"}]
  /\ stopping \in [Server -> BOOLEAN]
  /\ errCh \in Seq(Server)
  /\ errors \subseteq Server /\ sweepers \subseteq Sweeper
  /\ handler \in [Request -> Server \cup {"none", "cut"}]
  /\ exit \in {"none", "ok", "fatal"}

\* No server runs before its goroutine is launched, nothing is served after the process
\* has ended, and only its end cuts a request.
ServedWhileUp ==
  /\ \A s \in Server : main \in NotLaunched(s) => server[s] = "none"
  /\ main \in Booting \cup {"exited"} => \A r \in Request : handler[r] \notin Server
  /\ exit # "none" <=> main = "exited"
  /\ main # "exited" => \A r \in Request : handler[r] # "cut"

\* Shutdown was called on a server before main went on, so what still runs on a
\* server whose drain is over outlived the grace period and was reported.
LateReported ==
  \A s \in Server : main \in Past(s) =>
    /\ stopping[s]
    /\ Running(s) # {} => s \in errors /\ now >= deadline

Stopped == \A s \in Server : main = Draining(s) => stopping[s]

\* One deadline, set when shutdown began, and not passed.
OneDeadline == main \in ShuttingDown => deadline = began + Grace /\ now <= deadline

BackendOpen ==
  main \in {"validator", "waiting"} \cup Starting \cup (ShuttingDown \ {"return"}) => open

\* The error of a failed server waits in errCh or is what Start will return, and
\* shutdown has an error to return or a signal as its cause.
ErrorsKept ==
  /\ main \in Booting \cup Starting \cup {"waiting"} => errors = {}
  /\ main # "exited" => \A s \in Server :
       server[s] = "failed" => s \in errors \/ \E i \in 1 .. Len(errCh) : errCh[i] = s
  /\ main \in ShuttingDown => errors # {} \/ signalled

\* The errors waiting in errCh are those of different servers that failed.
ErrChFromFailed ==
  /\ \A i \in 1 .. Len(errCh) : server[errCh[i]] = "failed"
  /\ \A i, j \in 1 .. Len(errCh) : errCh[i] = errCh[j] => i = j

\* The inductive invariant.
IInv ==
  /\ TypeOK /\ ServedWhileUp /\ LateReported /\ Stopped /\ OneDeadline /\ BackendOpen
  /\ ErrorsKept /\ ErrChFromFailed /\ CleanExitMeansDrained /\ SuccessSwallowsNoError

--------------------------------------------------------------------------------

LEMMA InitIInv == Init => IInv
<1> SUFFICES ASSUME Init PROVE IInv
  OBVIOUS
<1> USE DEF Init
<1>1. TypeOK
  BY EmptySeq DEF TypeOK, Place, Booting, Server, Sweeper
<1>2. ServedWhileUp
  BY DEF ServedWhileUp, Server
<1>3. LateReported /\ Stopped /\ OneDeadline /\ BackendOpen /\ ErrorsKept
  BY DEF LateReported, Stopped, Draining, OneDeadline, BackendOpen, ErrorsKept, Past,
         Starting, ShuttingDown, Server
<1>4. ErrChFromFailed
  BY DEF ErrChFromFailed
<1>5. CleanExitMeansDrained /\ SuccessSwallowsNoError
  BY DEF CleanExitMeansDrained, SuccessSwallowsNoError
<1> QED
  BY <1>1, <1>2, <1>3, <1>4, <1>5 DEF IInv

\* The steps of main before Start.
LEMMA BootKeepsIInv ==
  ASSUME IInv, Boot \/ BootFails
  PROVE  IInv'
<1> USE DEF IInv, Boot, BootFails, Terminate, serverVars
<1>1. TypeOK'
  BY DEF TypeOK, Place, Booting, Starting, Server, Sweeper
<1>2. ServedWhileUp'
  BY DEF TypeOK, ServedWhileUp, NotLaunched, Booting, Server
<1>3. LateReported' /\ Stopped' /\ OneDeadline' /\ BackendOpen'
  BY DEF TypeOK, LateReported, Stopped, Draining, OneDeadline, BackendOpen, Past, Starting,
         ShuttingDown, Server
<1>4. ErrorsKept'
  BY DEF ErrorsKept, ServedWhileUp, NotLaunched, Booting, Starting, ShuttingDown, Server
<1>5. ErrChFromFailed'
  BY DEF ErrChFromFailed
<1>6. CleanExitMeansDrained' /\ SuccessSwallowsNoError'
  BY DEF CleanExitMeansDrained, SuccessSwallowsNoError, ServedWhileUp
<1> QED
  BY <1>1, <1>2, <1>3, <1>4, <1>5, <1>6

LEMMA SignalKeepsIInv ==
  ASSUME IInv, Signal \/ TokenSweeperStops
  PROVE  IInv'
<1> USE DEF IInv, Signal, TokenSweeperStops, Terminate, serverVars, mainVars
<1>1. TypeOK'
  BY DEF TypeOK, Place, Booting, Starting, Server, Sweeper
<1>2. ServedWhileUp'
  BY DEF TypeOK, ServedWhileUp, NotLaunched, Booting, Server
<1>3. LateReported' /\ Stopped' /\ OneDeadline' /\ BackendOpen'
  BY DEF TypeOK, LateReported, Stopped, Draining, OneDeadline, BackendOpen, Past, Starting,
         ShuttingDown, Server, Running
<1>4. ErrorsKept'
  BY DEF ErrorsKept, Booting, Starting, ShuttingDown
<1>5. ErrChFromFailed'
  BY DEF ErrChFromFailed
<1>6. CleanExitMeansDrained' /\ SuccessSwallowsNoError'
  BY DEF CleanExitMeansDrained, SuccessSwallowsNoError, ServedWhileUp
<1> QED
  BY <1>1, <1>2, <1>3, <1>4, <1>5, <1>6

\* Start launches the goroutines of the servers and the cleanup.
LEMMA StartKeepsIInv ==
  ASSUME IInv, StartCleanup \/ \E s \in Server : Launch(s)
  PROVE  IInv'
<1> USE DEF IInv, serverVars
<1>1. CASE StartCleanup
  <2> USE <1>1 DEF StartCleanup
  <2>1. TypeOK'
    BY DEF TypeOK, Place, Sweeper
  <2>2. ServedWhileUp'
    BY DEF TypeOK, ServedWhileUp, NotLaunched, Booting
  <2>3. LateReported' /\ Stopped' /\ OneDeadline' /\ BackendOpen'
    BY DEF TypeOK, LateReported, Stopped, Draining, OneDeadline, BackendOpen, Past, Starting,
           ShuttingDown, Server
  <2>4. ErrorsKept'
    BY DEF ErrorsKept, Starting, ShuttingDown
  <2>5. ErrChFromFailed' /\ CleanExitMeansDrained' /\ SuccessSwallowsNoError'
    BY DEF ErrChFromFailed, CleanExitMeansDrained, SuccessSwallowsNoError, ServedWhileUp
  <2> QED
    BY <2>1, <2>2, <2>3, <2>4, <2>5
<1>2. ASSUME NEW s \in Server, Launch(s) PROVE IInv'
  <2>0. /\ main = Launching(s) /\ main' = IF s = "metrics" THEN "start api" ELSE "start cleanup"
        /\ server' = [server EXCEPT ![s] = "launched"] /\ server[s] = "none"
        /\ now' = now /\ signalled' = signalled /\ stopping' = stopping /\ errCh' = errCh
        /\ deadline' = deadline /\ began' = began /\ errors' = errors /\ open' = open
        /\ sweepers' = sweepers /\ handler' = handler /\ exit' = exit
    BY <1>2 DEF Launch, Launching, ServedWhileUp, NotLaunched
  <2>1. main \in Starting /\ main' \in Starting
    BY <2>0 DEF Launching, Starting
  <2>2. \A t \in Server : server'[t] = IF t = s THEN "launched" ELSE server[t]
    BY <2>0 DEF TypeOK
  <2>3. TypeOK'
    BY <2>0, <2>1 DEF TypeOK, Place
  <2>4. ServedWhileUp'
    <3>1. \A t \in Server : main' \in NotLaunched(t) => t # s /\ main \in NotLaunched(t)
      BY <2>0 DEF NotLaunched, Booting, Launching, Server
    <3> QED
      BY <2>0, <2>1, <2>2, <3>1 DEF ServedWhileUp, Booting, Starting
  <2>5. LateReported' /\ Stopped' /\ OneDeadline' /\ BackendOpen'
    BY <2>0, <2>1 DEF LateReported, Stopped, Draining, OneDeadline, BackendOpen, Past, Starting,
                      ShuttingDown, Server
  <2>6. ErrorsKept'
    <3>1. main # "exited" /\ main' \notin ShuttingDown
      BY <2>1 DEF Starting, ShuttingDown
    <3>2. \A t \in Server : server'[t] = "failed" => server[t] = "failed"
      BY <2>2
    <3>3. errors' = {}
      BY <2>0, <2>1 DEF ErrorsKept
    <3> QED
      BY <2>0, <3>1, <3>2, <3>3 DEF ErrorsKept
  <2>7. ErrChFromFailed'
    <3>1. \A i \in 1 .. Len(errCh) : errCh[i] \in Server
      BY ElementOfSeq DEF TypeOK
    <3> QED
      BY <2>0, <2>2, <3>1 DEF ErrChFromFailed
  <2>8. CleanExitMeansDrained' /\ SuccessSwallowsNoError'
    BY <2>0, <2>1 DEF CleanExitMeansDrained, SuccessSwallowsNoError, ServedWhileUp, Starting
  <2> QED
    BY <2>3, <2>4, <2>5, <2>6, <2>7, <2>8
<1> QED
  BY <1>1, <1>2

\* The goroutines of the servers.
LEMMA ServerKeepsIInv ==
  ASSUME IInv, NEW s \in Server, Listen(s) \/ ServerFails(s) \/ ServerClosed(s)
  PROVE  IInv'
<1> USE DEF IInv, mainVars
<1>1. /\ now' = now /\ signalled' = signalled /\ stopping' = stopping /\ sweepers' = sweepers
      /\ handler' = handler /\ main' = main /\ deadline' = deadline /\ began' = began
      /\ errors' = errors /\ open' = open /\ exit' = exit
      /\ main \notin NotLaunched(s) /\ main # "exited" /\ server[s] # "failed"
      /\ \E next \in {"serving", "failed", "closed"} : server' = [server EXCEPT ![s] = next]
  BY DEF Listen, ServerFails, ServerClosed, ServedWhileUp
<1>2. errCh' = errCh \/ (errCh' = Append(errCh, s) /\ server' = [server EXCEPT ![s] = "failed"])
  BY DEF Listen, ServerFails, ServerClosed
<1>3. TypeOK'
  <2>1. errCh' \in Seq(Server)
    BY <1>2, AppendProperties DEF TypeOK
  <2> QED
    BY <1>1, <2>1 DEF TypeOK
<1>4. ServedWhileUp'
  BY <1>1 DEF TypeOK, ServedWhileUp
<1>5. LateReported' /\ Stopped' /\ OneDeadline' /\ BackendOpen'
  BY <1>1 DEF LateReported, Stopped, OneDeadline, BackendOpen, Running
<1>6. ErrChFromFailed'
  <2>0. \A i \in 1 .. Len(errCh) : errCh[i] \in Server /\ errCh[i] # s
    BY <1>1, ElementOfSeq DEF TypeOK, ErrChFromFailed
  <2>1. CASE errCh' = errCh
    BY <1>1, <2>0, <2>1 DEF ErrChFromFailed, TypeOK
  <2>2. CASE errCh' = Append(errCh, s) /\ server' = [server EXCEPT ![s] = "failed"]
    <3>1. Len(errCh) \in Nat /\ Len(errCh') = Len(errCh) + 1
      BY <2>2, LenProperties, AppendProperties DEF TypeOK
    <3>2. \A i \in 1 .. Len(errCh') : errCh'[i] = IF i <= Len(errCh) THEN errCh[i] ELSE s
      BY <2>2, <3>1, AppendProperties DEF TypeOK
    <3>3. \A t \in Server : server'[t] = IF t = s THEN "failed" ELSE server[t]
      BY <2>2 DEF TypeOK
    <3> QED
      BY <2>0, <3>1, <3>2, <3>3 DEF ErrChFromFailed
  <2> QED
    BY <1>2, <2>1, <2>2
<1>7. ErrorsKept'
  <2>1. \A t \in Server : server'[t] = "failed" => server[t] = "failed" \/ t = s
    BY <1>1 DEF TypeOK
  <2>2. CASE errCh' = errCh /\ server'[s] # "failed"
    BY <1>1, <2>1, <2>2 DEF ErrorsKept
  <2>3. CASE errCh' = Append(errCh, s)
    <3>1. Len(errCh) \in Nat /\ Len(errCh') = Len(errCh) + 1
      BY <2>3, LenProperties, AppendProperties DEF TypeOK
    <3>2. /\ \A i \in 1 .. Len(errCh) : i \in 1 .. Len(errCh') /\ errCh'[i] = errCh[i]
          /\ Len(errCh') \in 1 .. Len(errCh') /\ errCh'[Len(errCh')] = s
      BY <2>3, <3>1, AppendProperties DEF TypeOK
    <3> QED
      BY <1>1, <2>1, <3>2 DEF ErrorsKept
  <2>4. errCh' = Append(errCh, s) \/ (errCh' = errCh /\ server'[s] # "failed")
    BY DEF Listen, ServerFails, ServerClosed, TypeOK
  <2> QED
    BY <2>2, <2>3, <2>4
<1>8. CleanExitMeansDrained' /\ SuccessSwallowsNoError'
  BY <1>1 DEF CleanExitMeansDrained, SuccessSwallowsNoError, ServedWhileUp
<1> QED
  BY <1>3, <1>4, <1>5, <1>6, <1>7, <1>8

\* The handlers.
LEMMA HandlerKeepsIInv ==
  ASSUME IInv, NEW r \in Request,
         HandlerEnds(r) \/ \E s \in Server : HandlerStarts(r, s)
  PROVE  IInv'
<1> USE DEF IInv, mainVars, serverVars
<1>1. /\ now' = now /\ signalled' = signalled /\ sweepers' = sweepers
      /\ server' = server /\ stopping' = stopping /\ errCh' = errCh
      /\ main' = main /\ deadline' = deadline /\ began' = began
      /\ errors' = errors /\ open' = open /\ exit' = exit
  BY DEF HandlerEnds, HandlerStarts
<1>2. main \notin Booting \cup {"exited"}
  BY DEF HandlerEnds, HandlerStarts, ServedWhileUp, NotLaunched
<1>3. \/ handler' = [handler EXCEPT ![r] = "none"]
      \/ \E s \in Server : ~stopping[s] /\ handler' = [handler EXCEPT ![r] = s]
  BY DEF HandlerEnds, HandlerStarts
<1>4. TypeOK'
  BY <1>1, <1>3 DEF TypeOK
<1>5. ServedWhileUp'
  BY <1>1, <1>2, <1>3 DEF TypeOK, ServedWhileUp, Server
<1>6. \A s \in Server : stopping[s] => Running(s)' \subseteq Running(s)
  BY <1>3 DEF Running, TypeOK, Server
<1>7. LateReported' /\ Stopped' /\ OneDeadline' /\ BackendOpen'
  BY <1>1, <1>6 DEF LateReported, Stopped, OneDeadline, BackendOpen
<1>8. ErrChFromFailed' /\ ErrorsKept'
  BY <1>1 DEF ErrChFromFailed, ErrorsKept
<1>9. CleanExitMeansDrained' /\ SuccessSwallowsNoError'
  BY <1>1, <1>2 DEF CleanExitMeansDrained, SuccessSwallowsNoError, ServedWhileUp
<1> QED
  BY <1>4, <1>5, <1>7, <1>8, <1>9

\* Start wakes: the deadline is set, and what it takes from errCh it reports.
LEMMA WakeKeepsIInv ==
  ASSUME IInv, WakeOnSignal \/ WakeOnError
  PROVE  IInv'
<1> USE DEF IInv
<1>1. /\ main = "waiting" /\ main' = "api" /\ deadline' = now + Grace /\ began' = now
      /\ now' = now /\ signalled' = signalled /\ server' = server /\ stopping' = stopping
      /\ open' = open /\ sweepers' = sweepers /\ handler' = handler /\ exit' = exit
  BY DEF WakeOnSignal, WakeOnError, Wake
<1>2. \/ errors' = {} /\ errCh' = errCh
      \/ errCh # <<>> /\ errors' = {Head(errCh)} /\ errCh' = Tail(errCh)
  BY DEF WakeOnSignal, WakeOnError, Wake, Cause
<1>3. errCh' \in Seq(Server) /\ errors' \subseteq Server
  <2>1. CASE errors' = {} /\ errCh' = errCh
    BY <2>1 DEF TypeOK
  <2>2. CASE errCh # <<>> /\ errors' = {Head(errCh)} /\ errCh' = Tail(errCh)
    BY <2>2, HeadTailProperties DEF TypeOK
  <2> QED
    BY <1>2, <2>1, <2>2
<1>4. TypeOK'
  BY <1>1, <1>3, LifecycleAssumption DEF TypeOK, Place, ShuttingDown
<1>5. ServedWhileUp'
  BY <1>1 DEF TypeOK, ServedWhileUp, NotLaunched, Booting
<1>6. LateReported' /\ Stopped' /\ OneDeadline' /\ BackendOpen'
  BY <1>1, LifecycleAssumption
     DEF TypeOK, LateReported, Stopped, Draining, OneDeadline, BackendOpen, Past,
         ShuttingDown, Server
<1>7. ErrChFromFailed'
  <2>1. CASE errCh' = errCh
    BY <1>1, <2>1 DEF ErrChFromFailed
  <2>2. CASE errCh # <<>> /\ errCh' = Tail(errCh)
    <3>1. Len(errCh) \in Nat /\ Len(errCh') = Len(errCh) - 1
      BY <2>2, LenProperties, HeadTailProperties DEF TypeOK
    <3>2. \A i \in 1 .. Len(errCh') : errCh'[i] = errCh[i + 1]
      BY <2>2, <3>1, HeadTailProperties DEF TypeOK
    <3>3. \A i \in 1 .. Len(errCh') : i + 1 \in 1 .. Len(errCh)
      BY <3>1
    <3>4. \A i \in 1 .. Len(errCh') : server'[errCh'[i]] = "failed"
      BY <1>1, <3>2, <3>3 DEF ErrChFromFailed
    <3>5. ASSUME NEW i \in 1 .. Len(errCh'), NEW j \in 1 .. Len(errCh'), errCh'[i] = errCh'[j]
          PROVE  i = j
      <4>1. i + 1 = j + 1
        BY <3>2, <3>3, <3>5 DEF ErrChFromFailed
      <4> QED
        BY <3>1, <4>1
    <3> QED
      BY <3>4, <3>5 DEF ErrChFromFailed
  <2> QED
    BY <1>2, <2>1, <2>2
<1>8. ErrorsKept'
  <2>1. main' \in ShuttingDown /\ main' \notin Booting \cup Starting \cup {"waiting"}
    BY <1>1 DEF Booting, Starting, ShuttingDown
  <2>2. errors' # {} \/ signalled'
    BY DEF WakeOnSignal, WakeOnError, Wake, Cause
  <2>3. ASSUME NEW s \in Server, server[s] = "failed"
        PROVE  s \in errors' \/ \E i \in 1 .. Len(errCh') : errCh'[i] = s
    <3>1. PICK i \in 1 .. Len(errCh) : errCh[i] = s
      BY <1>1, <2>3 DEF ErrorsKept
    <3>2. CASE errCh' = errCh
      BY <3>1, <3>2
    <3>3. CASE errCh # <<>> /\ errors' = {Head(errCh)} /\ errCh' = Tail(errCh)
      <4>1. Len(errCh) \in Nat /\ Len(errCh') = Len(errCh) - 1 /\ Head(errCh) = errCh[1]
        BY <3>3, LenProperties, HeadTailProperties DEF TypeOK
      <4>2. \A j \in 1 .. Len(errCh') : errCh'[j] = errCh[j + 1]
        BY <3>3, <4>1, HeadTailProperties DEF TypeOK
      <4>3. CASE i = 1
        BY <3>1, <3>3, <4>1, <4>3
      <4>4. CASE i # 1
        <5>1. i - 1 \in 1 .. Len(errCh') /\ (i - 1) + 1 = i
          BY <4>1, <4>4
        <5> QED
          BY <3>1, <4>2, <5>1
      <4> QED
        BY <4>3, <4>4
    <3> QED
      BY <1>2, <3>2, <3>3
  <2> QED
    BY <1>1, <2>1, <2>2, <2>3 DEF ErrorsKept
<1>9. CleanExitMeansDrained' /\ SuccessSwallowsNoError'
  BY <1>1 DEF CleanExitMeansDrained, SuccessSwallowsNoError, ServedWhileUp
<1> QED
  BY <1>4, <1>5, <1>6, <1>7, <1>8, <1>9

\* Shutdown of a server: called, returned, or given up.
LEMMA ShutdownKeepsIInv ==
  ASSUME IInv, NEW s \in Server, Shutdown(s) \/ DrainEnds(s) \/ DrainTimesOut(s)
  PROVE  IInv'
<1> USE DEF IInv, serverVars
<1>1. /\ now' = now /\ signalled' = signalled /\ server' = server /\ errCh' = errCh
      /\ began' = began /\ deadline' = deadline /\ open' = open /\ sweepers' = sweepers
      /\ handler' = handler /\ exit' = exit
  BY DEF Shutdown, DrainEnds, DrainTimesOut, Drained, NextDeadline
<1>2. main = s \/ main = Draining(s)
  BY DEF Shutdown, DrainEnds, DrainTimesOut
<1>3. main' = After(s) \/ (main = s /\ main' = Draining(s))
  BY DEF Shutdown, DrainEnds, DrainTimesOut, Drained
<1>4. \/ main = s /\ stopping' = [stopping EXCEPT ![s] = TRUE]
      \/ main = Draining(s) /\ stopping' = stopping
  BY DEF Shutdown, DrainEnds, DrainTimesOut
<1>5. errors' = errors \/ (errors' = errors \cup {s} /\ now >= deadline)
  BY DEF Shutdown, DrainEnds, DrainTimesOut, Reported
<1>6. main' = After(s) => Running(s) = {} \/ (s \in errors' /\ now >= deadline)
  BY DEF Shutdown, DrainEnds, DrainTimesOut, Reported, Draining, After, Server
<1>7. TypeOK'
  <2>1. main' \in Place
    BY <1>3 DEF Place, ShuttingDown, Server, After, Draining
  <2>2. stopping' \in [Server -> BOOLEAN]
    BY <1>4 DEF TypeOK
  <2>3. errors' \subseteq Server
    BY <1>5 DEF TypeOK
  <2> QED
    BY <1>1, <2>1, <2>2, <2>3 DEF TypeOK
<1>8. ServedWhileUp'
  BY <1>1, <1>2, <1>3 DEF TypeOK, ServedWhileUp, NotLaunched, Booting, Server, After, Draining
<1>9. \A t \in Server : (stopping[t] => stopping'[t]) /\ (t \in errors => t \in errors')
  BY <1>4, <1>5 DEF TypeOK
<1>10. stopping'[s]
  BY <1>4 DEF TypeOK, Stopped
<1>11. LateReported'
  <2> SUFFICES ASSUME NEW t \in Server, main' \in Past(t)
               PROVE  stopping'[t] /\ (Running(t) # {} => t \in errors' /\ now >= deadline)
    BY <1>1 DEF LateReported, Running
  <2>1. CASE main \in Past(t)
    BY <1>9, <2>1 DEF LateReported
  <2>2. CASE main \notin Past(t)
    <3>1. t = s /\ main' = After(s)
      BY <1>2, <1>3, <2>2 DEF Past, After, Draining, Server
    <3> QED
      BY <1>6, <1>10, <3>1
  <2> QED
    BY <2>1, <2>2
<1>12. Stopped'
  BY <1>2, <1>3, <1>10 DEF Stopped, Draining, After, Server
<1>13. OneDeadline' /\ BackendOpen'
  BY <1>1, <1>2, <1>3 DEF OneDeadline, BackendOpen, ShuttingDown, After, Draining, Server
<1>14. ErrorsKept'
  <2>1. main \in ShuttingDown /\ main' \in ShuttingDown
    BY <1>2, <1>3 DEF ShuttingDown, After, Draining, Server
  <2> QED
    BY <1>1, <1>5, <2>1 DEF ErrorsKept, Booting, Starting, ShuttingDown
<1>15. ErrChFromFailed' /\ CleanExitMeansDrained' /\ SuccessSwallowsNoError'
  BY <1>1, <1>2 DEF ErrChFromFailed, CleanExitMeansDrained, SuccessSwallowsNoError, ServedWhileUp,
                    Draining, Server
<1> QED
  BY <1>7, <1>8, <1>11, <1>12, <1>13, <1>14, <1>15

LEMMA CloseKeepsIInv ==
  ASSUME IInv, CloseBackend
  PROVE  IInv'
<1> USE DEF IInv, CloseBackend, serverVars
<1>1. TypeOK'
  BY DEF TypeOK, Place, ShuttingDown
<1>2. ServedWhileUp'
  BY DEF TypeOK, ServedWhileUp, NotLaunched, Booting
<1>3. LateReported' /\ Stopped'
  BY DEF LateReported, Past, Running, Stopped, Draining, Server
<1>4. OneDeadline' /\ BackendOpen' /\ ErrorsKept'
  BY DEF OneDeadline, BackendOpen, ErrorsKept, Booting, Starting, ShuttingDown
<1>5. ErrChFromFailed' /\ CleanExitMeansDrained' /\ SuccessSwallowsNoError'
  BY DEF ErrChFromFailed, CleanExitMeansDrained, SuccessSwallowsNoError, ServedWhileUp
<1> QED
  BY <1>1, <1>2, <1>3, <1>4, <1>5

\* The end: with nothing to report, both servers were drained.
LEMMA ReturnKeepsIInv ==
  ASSUME IInv, Return
  PROVE  IInv'
<1> USE DEF IInv, Return, Terminate, serverVars
<1>1. TypeOK'
  BY DEF TypeOK, Place, ShuttingDown
<1>2. ServedWhileUp'
  BY DEF TypeOK, ServedWhileUp, NotLaunched, Booting, Server
<1>3. LateReported' /\ Stopped'
  BY DEF LateReported, Past, Stopped, Draining, Server
<1>4. OneDeadline' /\ BackendOpen' /\ ErrorsKept'
  BY DEF OneDeadline, BackendOpen, ErrorsKept, Booting, Starting, ShuttingDown
<1>5. ErrChFromFailed'
  BY DEF ErrChFromFailed
<1>6. CleanExitMeansDrained'
  <2> SUFFICES ASSUME exit' = "ok", NEW r \in Request PROVE handler'[r] # "cut"
    BY DEF CleanExitMeansDrained
  <2>1. errors = {}
    OBVIOUS
  <2>2. \A s \in Server : Running(s) = {}
    BY <2>1 DEF LateReported, Past, Server
  <2>3. handler[r] \notin Server
    BY <2>2 DEF Running
  <2> QED
    BY <2>3 DEF ServedWhileUp
<1>7. SuccessSwallowsNoError'
  BY DEF SuccessSwallowsNoError, ErrorsKept, ShuttingDown
<1> QED
  BY <1>1, <1>2, <1>3, <1>4, <1>5, <1>6, <1>7

LEMMA TickKeepsIInv ==
  ASSUME IInv, Tick
  PROVE  IInv'
<1> USE DEF IInv, Tick, Waits, serverVars, mainVars
<1>1. TypeOK'
  BY DEF TypeOK
<1>2. ServedWhileUp' /\ Stopped' /\ BackendOpen'
  BY DEF ServedWhileUp, Stopped, BackendOpen
<1>3. LateReported'
  BY DEF LateReported, Running, TypeOK
<1>4. OneDeadline'
  <2> SUFFICES ASSUME main \in ShuttingDown
               PROVE  deadline = began + Grace /\ now + 1 <= deadline
    BY DEF OneDeadline
  <2>1. now < deadline
    BY DEF ShuttingDown
  <2> QED
    BY <2>1 DEF OneDeadline, TypeOK
<1>5. ErrorsKept' /\ ErrChFromFailed'
  BY DEF ErrorsKept, ErrChFromFailed
<1>6. CleanExitMeansDrained' /\ SuccessSwallowsNoError'
  BY DEF CleanExitMeansDrained, SuccessSwallowsNoError
<1> QED
  BY <1>1, <1>2, <1>3, <1>4, <1>5, <1>6

LEMMA NextKeepsIInv == IInv /\ [Next]_vars => IInv'
<1> SUFFICES ASSUME IInv, [Next]_vars PROVE IInv'
  OBVIOUS
<1>1. CASE Exited \/ UNCHANGED vars
  <2>1. UNCHANGED vars
    BY <1>1 DEF Exited
  <2>2. TypeOK' /\ ServedWhileUp' /\ LateReported' /\ Stopped'
    BY <2>1 DEF vars, IInv, TypeOK, ServedWhileUp, LateReported, Running, Stopped
  <2>3. OneDeadline' /\ BackendOpen' /\ ErrorsKept' /\ ErrChFromFailed'
    BY <2>1 DEF vars, IInv, OneDeadline, BackendOpen, ErrorsKept, ErrChFromFailed
  <2>4. CleanExitMeansDrained' /\ SuccessSwallowsNoError'
    BY <2>1 DEF vars, IInv, CleanExitMeansDrained, SuccessSwallowsNoError
  <2> QED
    BY <2>2, <2>3, <2>4 DEF IInv
<1>2. CASE Main
  BY <1>2, BootKeepsIInv, StartKeepsIInv, WakeKeepsIInv, ShutdownKeepsIInv, CloseKeepsIInv,
     ReturnKeepsIInv DEF Main
<1>3. CASE Signal \/ TokenSweeperStops
  BY <1>3, SignalKeepsIInv
<1>4. CASE Tick
  BY <1>4, TickKeepsIInv
<1>5. CASE \E s \in Server : Listen(s) \/ ServerFails(s) \/ ServerClosed(s)
  BY <1>5, ServerKeepsIInv
<1>6. CASE \/ \E r \in Request, s \in Server : HandlerStarts(r, s)
           \/ \E r \in Request : HandlerEnds(r)
  BY <1>6, HandlerKeepsIInv
<1> QED
  BY <1>1, <1>2, <1>3, <1>4, <1>5, <1>6 DEF Next

LEMMA AlwaysIInv == Spec => []IInv
BY InitIInv, NextKeepsIInv, PTL DEF Spec

--------------------------------------------------------------------------------

\* shutdown joins the error of every drain that gave up, on either server, so a
\* process that reports success has cut no request.
THEOREM CleanExit == Spec => []CleanExitMeansDrained
<1>1. IInv => CleanExitMeansDrained
  BY DEF IInv
<1> QED
  BY <1>1, AlwaysIInv, PTL

\* The two drains share one context: however the first uses it, shutdown ends within
\* one grace period of its beginning.
THEOREM OneGracePeriod == Spec => []ShutdownBounded
<1>1. IInv => ShutdownBounded
  BY DEF IInv, TypeOK, OneDeadline, ShuttingDown, ShutdownBounded
<1> QED
  BY <1>1, AlwaysIInv, PTL

\* backend.Close comes after both drains, so only a handler that outlasts the grace
\* period can find the backend closed.
THEOREM BackendClosedLast == Spec => []BackendOutlivesHandlers
<1>1. IInv => BackendOutlivesHandlers
  <2> SUFFICES ASSUME IInv, NEW s \in Server, Running(s) # {}
               PROVE  open \/ (main = "return" /\ now >= deadline)
    BY DEF BackendOutlivesHandlers
  <2>1. main \notin Booting \cup {"exited"}
    BY DEF IInv, ServedWhileUp, Running
  <2>2. CASE main = "return"
    BY <2>2 DEF IInv, LateReported, Past, Server
  <2>3. CASE main # "return"
    BY <2>1, <2>3 DEF IInv, TypeOK, Place, BackendOpen
  <2> QED
    BY <2>2, <2>3
<1> QED
  BY <1>1, AlwaysIInv, PTL

\* The branch of the select that receives a server's error returns it, and the other is
\* taken only after a signal: a process that reports success was told to stop, and has
\* left every error a server sent unread in errCh.
THEOREM NoErrorSwallowed == Spec => []SuccessSwallowsNoError
<1>1. IInv => SuccessSwallowsNoError
  BY DEF IInv
<1> QED
  BY <1>1, AlwaysIInv, PTL

\* make(chan error, 2) is large enough: a server's goroutine never blocks on its
\* send, so it cannot leak, even when both servers fail and nobody reads again.
ErrChNeverFull == Len(errCh) <= 2

THEOREM ErrorsNeverBlock == Spec => []ErrChNeverFull
<1>1. IInv => ErrChNeverFull
  <2> SUFFICES ASSUME IInv, Len(errCh) > 2 PROVE FALSE
    BY LenProperties DEF IInv, TypeOK, ErrChNeverFull
  <2>1. Len(errCh) \in Nat
    BY LenProperties DEF IInv, TypeOK
  <2>2. 1 \in 1 .. Len(errCh) /\ 2 \in 1 .. Len(errCh) /\ 3 \in 1 .. Len(errCh)
    BY <2>1
  <2>3. errCh[1] \in Server /\ errCh[2] \in Server /\ errCh[3] \in Server
    BY <2>2, ElementOfSeq DEF IInv, TypeOK
  <2>4. errCh[1] # errCh[2] /\ errCh[1] # errCh[3] /\ errCh[2] # errCh[3]
    BY <2>2 DEF IInv, ErrChFromFailed
  <2> QED
    BY <2>3, <2>4 DEF Server
<1> QED
  BY <1>1, AlwaysIInv, PTL
================================================================================

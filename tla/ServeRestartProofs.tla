------------------------ MODULE ServeRestartProofs --------------------------
(***************************************************************************)
(* What Stop promises of any number of web servers, and that the calls of    *)
(* ListenAndServe that wait for the earlier servers to be stopped are served, *)
(* for any number of calls.                                                 *)
(***************************************************************************)
EXTENDS ServeRestart, TLAPS

-----------------------------------------------------------------------------
(* The web servers.                                                        *)
Callers == {"none", "up", "ready", "close", "wait", "down", "stopped", "panic"}
Listeners == {"none", "bind", "serve", "done"}

Types ==
  /\ owner \in Server \cup {Nobody, Other}
  /\ caller \in [Server -> Callers]
  /\ listener \in [Server -> Listeners]
  /\ ready \subseteq Server /\ stopping \subseteq Server /\ closed \subseteq Server

\* A goroutine holds the address until its listener is closed.
OwnerOpen ==
  \A s \in Server : owner = s <=> listener[s] = "serve" /\ s \notin closed

\* The goroutine of a server is over when Stop stops waiting for it.
Ended ==
  \A s \in Server :
    /\ caller[s] = "none" => listener[s] = "none"
    /\ caller[s] \in {"down", "stopped"} => listener[s] = "done"

\* Stop has closed the listener unless it is about to.
Closing ==
  \A s \in Server : s \in stopping => caller[s] = "close" \/ s \in closed

ServerInv == Types /\ OwnerOpen /\ Ended /\ Closing

LEMMA InitServerInv == ASSUME WebServerAssumption PROVE Init => ServerInv
BY DEF WebServerAssumption, Init, ServerInv, Types, OwnerOpen, Ended, Closing, Callers, Listeners

\* A try changes no more than the caller, which panics.
LEMMA AgainPanics ==
  ASSUME NEW s \in Server, Again(s)
  PROVE  caller' = caller \/ caller' = [caller EXCEPT ![s] = "panic"]
BY DEF Again

LEMMA StepServerInv ==
  ASSUME WebServerAssumption, ServerInv, [Next]_serverVars
  PROVE  ServerInv'
<1> USE WebServerAssumption DEF Types, Callers, Listeners, WebServerAssumption
<1>0. Types /\ OwnerOpen /\ Ended /\ Closing
  BY DEF ServerInv
<1>1. CASE UNCHANGED serverVars
  BY <1>0, <1>1 DEF serverVars, ServerInv, OwnerOpen, Ended, Closing
<1>2. CASE OtherProcess
  BY <1>0, <1>2 DEF OtherProcess, ServerInv, OwnerOpen, Ended, Closing
<1>3. ASSUME NEW s \in Server, Start(s) PROVE ServerInv'
  BY <1>0, <1>3 DEF Start, Goes, ServerInv, OwnerOpen, Ended, Closing
<1>4. ASSUME NEW s \in Server, Stop(s) PROVE ServerInv'
  BY <1>0, <1>4 DEF Stop, Goes, ServerInv, OwnerOpen, Ended, Closing
<1>5. ASSUME NEW s \in Server, Bind(s) PROVE ServerInv'
  BY <1>0, <1>5 DEF Bind, ServerInv, OwnerOpen, Ended, Closing
<1>6. ASSUME NEW s \in Server, ListenerEnds(s) PROVE ServerInv'
  BY <1>0, <1>6 DEF ListenerEnds, ServerInv, OwnerOpen, Ended, Closing
<1>7. ASSUME NEW s \in Server, PollUp(s) PROVE ServerInv'
  <2>1. \/ caller' = [caller EXCEPT ![s] = "ready"] /\ ready' = ready \cup {s}
        \/ (caller' = caller \/ caller' = [caller EXCEPT ![s] = "panic"]) /\ ready' = ready
    BY <1>7, AgainPanics DEF PollUp, Goes
  <2>2. caller[s] = "up" /\ UNCHANGED <<owner, listener, stopping, closed>>
    BY <1>7 DEF PollUp
  <2> QED
    BY <1>0, <2>1, <2>2 DEF ServerInv, OwnerOpen, Ended, Closing
<1>8. ASSUME NEW s \in Server, Close(s) PROVE ServerInv'
  BY <1>0, <1>8 DEF Close, Goes, ServerInv, OwnerOpen, Ended, Closing
<1>9. ASSUME NEW s \in Server, SeeDone(s) PROVE ServerInv'
  BY <1>0, <1>9 DEF SeeDone, Goes, ServerInv, OwnerOpen, Ended, Closing
<1>10. ASSUME NEW s \in Server, PollDown(s) PROVE ServerInv'
  <2>1. \/ caller' = [caller EXCEPT ![s] = "stopped"]
        \/ caller' = caller \/ caller' = [caller EXCEPT ![s] = "panic"]
    BY <1>10, AgainPanics DEF PollDown, Goes
  <2>2. caller[s] = "down" /\ UNCHANGED <<owner, listener, ready, stopping, closed>>
    BY <1>10 DEF PollDown
  <2> QED
    BY <1>0, <2>1, <2>2 DEF ServerInv, OwnerOpen, Ended, Closing
<1>11. ASSUME NEW s \in Server, Drop(s) PROVE ServerInv'
  BY <1>0, <1>11 DEF Drop, Goes, ServerInv, OwnerOpen, Ended, Closing
<1> QED
  BY <1>1, <1>2, <1>3, <1>4, <1>5, <1>6, <1>7, <1>8, <1>9, <1>10, <1>11 DEF Next, Runs

LEMMA ServerInvImplies == ServerInv => StoppedIsDown /\ OwnerServes
BY DEF ServerInv, Types, OwnerOpen, Ended, Closing, StoppedIsDown, OwnerServes,
       IsStopRequested, Callers, Listeners

\* Stop returns only after its server gave up the address and its goroutine
\* ended; an address is held only by a goroutine that Stop can still end.  Both
\* rest on what Bind assumes of a ListenAndServe that comes after Close.
THEOREM StopWorks == Spec => [](StoppedIsDown /\ OwnerServes)
<1>1. Init => ServerInv
  BY InitServerInv, WebServerAssumption
<1>2. ServerInv /\ [Next]_serverVars => ServerInv'
  BY StepServerInv, WebServerAssumption
<1> QED
  BY <1>1, <1>2, ServerInvImplies, PTL DEF Spec

\* Nobody holds the address who cannot be stopped any more, by the same
\* assumption.
THEOREM OwnerStoppable == Spec => []OwnerServes
BY StopWorks, PTL

-----------------------------------------------------------------------------
\* A poll that was begun gives up in time.
Counted == tries \in [Server -> 0..MaxTries]

LEMMA StepCounted ==
  ASSUME WebServerAssumption, Counted, [Next]_serverVars
  PROVE  Counted'
<1> USE DEF WebServerAssumption, Counted
<1>1. CASE tries' = tries
  BY <1>1
<1>2. ASSUME NEW s \in Server, Start(s) \/ SeeDone(s) \/ Drop(s) PROVE Counted'
  BY <1>2 DEF Start, SeeDone, Drop
<1>3. ASSUME NEW s \in Server, Again(s) PROVE Counted'
  BY <1>3 DEF Again
<1>4. ASSUME NEW s \in Server, PollUp(s) \/ PollDown(s) PROVE Counted'
  BY <1>1, <1>3, <1>4 DEF PollUp, PollDown
<1>5. ASSUME NEW s \in Server, Stop(s) \/ Bind(s) \/ ListenerEnds(s) \/ Close(s) PROVE Counted'
  BY <1>1, <1>5 DEF Stop, Bind, ListenerEnds, Close
<1>6. CASE OtherProcess \/ UNCHANGED serverVars
  BY <1>1, <1>6 DEF OtherProcess, serverVars
<1> QED
  BY <1>2, <1>4, <1>5, <1>6 DEF Next, Runs

LEMMA TypesCounted == ServerInv /\ Counted => TypeOK
BY DEF ServerInv, Types, Counted, TypeOK, Callers, Listeners

\* A poll never counts beyond its last try, and callers, goroutines and the
\* address keep their types.
THEOREM TypeCorrect == Spec => []TypeOK
<1>1. Init => ServerInv /\ Counted
  BY InitServerInv, WebServerAssumption DEF Init, Counted, WebServerAssumption
<1>2. ServerInv /\ Counted /\ [Next]_serverVars => ServerInv' /\ Counted'
  BY StepServerInv, StepCounted, WebServerAssumption
<1> QED
  BY <1>1, <1>2, TypesCounted, PTL DEF Spec

-----------------------------------------------------------------------------
(* The calls of ListenAndServe.                                            *)
Active(s) == caller[s] \notin {"none", "stopped"}

RestartTypes ==
  /\ cur \in Server \cup {Nobody}
  /\ orderly \in BOOLEAN
  /\ owner # Other

\* One web server at a time, of the call in progress or of one just left.
OneServer ==
  orderly => \A s, t \in Server : Active(s) /\ Active(t) => s = t

\* Before its goroutine has run and after, the call in progress finds the
\* address free or its own.
Coming ==
  orderly => \A s \in Server :
    /\ caller[s] = "up" => listener[s] \in {"bind", "serve"} /\ s \notin closed
    /\ s \in ready \ stopping => owner = s
    /\ s \in ready => caller[s] \notin {"none", "up"}
    /\ s \in closed => s \in stopping
    /\ caller[s] = "ready" => s \in ready \ stopping
    /\ caller[s] \in {"close", "wait", "down", "stopped"} => s \in stopping
    /\ caller[s] \in {"none", "up"} => s \notin stopping
    /\ caller[s] # "panic"

RestartInv == ServerInv /\ RestartTypes /\ OneServer /\ Coming

LEMMA InitRestartInv == ASSUME WebServerAssumption PROVE RestartInit => RestartInv
BY InitServerInv DEF WebServerAssumption, RestartInit, Init, RestartInv, RestartTypes,
       OneServer, Active, Coming

\* The steps of the web servers are those of WebServer.
LEMMA RestartIsServer ==
  ASSUME [RestartNext]_restartVars
  PROVE  [Next]_serverVars
BY DEF RestartNext, restartVars, Call, Leave, WatchdogStops, ServerRuns, Forget, Next, Runs

LEMMA StepRestartInv ==
  ASSUME WebServerAssumption, RestartInv, [RestartNext]_restartVars
  PROVE  RestartInv'
<1> USE WebServerAssumption DEF Types, Callers, Listeners, WebServerAssumption
<1>0. Types /\ OwnerOpen /\ Ended /\ RestartTypes /\ OneServer /\ Coming
  BY DEF RestartInv, ServerInv
<1>1. ServerInv' /\ Types'
  BY RestartIsServer, StepServerInv DEF RestartInv, ServerInv
<1>2. CASE UNCHANGED restartVars
  BY <1>0, <1>1, <1>2
     DEF restartVars, serverVars, RestartInv, RestartTypes, OneServer, Active, Coming
<1>3. ASSUME NEW s \in Server, Call(s) PROVE RestartInv'
  <2>1. orderly' \in BOOLEAN
    BY <1>3 DEF Call
  <2>2. orderly' => orderly /\ \A t \in Server : caller[t] \in {"none", "stopped"}
    BY <1>3 DEF Call
  <2>3. /\ caller[s] = "none" /\ caller' = [caller EXCEPT ![s] = "up"]
        /\ listener' = [listener EXCEPT ![s] = "bind"]
        /\ UNCHANGED <<owner, ready, stopping, closed>> /\ cur' = s
    BY <1>3 DEF Call, Start, Goes
  <2> QED
    BY <1>0, <1>1, <2>1, <2>2, <2>3
       DEF RestartInv, RestartTypes, OneServer, Active, Coming
<1>4. ASSUME NEW s \in Server, Leave(s) PROVE RestartInv'
  BY <1>0, <1>1, <1>4
     DEF Leave, serverVars, RestartInv, RestartTypes, OneServer, Active, Coming
<1>5. ASSUME NEW s \in Server, WatchdogStops(s) PROVE RestartInv'
  BY <1>0, <1>1, <1>5
     DEF WatchdogStops, Stop, Goes, RestartInv, RestartTypes, OneServer, Active, Coming
<1>6. ASSUME NEW s \in Server, Forget(s) PROVE RestartInv'
  BY <1>0, <1>1, <1>6
     DEF Forget, Drop, Goes, RestartInv, RestartTypes, OneServer, Active, Coming
<1>7. ASSUME NEW s \in Server, ServerRuns(s) PROVE RestartInv'
  <2>0. UNCHANGED <<cur, left, orderly>>
    BY <1>7 DEF ServerRuns
  <2>1. CASE Bind(s)
    <3>1. listener[s] = "bind" /\ UNCHANGED <<caller, ready, stopping, closed>>
      BY <2>1 DEF Bind
    <3>2. \/ owner = Nobody /\ owner' = s /\ listener' = [listener EXCEPT ![s] = "serve"]
          \/ owner # Nobody /\ owner' = owner /\ listener' = [listener EXCEPT ![s] = "done"]
          \/ s \in closed /\ owner' = owner /\ listener' = [listener EXCEPT ![s] = "done"]
      BY <2>1 DEF Bind
    <3>3. orderly => owner = Nobody
      BY <1>0, <3>1 DEF RestartTypes, OwnerOpen, Ended, OneServer, Active
    <3>4. RestartTypes' /\ OneServer'
      BY <1>0, <2>0, <3>1, <3>2 DEF RestartTypes, OneServer, Active
    <3>5. Coming'
      BY <1>0, <2>0, <3>1, <3>2, <3>3 DEF Coming
    <3> QED
      BY <1>1, <3>4, <3>5 DEF RestartInv
  <2>2. CASE ListenerEnds(s)
    BY <1>0, <1>1, <2>0, <2>2
       DEF ListenerEnds, RestartInv, RestartTypes, OneServer, Active, Coming
  <2>3. CASE PollUp(s)
    <3>1. caller[s] = "up" /\ UNCHANGED <<owner, listener, stopping, closed>>
      BY <2>3 DEF PollUp
    <3>2. orderly /\ owner # Nobody => owner = s
      BY <1>0, <3>1 DEF RestartTypes, OwnerOpen, Ended, OneServer, Active
    <3>3. orderly /\ listener[s] # "bind" => owner = s
      BY <1>0, <3>1 DEF OwnerOpen, Coming
    <3>4. \/ owner # Nobody /\ caller' = [caller EXCEPT ![s] = "ready"] /\ ready' = ready \cup {s}
          \/ caller' = caller /\ ready' = ready
          \/ ~orderly /\ caller' = [caller EXCEPT ![s] = "panic"] /\ ready' = ready
      <4>1. CASE owner # Nobody
        BY <2>3, <4>1 DEF PollUp, PortIsBound, Goes
      <4>2. CASE owner = Nobody
        <5>1. Again(s) /\ ready' = ready /\ listener[s] # "bind"
          BY <2>3, <4>2 DEF PollUp, PortIsBound, Again
        <5>2. ~orderly
          BY <5>1, <3>3, <4>2
        <5> QED
          BY <5>1, <5>2, AgainPanics
      <4> QED
        BY <4>1, <4>2
    <3> QED
      BY <1>0, <1>1, <2>0, <3>1, <3>2, <3>4
         DEF RestartInv, RestartTypes, OneServer, Active, Coming
  <2>4. CASE Close(s)
    BY <1>0, <1>1, <2>0, <2>4
       DEF Close, Goes, RestartInv, RestartTypes, OneServer, Active, Coming
  <2>5. CASE SeeDone(s)
    BY <1>0, <1>1, <2>0, <2>5
       DEF SeeDone, Goes, RestartInv, RestartTypes, OneServer, Active, Coming
  <2>6. CASE PollDown(s)
    <3>1. caller[s] = "down" /\ UNCHANGED <<owner, listener, ready, stopping, closed>>
      BY <2>6 DEF PollDown
    <3>2. orderly => owner = Nobody
      BY <1>0, <3>1 DEF RestartTypes, OwnerOpen, Ended, OneServer, Active
    <3>3. \/ caller' = [caller EXCEPT ![s] = "stopped"]
          \/ caller' = caller
          \/ ~orderly /\ caller' = [caller EXCEPT ![s] = "panic"]
      BY <2>6, <3>2, AgainPanics DEF PollDown, PortIsBound, Goes
    <3> QED
      BY <1>0, <1>1, <2>0, <3>1, <3>3
         DEF RestartInv, RestartTypes, OneServer, Active, Coming
  <2> QED
    BY <1>7, <2>1, <2>2, <2>3, <2>4, <2>5, <2>6 DEF ServerRuns
<1> QED
  BY <1>2, <1>3, <1>4, <1>5, <1>6, <1>7 DEF RestartNext

LEMMA RestartInvImplies == RestartInv => OrderlyServes /\ OrderlyNoPanic
<1> SUFFICES ASSUME RestartInv, orderly PROVE (cur \in ready \ stopping => owner = cur) /\ ~Crashed
  BY DEF OrderlyServes, OrderlyNoPanic
<1>1. ready \subseteq Server
  BY DEF RestartInv, ServerInv, Types
<1> QED
  BY <1>1 DEF RestartInv, Coming, Crashed

\* Who calls ListenAndServe again only after the watchdog has stopped the
\* earlier web servers is served by the new one and never meets a panic.
THEOREM OrderlyRestart == RestartSpec => [](OrderlyServes /\ OrderlyNoPanic)
<1>1. RestartInit => RestartInv
  BY InitRestartInv, WebServerAssumption
<1>2. RestartInv /\ [RestartNext]_restartVars => RestartInv'
  BY StepRestartInv, WebServerAssumption
<1> QED
  BY <1>1, <1>2, RestartInvImplies, PTL DEF RestartSpec

\* Stop keeps its promises under restarts too.
THEOREM RestartStops == RestartSpec => [](StoppedIsDown /\ OwnerServes)
<1>1. RestartInit => RestartInv
  BY InitRestartInv, WebServerAssumption
<1>2. RestartInv /\ [RestartNext]_restartVars => RestartInv'
  BY StepRestartInv, WebServerAssumption
<1>3. RestartInv => StoppedIsDown /\ OwnerServes
  BY ServerInvImplies DEF RestartInv
<1> QED
  BY <1>1, <1>2, <1>3, PTL DEF RestartSpec

\* Restarting after the watchdog has acted never panics.
THEOREM OrderlyCalm == RestartSpec => []OrderlyNoPanic
BY OrderlyRestart, PTL

-----------------------------------------------------------------------------
LeftTyped == left \subseteq Server

LEMMA StepLeftTyped == ASSUME LeftTyped, [RestartNext]_restartVars PROVE LeftTyped'
BY DEF LeftTyped, RestartNext, restartVars, Call, Leave, WatchdogStops, ServerRuns, Forget

\* The web servers of any sequence of calls keep their types.
THEOREM RestartTypeCorrect == RestartSpec => []RestartTypeOK
<1>1. RestartInit => RestartInv /\ Counted /\ LeftTyped
  BY InitRestartInv, WebServerAssumption DEF RestartInit, Init, Counted, LeftTyped, WebServerAssumption
<1>2. RestartInv /\ Counted /\ LeftTyped /\ [RestartNext]_restartVars
        => RestartInv' /\ Counted' /\ LeftTyped'
  BY StepRestartInv, StepCounted, RestartIsServer, StepLeftTyped, WebServerAssumption
<1>3. RestartInv /\ Counted /\ LeftTyped => RestartTypeOK
  BY TypesCounted DEF RestartInv, RestartTypes, LeftTyped, RestartTypeOK
<1> QED
  BY <1>1, <1>2, <1>3, PTL DEF RestartSpec
=============================================================================

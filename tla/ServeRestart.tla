---------------------------- MODULE ServeRestart ----------------------------
(***************************************************************************)
(* ListenAndServe called again and again from the R console (r2go.go): each *)
(* call makes a web server of its own on the same address, and leaves it,   *)
(* on Ctrl-C or an R error, to a watchdog that stops it some time later.    *)
(* The address is used by this process only.                                *)
(***************************************************************************)
EXTENDS WebServer

VARIABLES
  cur,      \* the server of the call in progress on the R thread, or Nobody
  left,     \* the servers of the calls that were left
  orderly   \* history: every call came after the earlier servers were stopped

restartVars == <<serverVars, cur, left, orderly>>

RestartInit == Init /\ cur = Nobody /\ left = {} /\ orderly = TRUE

\* ListenAndServe: NewWebServer.
Call(s) ==
  /\ cur = Nobody
  /\ Start(s)
  /\ cur' = s
  /\ orderly' = (orderly /\ \A t \in Server : caller[t] \in {"none", "stopped"})
  /\ UNCHANGED left

\* R_CheckUserInterrupt or Rf_error jumps out of the main loop, which
\* starts once the server is up.
Leave(s) ==
  /\ ~Crashed /\ cur = s /\ s \in ready
  /\ cur' = Nobody
  /\ left' = left \cup {s}
  /\ UNCHANGED <<serverVars, orderly>>

\* The watchdog of the call finds the heartbeat late and calls Stop: the
\* call was left, or an R handler takes longer than 300ms.
WatchdogStops(s) == Stop(s) /\ UNCHANGED <<cur, left, orderly>>

ServerRuns(s) ==
  /\ Bind(s) \/ ListenerEnds(s) \/ PollUp(s) \/ Close(s) \/ SeeDone(s) \/ PollDown(s)
  /\ UNCHANGED <<cur, left, orderly>>

\* Nothing refers to the server any more.
Forget(s) ==
  /\ s \in left
  /\ Drop(s)
  /\ left' = left \ {s}
  /\ UNCHANGED <<cur, orderly>>

RestartNext ==
  \E s \in Server : Call(s) \/ Leave(s) \/ WatchdogStops(s) \/ ServerRuns(s) \/ Forget(s)

RestartSpec == RestartInit /\ [][RestartNext]_restartVars

\* Goroutines that can run do; the heartbeat of a call that was left ages.
RestartFairSpec ==
  /\ RestartSpec
  /\ \A s \in Server :
       /\ WF_restartVars(ServerRuns(s))
       /\ WF_restartVars(s \in left /\ WatchdogStops(s))

-----------------------------------------------------------------------------
RestartTypeOK ==
  /\ TypeOK
  /\ cur \in Server \cup {Nobody}
  /\ left \subseteq Server
  /\ orderly \in BOOLEAN

\* A call made after the earlier servers were stopped is served by its own
\* web server once NewWebServer returned, until its own watchdog stops it.
OrderlyServes == orderly /\ cur \in ready \ stopping => owner = cur

\* Restarting does not panic when the user waits for the watchdog.
OrderlyNoPanic == orderly => ~Crashed

\* "cleanup is fairly automatic": the server of a call that was left is
\* stopped, unless a panic ended the process.
LeftIsStopped ==
  \A s \in Server : s \in left ~> caller[s] \in {"stopped", "none"} \/ Crashed

\* "ListenAndServe() will start a new webserver everytime it is called": a
\* call in progress is served by its own web server, which Stop was not
\* called for.
EveryCallServes == cur \in ready \ stopping => owner = cur
=============================================================================

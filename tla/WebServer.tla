----------------------------- MODULE WebServer ------------------------------
(***************************************************************************)
(* The web servers of one process on one address (web.go).  NewWebServer    *)
(* starts a goroutine that listens, and polls the address until somebody    *)
(* answers there; Stop closes the listener, waits for the goroutine and     *)
(* polls until nobody answers.  Both polls panic after 40 tries of 500ms,   *)
(* and a panic ends the process.                                            *)
(*                                                                         *)
(* The tigertonic server is modelled from its use: Close releases the       *)
(* address and makes ListenAndServe return.  That ListenAndServe returns at  *)
(* once when Close was called before it, without taking the address, is an   *)
(* assumption about that library: when Stop overtakes the listening          *)
(* goroutine, all that is said of it below rests on this.                    *)
(***************************************************************************)
EXTENDS Naturals

CONSTANTS
  Server,
  Nobody,    \* the owner of a free address
  Other,     \* another process
  MaxTries   \* tries of a poll (40 in the code)

ASSUME WebServerAssumption ==
  /\ Nobody \notin Server /\ Other \notin Server \cup {Nobody}
  /\ MaxTries \in Nat \ {0}

VARIABLES
  owner,      \* who listens on the address
  caller,     \* where the goroutine that called NewWebServer or Stop is
  listener,   \* where the goroutine that runs ListenAndServe is
  ready,      \* the servers whose ServerReady is closed
  stopping,   \* the servers whose requestStop is closed
  closed,     \* the servers whose listener Close was called for
  tries       \* of the poll in progress

serverVars == <<owner, caller, listener, ready, stopping, closed, tries>>

Init ==
  /\ owner = Nobody
  /\ caller = [s \in Server |-> "none"]
  /\ listener = [s \in Server |-> "none"]
  /\ ready = {}
  /\ stopping = {}
  /\ closed = {}
  /\ tries = [s \in Server |-> 0]

PortIsBound == owner # Nobody
Crashed == \E s \in Server : caller[s] = "panic"
IsStopRequested(s) == s \in stopping

Goes(s, from, to) == ~Crashed /\ caller[s] = from /\ caller' = [caller EXCEPT ![s] = to]

\* Mutant: the poll never gives up.
AgainForEver(s) ==
  /\ ~Crashed /\ listener[s] # "bind"
  /\ tries' = [tries EXCEPT ![s] = @ + 1] /\ UNCHANGED caller

\* One more try, or a panic.  By the time of a second try the goroutine of
\* the server has called ListenAndServe.
Again(s) ==
  /\ ~Crashed /\ listener[s] # "bind"
  /\ IF tries[s] < MaxTries
     THEN tries' = [tries EXCEPT ![s] = @ + 1] /\ UNCHANGED caller
     ELSE caller' = [caller EXCEPT ![s] = "panic"] /\ UNCHANGED tries

\* NewWebServer, which calls Start: the goroutine is started.
Start(s) ==
  /\ Goes(s, "none", "up")
  /\ listener' = [listener EXCEPT ![s] = "bind"]
  /\ tries' = [tries EXCEPT ![s] = 1]
  /\ UNCHANGED <<owner, ready, stopping, closed>>

\* ListenAndServe takes the address, or returns an error that is ignored:
\* Done is closed ("done").  After an earlier Close it is assumed to return
\* too (s \in closed): nothing in web.go makes it.
Bind(s) ==
  /\ ~Crashed /\ listener[s] = "bind"
  /\ IF owner = Nobody /\ s \notin closed
     THEN owner' = s /\ listener' = [listener EXCEPT ![s] = "serve"]
     ELSE listener' = [listener EXCEPT ![s] = "done"] /\ UNCHANGED owner
  /\ UNCHANGED <<caller, ready, stopping, closed, tries>>

\* ListenAndServe returns when its listener was closed.
ListenerEnds(s) ==
  /\ ~Crashed /\ listener[s] = "serve" /\ s \in closed
  /\ listener' = [listener EXCEPT ![s] = "done"]
  /\ UNCHANGED <<owner, caller, ready, stopping, closed, tries>>

\* Mutant: NewWebServer does not wait for the listener.
PollUpNot(s) ==
  /\ Goes(s, "up", "ready") /\ ready' = ready \cup {s}
  /\ UNCHANGED <<tries, owner, listener, stopping, closed>>

\* WaitUntilServerUp: any answer at the address will do.
PollUp(s) ==
  /\ caller[s] = "up"
  /\ IF PortIsBound
     THEN Goes(s, "up", "ready") /\ ready' = ready \cup {s} /\ UNCHANGED tries
     ELSE Again(s) /\ UNCHANGED ready
  /\ UNCHANGED <<owner, listener, stopping, closed>>

Stop(s) ==
  /\ Goes(s, "ready", "close")
  /\ stopping' = stopping \cup {s}
  /\ UNCHANGED <<owner, listener, ready, closed, tries>>

\* Mutant: the listener stays open.
CloseNothing(s) ==
  /\ Goes(s, "close", "wait")
  /\ UNCHANGED <<owner, listener, ready, stopping, closed, tries>>

\* Mutant: the goroutine is told to end and the address is not released.
CloseKeepsAddress(s) ==
  /\ Goes(s, "close", "wait")
  /\ closed' = closed \cup {s}
  /\ UNCHANGED <<owner, listener, ready, stopping, tries>>

\* tts.Close()
Close(s) ==
  /\ Goes(s, "close", "wait")
  /\ closed' = closed \cup {s}
  /\ owner' = IF owner = s THEN Nobody ELSE owner
  /\ UNCHANGED <<listener, ready, stopping, tries>>

\* Mutant: Stop does not wait for the goroutine.
SkipDone(s) ==
  /\ Goes(s, "wait", "down")
  /\ tries' = [tries EXCEPT ![s] = 1]
  /\ UNCHANGED <<owner, listener, ready, stopping, closed>>

\* <-s.Done
SeeDone(s) ==
  /\ listener[s] = "done"
  /\ Goes(s, "wait", "down")
  /\ tries' = [tries EXCEPT ![s] = 1]
  /\ UNCHANGED <<owner, listener, ready, stopping, closed>>

\* WaitUntilServerDown: the address must be free, of everybody.
PollDown(s) ==
  /\ caller[s] = "down"
  /\ IF ~PortIsBound THEN Goes(s, "down", "stopped") /\ UNCHANGED tries ELSE Again(s)
  /\ UNCHANGED <<owner, listener, ready, stopping, closed>>

\* The server object is dropped; its name stands for a later one.
Drop(s) ==
  /\ Goes(s, "stopped", "none")
  /\ listener' = [listener EXCEPT ![s] = "none"]
  /\ ready' = ready \ {s} /\ stopping' = stopping \ {s} /\ closed' = closed \ {s}
  /\ tries' = [tries EXCEPT ![s] = 0]
  /\ UNCHANGED owner

\* Another process takes the free address, or releases it.
OtherProcess ==
  /\ ~Crashed
  /\ \/ owner = Nobody /\ owner' = Other
     \/ owner = Other /\ owner' = Nobody
  /\ UNCHANGED <<caller, listener, ready, stopping, closed, tries>>

\* What goes on in a server once it was started.
Runs(s) ==
  Bind(s) \/ ListenerEnds(s) \/ PollUp(s) \/ Close(s) \/ SeeDone(s) \/ PollDown(s) \/ Drop(s)

Next == OtherProcess \/ \E s \in Server : Start(s) \/ Stop(s) \/ Runs(s)

Spec == Init /\ [][Next]_serverVars

\* Goroutines that can run do.
FairSpec == Spec /\ \A s \in Server : WF_serverVars(Runs(s))

-----------------------------------------------------------------------------
TypeOK ==
  /\ owner \in Server \cup {Nobody, Other}
  /\ caller \in [Server -> {"none", "up", "ready", "close", "wait", "down", "stopped", "panic"}]
  /\ listener \in [Server -> {"none", "bind", "serve", "done"}]
  /\ {ready, stopping, closed} \subseteq SUBSET Server
  /\ tries \in [Server -> 0..MaxTries]

\* Stop returns only after the server gave up the address and its goroutine
\* ended, although the address is polled and not the server.
StoppedIsDown ==
  \A s \in Server : caller[s] \in {"stopped", "none"} =>
    owner # s /\ listener[s] \in {"done", "none"}

\* A server that owns the address serves it, until Stop is called: the
\* address is not held by a goroutine nobody can stop any more (when Stop
\* overtakes the bind: by the assumption in Bind).
OwnerServes ==
  \A s \in Server : owner = s => listener[s] = "serve" /\ (IsStopRequested(s) => caller[s] = "close")

\* Stop returns, or panics because somebody else answers at the address (when
\* it overtakes the bind: by the assumption in Bind).
StopReturns ==
  \A s \in Server : IsStopRequested(s) ~> caller[s] \in {"stopped", "none", "panic"} \/ Crashed
=============================================================================

----------------------------- MODULE RmqServer ------------------------------
(***************************************************************************)
(* One call of ListenAndServe and the calls of RmqWebsocketCall that reach  *)
(* it (r2go.go).  The R thread runs the main loop; every connection has a   *)
(* goroutine in webSockHandler; a watchdog goroutine stops the web server    *)
(* when the heartbeat is late.  The two channels are unbuffered: a send and  *)
(* its receive are one step.                                                *)
(*                                                                         *)
(* Time passes in ticks of 100ms.  A timer set between two ticks expires at  *)
(* the next tick or at the one after it.  Tick waits for the goroutines that *)
(* are ready to run: they get to run within 100ms.  How long R evaluates is  *)
(* not bounded.                                                             *)
(***************************************************************************)
EXTENDS Naturals

CONSTANTS
  Call,    \* calls of RmqWebsocketCall, each on a connection of its own
  Timed,   \* the calls with a non-zero timeout
  NoCall,
  MaxAge   \* the age of the heartbeat is not counted beyond it

ASSUME RmqServerAssumption ==
  /\ Timed \subseteq Call
  /\ NoCall \notin Call
  /\ {"pending", "error", "none"} \cap Call = {}
  /\ MaxAge \in Nat /\ MaxAge > 5

VARIABLES
  main,       \* where the R thread is
  mtimer,     \* ticks left of its time.After
  current,    \* the request it decodes, evaluates or answers
  age,        \* ticks since lastControlHeartbeatTimeNano
  watchdog, wtimer,
  listening,  \* the web server accepts connections
  handler,    \* where webSockHandler is, for each connection
  reply,      \* what it received from replyFromRCh, or NoCall
  client,     \* where the client is, for each connection
  request,    \* its message was written to the connection
  busy        \* history: a request was received since the last heartbeat

serverVars == <<main, mtimer, current, age, watchdog, wtimer, listening, busy>>
connVars == <<handler, reply, client, request>>
vars == <<serverVars, connVars>>

\* Mutant: a timer of up to 300ms.
TicksSlow == 1..3

\* Ticks until a timer of 100ms expires.
Ticks == 1..2

Init ==
  /\ main = "start"
  /\ mtimer = 0
  /\ current = NoCall
  /\ age = MaxAge          \* no heartbeat yet: the time is zero
  /\ watchdog = "off"
  /\ wtimer = 0
  /\ listening = TRUE
  /\ handler = [c \in Call |-> "none"]
  /\ reply = [c \in Call |-> NoCall]
  /\ client = [c \in Call |-> "none"]
  /\ request = [c \in Call |-> FALSE]
  /\ busy = FALSE

-----------------------------------------------------------------------------
(* The main loop.                                                          *)
EnterSelect ==
  /\ main' = "select"
  /\ mtimer' \in Ticks
  /\ current' = NoCall

\* Mutant: the heartbeat is never recorded.
NoBeat == age' = age /\ busy' = FALSE

beatHeart == age' = 0 /\ busy' = FALSE

\* The web server is up; the first heartbeat, the watchdog, the loop.
Begin ==
  /\ main = "start"
  /\ beatHeart
  /\ watchdog' = "watch"
  /\ wtimer' \in Ticks
  /\ EnterSelect
  /\ UNCHANGED <<listening, connVars>>

\* case <-time.After: the heartbeat, then R_CheckUserInterrupt is called.
TimerFires ==
  /\ main = "select" /\ mtimer = 0
  /\ beatHeart
  /\ main' = "check"
  /\ UNCHANGED <<mtimer, current, watchdog, wtimer, listening, connVars>>

CheckReturns ==
  /\ main = "check"
  /\ EnterSelect
  /\ UNCHANGED <<age, watchdog, wtimer, listening, busy, connVars>>

\* Ctrl-C: R_CheckUserInterrupt jumps out of ListenAndServe.
UserInterrupt ==
  /\ main = "check"
  /\ main' = "gone"
  /\ UNCHANGED <<mtimer, current, age, watchdog, wtimer, listening, busy, connVars>>

\* case msgpackRequest := <-requestToRCh, with the handler's send; which of
\* two ready cases select takes is not determined.
Receive(c) ==
  /\ main = "select" /\ handler[c] = "send"
  /\ main' = "eval"
  /\ current' = c
  /\ busy' = TRUE
  /\ handler' = [handler EXCEPT ![c] = "await"]
  /\ UNCHANGED <<mtimer, age, watchdog, wtimer, listening, reply, client, request>>

\* The request is decoded, the R function called, its value encoded.
EvalReturns ==
  /\ main = "eval"
  /\ main' = "reply"
  /\ UNCHANGED <<mtimer, current, age, watchdog, wtimer, listening, busy, connVars>>

\* Rf_error, while decoding, evaluating or encoding.
EvalFails ==
  /\ main = "eval"
  /\ main' = "gone"
  /\ UNCHANGED <<mtimer, current, age, watchdog, wtimer, listening, busy, connVars>>

\* Mutant: requestToRCh is buffered, so a handler whose request is still
\* queued waits for a reply too.
AwaitsBuffered(c) == handler[c] \in {"send", "await"}

\* The handlers blocked in reply := <-replyFromRCh.
Awaits(c) == handler[c] = "await"

\* Mutant: the send does not block, and drops a reply nobody receives yet.
ReplyOrDrop(c) ==
  /\ main = "reply" /\ Awaits(c)
  /\ \/ /\ handler' = [handler EXCEPT ![c] = "write"]
        /\ reply' = [reply EXCEPT ![c] = current]
     \/ UNCHANGED <<handler, reply>>
  /\ EnterSelect
  /\ UNCHANGED <<age, watchdog, wtimer, listening, busy, client, request>>

\* replyFromRCh <- &reply, received by any handler that waits for one.
Reply(c) ==
  /\ main = "reply" /\ Awaits(c)
  /\ handler' = [handler EXCEPT ![c] = "write"]
  /\ reply' = [reply EXCEPT ![c] = current]
  /\ EnterSelect
  /\ UNCHANGED <<age, watchdog, wtimer, listening, busy, client, request>>

-----------------------------------------------------------------------------
(* The watchdog goroutine.  The heartbeat is overdue when it is older than  *)
(* 300ms: three ticks may be a little less or a little more.                *)
MaybeOverdue == age \geq 3

\* Mutant: a deadline the age never passes.
SurelyOverdueNever == age > MaxAge

SurelyOverdue == age > 3

WatchdogKeeps ==
  /\ watchdog = "watch" /\ wtimer = 0 /\ ~SurelyOverdue
  /\ wtimer' \in Ticks
  /\ UNCHANGED <<main, mtimer, current, age, watchdog, listening, busy, connVars>>

WatchdogFires ==
  /\ watchdog = "watch" /\ wtimer = 0 /\ MaybeOverdue
  /\ watchdog' = "stop"
  /\ UNCHANGED <<main, mtimer, current, age, wtimer, listening, busy, connVars>>

\* server.Stop(): no new connections; the handlers that run are left alone.
WatchdogStops ==
  /\ watchdog = "stop"
  /\ watchdog' = "done"
  /\ listening' = FALSE
  /\ UNCHANGED <<main, mtimer, current, age, wtimer, busy, connVars>>

-----------------------------------------------------------------------------
(* webSockHandler, one goroutine for each connection.                       *)
\* upgrader.Upgrade answers the handshake, and the client's Dial returns if
\* it still waits; when it does not, the answer may fail.
Upgrade(c) ==
  /\ main # "dead" /\ handler[c] = "upgrade"
  /\ \/ /\ handler' = [handler EXCEPT ![c] = "read"]
        /\ client' = [client EXCEPT ![c] = IF @ = "dialing" THEN "connected" ELSE @]
     \/ /\ client[c] = "error"
        /\ handler' = [handler EXCEPT ![c] = "failed"]
        /\ UNCHANGED client
  /\ UNCHANGED <<serverVars, reply, request>>

\* c.ReadMessage() has the request, or fails when the client left first.
HandlerReads(c) ==
  /\ main # "dead" /\ handler[c] = "read"
  /\ \/ request[c] /\ handler' = [handler EXCEPT ![c] = "send"]
     \/ client[c] = "error" /\ handler' = [handler EXCEPT ![c] = "failed"]
  /\ UNCHANGED <<serverVars, reply, client, request>>

\* c.WriteMessage, which may find the client gone.
HandlerWrites(c) ==
  /\ main # "dead" /\ handler[c] = "write"
  /\ handler' = [handler EXCEPT ![c] = "end"]
  /\ UNCHANGED <<serverVars, reply, client, request>>

-----------------------------------------------------------------------------
(* client_main.                                                            *)
\* Dial connects, and waits for the upgrade without a deadline.
Dial(c) ==
  /\ client[c] = "none" /\ handler[c] = "none"
  /\ IF listening
     THEN /\ client' = [client EXCEPT ![c] = "dialing"]
          /\ handler' = [handler EXCEPT ![c] = "upgrade"]
     ELSE /\ client' = [client EXCEPT ![c] = "error"]
          /\ UNCHANGED handler
  /\ UNCHANGED <<serverVars, reply, request>>

\* Dial returns an error: the connection broke in the handshake, or the
\* library gave up.
DialFails(c) ==
  /\ client[c] = "dialing"
  /\ client' = [client EXCEPT ![c] = "error"]
  /\ UNCHANGED <<serverVars, handler, reply, request>>

ClientWrites(c) ==
  /\ client[c] = "connected"
  /\ client' = [client EXCEPT ![c] = "waiting"]
  /\ request' = [request EXCEPT ![c] = TRUE]
  /\ UNCHANGED <<serverVars, handler, reply>>

ClientReads(c) ==
  /\ client[c] = "waiting" /\ handler[c] = "end"
  /\ client' = [client EXCEPT ![c] = "reply"]
  /\ UNCHANGED <<serverVars, handler, reply, request>>

\* Mutant: the handler gives up with its client.
DeadlineEndsHandler(c) ==
  /\ c \in Timed /\ client[c] \in {"connected", "waiting"}
  /\ client' = [client EXCEPT ![c] = "error"]
  /\ handler' = [handler EXCEPT ![c] = "failed"]
  /\ UNCHANGED <<serverVars, reply, request>>

\* SetWriteDeadline and SetReadDeadline: at any moment after Dial.
DeadlinePasses(c) ==
  /\ c \in Timed /\ client[c] \in {"connected", "waiting"}
  /\ client' = [client EXCEPT ![c] = "error"]
  /\ UNCHANGED <<serverVars, handler, reply, request>>

\* The server's end of the connection was closed by a crash.
ConnectionLost(c) ==
  /\ main = "dead" /\ client[c] \in {"connected", "waiting"}
  /\ client' = [client EXCEPT ![c] = "error"]
  /\ UNCHANGED <<serverVars, handler, reply, request>>

\* The call has returned and its connection is closed on both sides: the
\* name stands for a later call.
Recycle(c) ==
  /\ client[c] \in {"reply", "error"} /\ handler[c] \in {"none", "failed", "end"}
  /\ client' = [client EXCEPT ![c] = "none"]
  /\ handler' = [handler EXCEPT ![c] = "none"]
  /\ reply' = [reply EXCEPT ![c] = NoCall]
  /\ request' = [request EXCEPT ![c] = FALSE]
  /\ UNCHANGED serverVars

-----------------------------------------------------------------------------
\* The server's process or its machine dies; what was written is delivered.
Crash ==
  /\ main # "dead"
  /\ main' = "dead"
  /\ watchdog' = "done"
  /\ listening' = FALSE
  /\ UNCHANGED <<mtimer, current, age, wtimer, busy, connVars>>

Sooner(timer) == IF timer = 0 THEN 0 ELSE timer - 1

Older == IF age < MaxAge THEN age + 1 ELSE age

Tick ==
  /\ main \in {"select", "eval", "gone", "dead"}
  /\ ~(main = "select" /\ mtimer = 0)
  /\ watchdog # "stop" /\ ~(watchdog = "watch" /\ wtimer = 0)
  /\ age' = Older
  /\ mtimer' = Sooner(mtimer)
  /\ wtimer' = Sooner(wtimer)
  /\ UNCHANGED <<main, current, watchdog, listening, busy, connVars>>

MainLoop ==
  \/ Begin \/ TimerFires \/ CheckReturns \/ UserInterrupt \/ EvalReturns \/ EvalFails
  \/ \E c \in Call : Receive(c) \/ Reply(c)

Watchdog == WatchdogKeeps \/ WatchdogFires \/ WatchdogStops

Connection(c) ==
  \/ Upgrade(c) \/ HandlerReads(c) \/ HandlerWrites(c)
  \/ Dial(c) \/ DialFails(c) \/ ClientWrites(c) \/ ClientReads(c) \/ DeadlinePasses(c)
  \/ ConnectionLost(c) \/ Recycle(c)

Next == MainLoop \/ Watchdog \/ Crash \/ Tick \/ \E c \in Call : Connection(c)

(* Fairness: goroutines that can run do, and time passes.  The senders of a  *)
(* channel are queued, so a handler that keeps offering its request is not   *)
(* passed over for ever: strong fairness of Receive.  The R function that    *)
(* handles requests returns.  None for DialFails: what ends a Dial that is   *)
(* never answered is not in this code.                                      *)
Fairness ==
  /\ WF_vars(Begin) /\ WF_vars(TimerFires) /\ WF_vars(CheckReturns \/ UserInterrupt)
  /\ WF_vars(EvalReturns \/ EvalFails)
  /\ WF_vars(Watchdog) /\ WF_vars(Tick)
  /\ \A c \in Call :
       /\ SF_vars(Receive(c)) /\ WF_vars(Reply(c))
       /\ WF_vars(Upgrade(c)) /\ WF_vars(HandlerReads(c)) /\ WF_vars(HandlerWrites(c))
       /\ WF_vars(ClientWrites(c)) /\ WF_vars(ClientReads(c)) /\ WF_vars(DeadlinePasses(c))

Spec == Init /\ [][Next]_vars
FairSpec == Spec /\ Fairness

-----------------------------------------------------------------------------
TypeOK ==
  /\ main \in {"start", "select", "check", "eval", "reply", "gone", "dead"}
  /\ watchdog \in {"off", "watch", "stop", "done"}
  /\ mtimer \in 0..2 /\ wtimer \in 0..2 /\ age \in 0..MaxAge
  /\ current \in Call \cup {NoCall}
  /\ listening \in BOOLEAN /\ busy \in BOOLEAN
  /\ handler \in [Call -> {"none", "upgrade", "read", "send", "await", "write", "end", "failed"}]
  /\ reply \in [Call -> Call \cup {NoCall}]
  /\ client \in [Call -> {"none", "dialing", "connected", "waiting", "reply", "error"}]
  /\ request \in [Call -> BOOLEAN]

\* All handlers share replyFromRCh and nothing in a reply names its request
\* (r2go.go:190-191): still a client reads the value of its own request.
ReplyToRequester == \A c \in Call : client[c] = "reply" => reply[c] = c

\* The R thread never blocks for ever in replyFromRCh <- &reply, whatever
\* became of the client: the handler that asked is there to receive.
MainNotStuck == main = "reply" => Awaits(current)

\* "a background watchdog goroutine will notice the lack of heartbeating":
\* once ListenAndServe has left, the server is stopped within 600ms.
GoneServerStopped == main = "gone" /\ age \geq 6 => watchdog \notin {"off", "watch"}

\* The watchdog does not stop a server that waits for requests.
IdleServerKept == [][WatchdogFires => main = "gone" \/ busy]_vars

\* A request offered to the R thread is taken, unless the loop was left or
\* the server died.
EventuallyServed ==
  \A c \in Call : handler[c] = "send" ~> handler[c] # "send" \/ main \in {"gone", "dead"}

\* Nothing will answer the call: it has no timeout, and the loop was left or
\* the server died; or the server died before it answered the upgrade.
Abandoned(c) ==
  \/ c \notin Timed /\ main \in {"gone", "dead"}
  \/ client[c] = "dialing" /\ main = "dead"

\* "Timeouts are the only way we handle servers that accept our connect and
\* then crash or take too long": every call of RmqWebsocketCall returns,
\* through handshake, queue, evaluation and reply, unless it is Abandoned.
CallsReturn ==
  \A c \in Call : client[c] \in {"dialing", "connected", "waiting"}
                    ~> client[c] \in {"reply", "error"} \/ Abandoned(c)

\* A server whose main loop was left is eventually stopped.
GoneLeadsToStop == main = "gone" ~> ~listening

\* "This will happen when C.R_CheckUserInterrupt() doesn't return": the
\* watchdog stops the server only after the main loop was left.
StoppedOnlyWhenGone == watchdog = "stop" => main = "gone"

-----------------------------------------------------------------------------
(* The calls as RpcService describes them.                                  *)
job ==
  [c \in Call |->
     IF current = c
     THEN CASE main = "eval" -> "running"
            [] main \in {"gone", "dead"} -> "lost"
            [] OTHER -> "done"
     ELSE IF handler[c] \in {"write", "end"} THEN "done" ELSE "none"]

result ==
  [c \in Call |->
     IF client[c] = "reply" THEN reply[c]
     ELSE IF client[c] \in {"dialing", "connected", "waiting"} THEN "pending" ELSE client[c]]

Rpc == INSTANCE RpcService WITH job <- job, result <- result
RpcSpec == Rpc!Spec
=============================================================================

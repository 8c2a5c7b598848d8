-------------------------- MODULE RmqServerProofs ---------------------------
(***************************************************************************)
(* Proofs about RmqServer for any set of calls: replies go to their own      *)
(* requests, the R thread is not left alone in its send, the watchdog's      *)
(* bounds, and that the server implements RpcService.                       *)
(***************************************************************************)
EXTENDS RmqServer, TLAPS

\* The R thread and the handlers agree on whose request is being handled.
Exclusive ==
  /\ main \in {"start", "select", "check"} => current = NoCall
  /\ main \in {"eval", "reply"} => current \in Call
  /\ \A c \in Call : handler[c] = "await" <=> current = c

\* What a handler received, and a client read, is the reply to its request.
RepliesInv ==
  \A c \in Call : /\ handler[c] \in {"write", "end"} => reply[c] = c
                  /\ client[c] = "reply" => handler[c] = "end"
                  /\ client[c] = "none" => handler[c] = "none"

\* The watchdog looks at a heartbeat before it is six ticks old.
WatchInv ==
  /\ watchdog = "off" <=> main = "start"
  /\ main = "dead" => watchdog = "done"
  /\ watchdog = "watch" => age + wtimer \leq 5

\* A loop that serves nobody beats at least every two ticks.
BeatInv ==
  /\ main \in {"eval", "reply"} => busy
  /\ main = "check" => age = 0
  /\ main = "select" /\ ~busy => age + mtimer \leq 2

IInv == TypeOK /\ Exclusive /\ RepliesInv /\ WatchInv /\ BeatInv

-----------------------------------------------------------------------------
(* Type correctness in parts, so that a step is asked only about what it    *)
(* changes.                                                                *)
FlagsOK == listening \in BOOLEAN /\ busy \in BOOLEAN

ServerOK ==
  /\ main \in {"start", "select", "check", "eval", "reply", "gone", "dead"}
  /\ watchdog \in {"off", "watch", "stop", "done"}
  /\ mtimer \in 0..2 /\ wtimer \in 0..2 /\ age \in 0..MaxAge
  /\ current \in Call \cup {NoCall}

ConnectionsOK ==
  /\ handler \in [Call -> {"none", "upgrade", "read", "send", "await", "write", "end", "failed"}]
  /\ reply \in [Call -> Call \cup {NoCall}]
  /\ client \in [Call -> {"none", "dialing", "connected", "waiting", "reply", "error"}]
  /\ request \in [Call -> BOOLEAN]

LEMMA TypeParts == TypeOK <=> FlagsOK /\ ServerOK /\ ConnectionsOK
BY DEF TypeOK, FlagsOK, ServerOK, ConnectionsOK

LEMMA TypePartsPrime == TypeOK' <=> FlagsOK' /\ ServerOK' /\ ConnectionsOK'
BY DEF TypeOK, FlagsOK, ServerOK, ConnectionsOK

LEMMA MaxAgeBound == MaxAge \in Nat /\ MaxAge > 5
BY RmqServerAssumption

LEMMA NoCallOutside == NoCall \notin Call
BY RmqServerAssumption

-----------------------------------------------------------------------------
LEMMA InitIInv == Init => IInv
<1> SUFFICES ASSUME Init PROVE IInv
  OBVIOUS
<1>1. FlagsOK /\ ConnectionsOK
  BY DEF Init, FlagsOK, ConnectionsOK
<1>2. ServerOK
  BY MaxAgeBound DEF Init, ServerOK
<1>3. Exclusive /\ RepliesInv
  BY NoCallOutside DEF Init, Exclusive, RepliesInv
<1>4. WatchInv /\ BeatInv
  BY DEF Init, WatchInv, BeatInv
<1> QED
  BY <1>1, <1>2, <1>3, <1>4, TypeParts DEF IInv

\* A step of the main loop, the watchdog or time that leaves the
\* connections alone.
LEMMA ServerStep ==
  ASSUME IInv, Begin \/ TimerFires \/ CheckReturns \/ UserInterrupt \/ EvalReturns \/ EvalFails
               \/ Watchdog \/ Crash \/ Tick
  PROVE  IInv'
<1>1. FlagsOK /\ ServerOK /\ ConnectionsOK /\ Exclusive /\ RepliesInv /\ WatchInv /\ BeatInv
  BY TypeParts DEF IInv
<1>2. UNCHANGED connVars
  BY DEF Begin, TimerFires, CheckReturns, UserInterrupt, EvalReturns, EvalFails, Watchdog,
         WatchdogKeeps, WatchdogFires, WatchdogStops, Crash, Tick
<1>3. ConnectionsOK' /\ RepliesInv'
  BY <1>1, <1>2 DEF ConnectionsOK, RepliesInv, connVars
<1>4. Exclusive'
  BY <1>1, <1>2, NoCallOutside
  DEF Begin, TimerFires, CheckReturns, UserInterrupt, EvalReturns, EvalFails, Watchdog,
      WatchdogKeeps, WatchdogFires, WatchdogStops, Crash, Tick, EnterSelect, Exclusive, connVars
<1>5. FlagsOK'
  BY <1>1 DEF FlagsOK, Begin, TimerFires, CheckReturns, UserInterrupt, EvalReturns, EvalFails,
              Watchdog, WatchdogKeeps, WatchdogFires, WatchdogStops, Crash, Tick, beatHeart
<1>6. ServerOK' /\ WatchInv' /\ BeatInv'
  <2> ServerOK /\ WatchInv /\ BeatInv
    BY <1>1
  <2> USE MaxAgeBound DEF ServerOK, WatchInv, BeatInv
  <2>1. CASE Begin
    <3>1. PICK m \in 1..2, w \in 1..2 : mtimer' = m /\ wtimer' = w
      BY <2>1 DEF Begin, EnterSelect, Ticks
    <3> QED
      BY <2>1, <3>1 DEF Begin, EnterSelect, beatHeart
  <2>2. CASE TimerFires
    BY <2>2 DEF TimerFires, beatHeart
  <2>3. CASE CheckReturns
    <3>1. PICK m \in 1..2 : mtimer' = m
      BY <2>3 DEF CheckReturns, EnterSelect, Ticks
    <3> QED
      BY <2>3, <3>1 DEF CheckReturns, EnterSelect
  <2>4. CASE UserInterrupt
    BY <2>4 DEF UserInterrupt
  <2>5. CASE EvalReturns \/ EvalFails
    BY <2>5 DEF EvalReturns, EvalFails
  <2>6. CASE WatchdogKeeps
    <3>1. PICK w \in 1..2 : wtimer' = w
      BY <2>6 DEF WatchdogKeeps, Ticks
    <3> QED
      BY <2>6, <3>1 DEF WatchdogKeeps, SurelyOverdue
  <2>7. CASE WatchdogFires \/ WatchdogStops
    BY <2>7 DEF WatchdogFires, WatchdogStops
  <2>8. CASE Tick
    BY <2>8 DEF Tick, Sooner, Older
  <2>9. CASE Crash
    BY <2>9 DEF Crash
  <2> QED
    BY <2>1, <2>2, <2>3, <2>4, <2>5, <2>6, <2>7, <2>8, <2>9 DEF Watchdog
<1> QED
  BY <1>3, <1>4, <1>5, <1>6, TypePartsPrime DEF IInv

\* The two meetings of the main loop with a handler.
LEMMA ReceiveStep == ASSUME IInv, NEW c \in Call, Receive(c) PROVE IInv'
BY NoCallOutside
DEF IInv, Receive, TypeOK, Exclusive, RepliesInv, WatchInv, BeatInv

LEMMA ReplyStep == ASSUME IInv, NEW c \in Call, Reply(c) PROVE IInv'
<1> USE NoCallOutside DEF IInv, Reply, EnterSelect, Ticks, Awaits
<1>1. current = c
  BY DEF Exclusive
<1>2. TypeOK'
  BY DEF TypeOK
<1>3. Exclusive' /\ RepliesInv'
  BY <1>1 DEF TypeOK, Exclusive, RepliesInv
<1>4. WatchInv' /\ BeatInv'
  BY DEF TypeOK, WatchInv, BeatInv
<1> QED
  BY <1>2, <1>3, <1>4

LEMMA ConnectionStep == ASSUME IInv, NEW c \in Call, Connection(c) PROVE IInv'
<1> USE NoCallOutside DEF IInv, serverVars
<1>1. UNCHANGED serverVars
  BY DEF Connection, Upgrade, HandlerReads, HandlerWrites, Dial, DialFails, ClientWrites,
         ClientReads, DeadlinePasses, ConnectionLost, Recycle
<1>2. WatchInv' /\ BeatInv'
  BY <1>1 DEF WatchInv, BeatInv
<1>3. CASE HandlerReads(c)
  BY <1>1, <1>2, <1>3 DEF HandlerReads, TypeOK, Exclusive, RepliesInv
<1>4. CASE HandlerWrites(c)
  BY <1>1, <1>2, <1>4 DEF HandlerWrites, TypeOK, Exclusive, RepliesInv
<1>5. CASE Dial(c)
  BY <1>1, <1>2, <1>5 DEF Dial, TypeOK, Exclusive, RepliesInv
<1>6. CASE ClientWrites(c)
  BY <1>1, <1>2, <1>6 DEF ClientWrites, TypeOK, Exclusive, RepliesInv
<1>7. CASE ClientReads(c)
  BY <1>1, <1>2, <1>7 DEF ClientReads, TypeOK, Exclusive, RepliesInv
<1>8. CASE DeadlinePasses(c)
  BY <1>1, <1>2, <1>8 DEF DeadlinePasses, TypeOK, Exclusive, RepliesInv
<1>9. CASE ConnectionLost(c)
  BY <1>1, <1>2, <1>9 DEF ConnectionLost, TypeOK, Exclusive, RepliesInv
<1>10. CASE Recycle(c)
  BY <1>1, <1>2, <1>10 DEF Recycle, TypeOK, Exclusive, RepliesInv
<1>11. CASE Upgrade(c)
  BY <1>1, <1>2, <1>11 DEF Upgrade, TypeOK, Exclusive, RepliesInv
<1>12. CASE DialFails(c)
  BY <1>1, <1>2, <1>12 DEF DialFails, TypeOK, Exclusive, RepliesInv
<1> QED
  BY <1>3, <1>4, <1>5, <1>6, <1>7, <1>8, <1>9, <1>10, <1>11, <1>12 DEF Connection

LEMMA NextIInv == IInv /\ [Next]_vars => IInv'
<1> SUFFICES ASSUME IInv, [Next]_vars PROVE IInv'
  OBVIOUS
<1>1. CASE MainLoop
  BY <1>1, ServerStep, ReceiveStep, ReplyStep DEF MainLoop
<1>2. CASE Watchdog \/ Crash \/ Tick
  BY <1>2, ServerStep
<1>3. CASE \E c \in Call : Connection(c)
  BY <1>3, ConnectionStep
<1>4. CASE UNCHANGED vars
  BY <1>4 DEF vars, serverVars, connVars, IInv, TypeOK, Exclusive, RepliesInv, WatchInv, BeatInv
<1> QED
  BY <1>1, <1>2, <1>3, <1>4 DEF Next

LEMMA InvariantIInv == Spec => []IInv
BY InitIInv, NextIInv, PTL DEF Spec

-----------------------------------------------------------------------------
\* The variables keep their types.
THEOREM TypeCorrect == Spec => []TypeOK
<1>1. IInv => TypeOK
  BY DEF IInv
<1> QED
  BY <1>1, InvariantIInv, PTL

\* Although all handlers receive from one channel, a client of
\* RmqWebsocketCall reads the reply to its own request.
THEOREM RepliesMatch == Spec => []ReplyToRequester
<1>1. IInv => ReplyToRequester
  BY DEF IInv, RepliesInv, ReplyToRequester
<1> QED
  BY <1>1, InvariantIInv, PTL

\* When the R thread sends a reply, the handler that asked for it is there
\* to receive it.
THEOREM SendMeetsReceiver == Spec => []MainNotStuck
<1>1. IInv => MainNotStuck
  BY DEF IInv, Exclusive, MainNotStuck, Awaits
<1> QED
  BY <1>1, InvariantIInv, PTL

\* Six ticks after the last heartbeat of a loop that was left, the watchdog
\* has decided to stop the server.
THEOREM WatchdogInTime == Spec => []GoneServerStopped
<1>1. IInv => GoneServerStopped
  BY DEF IInv, TypeOK, WatchInv, GoneServerStopped
<1> QED
  BY <1>1, InvariantIInv, PTL

\* The watchdog never stops a loop that received no request since its last
\* heartbeat.
THEOREM WatchdogSparesIdle == Spec => IdleServerKept
<1>1. IInv /\ [Next]_vars => [WatchdogFires => main = "gone" \/ busy]_vars
  BY DEF WatchdogFires, MaybeOverdue, IInv, TypeOK, WatchInv, BeatInv
<1> QED
  BY <1>1, InvariantIInv, PTL DEF Spec, IdleServerKept

-----------------------------------------------------------------------------
(* RmqServer implements RpcService.                                         *)

\* The two mapped variables, call by call.
LEMMA JobIs ==
  ASSUME NEW c \in Call
  PROVE  /\ current = c /\ main = "eval" => job[c] = "running"
         /\ current = c /\ main \in {"gone", "dead"} => job[c] = "lost"
         /\ current = c /\ main \notin {"eval", "gone", "dead"} => job[c] = "done"
         /\ current # c /\ handler[c] \in {"write", "end"} => job[c] = "done"
         /\ current # c /\ handler[c] \notin {"write", "end"} => job[c] = "none"
BY DEF job

LEMMA ResultIs ==
  ASSUME NEW c \in Call
  PROVE  /\ client[c] = "none" => result[c] = "none"
         /\ client[c] \in {"dialing", "connected", "waiting"} => result[c] = "pending"
         /\ client[c] = "error" => result[c] = "error"
         /\ client[c] = "reply" => result[c] = reply[c]
BY DEF result

\* The value of job and result for a call depends on these only.
LEMMA SameJob ==
  ASSUME NEW c \in Call, current' = current, main' = main \/ current # c, handler'[c] = handler[c]
  PROVE  job'[c] = job[c]
BY DEF job

LEMMA SameResult ==
  ASSUME NEW c \in Call, client'[c] = client[c], reply'[c] = reply[c]
  PROVE  result'[c] = result[c]
BY DEF result

LEMMA Functions ==
  /\ job = [c \in Call |-> job[c]] /\ job' = [c \in Call |-> job'[c]]
  /\ result = [c \in Call |-> result[c]] /\ result' = [c \in Call |-> result'[c]]
BY DEF job, result

LEMMA SameResults == ASSUME UNCHANGED <<client, reply>> PROVE UNCHANGED result
BY DEF result

LEMMA RefineInit == Init => Rpc!Init
BY NoCallOutside DEF Init, Rpc!Init, Rpc!None, job, result

\* The client of the request at hand has not read a value.
LEMMA NotYetRead ==
  ASSUME ConnectionsOK, Exclusive, RepliesInv, current \in Call
  PROVE  result[current] # current
<1>1. client[current] # "reply"
  BY DEF Exclusive, RepliesInv
<1>2. result[current] \in {"none", "pending", "error"}
  BY <1>1, ResultIs DEF ConnectionsOK
<1> QED
  BY <1>2, RmqServerAssumption

\* A crash loses the request at hand, if any, and no other.
LEMMA RefineCrash ==
  ASSUME IInv, Crash
  PROVE  Rpc!Next \/ UNCHANGED <<job, result>>
<1>0. ConnectionsOK /\ Exclusive /\ RepliesInv /\ ServerOK
  BY TypeParts DEF IInv
<1>1. main' = "dead" /\ main # "dead" /\ UNCHANGED <<current, handler, client, reply>>
  BY DEF Crash, connVars
<1>2. UNCHANGED result
  BY <1>1, SameResults
<1>3. \A d \in Call : d # current => job'[d] = job[d]
  BY <1>1, SameJob
<1>4. CASE current = NoCall
  BY <1>2, <1>3, <1>4, NoCallOutside, Functions
<1>5. CASE current \in Call
  <2>1. job'[current] = "lost"
    BY <1>1, <1>5 DEF job
  <2>2. job' = [job EXCEPT ![current] = "lost"]
    BY <1>3, <1>5, <2>1, Functions
  <2>3. CASE main = "gone"
    <3>1. job[current] = "lost"
      BY <1>5, <2>3, JobIs
    <3> QED
      BY <1>2, <2>2, <3>1, Functions
  <2>4. CASE main # "gone"
    <3>1. job[current] \in {"running", "done"}
      BY <1>1, <1>5, <2>4, JobIs
    <3>2. Rpc!Lose(current)
      BY <1>0, <1>2, <1>5, <2>2, <3>1, NotYetRead DEF Rpc!Lose
    <3> QED
      BY <1>5, <3>2 DEF Rpc!Next
  <2> QED
    BY <2>3, <2>4
<1> QED
  BY <1>0, <1>4, <1>5 DEF ServerOK

LEMMA RefineMainLoop ==
  ASSUME IInv, MainLoop
  PROVE  Rpc!Next \/ UNCHANGED <<job, result>>
<1> USE DEF Rpc!None, Rpc!Pending, Rpc!Error
<1>0. FlagsOK /\ ServerOK /\ ConnectionsOK /\ Exclusive /\ RepliesInv
  BY TypeParts DEF IInv
<1>1. CASE Begin \/ TimerFires \/ CheckReturns \/ UserInterrupt
  <2>1. UNCHANGED connVars /\ current = NoCall /\ current' = NoCall
    BY <1>0, <1>1 DEF Begin, TimerFires, CheckReturns, UserInterrupt, EnterSelect, Exclusive
  <2>2. \A c \in Call : job'[c] = job[c]
    BY <2>1, SameJob, NoCallOutside DEF connVars
  <2> QED
    BY <2>1, <2>2, Functions, SameResults DEF connVars
<1>2. ASSUME NEW c \in Call, Receive(c) PROVE Rpc!Evaluate(c)
  <2>1. /\ current = NoCall /\ main = "select" /\ handler[c] = "send"
        /\ main' = "eval" /\ current' = c /\ UNCHANGED <<client, reply>>
        /\ \A d \in Call : d # c => handler'[d] = handler[d]
    BY <1>0, <1>2 DEF Receive, Exclusive, ConnectionsOK
  <2>2. client[c] # "none"
    BY <1>0, <2>1 DEF RepliesInv
  <2>3. result[c] # "none"
    BY <1>0, <2>2, ResultIs, RmqServerAssumption DEF ConnectionsOK, RepliesInv
  <2>4. job[c] = "none" /\ \A d \in Call : job[d] \notin {"running", "lost"}
    BY <2>1, JobIs, NoCallOutside
  <2>5. job'[c] = "running" /\ \A d \in Call : d # c => job'[d] = job[d]
    BY <2>1, NoCallOutside DEF job
  <2>6. job' = [job EXCEPT ![c] = "running"]
    BY <2>5, Functions
  <2> QED
    BY <2>1, <2>3, <2>4, <2>6, SameResults DEF Rpc!Evaluate
<1>3. CASE EvalReturns \/ EvalFails
  <2>1. /\ main = "eval" /\ current \in Call /\ current' = current /\ main' \in {"reply", "gone"}
        /\ UNCHANGED connVars
    BY <1>0, <1>3 DEF EvalReturns, EvalFails, Exclusive
  <2>2. \A d \in Call : d # current => job'[d] = job[d]
    BY <2>1, SameJob DEF connVars
  <2>3. job[current] = "running"
    BY <2>1, JobIs
  <2>4. job'[current] = IF main' = "gone" THEN "lost" ELSE "done"
    BY <2>1 DEF job
  <2>5. job' = [job EXCEPT ![current] = IF main' = "gone" THEN "lost" ELSE "done"]
    BY <2>1, <2>2, <2>4, Functions
  <2>6. UNCHANGED result
    BY <2>1, SameResults DEF connVars
  <2>7. result[current] # current
    BY <1>0, <2>1, NotYetRead
  <2>8. Rpc!Finish(current) \/ Rpc!Lose(current)
    BY <2>1, <2>3, <2>5, <2>6, <2>7 DEF Rpc!Finish, Rpc!Lose
  <2> QED
    BY <2>1, <2>8 DEF Rpc!Next
<1>4. ASSUME NEW c \in Call, Reply(c) PROVE UNCHANGED <<job, result>>
  <2>1. /\ current = c /\ main = "reply" /\ current' = NoCall /\ handler'[c] = "write"
        /\ handler[c] = "await" /\ client' = client
        /\ \A d \in Call : d # c => handler'[d] = handler[d] /\ reply'[d] = reply[d]
    BY <1>0, <1>4 DEF Reply, Awaits, EnterSelect, Exclusive, ConnectionsOK
  <2>2. \A d \in Call : job'[d] = job[d]
    BY <2>1, NoCallOutside DEF job
  <2>3. client[c] # "reply"
    BY <1>0, <2>1 DEF RepliesInv
  <2>4. \A d \in Call : result'[d] = result[d]
    BY <2>1, <2>3 DEF result
  <2> QED
    BY <2>2, <2>4, Functions
<1> QED
  BY <1>1, <1>2, <1>3, <1>4 DEF MainLoop, Rpc!Next

LEMMA RefineConnection ==
  ASSUME IInv, NEW c \in Call, Connection(c)
  PROVE  Rpc!Next \/ UNCHANGED <<job, result>>
<1> USE DEF Rpc!None, Rpc!Pending, Rpc!Error
<1>0. ConnectionsOK /\ Exclusive /\ RepliesInv
  BY TypeParts DEF IInv
<1>1. UNCHANGED <<main, current>>
  BY DEF Connection, Upgrade, HandlerReads, HandlerWrites, Dial, DialFails, ClientWrites,
         ClientReads, DeadlinePasses, ConnectionLost, Recycle, serverVars
<1>2. CASE HandlerReads(c) \/ HandlerWrites(c)
  <2>1. /\ UNCHANGED <<client, reply>> /\ \A d \in Call : d # c => handler'[d] = handler[d]
        /\ \/ handler[c] = "read" /\ handler'[c] \in {"send", "failed"}
           \/ handler[c] = "write" /\ handler'[c] = "end"
    BY <1>0, <1>2 DEF HandlerReads, HandlerWrites, ConnectionsOK
  <2>2. \A d \in Call : job'[d] = job[d]
    BY <1>1, <2>1 DEF job
  <2> QED
    BY <2>1, <2>2, Functions, SameResults
<1>3. CASE Dial(c)
  <2>1. /\ client[c] = "none" /\ handler[c] = "none" /\ UNCHANGED reply
        /\ client'[c] \in {"dialing", "error"} /\ handler'[c] \in {"none", "upgrade"}
        /\ \A d \in Call : d # c => client'[d] = client[d] /\ handler'[d] = handler[d]
    BY <1>0, <1>3 DEF Dial, ConnectionsOK
  <2>2. current # c
    BY <1>0, <2>1 DEF Exclusive
  <2>3. job[c] = "none" /\ result[c] = "none"
    BY <2>1, <2>2, JobIs, ResultIs
  <2>4. \A d \in Call : job'[d] = job[d]
    BY <1>1, <2>1, <2>2 DEF job
  <2>5. result'[c] \in {"pending", "error"} /\ \A d \in Call : d # c => result'[d] = result[d]
    BY <2>1 DEF result
  <2>6. \/ result' = [result EXCEPT ![c] = "pending"]
        \/ result' = [result EXCEPT ![c] = "error"]
    BY <2>5, Functions
  <2>7. UNCHANGED job
    BY <2>4, Functions
  <2> QED
    BY <2>3, <2>6, <2>7 DEF Rpc!Next, Rpc!Invoke, Rpc!ReturnError
<1>4. CASE ClientWrites(c)
  <2>1. /\ UNCHANGED <<handler, reply>> /\ client[c] = "connected" /\ client'[c] = "waiting"
        /\ \A d \in Call : d # c => client'[d] = client[d]
    BY <1>0, <1>4 DEF ClientWrites, ConnectionsOK
  <2>2. \A d \in Call : job'[d] = job[d] /\ result'[d] = result[d]
    BY <1>1, <2>1 DEF job, result
  <2> QED
    BY <2>2, Functions
<1>5. CASE DialFails(c) \/ ClientReads(c) \/ DeadlinePasses(c) \/ ConnectionLost(c)
  <2>1. /\ UNCHANGED <<handler, reply>> /\ client[c] \in {"dialing", "connected", "waiting"}
        /\ \/ client'[c] = "error"
           \/ client'[c] = "reply" /\ handler[c] = "end"
        /\ \A d \in Call : d # c => client'[d] = client[d]
    BY <1>0, <1>5 DEF DialFails, ClientReads, DeadlinePasses, ConnectionLost, ConnectionsOK
  <2>2. \A d \in Call : job'[d] = job[d]
    BY <1>1, <2>1 DEF job
  <2>3. UNCHANGED job
    BY <2>2, Functions
  <2>4. result[c] = "pending" /\ \A d \in Call : d # c => result'[d] = result[d]
    BY <2>1 DEF result
  <2>5. CASE client'[c] = "error"
    <3>1. result' = [result EXCEPT ![c] = "error"]
      <4>1. result'[c] = "error"
        BY <2>5 DEF result
      <4> QED
        BY <2>4, <4>1, Functions
    <3> QED
      BY <2>3, <2>4, <3>1 DEF Rpc!Next, Rpc!ReturnError
  <2>6. CASE client'[c] = "reply" /\ handler[c] = "end"
    <3>1. job[c] = "done"
      BY <1>0, <2>6, JobIs DEF Exclusive
    <3>2. reply[c] = c
      BY <1>0, <2>6 DEF RepliesInv
    <3>3. result' = [result EXCEPT ![c] = c]
      <4>1. result'[c] = c
        BY <2>1, <2>6, <3>2 DEF result
      <4> QED
        BY <2>4, <4>1, Functions
    <3> QED
      BY <2>3, <2>4, <3>1, <3>3 DEF Rpc!Next, Rpc!ReturnValue
  <2> QED
    BY <2>1, <2>5, <2>6
<1>6. CASE Recycle(c)
  <2>1. /\ client[c] \in {"reply", "error"} /\ handler[c] \in {"none", "failed", "end"}
        /\ client'[c] = "none" /\ handler'[c] = "none"
        /\ \A d \in Call : d # c => /\ client'[d] = client[d] /\ handler'[d] = handler[d]
                                    /\ reply'[d] = reply[d]
    BY <1>0, <1>6 DEF Recycle, ConnectionsOK
  <2>2. current # c
    BY <1>0, <2>1 DEF Exclusive
  <2>3. job[c] \in {"none", "done"}
    BY <2>1, <2>2, JobIs
  <2>4. result[c] \in Call \cup {"error"}
    BY <1>0, <2>1, ResultIs DEF RepliesInv
  <2>5. job' = [job EXCEPT ![c] = "none"]
    <3>1. job'[c] = "none" /\ \A d \in Call : d # c => job'[d] = job[d]
      BY <1>1, <2>1, <2>2 DEF job
    <3> QED
      BY <3>1, Functions
  <2>6. result' = [result EXCEPT ![c] = "none"]
    <3>1. result'[c] = "none" /\ \A d \in Call : d # c => result'[d] = result[d]
      BY <2>1 DEF result
    <3> QED
      BY <3>1, Functions
  <2> QED
    BY <2>3, <2>4, <2>5, <2>6 DEF Rpc!Next, Rpc!Forget
<1>7. CASE Upgrade(c)
  <2>1. /\ UNCHANGED reply /\ handler[c] = "upgrade" /\ handler'[c] \in {"read", "failed"}
        /\ \/ client[c] = "dialing" /\ client'[c] = "connected"
           \/ client'[c] = client[c]
        /\ \A d \in Call : d # c => client'[d] = client[d] /\ handler'[d] = handler[d]
    BY <1>0, <1>7 DEF Upgrade, ConnectionsOK
  <2>2. \A d \in Call : job'[d] = job[d]
    BY <1>1, <2>1 DEF job
  <2>3. \A d \in Call : result'[d] = result[d]
    BY <2>1 DEF result
  <2> QED
    BY <2>2, <2>3, Functions
<1> QED
  BY <1>2, <1>3, <1>4, <1>5, <1>6, <1>7 DEF Connection

LEMMA RefineNext == IInv /\ [Next]_vars => [Rpc!Next]_(Rpc!vars)
<1> SUFFICES ASSUME IInv, [Next]_vars PROVE Rpc!Next \/ UNCHANGED <<job, result>>
  BY DEF Rpc!vars
<1>1. CASE Watchdog \/ Tick \/ UNCHANGED vars
  <2>1. UNCHANGED <<main, current, handler, client, reply>>
    BY <1>1 DEF Watchdog, WatchdogKeeps, WatchdogFires, WatchdogStops, Crash, Tick, vars, serverVars, connVars
  <2> QED
    BY <2>1, SameJob, SameResults, Functions
<1> QED
  BY <1>1, RefineMainLoop, RefineCrash, RefineConnection DEF Next

\* ListenAndServe, its handlers and the clients do what RpcService allows:
\* one evaluation at a time, at most one for each call, and a returned value
\* is that of the call's own request.
THEOREM Refinement == Spec => RpcSpec
BY RefineInit, RefineNext, InvariantIInv, PTL DEF Spec, RpcSpec, Rpc!Spec
=============================================================================

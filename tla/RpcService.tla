----------------------------- MODULE RpcService -----------------------------
(***************************************************************************)
(* What RmqWebsocketCall promises together with ListenAndServe: a remote    *)
(* call is evaluated at most once, calls are evaluated one at a time, and a *)
(* call that returns a value returns the value of its own request.  It may  *)
(* return an error instead, whatever became of the request.                 *)
(***************************************************************************)
CONSTANT Call

VARIABLES
  job,     \* what the server does for a call
  result   \* what the client has of it: the request whose value it got

vars == <<job, result>>

\* None of these is a call.
Pending == "pending"
Error == "error"
None == "none"

TypeOK ==
  /\ job \in [Call -> {None, "running", "done", "lost"}]
  /\ result \in [Call -> Call \cup {None, Pending, Error}]

Init ==
  /\ job = [c \in Call |-> None]
  /\ result = [c \in Call |-> None]

Invoke(c) ==
  /\ job[c] = None /\ result[c] = None
  /\ result' = [result EXCEPT ![c] = Pending]
  /\ UNCHANGED job

\* Nothing is evaluated beside, or after the loss of, another evaluation.
Evaluate(c) ==
  /\ job[c] = None /\ result[c] # None
  /\ \A d \in Call : job[d] \notin {"running", "lost"}
  /\ job' = [job EXCEPT ![c] = "running"]
  /\ UNCHANGED result

Finish(c) ==
  /\ job[c] = "running"
  /\ job' = [job EXCEPT ![c] = "done"]
  /\ UNCHANGED result

\* The evaluation ends in an error, or the server dies before it answered.
Lose(c) ==
  /\ job[c] \in {"running", "done"} /\ result[c] # c
  /\ job' = [job EXCEPT ![c] = "lost"]
  /\ UNCHANGED result

ReturnValue(c) ==
  /\ job[c] = "done" /\ result[c] = Pending
  /\ result' = [result EXCEPT ![c] = c]
  /\ UNCHANGED job

ReturnError(c) ==
  /\ result[c] = Pending \/ (result[c] = None /\ job[c] = None)
  /\ result' = [result EXCEPT ![c] = Error]
  /\ UNCHANGED job

\* The call is over on both sides; its name may be used again.
Forget(c) ==
  /\ result[c] \in Call \cup {Error} /\ job[c] \in {None, "done"}
  /\ job' = [job EXCEPT ![c] = None]
  /\ result' = [result EXCEPT ![c] = None]

Next ==
  \E c \in Call :
    \/ Invoke(c) \/ Evaluate(c) \/ Finish(c) \/ Lose(c)
    \/ ReturnValue(c) \/ ReturnError(c) \/ Forget(c)

Spec == Init /\ [][Next]_vars
=============================================================================

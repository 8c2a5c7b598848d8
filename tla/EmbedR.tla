------------------------------- MODULE EmbedR -------------------------------
(***************************************************************************)
(* R embedded in a Go process: who owns the signal handlers while control  *)
(* crosses between Go and R (embedr.go, cpp/embedr.cpp).                    *)
(*                                                                         *)
(* One goroutine drives R; the variable stack holds its C frames, one for   *)
(* each function that saves and clears the handlers: callInitEmbedded..     *)
(* ("init"), callParseEval ("eval"), wrapReplDLLdo1 ("do1").  A frame is    *)
(* "R" while R's own code runs, "callback" while MyEmbedrToplevelCallback   *)
(* runs and "gofunc" while a Go function that R code called through .C runs.*)
(* Frames nest: the top-level callback evaluates the prompt script, and a   *)
(* Go function called from R may call EvalR.                                *)
(***************************************************************************)
EXTENDS Signals, Naturals, Sequences

CONSTANTS
  Slot,      \* the Go callbacks R can call: cleanup, svv, dvv, web data
  MaxDepth   \* bound on nested frames

ASSUME EmbedRAssumption == MaxDepth \in Nat \ {0}

VARIABLES
  act,           \* the kernel's table
  starting_act, current_act, my_r_act,   \* the saved arrays of embedr.cpp
  rstate,        \* "off", "on" after InitR, "ended" after EndR
  initDone,      \* ReplDLLinit has run (and registered the callback)
  customPrompt,  \* a non-empty custom prompt is set
  slots,         \* the callbacks whose Go function is set
  R_interrupts_pending,
  stack,         \* the C frames, outermost first
  entry,         \* history: act when the outermost frame was entered
  nested         \* history: a frame was entered inside that one

tables == <<act, starting_act, current_act, my_r_act>>
program == <<rstate, initDone, customPrompt, slots>>
history == <<entry, nested>>
vars == <<tables, program, R_interrupts_pending, stack, history>>

Frame == [fn : {"init", "eval", "do1"}, at : {"R", "callback", "gofunc"}]

InGo == stack = <<>>
Top == stack[Len(stack)]
Below == SubSeq(stack, 1, Len(stack) - 1)
At(fns, where) == ~InGo /\ Top.fn \in fns /\ Top.at = where
Move(where) == [stack EXCEPT ![Len(stack)].at = where]

-----------------------------------------------------------------------------
(* The process starts: Go installs its handlers except where a signal was  *)
(* inherited ignored, and the constructor my_init reads the table, before   *)
(* or after that.  The other arrays are zero.                               *)
GoTables ==
  {t \in [Signal -> {Default, GoAction, [handler |-> "SIG_IGN", onstack |-> FALSE]}] :
     \A s \in Signal : t[s] = Default <=> s \in Fixed}

BeforeGo(t) == [s \in Signal |-> IF t[s] = GoAction THEN Default ELSE t[s]]

Init ==
  /\ act \in GoTables
  /\ starting_act \in {act, BeforeGo(act)}
  /\ current_act = ZeroTable
  /\ my_r_act = ZeroTable
  /\ rstate = "off"
  /\ initDone = FALSE
  /\ customPrompt = FALSE
  /\ slots = {}
  /\ R_interrupts_pending = FALSE
  /\ stack = <<>>
  /\ entry = ZeroTable
  /\ nested = FALSE

-----------------------------------------------------------------------------
\* Mutant: the saved array is taken after the handlers were cleared.
SaveAndNullSwapped(found, frames, fn) ==
  /\ Len(frames) < MaxDepth
  /\ current_act' = NullOut(found)
  /\ act' = NullOut(found)
  /\ stack' = Append(frames, [fn |-> fn, at |-> "R"])
  /\ entry' = IF InGo THEN act ELSE entry
  /\ nested' = ~InGo

\* Mutant: the handlers are saved and left in place.
SaveOnly(found, frames, fn) ==
  /\ Len(frames) < MaxDepth
  /\ current_act' = found
  /\ act' = found
  /\ stack' = Append(frames, [fn |-> fn, at |-> "R"])
  /\ entry' = IF InGo THEN act ELSE entry
  /\ nested' = ~InGo

\* record_sigaction_to_current_act on the table found, then
\* null_out_all_signal_handlers; the caller's frame becomes new.
SaveAndNull(found, frames, fn) ==
  /\ Len(frames) < MaxDepth
  /\ current_act' = found
  /\ act' = NullOut(found)
  /\ stack' = Append(frames, [fn |-> fn, at |-> "R"])
  /\ entry' = IF InGo THEN act ELSE entry
  /\ nested' = ~InGo

\* Mutant: an early return that forgets the handlers.
PopOnly ==
  /\ stack' = Below
  /\ entry' = IF Len(stack) = 1 THEN ZeroTable ELSE entry
  /\ nested' = IF Len(stack) = 1 THEN FALSE ELSE nested
  /\ UNCHANGED <<act, current_act>>

\* restore_sigaction_from_current_act, and the frame returns.
RestoreAndPop ==
  /\ current_act' = AllOnStack(current_act)
  /\ act' = Install(act, AllOnStack(current_act))
  /\ stack' = Below
  /\ entry' = IF Len(stack) = 1 THEN ZeroTable ELSE entry
  /\ nested' = IF Len(stack) = 1 THEN FALSE ELSE nested

\* callParseEval on entry: set_SA_ONSTACK, record, null out.
EnterParseEval(frames) == SaveAndNull(SetOnStack(act), frames, "eval")

-----------------------------------------------------------------------------
(* The Go side.  Calls into R come from Go at rest or from a Go function    *)
(* called by R.                                                            *)

\* Mutant: calls into R come at any time.
MayCallRAnyTime == rstate = "on"

MayCallR == rstate = "on" /\ (InGo \/ At({"eval", "do1"}, "gofunc"))

\* InitR, both variants: save and clear, then Rf_initEmbeddedR runs.
InitR ==
  /\ InGo /\ rstate = "off"
  /\ SaveAndNull(act, stack, "init")
  /\ rstate' = "on"
  /\ UNCHANGED <<starting_act, my_r_act, initDone, customPrompt, slots, R_interrupts_pending>>

\* Rf_initEmbeddedR returns; Go's handlers are restored and then InitR
\* records the table into my_r_act.
InitReturns ==
  /\ At({"init"}, "R")
  /\ RestoreAndPop
  /\ my_r_act' = act'
  /\ UNCHANGED <<starting_act, program, R_interrupts_pending>>

\* EvalR and EvalR_fullback.
EvalR ==
  /\ MayCallR
  /\ EnterParseEval(stack)
  /\ UNCHANGED <<starting_act, my_r_act, program, R_interrupts_pending>>

\* SetCustomPrompt; injectCustomPrompt evaluates nothing for an empty one.
SetCustomPrompt ==
  /\ MayCallR
  /\ \/ /\ customPrompt' = TRUE
        /\ EnterParseEval(stack)
     \/ /\ customPrompt' = FALSE
        /\ UNCHANGED <<act, current_act, stack, history>>
  /\ UNCHANGED <<starting_act, my_r_act, rstate, initDone, slots, R_interrupts_pending>>

\* ReplDLLinit: R_ReplDLLinit may install handlers on the signals of S;
\* afterwards set_SA_ONSTACK flags them.
ReplDLLinit ==
  /\ InGo /\ rstate = "on" /\ ~initDone
  /\ initDone' = TRUE
  /\ \E S \in SUBSET (Signal \ Fixed) :
       act' = SetOnStack([s \in Signal |->
                IF s \in S THEN [handler |-> "R", onstack |-> FALSE] ELSE act[s]])
  /\ UNCHANGED <<starting_act, current_act, my_r_act, rstate, customPrompt, slots,
                 R_interrupts_pending, stack, history>>

\* wrapReplDLLdo1.
ReplDLLdo1 ==
  /\ InGo /\ rstate = "on" /\ initDone
  /\ SaveAndNull(act, stack, "do1")
  /\ UNCHANGED <<starting_act, my_r_act, program, R_interrupts_pending>>

EndR ==
  /\ InGo /\ rstate = "on"
  /\ rstate' = "ended"
  /\ UNCHANGED <<tables, initDone, customPrompt, slots, R_interrupts_pending, stack, history>>

\* SetGoCallbackForCleanup, SetRCallbackToGoFunc...
SetCallback(c) ==
  /\ InGo
  /\ slots' = slots \cup {c}
  /\ UNCHANGED <<tables, rstate, initDone, customPrompt, R_interrupts_pending, stack, history>>

\* The table operations exported to the program, called with Go at rest.
ChangeTables(newAct, newStarting, newCurrent) ==
  /\ InGo
  /\ act' = newAct /\ starting_act' = newStarting /\ current_act' = newCurrent
  /\ UNCHANGED <<my_r_act, program, R_interrupts_pending, stack, history>>

SignalCalls ==
  \/ ChangeTables(NullOut(act), starting_act, current_act)
  \/ ChangeTables(act, starting_act, act)
  \/ ChangeTables(NullOut(act), starting_act, act)
  \/ ChangeTables(Install(act, AllOnStack(current_act)), starting_act, AllOnStack(current_act))
  \/ ChangeTables(RestoreStarting(act, starting_act), StartingFlagged(starting_act), current_act)
  \/ ChangeTables(SetOnStack(act), starting_act, current_act)

\* os/signal in the program makes the Go runtime install its handler.
Notify(s) ==
  /\ s \notin Fixed
  /\ ChangeTables([act EXCEPT ![s] = GoAction], starting_act, current_act)

-----------------------------------------------------------------------------
(* The R side.                                                             *)
Quiet == UNCHANGED <<current_act, starting_act, my_r_act, program, history>>

\* R and readline install handlers at any time, without SA_ONSTACK.
RInstalls(s) ==
  /\ At({"init", "eval", "do1"}, "R") /\ s \notin Fixed
  /\ act' = [act EXCEPT ![s] = [handler |-> "R", onstack |-> FALSE]]
  /\ Quiet /\ UNCHANGED <<R_interrupts_pending, stack>>

\* R code calls .C("CallRCallbackToGoFunc"): C calls the exported Go
\* function, which calls the function in its slot if there is one.
RCallsGo(c) ==
  /\ At({"eval", "do1"}, "R") /\ c \in slots
  /\ stack' = Move("gofunc")
  /\ Quiet /\ UNCHANGED <<act, R_interrupts_pending>>

GoFuncReturns ==
  /\ At({"eval", "do1"}, "gofunc")
  /\ stack' = Move("R")
  /\ Quiet /\ UNCHANGED <<act, R_interrupts_pending>>

\* R_ParseVector does not return PARSE_OK: the early return.
ParseFails ==
  /\ At({"eval"}, "R")
  /\ RestoreAndPop
  /\ UNCHANGED <<starting_act, my_r_act, program, R_interrupts_pending>>

\* R_tryEval returns, with or without an error.
EvalReturns ==
  /\ At({"eval"}, "R")
  /\ RestoreAndPop
  /\ UNCHANGED <<starting_act, my_r_act, program, R_interrupts_pending>>

\* A top-level expression succeeded: MyEmbedrToplevelCallback runs, and
\* with a custom prompt injectCustomPrompt calls callParseEval.
ToplevelCallback ==
  /\ At({"do1"}, "R")
  /\ IF customPrompt
     THEN EnterParseEval(Move("callback"))
     ELSE /\ stack' = Move("callback")
          /\ UNCHANGED <<act, current_act, history>>
  /\ UNCHANGED <<starting_act, my_r_act, program, R_interrupts_pending>>

\* R_ReplDLLdo1 returns: after the callback, or without one on an error,
\* an incomplete line or the end of the input.
Do1Returns ==
  /\ At({"do1"}, "R") \/ At({"do1"}, "callback")
  /\ RestoreAndPop
  /\ UNCHANGED <<starting_act, my_r_act, program, R_interrupts_pending>>

-----------------------------------------------------------------------------
(* Interrupts.                                                             *)
InterruptOnly(value) ==
  R_interrupts_pending' = value /\ UNCHANGED <<tables, program, stack, history>>

\* SetR_interrupts_pending, from any goroutine.
SetR_interrupts_pending == InterruptOnly(TRUE)

\* The kernel delivers SIGINT to sig_handler_for_sigint_R.
SigintArrives ==
  /\ act[SIGINT].handler = "sigint_R"
  /\ InterruptOnly(TRUE)

\* R's code looks at the flag and abandons what it evaluates.
RNoticesInterrupt ==
  /\ At({"eval", "do1"}, "R") /\ R_interrupts_pending
  /\ InterruptOnly(FALSE)

-----------------------------------------------------------------------------
CallsFromGo ==
  \/ InitR \/ EvalR \/ SetCustomPrompt \/ ReplDLLinit \/ ReplDLLdo1 \/ EndR \/ SignalCalls
  \/ \E c \in Slot : SetCallback(c)
  \/ \E s \in Signal : Notify(s)

StepsOfR ==
  \/ InitReturns \/ GoFuncReturns \/ ParseFails \/ EvalReturns
  \/ ToplevelCallback \/ Do1Returns
  \/ \E s \in Signal : RInstalls(s)
  \/ \E c \in Slot : RCallsGo(c)

Interrupts == SetR_interrupts_pending \/ SigintArrives \/ RNoticesInterrupt

Next == CallsFromGo \/ StepsOfR \/ Interrupts

Spec == Init /\ [][Next]_vars

-----------------------------------------------------------------------------
(* Type invariant.  Every frame below the top one waits in a callback.      *)
TypeOK ==
  /\ {act, starting_act, current_act, my_r_act, entry} \subseteq Table
  /\ rstate \in {"off", "on", "ended"}
  /\ slots \subseteq Slot
  /\ initDone \in BOOLEAN /\ customPrompt \in BOOLEAN
  /\ R_interrupts_pending \in BOOLEAN /\ nested \in BOOLEAN
  /\ stack \in Seq(Frame) /\ Len(stack) \leq MaxDepth
  /\ \A i \in 1..(Len(stack) - 1) : stack[i].at # "R"

\* With Go at rest, no call into R in progress, every signal that has a handler
\* runs it on the alternate stack: what set_SA_ONSTACK and
\* restore_sigaction_from_current_act are for, since the Go runtime dies on a
\* handler without SA_ONSTACK.  A Go function that R calls is not at rest.
OnStackInGo ==
  InGo => \A s \in Signal : HasHandler(act[s]) => act[s].onstack

\* While a call into R is in progress no signal reaches the Go runtime:
\* what null_out_all_signal_handlers is for.  The inner frames must keep it
\* for the outer ones, whose saved array they overwrite.
NoGoHandlerInR ==
  ~InGo => \A s \in Signal : act[s].handler # "go"

\* While a call into R is in progress Ctrl-C interrupts R: it neither kills
\* the process nor goes to Go.
SigintReachesR ==
  ~InGo => act[SIGINT].handler \in {"sigint_R", "R"}

Leaves == ~InGo /\ stack' = <<>>

\* restore_sigaction_from_current_act at the end of a call into R gives Go
\* the handlers it had when the call began, when nothing saved into
\* current_act in between.
HandlersSurviveFlatCall ==
  [][Leaves /\ ~nested => SameHandlers(act', entry)]_vars

\* The same without the condition, as the comments beside the calls of
\* restore_sigaction_from_current_act have it.
HandlersSurviveCall ==
  [][Leaves => SameHandlers(act', entry)]_vars
=============================================================================

---------------------------- MODULE EmbedRProofs ----------------------------
(***************************************************************************)
(* Proofs about EmbedR for any set of signals and any depth of nesting:     *)
(* type correctness, and who can be reached by a signal on either side.     *)
(***************************************************************************)
EXTENDS EmbedR, SequenceTheorems, TLAPS

\* A table under which no signal reaches Go and Ctrl-C reaches R.
RTable(t) ==
  /\ \A s \in Signal : t[s].handler # "go"
  /\ t[SIGINT].handler \in {"sigint_R", "R"}

\* The kernel's table.
ActInv ==
  /\ \A s \in Fixed : act[s].handler = "SIG_DFL"
  /\ ~InGo => RTable(act)
  /\ OnStackInGo

\* A frame that returns to another C frame reinstalls current_act: what an
\* inner frame saved there must be fit for the outer one.
SavedInv == Len(stack) > 1 => RTable(current_act)

IInv == TypeOK /\ ActInv /\ SavedInv

-----------------------------------------------------------------------------
\* What the operations of Signals do to a table.
LEMMA InstallType ==
  ASSUME NEW t \in Table, NEW u \in Table
  PROVE  /\ Install(t, u) \in Table
         /\ \A s \in Signal : Install(t, u)[s] = IF s \in Fixed THEN t[s] ELSE u[s]
BY DEF Install, Table

LEMMA FlagType ==
  ASSUME NEW d \in Disposition
  PROVE  Flagged(d) \in Disposition /\ Flagged(d).handler = d.handler /\ Flagged(d).onstack = TRUE
BY DEF Flagged, Disposition

LEMMA AllOnStackType ==
  ASSUME NEW t \in Table
  PROVE  /\ AllOnStack(t) \in Table
         /\ \A s \in Signal : /\ AllOnStack(t)[s].handler = t[s].handler
                              /\ AllOnStack(t)[s].onstack
BY FlagType DEF AllOnStack, Table

LEMMA SetOnStackType ==
  ASSUME NEW t \in Table
  PROVE  /\ SetOnStack(t) \in Table
         /\ \A s \in Signal : /\ SetOnStack(t)[s].handler = t[s].handler
                              /\ s \notin Fixed /\ t[s].handler # "SIG_DFL"
                                   => SetOnStack(t)[s].onstack
<1> DEFINE u == [s \in Signal |-> IF t[s].handler = "SIG_DFL" THEN t[s] ELSE Flagged(t[s])]
<1>1. u \in Table /\ \A s \in Signal : u[s].handler = t[s].handler
  BY FlagType DEF Table
<1>2. \A s \in Signal : t[s].handler # "SIG_DFL" => u[s].onstack
  BY FlagType DEF Table
<1>3. SetOnStack(t) = Install(t, u)
  BY DEF SetOnStack
<1> HIDE DEF u
<1> QED
  BY <1>1, <1>2, <1>3, InstallType

LEMMA NulledType == Nulled \in Table /\ RTable(Nulled)
BY SignalsAssumption DEF Nulled, Default, Table, Disposition, Handler, RTable

LEMMA NullOutType ==
  ASSUME NEW t \in Table
  PROVE  /\ NullOut(t) \in Table
         /\ \A s \in Signal : NullOut(t)[s] = IF s \in Fixed THEN t[s] ELSE Nulled[s]
BY NulledType, InstallType DEF NullOut

\* When the signals that cannot be changed have no handler, clearing the
\* handlers leaves a table fit for R, with every handler on the stack.
LEMMA NullOutClears ==
  ASSUME NEW t \in Table, \A s \in Fixed : t[s].handler = "SIG_DFL"
  PROVE  /\ RTable(NullOut(t))
         /\ \A s \in Fixed : NullOut(t)[s].handler = "SIG_DFL"
         /\ \A s \in Signal : HasHandler(NullOut(t)[s]) => NullOut(t)[s].onstack
<1>1. \A s \in Signal : NullOut(t)[s] = IF s \in Fixed THEN t[s] ELSE Nulled[s]
  BY NullOutType
<1>2. \A s \in Signal : HasHandler(Nulled[s]) => Nulled[s].onstack
  BY DEF Nulled, Default, HasHandler
<1>3. \A s \in Fixed : ~HasHandler(t[s])
  BY DEF HasHandler
<1> QED
  BY <1>1, <1>2, <1>3, NulledType, SignalsAssumption DEF RTable

-----------------------------------------------------------------------------
LEMMA InitIInv == Init => IInv
<1> SUFFICES ASSUME Init PROVE IInv
  OBVIOUS
<1>1. {act, starting_act, current_act, my_r_act, entry} \subseteq Table
  <2>1. act \in Table /\ BeforeGo(act) \in Table
    <3>1. {Default, GoAction, [handler |-> "SIG_IGN", onstack |-> FALSE]} \subseteq Disposition
      BY DEF Default, GoAction, Disposition, Handler
    <3>2. act \in Table
      BY <3>1 DEF Init, GoTables, Table
    <3> QED
      BY <3>1, <3>2 DEF BeforeGo, Table
  <2>2. ZeroTable \in Table
    BY DEF ZeroTable, Default, Table, Disposition, Handler
  <2> QED
    BY <2>1, <2>2 DEF Init
<1>2. TypeOK
  <2>1. stack \in Seq(Frame) /\ Len(stack) = 0
    BY DEF Init
  <2>2. Len(stack) \leq MaxDepth /\ \A i \in 1..(Len(stack) - 1) : stack[i].at # "R"
    BY <2>1, EmbedRAssumption
  <2>3. /\ rstate \in {"off", "on", "ended"} /\ slots \subseteq Slot
        /\ initDone \in BOOLEAN /\ customPrompt \in BOOLEAN
        /\ R_interrupts_pending \in BOOLEAN /\ nested \in BOOLEAN
    BY DEF Init
  <2> QED
    BY <1>1, <2>1, <2>2, <2>3 DEF TypeOK
<1>3. ActInv
  <2>1. \A s \in Signal : \/ act[s] = Default \/ act[s] = GoAction
                           \/ act[s] = [handler |-> "SIG_IGN", onstack |-> FALSE]
    BY DEF Init, GoTables
  <2>2. \A s \in Fixed : act[s] = Default
    BY SignalsAssumption DEF Init, GoTables
  <2>3. OnStackInGo
    BY <2>1 DEF OnStackInGo, HasHandler, Default, GoAction
  <2> QED
    BY <2>2, <2>3 DEF Init, ActInv, InGo, Default
<1>4. SavedInv
  BY DEF Init, SavedInv
<1> QED
  BY <1>2, <1>3, <1>4 DEF IInv

-----------------------------------------------------------------------------
(* Type correctness in three parts, so that a step is asked only about what *)
(* it changes.                                                             *)
TablesOK == {act, starting_act, current_act, my_r_act, entry} \subseteq Table

FramesOK ==
  /\ stack \in Seq(Frame) /\ Len(stack) \leq MaxDepth
  /\ \A i \in 1..(Len(stack) - 1) : stack[i].at # "R"

ProgramOK ==
  /\ rstate \in {"off", "on", "ended"} /\ slots \subseteq Slot
  /\ initDone \in BOOLEAN /\ customPrompt \in BOOLEAN
  /\ R_interrupts_pending \in BOOLEAN /\ nested \in BOOLEAN

LEMMA TypeParts == TypeOK <=> TablesOK /\ FramesOK /\ ProgramOK
BY DEF TypeOK, TablesOK, FramesOK, ProgramOK

LEMMA TypePartsPrime == TypeOK' <=> TablesOK' /\ FramesOK' /\ ProgramOK'
BY DEF TypeOK, TablesOK, FramesOK, ProgramOK

\* The top frame moves; the others stay where they wait.
LEMMA MoveType ==
  ASSUME IInv, ~InGo, NEW where \in {"R", "callback", "gofunc"}
  PROVE  /\ Move(where) \in Seq(Frame) /\ Len(Move(where)) = Len(stack)
         /\ \A i \in 1..(Len(stack) - 1) : Move(where)[i].at # "R"
         /\ Move(where)[Len(stack)].at = where
<1>1. stack \in Seq(Frame) /\ Len(stack) \in Nat \ {0}
  BY DEF IInv, TypeOK, InGo
<1>2. [stack[Len(stack)] EXCEPT !.at = where] \in Frame
  <2>1. stack[Len(stack)] \in Frame
    BY <1>1
  <2> QED
    BY <2>1 DEF Frame
<1>3. Move(where) = [stack EXCEPT ![Len(stack)] = [stack[Len(stack)] EXCEPT !.at = where]]
  BY DEF Move
<1>4. [stack[Len(stack)] EXCEPT !.at = where].at = where
  <2>1. stack[Len(stack)] \in Frame
    BY <1>1
  <2> QED
    BY <2>1 DEF Frame
<1> QED
  BY <1>1, <1>2, <1>3, <1>4 DEF IInv, TypeOK

\* A call into R saves a table that has the handlers of the present one.
LEMMA SaveStep ==
  ASSUME IInv,
         NEW found \in Table, \A s \in Signal : found[s].handler = act[s].handler,
         NEW frames \in Seq(Frame), Len(frames) = Len(stack),
         \A i \in 1..Len(frames) : frames[i].at # "R",
         NEW fn \in {"init", "eval", "do1"},
         SaveAndNull(found, frames, fn)
  PROVE  /\ {act', current_act', entry'} \subseteq Table /\ nested' \in BOOLEAN
         /\ FramesOK' /\ ActInv' /\ SavedInv'
<1>1. \A s \in Fixed : found[s].handler = "SIG_DFL"
  BY SignalsAssumption DEF IInv, ActInv
<1>2. /\ act' \in Table /\ RTable(act')
      /\ \A s \in Fixed : act'[s].handler = "SIG_DFL"
  BY <1>1, NullOutType, NullOutClears DEF SaveAndNull
<1>3. /\ stack' \in Seq(Frame) /\ Len(stack') = Len(stack) + 1 /\ Len(stack) \in Nat
      /\ Len(stack') \leq MaxDepth /\ ~InGo'
      /\ \A i \in 1..Len(stack) : stack'[i] = frames[i]
  <2>1. [fn |-> fn, at |-> "R"] \in Frame
    BY DEF Frame
  <2> QED
    BY <2>1, EmbedRAssumption DEF SaveAndNull, InGo
<1>4. FramesOK'
  BY <1>3 DEF FramesOK
<1>5. ActInv'
  BY <1>2, <1>3 DEF ActInv, OnStackInGo
<1>6. SavedInv'
  <2>1. ~InGo => RTable(found)
    BY SignalsAssumption DEF IInv, ActInv, RTable
  <2> QED
    BY <1>3, <2>1 DEF SavedInv, SaveAndNull, InGo
<1>7. {current_act', entry'} \subseteq Table /\ nested' \in BOOLEAN
  BY DEF SaveAndNull, IInv, TypeOK
<1> QED
  BY <1>2, <1>4, <1>5, <1>6, <1>7

\* A return from R reinstalls current_act for Go or for the outer frame.
LEMMA RestoreStep ==
  ASSUME IInv, ~InGo, RestoreAndPop
  PROVE  /\ {act', current_act', entry'} \subseteq Table /\ nested' \in BOOLEAN
         /\ FramesOK' /\ ActInv' /\ SavedInv'
<1>1. /\ current_act' \in Table
      /\ \A s \in Signal : current_act'[s].handler = current_act[s].handler /\ current_act'[s].onstack
  BY AllOnStackType DEF RestoreAndPop, IInv, TypeOK
<1>2. /\ act' \in Table
      /\ \A s \in Signal : act'[s] = IF s \in Fixed THEN act[s] ELSE current_act'[s]
  BY <1>1, InstallType DEF RestoreAndPop, IInv, TypeOK
<1>3. stack \in Seq(Frame) /\ Len(stack) \in Nat \ {0}
  BY DEF IInv, TypeOK, InGo
<1>4. /\ stack' \in Seq(Frame) /\ Len(stack') = Len(stack) - 1
      /\ \A i \in 1..(Len(stack) - 1) : stack'[i] = stack[i]
  <2> DEFINE n == Len(stack) - 1
  <2>1. n \in Int /\ 1 \in Int /\ \A i \in 1..n : stack[i] \in Frame
    BY <1>3
  <2>2. /\ SubSeq(stack, 1, n) \in Seq(Frame)
        /\ Len(SubSeq(stack, 1, n)) = IF 1 \leq n THEN n - 1 + 1 ELSE 0
        /\ \A i \in 1..(n - 1 + 1) : SubSeq(stack, 1, n)[i] = stack[1 + i - 1]
    <3> HIDE DEF n
    <3> QED
      BY <2>1, SubSeqProperties
  <2>3. stack' = SubSeq(stack, 1, n)
    BY DEF RestoreAndPop, Below
  <2>4. stack' \in Seq(Frame) /\ Len(stack') = n
    <3>1. (IF 1 \leq n THEN n - 1 + 1 ELSE 0) = n
      BY <1>3
    <3> HIDE DEF n
    <3>2. stack' \in Seq(Frame) /\ Len(stack') = IF 1 \leq n THEN n - 1 + 1 ELSE 0
      BY <2>2, <2>3, Zenon
    <3> QED
      BY <3>1, <3>2
  <2>5. ASSUME NEW i \in 1..n PROVE stack'[i] = stack[i]
    <3>1. i \in 1..(n - 1 + 1) /\ 1 + i - 1 = i
      BY <1>3
    <3> QED
      BY <2>2, <2>3, <3>1
  <2> QED
    BY <2>4, <2>5
<1>5. FramesOK'
  BY <1>3, <1>4, EmbedRAssumption DEF FramesOK, IInv, TypeOK
<1>6. \A s \in Fixed : act'[s].handler = "SIG_DFL"
  BY <1>2, SignalsAssumption DEF IInv, ActInv
<1>7. Len(stack) > 1 => RTable(current_act') /\ RTable(act')
  BY <1>1, <1>2, <1>6, SignalsAssumption DEF IInv, SavedInv, RTable
<1>8. ~InGo' => Len(stack) > 1
  BY <1>3, <1>4 DEF InGo
<1>9. OnStackInGo'
  BY <1>1, <1>2, <1>6 DEF OnStackInGo, HasHandler
<1>10. ActInv' /\ SavedInv'
  BY <1>3, <1>4, <1>6, <1>7, <1>8, <1>9 DEF ActInv, SavedInv
<1>11. entry' \in Table /\ nested' \in BOOLEAN
  <2>1. ZeroTable \in Table
    BY DEF ZeroTable, Default, Table, Disposition, Handler
  <2> QED
    BY <2>1 DEF RestoreAndPop, IInv, TypeOK
<1> QED
  BY <1>1, <1>2, <1>5, <1>10, <1>11

-----------------------------------------------------------------------------
(* The actions, grouped by what they do to the tables.                      *)

\* callParseEval saves the table with the flags set.
LEMMA EnterParseEvalStep ==
  ASSUME IInv, NEW frames \in Seq(Frame), Len(frames) = Len(stack),
         \A i \in 1..Len(frames) : frames[i].at # "R",
         EnterParseEval(frames)
  PROVE  /\ {act', current_act', entry'} \subseteq Table /\ nested' \in BOOLEAN
         /\ FramesOK' /\ ActInv' /\ SavedInv'
<1>1. SetOnStack(act) \in Table /\ \A s \in Signal : SetOnStack(act)[s].handler = act[s].handler
  BY SetOnStackType DEF IInv, TypeOK
<1>2. SaveAndNull(SetOnStack(act), frames, "eval")
  BY DEF EnterParseEval
<1> HIDE DEF SetOnStack
<1> QED
  BY <1>1, <1>2, SaveStep

\* The frames when Go, at rest or in a function R called, calls R.
LEMMA GoFrames ==
  ASSUME IInv, InGo \/ At({"eval", "do1"}, "gofunc")
  PROVE  stack \in Seq(Frame) /\ \A i \in 1..Len(stack) : stack[i].at # "R"
<1>1. stack \in Seq(Frame) /\ Len(stack) \in Nat
  BY DEF IInv, TypeOK
<1>2. \A i \in 1..(Len(stack) - 1) : stack[i].at # "R"
  BY DEF IInv, TypeOK
<1>3. Len(stack) > 0 => stack[Len(stack)].at # "R"
  BY <1>1 DEF InGo, At, Top
<1> QED
  BY <1>1, <1>2, <1>3

\* A step that leaves the frames and the tables alone.
LEMMA SameTables ==
  ASSUME IInv, UNCHANGED <<act, current_act, stack>>
  PROVE  FramesOK' /\ ActInv' /\ SavedInv'
BY DEF IInv, TypeOK, FramesOK, ActInv, SavedInv, OnStackInGo, InGo

\* A step with Go at rest: what it writes must run on the alternate stack,
\* and may not touch the signals that are fixed.
LEMMA GoTableStep ==
  ASSUME IInv, InGo, stack' = stack,
         \A s \in Fixed : act'[s] = act[s],
         \A s \in Signal : HasHandler(act'[s]) => act'[s].onstack
  PROVE  FramesOK' /\ ActInv' /\ SavedInv'
<1>1. InGo' /\ ~(Len(stack') > 1)
  BY DEF InGo
<1>2. FramesOK'
  BY DEF IInv, TypeOK, FramesOK
<1> QED
  BY <1>1, <1>2 DEF IInv, ActInv, SavedInv, OnStackInGo

\* A step inside R that moves the top frame, or installs a handler of R.
LEMMA InRStep ==
  ASSUME IInv, ~InGo, current_act' = current_act,
         \/ act' = act /\ \E w \in {"R", "callback", "gofunc"} : stack' = Move(w)
         \/ stack' = stack /\ \E s \in Signal \ Fixed :
              act' = [act EXCEPT ![s] = [handler |-> "R", onstack |-> FALSE]]
  PROVE  act' \in Table /\ FramesOK' /\ ActInv' /\ SavedInv'
<1>1. CASE act' = act /\ \E w \in {"R", "callback", "gofunc"} : stack' = Move(w)
  <2>1. PICK w \in {"R", "callback", "gofunc"} : stack' = Move(w)
    BY <1>1
  <2>2. /\ stack' \in Seq(Frame) /\ Len(stack') = Len(stack)
        /\ \A i \in 1..(Len(stack) - 1) : stack'[i].at # "R"
    BY <2>1, MoveType
  <2>3. FramesOK'
    BY <2>2 DEF FramesOK, IInv, TypeOK
  <2>4. ~InGo'
    <3>1. stack \in Seq(Frame)
      BY DEF IInv, TypeOK
    <3> QED
      BY <2>2, <3>1 DEF InGo
  <2> QED
    BY <1>1, <2>2, <2>3, <2>4 DEF IInv, TypeOK, ActInv, SavedInv, OnStackInGo, RTable
<1>2. CASE stack' = stack /\ \E s \in Signal \ Fixed :
             act' = [act EXCEPT ![s] = [handler |-> "R", onstack |-> FALSE]]
  <2>1. PICK s \in Signal \ Fixed : act' = [act EXCEPT ![s] = [handler |-> "R", onstack |-> FALSE]]
    BY <1>2
  <2>2. [handler |-> "R", onstack |-> FALSE] \in Disposition
    BY DEF Disposition, Handler
  <2>3. act' \in Table /\ \A q \in Signal : act'[q] = IF q = s THEN [handler |-> "R", onstack |-> FALSE] ELSE act[q]
    BY <2>1, <2>2 DEF IInv, TypeOK, Table
  <2>4. RTable(act') /\ \A q \in Fixed : act'[q].handler = "SIG_DFL"
    BY <2>1, <2>3, SignalsAssumption DEF IInv, ActInv, RTable
  <2>5. ~InGo' /\ FramesOK' /\ SavedInv'
    BY <1>2 DEF InGo, FramesOK, IInv, TypeOK, SavedInv, RTable
  <2> QED
    BY <2>3, <2>4, <2>5 DEF ActInv, OnStackInGo
<1> QED
  BY <1>1, <1>2

-----------------------------------------------------------------------------
\* The operations on the tables that Go may call at rest.
LEMMA ChangeTablesStep ==
  ASSUME IInv, SignalCalls \/ \E s \in Signal : Notify(s)
  PROVE  IInv'
<1> USE DEF ChangeTables
<1>1. /\ act \in Table /\ starting_act \in Table /\ current_act \in Table
      /\ my_r_act \in Table /\ entry \in Table
      /\ \A s \in Fixed : act[s].handler = "SIG_DFL"
  BY DEF IInv, TypeOK, ActInv
<1>2. InGo /\ UNCHANGED <<my_r_act, program, R_interrupts_pending, stack, history>>
  BY DEF SignalCalls, Notify
<1>3. InGo => \A s \in Signal : HasHandler(act[s]) => act[s].onstack
  BY DEF IInv, ActInv, OnStackInGo
<1>4. /\ {act', starting_act', current_act'} \subseteq Table
      /\ \A s \in Fixed : act'[s] = act[s]
      /\ \A s \in Signal : HasHandler(act'[s]) => act'[s].onstack
  <2>1. CASE \/ ChangeTables(NullOut(act), starting_act, current_act)
             \/ ChangeTables(NullOut(act), starting_act, act)
    BY <1>1, <2>1, NullOutType, NullOutClears, SignalsAssumption
  <2>2. CASE ChangeTables(act, starting_act, act)
    BY <1>1, <1>2, <1>3, <2>2
  <2>3. CASE ChangeTables(Install(act, AllOnStack(current_act)), starting_act, AllOnStack(current_act))
    <3>1. /\ act' = Install(act, AllOnStack(current_act)) /\ starting_act' = starting_act
          /\ current_act' = AllOnStack(current_act)
      BY <2>3
    <3>2. AllOnStack(current_act) \in Table /\ \A s \in Signal : AllOnStack(current_act)[s].onstack
      BY <1>1, AllOnStackType
    <3>3. act' \in Table /\ \A s \in Signal : act'[s] = IF s \in Fixed THEN act[s] ELSE AllOnStack(current_act)[s]
      BY <1>1, <3>1, <3>2, InstallType
    <3> QED
      BY <1>1, <3>1, <3>2, <3>3, SignalsAssumption DEF HasHandler
  <2>4. CASE ChangeTables(RestoreStarting(act, starting_act), StartingFlagged(starting_act), current_act)
    <3> DEFINE u == [s \in Signal |-> IF starting_act[s].handler = "SIG_DFL"
                                      THEN act[s] ELSE Flagged(starting_act[s])]
    <3>1. u \in Table /\ StartingFlagged(starting_act) \in Table
      BY <1>1, FlagType DEF Table, StartingFlagged
    <3>2. \A s \in Signal : HasHandler(u[s]) => u[s].onstack
      BY <1>1, <1>2, <1>3, FlagType DEF Table
    <3>3. act' = Install(act, u)
      BY <2>4 DEF RestoreStarting
    <3> HIDE DEF u
    <3>4. act' \in Table /\ \A s \in Signal : act'[s] = IF s \in Fixed THEN act[s] ELSE u[s]
      BY <1>1, <3>1, <3>3, InstallType
    <3> QED
      BY <1>1, <2>4, <3>1, <3>2, <3>4, SignalsAssumption DEF HasHandler
  <2>5. CASE ChangeTables(SetOnStack(act), starting_act, current_act)
    <3>1. /\ act' = SetOnStack(act) /\ starting_act' = starting_act /\ current_act' = current_act
      BY <2>5
    <3>2. \A s \in Fixed : SetOnStack(act)[s] = act[s]
      BY SignalsAssumption DEF SetOnStack, Install
    <3> HIDE DEF SetOnStack
    <3> QED
      BY <1>1, <3>1, <3>2, SetOnStackType, SignalsAssumption DEF HasHandler
  <2>6. ASSUME NEW s \in Signal, Notify(s) PROVE <1>4!1 /\ <1>4!2 /\ <1>4!3
    <3>1. GoAction \in Disposition
      BY DEF GoAction, Disposition, Handler
    <3>2. act' \in Table /\ \A q \in Signal : act'[q] = IF q = s THEN GoAction ELSE act[q]
      BY <1>1, <2>6, <3>1 DEF Notify, Table
    <3>3. s \notin Fixed /\ starting_act' = starting_act /\ current_act' = current_act
      BY <2>6 DEF Notify
    <3> QED
      BY <1>1, <1>2, <1>3, <3>2, <3>3, SignalsAssumption DEF GoAction
  <2> QED
    BY <2>1, <2>2, <2>3, <2>4, <2>5, <2>6 DEF SignalCalls
<1>5. FramesOK' /\ ActInv' /\ SavedInv'
  BY <1>2, <1>4, GoTableStep
<1>6. TablesOK' /\ ProgramOK'
  BY <1>1, <1>2, <1>4 DEF TablesOK, ProgramOK, IInv, TypeOK, program, history
<1> QED
  BY <1>5, <1>6, TypePartsPrime DEF IInv

-----------------------------------------------------------------------------
\* What a call into R, or a return, leaves alone keeps its type.
LEMMA Assemble ==
  ASSUME IInv, {act', current_act', entry', my_r_act'} \subseteq Table,
         starting_act' = starting_act,
         FramesOK', ActInv', SavedInv', ProgramOK'
  PROVE  IInv'
BY TypePartsPrime DEF IInv, TypeOK, TablesOK

LEMMA CallsIntoR ==
  ASSUME IInv, InitR \/ EvalR \/ SetCustomPrompt \/ ReplDLLdo1 \/ ToplevelCallback
  PROVE  IInv'
<1>1. ProgramOK /\ {act, current_act, my_r_act, entry} \subseteq Table /\ Len(stack) \in Nat
  BY TypeParts DEF IInv, TypeOK
<1>2. CASE InitR
  <2>1. SaveAndNull(act, stack, "init") /\ stack \in Seq(Frame) /\ Len(stack) = 0
    BY <1>2 DEF InitR, InGo, IInv, TypeOK
  <2>2. /\ {act', current_act', entry'} \subseteq Table /\ nested' \in BOOLEAN
        /\ FramesOK' /\ ActInv' /\ SavedInv'
    <3>1. \A i \in 1..Len(stack) : stack[i].at # "R"
      BY <2>1
    <3> QED
      BY <1>1, <2>1, <3>1, SaveStep
  <2>3. ProgramOK'
    BY <1>1, <1>2, <2>2 DEF InitR, ProgramOK
  <2> QED
    BY <1>1, <1>2, <2>2, <2>3, Assemble DEF InitR
<1>3. CASE EvalR
  <2>1. EnterParseEval(stack)
    BY <1>3 DEF EvalR
  <2> QED
    BY <1>1, <1>3, <2>1, GoFrames, EnterParseEvalStep, Assemble DEF EvalR, MayCallR, ProgramOK, program
<1>4. CASE SetCustomPrompt
  <2>1. CASE customPrompt' = TRUE /\ EnterParseEval(stack)
    BY <1>1, <1>4, <2>1, GoFrames, EnterParseEvalStep, Assemble DEF SetCustomPrompt, MayCallR, ProgramOK
  <2>2. CASE customPrompt' = FALSE /\ UNCHANGED <<act, current_act, stack, history>>
    BY <1>1, <1>4, <2>2, SameTables, Assemble DEF SetCustomPrompt, ProgramOK, history
  <2> QED
    BY <1>4, <2>1, <2>2 DEF SetCustomPrompt
<1>5. CASE ReplDLLdo1
  <2>1. SaveAndNull(act, stack, "do1") /\ stack \in Seq(Frame) /\ Len(stack) = 0
    BY <1>5 DEF ReplDLLdo1, InGo, IInv, TypeOK
  <2>2. /\ {act', current_act', entry'} \subseteq Table /\ nested' \in BOOLEAN
        /\ FramesOK' /\ ActInv' /\ SavedInv'
    <3>1. \A i \in 1..Len(stack) : stack[i].at # "R"
      BY <2>1
    <3> QED
      BY <1>1, <2>1, <3>1, SaveStep
  <2>3. ProgramOK'
    BY <1>1, <1>5, <2>2 DEF ReplDLLdo1, ProgramOK, program
  <2> QED
    BY <1>1, <1>5, <2>2, <2>3, Assemble DEF ReplDLLdo1
<1>6. CASE ToplevelCallback
  <2>1. ~InGo /\ UNCHANGED <<starting_act, my_r_act, program, R_interrupts_pending>>
    BY <1>6 DEF ToplevelCallback, At
  <2>2. CASE EnterParseEval(Move("callback"))
    <3>1. /\ Move("callback") \in Seq(Frame) /\ Len(Move("callback")) = Len(stack)
          /\ \A i \in 1..(Len(stack) - 1) : Move("callback")[i].at # "R"
          /\ Move("callback")[Len(stack)].at = "callback"
      BY <2>1, MoveType
    <3>2. \A i \in 1..Len(Move("callback")) : Move("callback")[i].at # "R"
      <4> HIDE DEF Move
      <4> QED
        BY <1>1, <3>1
    <3> HIDE DEF Move
    <3> QED
      BY <1>1, <2>1, <2>2, <3>1, <3>2, EnterParseEvalStep, Assemble DEF ProgramOK, program
  <2>3. CASE stack' = Move("callback") /\ UNCHANGED <<act, current_act, history>>
    <3>1. act' \in Table /\ FramesOK' /\ ActInv' /\ SavedInv'
      BY <2>1, <2>3, InRStep
    <3> QED
      BY <1>1, <2>1, <2>3, <3>1, Assemble DEF ProgramOK, program, history
  <2> QED
    BY <1>6, <2>2, <2>3 DEF ToplevelCallback
<1> QED
  BY <1>2, <1>3, <1>4, <1>5, <1>6

LEMMA ReturnsFromR ==
  ASSUME IInv, InitReturns \/ ParseFails \/ EvalReturns \/ Do1Returns
  PROVE  IInv'
<1>1. ~InGo /\ RestoreAndPop /\ UNCHANGED <<starting_act, program, R_interrupts_pending>>
  BY DEF InitReturns, ParseFails, EvalReturns, Do1Returns, At
<1>2. my_r_act' \in {act', my_r_act}
  BY DEF InitReturns, ParseFails, EvalReturns, Do1Returns
<1>3. ProgramOK /\ my_r_act \in Table
  BY TypeParts DEF IInv, TypeOK
<1> QED
  BY <1>1, <1>2, <1>3, RestoreStep, Assemble DEF ProgramOK, program

\* ReplDLLinit flags whatever R installed.
LEMMA ReplDLLinitStep == ASSUME IInv, ReplDLLinit PROVE IInv'
<1>1. PICK S \in SUBSET (Signal \ Fixed) :
        act' = SetOnStack([s \in Signal |->
                 IF s \in S THEN [handler |-> "R", onstack |-> FALSE] ELSE act[s]])
  BY DEF ReplDLLinit
<1> DEFINE t == [s \in Signal |-> IF s \in S THEN [handler |-> "R", onstack |-> FALSE] ELSE act[s]]
<1>2. InGo /\ act \in Table /\ \A s \in Fixed : act[s].handler = "SIG_DFL"
  BY DEF ReplDLLinit, IInv, TypeOK, ActInv
<1>3. t \in Table
  <2>1. [handler |-> "R", onstack |-> FALSE] \in Disposition
    BY DEF Disposition, Handler
  <2> QED
    BY <1>2, <2>1 DEF Table
<1>4. \A s \in Fixed : t[s] = act[s] /\ SetOnStack(t)[s] = t[s]
  BY <1>1, SignalsAssumption DEF SetOnStack, Install
<1> HIDE DEF t, SetOnStack
<1>5. act' = SetOnStack(t)
  BY <1>1 DEF t
<1>6. /\ act' \in Table
      /\ \A s \in Fixed : act'[s] = act[s]
      /\ \A s \in Signal : HasHandler(act'[s]) => act'[s].onstack
  BY <1>2, <1>3, <1>4, <1>5, SetOnStackType, SignalsAssumption DEF HasHandler
<1>7. FramesOK' /\ ActInv' /\ SavedInv'
  BY <1>2, <1>6, GoTableStep DEF ReplDLLinit
<1>8. ProgramOK'
  BY DEF ReplDLLinit, IInv, TypeOK, ProgramOK, history
<1> QED
  BY <1>6, <1>7, <1>8, Assemble DEF ReplDLLinit, IInv, TypeOK, history

LEMMA StepsInsideR ==
  ASSUME IInv,
         \/ GoFuncReturns
         \/ \E s \in Signal : RInstalls(s)
         \/ \E c \in Slot : RCallsGo(c)
  PROVE  IInv'
<1>1. ~InGo /\ UNCHANGED <<current_act, starting_act, my_r_act, program, history, R_interrupts_pending>>
  BY DEF GoFuncReturns, RInstalls, RCallsGo, At, Quiet
<1>2. \/ act' = act /\ \E w \in {"R", "callback", "gofunc"} : stack' = Move(w)
      \/ stack' = stack /\ \E s \in Signal \ Fixed :
           act' = [act EXCEPT ![s] = [handler |-> "R", onstack |-> FALSE]]
  <2>1. CASE GoFuncReturns
    BY <2>1 DEF GoFuncReturns
  <2>2. CASE \E c \in Slot : RCallsGo(c)
    BY <2>2 DEF RCallsGo
  <2>3. CASE \E s \in Signal : RInstalls(s)
    BY <2>3 DEF RInstalls
  <2> QED
    BY <2>1, <2>2, <2>3
<1>3. act' \in Table /\ FramesOK' /\ ActInv' /\ SavedInv'
  BY <1>1, <1>2, InRStep
<1>4. ProgramOK'
  BY <1>1 DEF IInv, TypeOK, ProgramOK, program, history
<1> QED
  BY <1>1, <1>3, <1>4, Assemble DEF IInv, TypeOK, history

\* The steps that change neither the tables nor the frames.
LEMMA OtherSteps ==
  ASSUME IInv,
         \/ EndR
         \/ \E c \in Slot : SetCallback(c)
         \/ Interrupts
         \/ UNCHANGED vars
  PROVE  IInv'
<1>1. UNCHANGED <<tables, stack, history>>
  BY DEF EndR, SetCallback, Interrupts, InterruptOnly, SetR_interrupts_pending, SigintArrives,
         RNoticesInterrupt, vars
<1>2. FramesOK' /\ ActInv' /\ SavedInv'
  BY <1>1, SameTables DEF tables
<1>3. ProgramOK'
  <2>1. ProgramOK
    BY TypeParts DEF IInv
  <2>2. CASE EndR
    BY <2>1, <2>2 DEF EndR, ProgramOK, history
  <2>3. CASE \E c \in Slot : SetCallback(c)
    BY <2>1, <2>3 DEF SetCallback, ProgramOK, history
  <2>4. CASE Interrupts
    BY <2>1, <2>4 DEF Interrupts, InterruptOnly, SetR_interrupts_pending, SigintArrives,
                      RNoticesInterrupt, ProgramOK, program, history
  <2>5. CASE UNCHANGED vars
    BY <2>1, <2>5 DEF vars, ProgramOK, program, history
  <2> QED
    BY <2>2, <2>3, <2>4, <2>5
<1> QED
  BY <1>1, <1>2, <1>3, Assemble DEF IInv, TypeOK, tables, history

LEMMA NextIInv == IInv /\ [Next]_vars => IInv'
<1> SUFFICES ASSUME IInv, [Next]_vars PROVE IInv'
  OBVIOUS
<1>1. CASE CallsFromGo
  BY <1>1, CallsIntoR, ReplDLLinitStep, ChangeTablesStep, OtherSteps DEF CallsFromGo
<1>2. CASE StepsOfR
  BY <1>2, CallsIntoR, ReturnsFromR, StepsInsideR DEF StepsOfR
<1>3. CASE Interrupts
  BY <1>3, OtherSteps
<1>4. CASE UNCHANGED vars
  BY <1>4, OtherSteps
<1> QED
  BY <1>1, <1>2, <1>3, <1>4 DEF Next

-----------------------------------------------------------------------------
LEMMA InvariantIInv == Spec => []IInv
BY InitIInv, NextIInv, PTL DEF Spec

\* The variables keep their types whatever the nesting of calls.
THEOREM TypeCorrect == Spec => []TypeOK
<1>1. IInv => TypeOK
  BY DEF IInv
<1> QED
  BY <1>1, InvariantIInv, PTL

\* With Go at rest, no call into R in progress, every handler in place runs on
\* the alternate stack (set_SA_ONSTACK, restore_sigaction_from_current_act).
THEOREM OnStackSafe == Spec => []OnStackInGo
<1>1. IInv => OnStackInGo
  BY DEF IInv, ActInv
<1> QED
  BY <1>1, InvariantIInv, PTL

\* However the calls nest, no signal reaches the Go runtime while a call
\* into R is in progress (null_out_all_signal_handlers).
THEOREM GoNotInterruptedInR == Spec => []NoGoHandlerInR
<1>1. IInv => NoGoHandlerInR
  BY DEF IInv, ActInv, NoGoHandlerInR, RTable
<1> QED
  BY <1>1, InvariantIInv, PTL

\* However the calls nest, Ctrl-C interrupts R while a call into R is in
\* progress (sig_handler_for_sigint_R).
THEOREM SigintForR == Spec => []SigintReachesR
<1>1. IInv => SigintReachesR
  BY DEF IInv, ActInv, SigintReachesR, RTable
<1> QED
  BY <1>1, InvariantIInv, PTL

-----------------------------------------------------------------------------
\* While no frame was entered inside the outermost one, current_act has the
\* handlers that were in place when it was entered.
FlatInv ==
  /\ \A s \in Fixed : entry[s].handler = "SIG_DFL"
  /\ ~InGo /\ ~nested => SameHandlers(current_act, entry)

LEMMA FlatSave ==
  ASSUME IInv, FlatInv, NEW found, NEW frames, NEW fn,
         \A s \in Signal : found[s].handler = act[s].handler,
         SaveAndNull(found, frames, fn)
  PROVE  FlatInv'
<1>1. CASE InGo
  BY <1>1 DEF SaveAndNull, FlatInv, SameHandlers, IInv, ActInv
<1>2. CASE ~InGo
  BY <1>2 DEF SaveAndNull, FlatInv
<1> QED
  BY <1>1, <1>2

LEMMA FlatEnter ==
  ASSUME IInv, FlatInv, NEW frames, EnterParseEval(frames)
  PROVE  FlatInv'
<1>1. \A s \in Signal : SetOnStack(act)[s].handler = act[s].handler
  BY SetOnStackType DEF IInv, TypeOK
<1>2. SaveAndNull(SetOnStack(act), frames, "eval")
  BY DEF EnterParseEval
<1> HIDE DEF SetOnStack
<1> QED
  BY <1>1, <1>2, FlatSave

LEMMA FlatSame ==
  ASSUME FlatInv, UNCHANGED history, InGo' \/ (current_act' = current_act /\ (InGo => InGo'))
  PROVE  FlatInv'
BY DEF FlatInv, history, SameHandlers

\* The step that ends the outermost call.
LEMMA FlatRestore ==
  ASSUME IInv, FlatInv, ~InGo, RestoreAndPop
  PROVE  /\ FlatInv'
         /\ Leaves /\ ~nested => SameHandlers(act', entry)
<1>1. /\ current_act' = AllOnStack(current_act)
      /\ \A s \in Signal : AllOnStack(current_act)[s].handler = current_act[s].handler
      /\ act' = Install(act, AllOnStack(current_act))
      /\ AllOnStack(current_act) \in Table
  BY AllOnStackType DEF RestoreAndPop, IInv, TypeOK
<1>2. stack \in Seq(Frame) /\ Len(stack) \in Nat \ {0}
  BY DEF IInv, TypeOK, InGo
<1>3. Len(stack) = 1 => InGo'
  BY <1>2, SubSeqEmpty DEF RestoreAndPop, Below, InGo
<1> HIDE DEF AllOnStack
<1>4. FlatInv'
  <2>1. CASE Len(stack) = 1
    <3>1. \A s \in Fixed : ZeroTable[s].handler = "SIG_DFL"
      BY SignalsAssumption DEF ZeroTable, Default
    <3> QED
      BY <1>3, <2>1, <3>1 DEF FlatInv, RestoreAndPop
  <2>2. CASE Len(stack) # 1
    BY <1>1, <2>2 DEF FlatInv, RestoreAndPop, SameHandlers
  <2> QED
    BY <2>1, <2>2
<1>5. Leaves /\ ~nested => SameHandlers(act', entry)
  <2>1. \A s \in Signal : act'[s] = IF s \in Fixed THEN act[s] ELSE AllOnStack(current_act)[s]
    BY <1>1, InstallType DEF IInv, TypeOK
  <2> QED
    BY <1>1, <2>1, SignalsAssumption DEF FlatInv, SameHandlers, IInv, ActInv
<1> QED
  BY <1>4, <1>5

LEMMA FlatNext ==
  IInv /\ FlatInv /\ [Next]_vars
    => FlatInv' /\ (Leaves /\ ~nested => SameHandlers(act', entry))
<1> SUFFICES ASSUME IInv, FlatInv, [Next]_vars
             PROVE  FlatInv' /\ (Leaves /\ ~nested => SameHandlers(act', entry))
  OBVIOUS
<1>1. CASE InitReturns \/ ParseFails \/ EvalReturns \/ Do1Returns
  BY <1>1, FlatRestore DEF InitReturns, ParseFails, EvalReturns, Do1Returns, At
<1>2. CASE InitR \/ ReplDLLdo1
  <2>1. \E fn : SaveAndNull(act, stack, fn)
    BY <1>2 DEF InitR, ReplDLLdo1
  <2> QED
    BY <1>2, <2>1, FlatSave DEF Leaves, InitR, ReplDLLdo1
<1>3. CASE EvalR \/ SetCustomPrompt \/ ToplevelCallback
  <2>1. \/ \E frames \in Seq(Frame) : EnterParseEval(frames)
        \/ stack' = stack /\ UNCHANGED <<current_act, history>>
        \/ ~InGo /\ stack' = Move("callback") /\ UNCHANGED <<current_act, history>>
    <3>1. stack \in Seq(Frame) /\ (~InGo => Move("callback") \in Seq(Frame))
      BY MoveType DEF IInv, TypeOK
    <3> QED
      BY <1>3, <3>1 DEF EvalR, SetCustomPrompt, ToplevelCallback, At
  <2>2. CASE \E frames \in Seq(Frame) : EnterParseEval(frames)
    <3>1. PICK frames \in Seq(Frame) : EnterParseEval(frames)
      BY <2>2
    <3>2. FlatInv'
      BY <3>1, FlatEnter
    <3>3. stack' # <<>>
      BY <3>1 DEF EnterParseEval, SaveAndNull
    <3> QED
      BY <3>2, <3>3 DEF Leaves
  <2>3. CASE stack' = stack /\ UNCHANGED <<current_act, history>>
    BY <2>3, FlatSame DEF Leaves, InGo
  <2>4. CASE ~InGo /\ stack' = Move("callback") /\ UNCHANGED <<current_act, history>>
    <3>1. Len(stack') = Len(stack) /\ Len(stack) # 0
      BY <2>4, MoveType DEF IInv, TypeOK, InGo
    <3> QED
      BY <2>4, <3>1, FlatSame DEF Leaves, InGo
  <2> QED
    BY <2>1, <2>2, <2>3, <2>4
<1>4. CASE ReplDLLinit \/ SignalCalls \/ \E s \in Signal : Notify(s)
  BY <1>4, FlatSame DEF ReplDLLinit, SignalCalls, Notify, ChangeTables, InGo, Leaves
<1>5. CASE EndR \/ (\E c \in Slot : SetCallback(c)) \/ Interrupts \/ UNCHANGED vars
  <2>1. UNCHANGED <<stack, current_act, history>>
    BY <1>5 DEF EndR, SetCallback, Interrupts, InterruptOnly, SetR_interrupts_pending,
                SigintArrives, RNoticesInterrupt, vars, tables
  <2> QED
    BY <2>1, FlatSame DEF Leaves, InGo
<1>6. CASE GoFuncReturns \/ (\E s \in Signal : RInstalls(s)) \/ (\E c \in Slot : RCallsGo(c))
  <2>1. ~InGo /\ UNCHANGED <<current_act, history>>
    BY <1>6 DEF GoFuncReturns, RInstalls, RCallsGo, At, Quiet
  <2>2. stack' = stack \/ \E w \in {"R", "gofunc"} : stack' = Move(w)
    BY <1>6 DEF GoFuncReturns, RInstalls, RCallsGo
  <2>3. Len(stack') = Len(stack) /\ Len(stack) # 0
    BY <2>1, <2>2, MoveType DEF IInv, TypeOK, InGo
  <2> QED
    BY <2>1, <2>3, FlatSame DEF Leaves, InGo
<1> QED
  BY <1>1, <1>2, <1>3, <1>4, <1>5, <1>6 DEF Next, CallsFromGo, StepsOfR

\* restore_sigaction_from_current_act gives Go back the handlers it had when
\* the call into R began, for any signals, provided no frame was entered
\* inside that call.
THEOREM FlatCallsRestore == Spec => HandlersSurviveFlatCall
<1>1. Init => FlatInv
  BY SignalsAssumption DEF Init, FlatInv, InGo, ZeroTable, Default
<1>2. IInv /\ FlatInv /\ [Next]_vars
        => FlatInv' /\ [Leaves /\ ~nested => SameHandlers(act', entry)]_vars
  BY FlatNext
<1> QED
  BY <1>1, <1>2, InvariantIInv, PTL DEF Spec, HandlersSurviveFlatCall
=============================================================================

----------------------------- MODULE ReplProofs -----------------------------
(***************************************************************************)
(* The strings of the read-eval-print loop are neither used nor freed after  *)
(* they were freed, and the prompt script fits its buffer, for any prompts   *)
(* and expressions.                                                         *)
(***************************************************************************)
EXTENDS Repl, TLAPS

\* The string that waits for Lastexpr is the latest expression.
Latest ==
  /\ lastSucessExpression \in Block \cup {NULL} /\ customPrompt \in Block \cup {NULL}
  /\ lastSucessExpression # NULL => exprText = lastTop

Sizes == promptText.length \in Nat /\ ScriptFits

ReplInv == PointersLive /\ Latest /\ Sizes

LEMMA CutBounded == ASSUME NEW n \in Nat PROVE Cut(n) \in 0..99
BY DEF Cut

LEMMA InjectFits ==
  ASSUME NEW p, p.length \in Nat, ScriptFits, InjectCustomPrompt(p)
  PROVE  ScriptFits'
BY CutBounded DEF InjectCustomPrompt, ScriptFits, Prefix, Suffix, ScriptBuffer

\* Whoever takes the expression leaves the other pointer alone.
LEMMA TakeInv ==
  ASSUME PointersLive, Latest, TakeLastexpr, UNCHANGED lastTop
  PROVE  PointersLive' /\ Latest' /\ reported' \in {None, lastTop}
BY DEF PointersLive, Latest, TakeLastexpr

LEMMA InitReplInv == Init => ReplInv
BY DEF Init, ReplInv, PointersLive, Latest, Sizes, ScriptFits, ScriptBuffer, NoPrompt

LEMMA StepReplInv == ASSUME ReplAssumption, ReplInv, [Next]_vars PROVE ReplInv'
<1> USE ReplAssumption DEF ReplAssumption
<1>0. PointersLive /\ Latest /\ Sizes
  BY DEF ReplInv
<1>1. CASE UNCHANGED <<strings, scriptSize, lastTop>>
  BY <1>0, <1>1 DEF strings, ReplInv, PointersLive, Latest, Sizes, ScriptFits
<1>2. ASSUME NEW p \in Prompt, NEW new \in Block, SetCustomPrompt(p, new) PROVE ReplInv'
  <2>1. PointersLive' /\ Latest'
    BY <1>0, <1>2 DEF SetCustomPrompt, PointersLive, Latest, console
  <2>2. p.length \in Nat
    BY <1>2 DEF Prompt
  <2>3. Sizes'
    BY <1>0, <1>2, <2>2, InjectFits DEF SetCustomPrompt, Sizes
  <2> QED
    BY <2>1, <2>3 DEF ReplInv
<1>3. CASE Lastexpr
  BY <1>0, <1>3, TakeInv DEF Lastexpr, TakeLastexpr, console, ReplInv, Sizes, ScriptFits
<1>4. ASSUME NEW e \in Expr, NEW new \in Block, Succeeds(e, new) PROVE ReplInv'
  <2>1. PointersLive' /\ Latest'
    BY <1>0, <1>4 DEF Succeeds, StoreExpr, PointersLive, Latest
  <2>2. CASE customPrompt = NULL
    BY <1>0, <1>4, <2>1, <2>2 DEF Succeeds, ReplInv, Sizes, ScriptFits
  <2>3. CASE customPrompt # NULL
    BY <1>0, <1>4, <2>1, <2>3, InjectFits DEF Succeeds, ReplInv, Sizes
  <2> QED
    BY <2>2, <2>3
<1>5. CASE ReplReports
  BY <1>0, <1>5, TakeInv DEF ReplReports, TakeLastexpr, ReplInv, Sizes, ScriptFits
<1>6. CASE \/ \E outcome \in {"ok", "parseError", "evalError"} : EvalR(outcome)
           \/ SimpleREPL \/ ReplDLLdo1 \/ OptionsPrompt
           \/ Fails \/ \E result \in {-1, 1, 2} : NoExpression(result)
           \/ ReplEnds \/ UNCHANGED vars
  <2> UNCHANGED <<strings, scriptSize, lastTop>>
    BY <1>6 DEF EvalR, SimpleREPL, ReplDLLdo1, OptionsPrompt, Fails, NoExpression, ReplEnds, vars, console
  <2> QED
    BY <1>1
<1> QED
  BY <1>2, <1>3, <1>4, <1>5, <1>6 DEF Next

\* Neither pointer dangles and no string is freed twice, in whatever order
\* the callback, Lastexpr and SetCustomPrompt replace the strings; the
\* script of a prompt of any length fits setPromptScript.
THEOREM StringsSafe == Spec => [](PointersLive /\ ScriptFits)
<1>1. Init => ReplInv
  BY InitReplInv
<1>2. ReplInv /\ [Next]_vars => ReplInv'
  BY StepReplInv, ReplAssumption
<1>3. ReplInv => PointersLive /\ ScriptFits
  BY DEF ReplInv, Sizes
<1> QED
  BY <1>1, <1>2, <1>3, PTL DEF Spec

-----------------------------------------------------------------------------
(* Types.                                                                  *)
LEMMA NaturalLength == ASSUME ReplAssumption, TypeOK PROVE promptText.length \in Nat
<1>1. CASE promptText \in Prompt
  <2>1. promptText.length \in Length
    BY <1>1 DEF Prompt
  <2> QED
    BY <2>1 DEF ReplAssumption
<1>2. CASE promptText = NoPrompt
  BY <1>2 DEF NoPrompt
<1> QED
  BY <1>1, <1>2 DEF TypeOK

LEMMA InjectTypes ==
  ASSUME NEW p, p.length \in Nat, TypeOK, InjectCustomPrompt(p)
  PROVE  scriptSize' \in Nat /\ prompt' \in Nat \cup {OwnPrompt}
BY CutBounded DEF InjectCustomPrompt, TypeOK, Prefix, Suffix

LEMMA TakeTypes ==
  ASSUME TypeOK, TakeLastexpr
  PROVE  /\ heap' \subseteq Block /\ {lastSucessExpression', customPrompt'} \subseteq Block \cup {NULL}
         /\ exprText' \in Expr \cup {None} /\ promptText' = promptText
         /\ reported' \in Expr \cup {None}
BY DEF TypeOK, TakeLastexpr

LEMMA StepTypeOK == ASSUME ReplAssumption, TypeOK, [Next]_vars PROVE TypeOK'
<1>1. CASE UNCHANGED vars
  BY <1>1 DEF vars, strings, console, TypeOK
<1>2. ASSUME NEW p \in Prompt, NEW new \in Block, SetCustomPrompt(p, new) PROVE TypeOK'
  <2>1. scriptSize' \in Nat /\ prompt' \in Nat \cup {OwnPrompt}
    BY <1>2, InjectTypes DEF SetCustomPrompt, Prompt, ReplAssumption
  <2> QED
    BY <1>2, <2>1 DEF SetCustomPrompt, console, TypeOK
<1>3. CASE Lastexpr
  BY <1>3, TakeTypes DEF Lastexpr, console, TypeOK
<1>4. ASSUME NEW outcome \in {"ok", "parseError", "evalError"}, EvalR(outcome) PROVE TypeOK'
  BY <1>4 DEF EvalR, strings, console, TypeOK
<1>5. ASSUME NEW e \in Expr, NEW new \in Block, Succeeds(e, new) PROVE TypeOK'
  <2>1. scriptSize' \in Nat /\ prompt' \in Nat \cup {OwnPrompt}
    <3>1. CASE customPrompt = NULL
      BY <1>5, <3>1 DEF Succeeds, TypeOK
    <3>2. CASE customPrompt # NULL
      BY <1>5, <3>2, NaturalLength, InjectTypes DEF Succeeds
    <3> QED
      BY <3>1, <3>2
  <2> QED
    BY <1>5, <2>1 DEF Succeeds, StoreExpr, BackWith, TypeOK
<1>6. CASE SimpleREPL \/ ReplDLLdo1 \/ OptionsPrompt
  BY <1>6 DEF SimpleREPL, ReplDLLdo1, OptionsPrompt, strings, console, TypeOK
<1>7. CASE Fails \/ \E result \in {-1, 1, 2} : NoExpression(result)
  BY <1>7 DEF Fails, NoExpression, BackWith, strings, TypeOK
<1>8. CASE ReplReports
  BY <1>8, TakeTypes DEF ReplReports, TypeOK
<1>9. CASE ReplEnds
  BY <1>9 DEF ReplEnds, strings, TypeOK
<1> QED
  BY <1>1, <1>2, <1>3, <1>4, <1>5, <1>6, <1>7, <1>8, <1>9 DEF Next

LEMMA InitTypeOK == Init => TypeOK
<1> SUFFICES ASSUME Init PROVE TypeOK
  OBVIOUS
<1>1. {loop, succeeded} \subseteq BOOLEAN
  BY Zenon DEF Init
<1>2. promptText \in Prompt \cup {NoPrompt}
  BY DEF Init
<1>3. did \in -1..2 /\ scriptSize \in Nat
  BY DEF Init
<1> QED
  BY <1>1, <1>2, <1>3 DEF Init, TypeOK

\* The strings, the prompt and the positions of the loop keep their types.
THEOREM TypeCorrect == Spec => []TypeOK
BY InitTypeOK, StepTypeOK, ReplAssumption, PTL DEF Spec

-----------------------------------------------------------------------------
\* R shows the custom prompt from the end of an expression that succeeded to the
\* beginning of the next one; nobody else runs in between.
Shown ==
  /\ customPrompt = NULL => promptText.length = 0
  /\ at = "back" => loop
  /\ loop /\ succeeded /\ promptText.plain /\ promptText.length > 0
       /\ (at = "go" \/ (at = "back" /\ did > 0))
     => prompt = Cut(promptText.length)

LEMMA StepShown == ASSUME ReplAssumption, TypeOK, Shown, [Next]_vars PROVE Shown'
<1>1. CASE UNCHANGED vars
  BY <1>1 DEF vars, strings, console, Shown
<1>2. ASSUME NEW p \in Prompt, NEW new \in Block, SetCustomPrompt(p, new) PROVE Shown'
  BY <1>2 DEF SetCustomPrompt, GoRuns, InGo, console, Shown, ReplAssumption
<1>3. CASE Lastexpr
  BY <1>3 DEF Lastexpr, TakeLastexpr, console, Shown
<1>4. ASSUME NEW outcome \in {"ok", "parseError", "evalError"}, EvalR(outcome) PROVE Shown'
  BY <1>4 DEF EvalR, GoRuns, InGo, strings, console, Shown
<1>5. ASSUME NEW e \in Expr, NEW new \in Block, Succeeds(e, new) PROVE Shown'
  <2>1. customPrompt = NULL => promptText.length = 0
    BY DEF Shown
  <2>2. promptText.plain /\ promptText.length > 0 => prompt' = Cut(promptText.length)
    BY <1>5, <2>1, NaturalLength DEF Succeeds, InjectCustomPrompt
  <2> QED
    BY <1>5, <2>1, <2>2 DEF Succeeds, BackWith, Shown
<1>6. CASE SimpleREPL \/ ReplDLLdo1 \/ OptionsPrompt
  BY <1>6 DEF SimpleREPL, ReplDLLdo1, OptionsPrompt, InGo, strings, console, Shown
<1>7. CASE Fails \/ \E result \in {-1, 1, 2} : NoExpression(result)
  BY <1>7 DEF Fails, NoExpression, BackWith, strings, Shown
<1>8. CASE ReplReports
  BY <1>8 DEF ReplReports, TakeLastexpr, Shown
<1>9. CASE ReplEnds
  BY <1>9 DEF ReplEnds, strings, Shown
<1> QED
  BY <1>1, <1>2, <1>3, <1>4, <1>5, <1>6, <1>7, <1>8, <1>9 DEF Next

\* After an expression that succeeded SimpleREPL waits for the next line
\* with the custom prompt, whatever R code and Go functions did to it.
THEOREM PromptShown == Spec => []ReplShowsPrompt
<1>1. Init => TypeOK /\ Shown
  BY InitTypeOK DEF Init, Shown, NoPrompt
<1>2. TypeOK /\ Shown /\ [Next]_vars => TypeOK' /\ Shown'
  BY StepTypeOK, StepShown, ReplAssumption
<1>3. Shown => ReplShowsPrompt
  BY DEF Shown, ReplShowsPrompt
<1> QED
  BY <1>1, <1>2, <1>3, PTL DEF Spec

-----------------------------------------------------------------------------
\* The script of a prompt of any length fits setPromptScript.
THEOREM ScriptBounded == Spec => []ScriptFits
BY StringsSafe, PTL

\* Lastexpr returns the latest expression that succeeded, or nothing.
THEOREM LatestReported == Spec => LastexprIsLatest
<1>1. Init => ReplInv
  BY InitReplInv
<1>2. ReplInv /\ [Next]_vars => ReplInv'
  BY StepReplInv, ReplAssumption
<1>3. ReplInv /\ [Next]_vars => [Lastexpr \/ ReplReports => reported' \in {None, lastTop}]_vars
  BY TakeInv DEF ReplInv, Lastexpr, ReplReports, console
<1> QED
  BY <1>1, <1>2, <1>3, PTL DEF Spec, LastexprIsLatest
=============================================================================

-------------------------------- MODULE Repl --------------------------------
(***************************************************************************)
(* The read-eval-print loop on one goroutine: the C strings that embedr.go  *)
(* and cpp/embedr.cpp share (the last expression, the custom prompt), the    *)
(* prompt R shows, and what Lastexpr and EvalR report.                      *)
(*                                                                         *)
(* One ReplDLLdo1 reads a line and evaluates it; while R evaluates, it may   *)
(* call a Go function, which may use this interface itself.                  *)
(***************************************************************************)
EXTENDS Integers

CONSTANTS
  Expr,      \* deparsed top-level expressions
  None,      \* the empty string of Lastexpr
  Block,     \* addresses malloc may return
  NULL,
  Length,    \* lengths of prompts
  OwnPrompt  \* a prompt set in R without SetCustomPrompt

ASSUME ReplAssumption ==
  /\ None \notin Expr /\ NULL \notin Block
  /\ Length \subseteq Nat /\ OwnPrompt \notin Nat

VARIABLES
  heap,                   \* the allocated strings that a pointer leads to
  lastSucessExpression, customPrompt,   \* pointers
  exprText, promptText,   \* what the strings at these pointers are
  scriptSize,             \* bytes written to setPromptScript, 0 before
  prompt,                 \* R's option: OwnPrompt, or the length it shows
  at,                     \* "go", "R" in ReplDLLdo1, "back" in SimpleREPL
  loop,                   \* SimpleREPL runs
  did,                    \* what ReplDLLdo1 returned
  lastTop,                \* history: the last expression that succeeded
  succeeded,              \* history: one did since SimpleREPL began
  reported,               \* what Lastexpr returned
  script, err             \* how the script of EvalR ended; what EvalR returned

strings == <<heap, lastSucessExpression, customPrompt, exprText, promptText>>
console == <<at, loop, did, lastTop, succeeded>>
vars == <<strings, scriptSize, prompt, console, reported, script, err>>

\* A prompt is plain when its characters leave the script one R string.
Prompt == [length : Length, plain : BOOLEAN]
NoPrompt == [length |-> 0, plain |-> TRUE]

Init ==
  /\ heap = {}
  /\ lastSucessExpression = NULL /\ customPrompt = NULL
  /\ exprText = None /\ promptText = NoPrompt
  /\ scriptSize = 0 /\ prompt = OwnPrompt
  /\ at = "go" /\ loop = FALSE /\ did = 1 /\ lastTop = None /\ succeeded = FALSE
  /\ reported = None /\ script = "ok" /\ err = "nil"

-----------------------------------------------------------------------------
(* injectCustomPrompt.                                                     *)
ScriptBuffer == 128
Prefix == 18       \* options("prompt"="
Suffix == 3        \* ") and the terminating zero

\* Mutant: the prompt is copied whole.
CutNot(n) == n

Cut(n) == IF n > 99 THEN 99 ELSE n

\* Mutant: the script is written and not evaluated.
InjectOnlyWrites(p) ==
  /\ scriptSize' = IF p.length = 0 THEN scriptSize ELSE Prefix + Cut(p.length) + Suffix
  /\ UNCHANGED prompt

\* The script is written and evaluated.  It fails to parse, or to set this
\* prompt, when the prompt is not plain: R keeps the prompt it had.
InjectCustomPrompt(p) ==
  IF p.length = 0
  THEN UNCHANGED <<scriptSize, prompt>>
  ELSE /\ scriptSize' = Prefix + Cut(p.length) + Suffix
       /\ prompt' = IF p.plain THEN Cut(p.length) ELSE prompt

-----------------------------------------------------------------------------
(* What the program, or a Go function called by R, may call.                *)
InGo == at = "go" /\ ~loop
GoRuns == InGo \/ at = "R"

\* free(customPrompt), C.CString, injectCustomPrompt.
SetCustomPrompt(p, new) ==
  /\ GoRuns /\ new \notin heap \ {customPrompt}
  /\ heap' = (heap \ {customPrompt}) \cup {new}
  /\ customPrompt' = new
  /\ promptText' = p
  /\ InjectCustomPrompt(p)
  /\ UNCHANGED <<lastSucessExpression, exprText, console, reported, script, err>>

\* Mutant: the string is freed, as a comment asks, and the pointer is kept.
TakeLastexprKeepsPointer ==
  /\ reported' = IF lastSucessExpression = NULL THEN None ELSE exprText
  /\ heap' = heap \ {lastSucessExpression}
  /\ UNCHANGED <<lastSucessExpression, exprText, customPrompt, promptText>>

\* Mutant: the pointer is returned and no copy made.
TakeLastexprAddress ==
  /\ reported' = lastSucessExpression
  /\ heap' = heap \ {lastSucessExpression}
  /\ lastSucessExpression' = NULL
  /\ exprText' = None
  /\ UNCHANGED <<customPrompt, promptText>>

\* The string is copied and the pointer cleared.  Nobody frees the string
\* (a leak): it is out of reach.
TakeLastexpr ==
  /\ reported' = IF lastSucessExpression = NULL THEN None ELSE exprText
  /\ heap' = heap \ {lastSucessExpression}
  /\ lastSucessExpression' = NULL
  /\ exprText' = None
  /\ UNCHANGED <<customPrompt, promptText>>

Lastexpr ==
  /\ GoRuns
  /\ TakeLastexpr
  /\ UNCHANGED <<scriptSize, prompt, console, script, err>>

\* EvalR reports evalErrorOccured, which R_tryEval sets and nothing else.
\* What the script evaluates may set the prompt.
EvalR(outcome) ==
  /\ GoRuns
  /\ script' = outcome
  /\ err' = IF outcome = "evalError" THEN "RevalErr" ELSE "nil"
  /\ prompt' \in IF outcome = "parseError" THEN {prompt} ELSE {prompt, OwnPrompt}
  /\ UNCHANGED <<strings, scriptSize, console, reported>>

-----------------------------------------------------------------------------
(* ReplDLLdo1 and SimpleREPL.                                              *)
SimpleREPL ==
  /\ InGo
  /\ loop' = TRUE /\ succeeded' = FALSE
  /\ UNCHANGED <<strings, scriptSize, prompt, at, did, lastTop, reported, script, err>>

\* A line is read that makes an expression, whose evaluation begins.
ReplDLLdo1 ==
  /\ at = "go"
  /\ at' = "R"
  /\ UNCHANGED <<strings, scriptSize, prompt, loop, did, lastTop, succeeded, reported, script, err>>

\* R code that is evaluated sets the prompt.
OptionsPrompt ==
  /\ at = "R"
  /\ prompt' = OwnPrompt
  /\ UNCHANGED <<strings, scriptSize, console, reported, script, err>>

BackWith(result) ==
  /\ did' = result
  /\ at' = IF loop THEN "back" ELSE "go"
  /\ UNCHANGED <<loop, script, err>>

\* Mutant: the callback keeps the first string until somebody reads it.
KeepExpr(e, new) ==
  IF lastSucessExpression # NULL
  THEN UNCHANGED <<heap, lastSucessExpression, exprText>>
  ELSE /\ new \notin heap
       /\ heap' = heap \cup {new}
       /\ lastSucessExpression' = new
       /\ exprText' = e

\* free(lastSucessExpression), strdup.
StoreExpr(e, new) ==
  /\ new \notin heap \ {lastSucessExpression}
  /\ heap' = (heap \ {lastSucessExpression}) \cup {new}
  /\ lastSucessExpression' = new
  /\ exprText' = e

\* The expression was evaluated and MyEmbedrToplevelCallback called.
Succeeds(e, new) ==
  /\ at = "R"
  /\ BackWith(1)
  /\ lastTop' = e /\ succeeded' = TRUE
  /\ StoreExpr(e, new)
  /\ IF customPrompt = NULL
     THEN UNCHANGED <<scriptSize, prompt>>
     ELSE InjectCustomPrompt(promptText)
  /\ UNCHANGED <<customPrompt, promptText, reported>>

\* An error: no callback.
Fails ==
  /\ at = "R"
  /\ BackWith(0)
  /\ UNCHANGED <<strings, scriptSize, prompt, lastTop, succeeded, reported>>

\* Nothing to evaluate: ctrl-d (-1), a line that continues (2) or is blank (1).
NoExpression(result) ==
  /\ at = "go"
  /\ BackWith(result)
  /\ UNCHANGED <<strings, scriptSize, prompt, lastTop, succeeded, reported>>

\* SimpleREPL prints the last expression and goes on,
ReplReports ==
  /\ at = "back" /\ did > 0
  /\ at' = "go"
  /\ TakeLastexpr
  /\ UNCHANGED <<scriptSize, prompt, loop, did, lastTop, succeeded, script, err>>

\* or ends.
ReplEnds ==
  /\ at = "back" /\ did <= 0
  /\ at' = "go"
  /\ loop' = FALSE
  /\ UNCHANGED <<strings, scriptSize, prompt, did, lastTop, succeeded, reported, script, err>>

Next ==
  \/ \E p \in Prompt, new \in Block : SetCustomPrompt(p, new)
  \/ Lastexpr
  \/ \E outcome \in {"ok", "parseError", "evalError"} : EvalR(outcome)
  \/ SimpleREPL \/ ReplDLLdo1 \/ OptionsPrompt
  \/ \E e \in Expr, new \in Block : Succeeds(e, new)
  \/ Fails \/ \E result \in {-1, 1, 2} : NoExpression(result)
  \/ ReplReports \/ ReplEnds

Spec == Init /\ [][Next]_vars

-----------------------------------------------------------------------------
TypeOK ==
  /\ heap \subseteq Block
  /\ {lastSucessExpression, customPrompt} \subseteq Block \cup {NULL}
  /\ exprText \in Expr \cup {None} /\ promptText \in Prompt \cup {NoPrompt}
  /\ scriptSize \in Nat /\ prompt \in Nat \cup {OwnPrompt}
  /\ at \in {"go", "R", "back"} /\ {loop, succeeded} \subseteq BOOLEAN /\ did \in -1..2
  /\ {lastTop, reported} \subseteq Expr \cup {None}
  /\ script \in {"ok", "parseError", "evalError"} /\ err \in {"nil", "RevalErr"}

\* The two pointers lead to two strings that are allocated: what is read and
\* freed through them is theirs, in whatever order the Go side and the
\* callback replace them.
PointersLive ==
  /\ {lastSucessExpression, customPrompt} \ {NULL} = heap
  /\ lastSucessExpression = customPrompt => customPrompt = NULL

\* setPromptScript holds the script and its zero for a prompt of any length.
ScriptFits == scriptSize \leq ScriptBuffer

\* Whenever SimpleREPL waits for a line, once an expression succeeded, R
\* shows the custom prompt, whatever the expressions and the Go functions
\* they called did to the prompt.
ReplShowsPrompt ==
  loop /\ at = "go" /\ succeeded /\ promptText.plain /\ promptText.length > 0
    => prompt = Cut(promptText.length)

\* What Lastexpr returns, to SimpleREPL or to the program, is the latest
\* expression that succeeded or nothing: never one that another replaced.
LastexprIsLatest ==
  [][Lastexpr \/ ReplReports => reported' \in {None, lastTop}]_vars

\* "Returns empty string if last expression gave an error."
LastexprEmptyAfterError == [][Lastexpr /\ at = "go" /\ did = 0 => reported' = None]_vars

\* EvalR returns an error if "there was either a parse or an evaluation error".
ErrorsTold == err = "nil" => script = "ok"
=============================================================================

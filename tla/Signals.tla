------------------------------ MODULE Signals ------------------------------
(***************************************************************************)
(* The process-wide table of signal dispositions and the operations that   *)
(* cpp/embedr.cpp performs on it.  A table maps every signal to a handler   *)
(* and to its SA_ONSTACK flag; the other sa_flags and the mask are never    *)
(* looked at by the code and are left out.  Each C function loops over all  *)
(* signals; signals do not influence one another, so a loop is one          *)
(* operator on tables.                                                      *)
(***************************************************************************)
CONSTANTS
  Signal,   \* the signal numbers of the loops
  SIGINT,   \* the one signal null_out_all_signal_handlers treats apart
  Fixed     \* signals whose disposition sigaction refuses to change

ASSUME SignalsAssumption ==
  /\ SIGINT \in Signal
  /\ Fixed \subseteq Signal \ {SIGINT}

\* "go": the Go runtime's handler; "R": one installed by R or readline;
\* "sigint_R": sig_handler_for_sigint_R.  SIG_DFL is the null pointer.
Handler == {"SIG_DFL", "SIG_IGN", "go", "R", "sigint_R"}

Disposition == [handler : Handler, onstack : BOOLEAN]

Table == [Signal -> Disposition]

Default == [handler |-> "SIG_DFL", onstack |-> FALSE]

\* A C array of struct sigaction before anything is read into it.
ZeroTable == [s \in Signal |-> Default]

GoAction == [handler |-> "go", onstack |-> TRUE]

\* sigaction(i, &new[i], NULL) for every i: an error return changes nothing.
Install(table, new) == [s \in Signal |-> IF s \in Fixed THEN table[s] ELSE new[s]]

Flagged(d) == [d EXCEPT !.onstack = TRUE]

\* set_SA_ONSTACK: flag what has a non-null handler, SIG_IGN included.
SetOnStack(table) ==
  Install(table, [s \in Signal |-> IF table[s].handler = "SIG_DFL" THEN table[s]
                                                                  ELSE Flagged(table[s])])

\* The flagging loop of restore_sigaction_from_current_act: every entry of
\* the saved array, null handlers included.
AllOnStack(saved) == [s \in Signal |-> Flagged(saved[s])]

\* Mutant: SIGINT is given the default action like every other signal.
NulledNoSigint == [s \in Signal |-> Default]

\* What null_out_all_signal_handlers writes.
Nulled ==
  [s \in Signal |-> IF s = SIGINT THEN [handler |-> "sigint_R", onstack |-> TRUE]
                                  ELSE Default]

NullOut(table) == Install(table, Nulled)

\* restore_all_starting_signal_handlers_WITH_SA_ONSTACK, on starting_act
\* and then on the kernel's table: null entries are neither flagged nor
\* written back.
StartingFlagged(starting) ==
  [s \in Signal |-> IF starting[s].handler = "SIG_DFL" THEN starting[s]
                                                       ELSE Flagged(starting[s])]

RestoreStarting(table, starting) ==
  Install(table, [s \in Signal |-> IF starting[s].handler = "SIG_DFL"
                                   THEN table[s] ELSE Flagged(starting[s])])

\* A signal that runs code of somebody when it arrives.
HasHandler(d) == d.handler \notin {"SIG_DFL", "SIG_IGN"}

SameHandlers(t, u) == \A s \in Signal : t[s].handler = u[s].handler
=============================================================================

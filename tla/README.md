# A formal model of embedr

embedr embeds R in a Go process, and a Go message server in an R process. This directory holds
TLA+ modules of its core, TLC configurations that check them on small instances, and proofs that
TLAPS checks for every value of the constants. Paths and lines below are those of the repository
(`src/`). The repository has no tests: the claims the models are compared with are its comments.

    tlc -config MCEmbedR.cfg MCEmbedR.tla       # one run; every .cfg names its module
    tlapm EmbedRProofs.tla                      # one module of proofs

## 1. Inventory

| part | source | state | operations | interacts with |
|---|---|---|---|---|
| signal switching | `embedr.go`, `cpp/embedr.cpp` | the kernel's handler table; the arrays `starting_act`, `current_act`, `my_r_act`; `initDone`; the Go callbacks | `InitR`, `EvalR`, `EvalR_fullback`, `SetCustomPrompt`, `ReplDLLinit`, `ReplDLLdo1`, `EndR`, the exported table operations, the `Set...Callback...` setters | R (`Rf_initEmbeddedR`, `R_tryEval`, `R_ReplDLLdo1`), which calls back into C and Go; the kernel, which delivers signals |
| REPL and strings | `embedr.go`, `cpp/embedr.cpp` | `lastSucessExpression`, `customPrompt`, `setPromptScript`, R's option `prompt` | `SimpleREPL`, `ReplDLLdo1`, `Lastexpr`, `SetCustomPrompt`, `EvalR`, `MyEmbedrToplevelCallback`, `injectCustomPrompt` | shares pointers between Go and C; the callback evaluates R code inside `R_ReplDLLdo1` |
| RMQ server | `r2go.go` 117-287 | channels `requestToRCh`, `replyFromRCh`; the heartbeat; the loop on the R thread | main loop, one handler goroutine per connection, watchdog goroutine | clients over websockets; R evaluates on the loop's thread and may jump out of it; the web server |
| RMQ client | `r2go.go` 312-349, 411-450 | one connection, its deadline | `RmqWebsocketCall` | the server |
| web server | `web.go` | `ServerReady`, `Done`, `requestStop`; the listening goroutine; the address | `NewWebServer`, `Start`, `Stop`, the polls | the address is shared with other servers and processes |
| codec | `r2go.go` 452-977, 1120-1139 | none of its own; while it converts, R's heap and protect stack | `decodeHelper`, `SexpToIface`, `ToMsgpack`, `FromMsgpack` | R's allocator, which may collect whenever it is called; Go panics that become R errors |
| framed streams | `r2go.go` 979-1116, `cpp/embedr.cpp` 300-315 | none: the offset goes to the caller and comes back | `ReadMsgpackFrame`, `ReadNewlineDelimJson` | the codec; the protect stack |
| time codec | `enctm.go` | none | `EncodeTime`, `DecodeTime` | nothing: the registration is commented out (`r2go.go` 467) |
| helpers | `ipaddr.go`, `vprint.go`, `exists.go`, `history_unix.go`, `attic/` | none that another part reads | queries of the system, printing | |

What is hard here, and what must be true:

* *Signals.* The Go runtime dies of a handler without `SA_ONSTACK`, and R of a signal that Go handles
  while R runs. R and readline install handlers whenever they like, calls nest (a callback evaluates
  R code, R code calls Go, which calls R), and there is one save area. Correct means: with Go at rest only
  on-stack handlers; in R no Go handler and Ctrl-C goes to R; on return Go has its handlers back.
* *Strings.* Ownership of two `malloc`ed strings passes back and forth with no lock. Correct
  means: no use after a free, no double free, no overflow, and the reports are about the right expression.
* *RMQ.* Many goroutines share two unbuffered channels with one R thread, replies carry no request
  identifier, clients time out at any moment, R leaves the loop with a `longjmp`. Correct means: a
  client reads the value of its own request, the R thread never hangs on a client that left, a server
  that was left is stopped and one that works is not.
* *Web server.* "Up" and "down" are found by polling an address that others use. Correct means: a stopped
  server is down, a started one is served by its own listener, restarts do not panic.
* *Codec.* R frees what no protected object leads to, at any allocation; a conversion of nested values has many
  objects in flight and ends by return, by a panic or by an R error in the middle. Correct means: nothing that is
  still used is freed, what was protected is given back, the value is the one the input stands for, and what is lost
  on the way through msgpack is known.
* *Streams.* The caller drives the reader with the offsets it returns, over vectors that may be cut anywhere. Correct
  means: every whole record is read once, in order, nothing beyond the vector matters, the reader ends.

## 2. Modules

| module | models | shape |
|---|---|---|
| `Signals` | the handler table and each C loop over it, as an operator on tables | constant-level |
| `EmbedR` | who owns the handlers while control crosses between Go and R | state machine, extends `Signals` |
| `Repl` | the shared strings, the prompt and the REPL | state machine |
| `RpcService` | what a remote call promises: at most once, one at a time, own value or an error | abstract specification |
| `RmqServer` | loop, handlers, watchdog, clients, time | state machine; implements `RpcService` (`Rpc == INSTANCE RpcService`) |
| `WebServer` | the web servers of one process on one address | state machine |
| `ServeRestart` | `ListenAndServe` called again and again, each call with its web server and watchdog | composes `WebServer` with the calls |
| `Frames` | a reader along a stream of msgpack frames or JSON lines, with an abstract decoder | state machine |
| `Decode` | `decodeHelper` over R's heap, protect stack and collector, one step per allocation or call | state machine |
| `Codec` | what `SexpToIface` and `decodeHelper` compute, by recursion; what survives a round trip | recursive functions, extends `Decode` |
| `Session` | the exported conversions and readers called from R | composes `Frames`, `Decode` and `Codec`; implements `Frames` (`Reader == INSTANCE Frames WITH ...`) |
| `TimeCodec` | `EncodeTime`, `DecodeTime`, `pruneSignExt` | operators |
| `*Proofs` | theorems of the module of that name (`ServeRestartProofs`: also of `WebServer`; `DecodeProofs`: also of `Codec`) | proofs |
| `MC*` | model values for TLC | |

How state and actions correspond to the code:

* `EmbedR`. `act` is the kernel's table. `stack` holds one frame for each active C function that saves and
  clears handlers, with where control is inside it: in R's code, in the top-level callback, or in a Go
  function R called. `SaveAndNull` and `RestoreAndPop` are the pair around every call; `EnterParseEval` adds the
  `set_SA_ONSTACK` of `callParseEval`. `InitReturns` includes the late `record_sigaction_to_my_r_act` of
  `InitR`. `ReplDLLinit` is one step: the mutex covers it. R itself is modelled from its use: `RInstalls`
  (any signal, no `SA_ONSTACK`, at any time), `RNoticesInterrupt`, and the returns.
* `Repl`. `heap` is the set of blocks a live pointer leads to; `Lastexpr` clears the pointer and nobody
  frees the string (a leak, not a dangling pointer), so the block leaves `heap`. A prompt is its length and
  whether its characters leave the script one R string. An error in `R_ReplDLLdo1` is taken to return 0 without
  calling the callback, as `embedr.go` 237 says.
* `RmqServer`. A send on an unbuffered channel and its receive are one step: `Receive`, `Reply` (by *any*
  waiting handler). `main` is the R thread; "gone" is after a `longjmp`. Time passes in ticks of 100ms, and a timer
  of 100ms set between two ticks expires at the next or the one after it. Three ticks may be a little less
  or more than 300ms: `MaybeOverdue`, `SurelyOverdue`. `Tick` waits for goroutines that are ready
  (they run within 100ms); the evaluation of an R function may take any number of ticks.
  Malformed payloads, R errors and errors of encoding are `EvalFails`. A call dials, writes and reads. `Dial` has no deadline: it waits until
  the handler's `Upgrade` answers or the library gives up (`DialFails`); the deadline of a timed call counts from then on. So a call of any kind returns unless
  it is `Abandoned`: untimed at a server whose loop was left or that died, or still dialing at a dead one (`CallsReturn`).
  `Crash` is the death of the server's process or machine at any moment: its goroutines stop, its connections are lost (`ConnectionLost`) or,
  when the machine died, stay silent; there is no restart, a later server is another one.
* `WebServer`. Each server has a `caller` (the goroutine in `NewWebServer` or `Stop`) and a `listener` (the one in
  `ListenAndServe`). `PollUp` and `PollDown` ask whether *anybody* owns the address, as `PortIsBound` does. A panic
  freezes the process. The tigertonic library is external: `Close` releases the address and makes
  `ListenAndServe` return, an address in use makes it return at once, and so does, we *assume*, a `Close` before it.
  `src/` cannot confirm that: when `Stop` overtakes the bind, `OwnerServes`, `StopReturns` and `StopWorks` rest on it. By a second try of a poll, 500ms later, the server's
  goroutine has called `ListenAndServe` (the guard of `Again`).
* `ServeRestart`. `cur` is the call on the R thread, `left` the calls it jumped out of. The address is used by this
  process only. `orderly` is a history variable: every call so far came after all earlier servers were stopped.
* `Frames`. `stream` is the vector, with the records that were written into it and where each starts; `offset` is what the caller brings.
  A stream is `WellWritten`: framed by some writer, record after record, each readable by the decoder, then cut anywhere or followed by bytes
  that are not taken for a record. `Window` is the
  `memcpy` of five bytes: beyond the end of the vector it holds any `Junk`. `FrameRefused`, `LineRefused` are the early
  ends (NULL for a vector of no bytes, R errors, the panic of `&bytes[0]`); `Attempt` is the decoding and the list that is returned.
* `Decode`. `frames` is the stack of active calls of `decodeHelper`. `Makes` is an allocation with the `Rf_protect` after it: first the
  collector leaves some set of objects that is closed and has everything the protect stack leads to (`Collections`: R may collect little, all, or
  nothing), then the object is put at a free address. An address that was freed can be used again, so a forgotten protection
  shows as an object that is free or another one. `Fails` is a panic that `recover` turns into `Rf_error`, which unwinds
  the protect stack. A null pointer in `Rf_unprotect_ptr` is an R error too.
* `Codec`. `Decoded` says by recursion what `Decode` builds step by step, `Lossy` which values lose an integer of an array on the way; `Surviving` says, without going through Go values, what a round trip leaves
  of an R value. `RoundTrip` compares the program with the latter.
* `Session`. One call at a time, as R makes them. `StartFrame`/`StartLine` and `ReturnList` are the two ends of a reader's call, `Step` the conversion
  between them, `MakeList` the window in which the value is protected by the reader alone. After a call R holds the value somewhere
  else: `heap` starts empty again. The codec library is external: `JsonValue`, `MsgpackValue` are what it makes of some bytes.
* `TimeCodec`. Seconds and nanoseconds are their bytes in two's complement, so no number exceeds TLC's integers.

## 3. Runs

| run | question | result |
|---|---|---|
| `MCEmbedR` | `OnStackInGo`, `NoGoHandlerInR`, `SigintReachesR`, `HandlersSurviveFlatCall` in every interleaving of program, R and kernel, depth 2 | holds, 2.3 million states |
| `MCEmbedR_nested` | does *every* call give Go its handlers back (`HandlersSurviveCall`)? | violated, finding 1 |
| `MCRepl` | `PointersLive`, `ScriptFits`, `ReplShowsPrompt`, `LastexprIsLatest` | holds, 35 thousand states |
| `MCRepl_lastexpr` | is `Lastexpr` empty after an error? | violated, finding 2 |
| `MCRepl_parse` | does `EvalR` report a parse error (`ErrorsTold`)? | violated, finding 3 |
| `MCRmqServer` | `ReplyToRequester`, `MainNotStuck`, `GoneServerStopped`, `IdleServerKept`; under fairness `EventuallyServed`, `CallsReturn`, `GoneLeadsToStop`; and that `RmqServer` implements `RpcService` | holds with crashes of the server, 53 thousand states |
| `MCRmqServer_alive` | is a server stopped only after its loop was left (`StoppedOnlyWhenGone`)? | violated, finding 4 |
| `MCWebServer` | `StoppedIsDown`, `OwnerServes`, `StopReturns` with two servers and another process | holds |
| `MCServeRestart` | `OrderlyServes`, `OrderlyNoPanic`, `LeftIsStopped` with three calls | holds, 28 thousand states |
| `MCServeRestart_overlap` | is every call served by its own web server (`EveryCallServes`)? | violated, finding 5 |
| `MCSession` | of conversions: `NothingDangles`, `Balanced`, `AsDecoded`, `RoundTrip`, `LossTold`; of streams: `ReadsRecords`, `ReadsToEnd`, `ReadsInside`, `OverreadHarmless`, `Advances`, and that `Session` implements `Frames`; of times: the assumption `TimesKept` | holds, 10 thousand states |
| `MCSession_offset` | is the offset after a JSON record that of the byte after its newline (`OffsetAfterNewline`)? | violated, finding 6 |

Bounds, and why they are enough:

* `MCEmbedR`: SIGINT, one ordinary signal and one the kernel will not change are the only kinds the C loops tell
  apart, and signals do not influence each other. Depth 2 has a call inside a call of each kind; a third level
  saves and restores like the second. All four callback slots are treated alike: one is enough. The
  proofs remove these bounds.
* `MCRepl`: lengths 0, 1, 99, 100, 128 are the edges of `injectCustomPrompt`; two expressions tell "latest"
  from "earlier"; three addresses leave `malloc` a choice, an address freed before included (symmetric).
* `MCRmqServer`: one client that times out and one that never does: a late reply or a dead client of the one beside the request of the
  other. `MaxAge = 6` is one more than the age at which the watchdog must have acted; beyond it the age is not counted.
  Names of calls are used again after both ends closed, so the number of calls is not bounded; that of concurrent
  clients is not bounded in the proofs.
* `MCSession`: a double has 3 bits, so the edges -9..9 and 13 stand for 2^53 and its neighbours. Values are nested up to three deep, with each type first
  in an array and in the place where it does not fit, equal names, names out of order, missing values, raw bytes that are JSON, broken JSON or
  JSON with a bad array in it. Twelve addresses are enough: an allocation that finds none free would be a deadlock, which the run
  would report. Streams have up to three records, of every frame size with unknown bytes or a bad record behind, cut after
  every byte; the five bytes beyond the vector are all 0, 1 or 3, which as sizes decide differently. The proofs of
  section 5 remove the bounds on values, addresses, streams and junk for all of the run's properties.
* `TimesKept`: some thousand times: every length of the seconds with every byte that matters at its head, of both signs; zones at whole minutes,
  between them and at the ends of 14 bits.
* `MCWebServer`, `MCServeRestart`: `MaxTries = 3` instead of 40: a first try, one between, and one that panics.
  Server names are used again, so the number of restarts is not bounded.
* `CHECK_DEADLOCK FALSE` only where a panic ends the process.

Fairness, and why the code justifies it: goroutines that can run do (the Go scheduler is preemptive):
weak fairness on each process's steps. Senders blocked on a channel are queued in order, so a handler that keeps
offering its request is served though the timer competes with it: strong fairness on `Receive`. Time passes. The
R function that handles a request returns: an *assumption on the user's code*, without which `EventuallyServed` fails as
it should. No fairness is assumed of new calls, of a `Dial` that gives up, of R errors or Ctrl-C, of calls or `Stop`
by users, of the other process. `LeftIsStopped` uses fairness of the watchdog only for a call that was left, which is
what `GoneServerStopped` and `GoneLeadsToStop` establish in `RmqServer`.

## 4. What the checks found

1. **Nested calls lose Go's handlers** (`cpp/embedr.cpp` 389). `current_act` is one array; an inner `callParseEval`
   records R's cleared table into it, and the outer "restore host Go's sigaction" (574) installs that. A custom prompt is
   enough: the top-level callback evaluates its script inside every `ReplDLLdo1`. What *does* survive nesting
   is proved: no Go handler in R, Ctrl-C for R, on-stack handlers when Go is at rest again.
2. **`Lastexpr` after an error** (`embedr.go` 199-208): "Returns empty string if last expression gave an error", but nothing
   clears the string on an error; an earlier unread expression is returned.
3. **Parse errors are not told** (`cpp/embedr.cpp` 408-414): the early return leaves `evalErrorOccured` 0 and `EvalR` returns nil,
   against `embedr.go` 139-141.
4. **The watchdog stops a live server** (`r2go.go` 225): only the expiry of the 100ms timer beats the heart, so a
   handler of more than 300ms, or requests that keep the timer from expiring, look like a loop that was left
   (213-215). The loop then goes on without a listener.
5. **A restart before the watchdog acted has no listener** (`web.go` 62, 53-57), against `r2go.go` 93-94: the old server answers the poll,
   the bind error is ignored, and soon nobody listens. In the same situation, when the new listener takes the address
   between the old server's `Close` and its poll, `WaitUntilServerDown` fails 40 times and
   panics in the watchdog goroutine (`web.go` 109): the R process ends. `OrderlyNoPanic` shows it takes overlapping calls.

6. **The offset after a JSON record is that of its newline** (`r2go.go` 1100-1110): `next` is the newline's position, and the doc promises "the byte
   just after the terminating newline" (1067-1070). Records are still read once and in order (`ReadsRecords`: the decoder skips the
   newline), but after the last record of a well-formed stream the caller gets an offset inside the vector, and the call made with it fails.

Seen while reading, without a run: `my_r_act` is recorded after Go's handlers were put back, so it
never holds R's (`embedr.go` 76-84). A Go function called from R runs with whatever handlers R installed, `SA_ONSTACK` or
not (`cpp/embedr.cpp` 318-332). `Lastexpr` does not free the string, against `cpp/embedr.cpp` 22-23. `SetCustomPrompt` takes effect
at once, against `embedr.go` 248-250, and an empty prompt does not bring R's back. `NewWebServer("")` shadows `addr` and listens
on the empty address (`web.go` 28). A scalar integer beyond 53 bits loses precision without the warning that an array gives
(`r2go.go` 557 and 643). `rawStream` stays protected after a JSON vector of no bytes (1090-1092; the exception in `Balanced`). The last line of a cut stream is
taken for a record if it decodes (`ReadsToEnd`). A byte that begins no frame panics in Go, outside of the
`recover` of `decodeHelper` (1020-1021). A msgpack extension is converted to a null pointer (734-737);
in a list it is an R error, and no list in use holds one (`NothingDangles`). A list element with no name
gets the empty name, and the last of equal names wins (838-841).

## 5. What is proved

The proofs hold for every value of the constants that satisfies the modules' assumptions: any set of signals, any depth of nesting, any number
of clients, servers and tries, prompts of any length, any values, addresses and streams. TLC evaluates the assumptions in the runs:

* `SignalsAssumption`, `EmbedRAssumption`, `RmqServerAssumption`, `WebServerAssumption`, `ReplAssumption`, `DecodeAssumption`: kinds and
  distinctness of the constants.
* `FramesAssumption`: the streams are `WellWritten`. A vector of other bytes has no records, so nothing to get; `StaysInside`, `MovesOn` and `OverreadSafe`
  use of this only that a stream consists of bytes.
* `CodecAssumption`: the values are finite, so `Decoded` and `Lossy` satisfy the equations that define them (a recursive function over values that contain
  themselves would define nothing); the parts of a value are values; JSON has neither raw bytes nor extensions, as its grammar says.
* `SexpAssumption`: the same of R values: `SexpToIface`, `HasJson` and `Surviving` satisfy their equations, and the parts of a list are nested less deep than the list.
  A list has as many names as elements or none, the integers of R are doubles (they have 32 bits), a logical is `FALSE`, `TRUE` or missing (`IsSexpValue`).
* `SessionAssumption`: the decoder of `Frames` is the one of `Session`: it decodes a record exactly when the codec library makes a value of it that converts.
  No record is just a msgpack extension: the list would get a null pointer (section 4).

The theorems, and the argument of each module:

* `EmbedRProofs`: `TypeCorrect`, `OnStackSafe`, `GoNotInterruptedInR`, `SigintForR`, `FlatCallsRestore`. None of the invariants is inductive: an
  inner frame overwrites the array the outer one installs. The strengthening `IInv` adds `SavedInv` (when frames are nested,
  what is saved is itself a table fit for R) and that fixed signals have no handler. `FlatInv` adds
  that an un-nested call's saved array has the handlers of `entry`.
* `RmqServerProofs`: `TypeCorrect`, `RepliesMatch`, `SendMeetsReceiver`, `WatchdogInTime`, `WatchdogSparesIdle`, `Refinement`. The heart of `IInv` is
  `Exclusive`: a handler awaits a reply exactly when its request is the one R is working on; so "any handler receives" has one
  choice; a crash keeps it, for the dead loop neither receives nor replies. `WatchInv` bounds age plus timer by 5, `BeatInv` by 2 for an idle loop. `Refinement` maps every step to
  a step of `RpcService` or a stutter under the state functions `job` and `result`.
* `ServeRestartProofs`: of the servers `StopWorks`, `OwnerStoppable`, `TypeCorrect`, from `ServerInv`: a server owns the address exactly while its goroutine serves an open
  listener (`OwnerOpen`), and `Stop` is past its wait only when the goroutine is over (`Ended`). Of their restarts `OrderlyRestart`, `OrderlyCalm`, `RestartStops`,
  `RestartTypeCorrect`: each step of a restart is a step of `WebServer` (so `ServerInv` carries over); while calls
  are orderly at most one server is active (`OneServer`), so the poll's answer is its own.
* `ReplProofs`: `StringsSafe`, `ScriptBounded`, `LatestReported`, from `PointersLive` with "the string that waits is the latest expression" (`Latest`)
  and the bound on `Cut`; `PromptShown` from `Shown`: between the end of an expression that succeeded and the next line nobody but the loop runs; `TypeCorrect`.
* `FramesProofs`: `StaysInside`, `MovesOn`, `OverreadSafe`. The last is arithmetic: if a header
  is cut, its size alone goes beyond the vector whatever the junk says. `GetsRecords` and `GetsAll` need `WrittenInv`, whose part `Progress` ties the offset to the
  writer's: after `k` calls it is where record `k+1` starts, or for lines at the newline before it, or a line that was cut took it to the end. One lemma
  says that a header the writer made is read back as its size (base 256), one that the first newline behind an offset is the line's own.
* `DecodeProofs`, for the conversion of *any* value at any depth, with a collection at any allocation:
  * `NothingFreed` and `ProtectBalanced`. The stack of calls and the heap need a joint
    invariant (`DecodeInv`): each call holds its own one or two objects, no object is held twice, the protect stack has exactly the objects that
    are held and each of them once (`ProtectOK`), lists hold only objects that are there, and no null pointer (`GoodHeap`). A collection then keeps all that is held, an element moves
    from its call to its parent in one step, and when the last call returns nothing is left on the protect stack.
  * `ConversionMeans`: what is returned stands for `Decoded` of the input. The value of an object is defined by recursion over the heap, so the invariant
    `MeansInv` says that it has one and only one (`Meaningful`: two functions that satisfy the defining equation on a closed set of objects agree there), in place of an
    induction over the heap. A change of the heap then keeps the value of every object that neither is the changed one nor leads to it; and no list leads to an
    object that a call still fills (`Orphans`). On top of that each call's object stands for the elements done so far (`Means`), and the call above it converts the next one.
  * `LossReported`, from `ToldInv`: what was lost in the elements done so far, R was warned of. The warning of a scalar integer does not exist in the code; `Lossy` speaks of arrays.
* `SessionProofs`: `SessionTypes`, `SessionBalanced`, `SessionKeeps`, `SessionDecodes`, `SessionRoundTrip`, `SessionTellsLoss`, `SessionReads`, `SessionAdvances`, `SessionIsReader`, from
  `SessionInv`. In each state of a call it says what is on the protect stack (nothing; `rawStream`; it and what `decodeHelper` holds; it, the value and the
  list), that `extent` is the frame or line at `offset` (`Chosen`) and that the list holds the value (`HasList`). It uses `MeansInv` and `ToldInv` while
  a conversion runs, `WrittenInv` for the reader, and `Returns`, by which `decodeHelper` leaves alone what its caller has on the protect stack.
  With `Chosen`, the last step of a call is the one step of the reader in `Frames`; all others are stutters.
  `SessionRoundTrip` adds `Sent` (the conversion that runs is that of the value sent, so the program returns `Decoded` of `SexpToIface`) and rests on
  `SexpSurvives`, which says without any program that `Decoded` of `SexpToIface` is `Surviving`. That is an induction over data, done as a least counterexample: the
  depths of the R values that do not survive would have a least element (the natural numbers are well-founded), and a value of that depth has parts that do survive. The
  hard case is a list with names: the keys of the map, sorted, must be the names of the elements that stay, sorted. `SortedIs` says that a finite set
  with distinct ranks has an order, `OneOrder` that integers have only one, `KeysInOrder` that both lists therefore agree, place by place.
* `TimeCodecProofs`: `SignRestored`: the bytes that `pruneSignExt` leaves out are those that `Filled` puts back, for numbers of any length.

One attempt at a proof failed for a good reason: `LossTold` used to include conversions that end in an R error. When the first part of a list fails, a later part
that would lose an integer is never converted, and a vector of mixed types fails before its warning. The result of such a call is the error, so the property now speaks of the others.

Only model-checked: the liveness properties (`EventuallyServed`, `CallsReturn`, `GoneLeadsToStop`, `StopReturns`, `LeftIsStopped`),
out of the prover's reach, and `TimesKept`, of which `SignRestored` is the part that needed a proof for every length.
That the functions defined by recursion satisfy their equations is an assumption, which TLC evaluates on the values of the run.

## 6. Assumptions and what is left out

* One goroutine drives R. Concurrent use of the signal operations, of `Lastexpr` or of `SetCustomPrompt` is not modelled; `r2go.go` 107-113
  tells programs not to use `os/signal` meanwhile, and the model lets them change handlers only with Go at rest. An error of
  `R_ReplDLLdo1` returns (it does not jump past `wrapReplDLLdo1`).
* The other `sa_flags` and the signal masks: the code never looks at them.
* The limits of the websocket library on a handshake (`DialFails` may happen at any time or never), HTTP upgrade errors and wrong paths (they never reach R), verbose printing.
* Arguments of the exported functions that have the wrong type (an R error at once) or are negative offsets. Text inside strings, floating point
  beyond the precision of integers, complex and other types that `SexpToIface` turns into nil (one stands for all). The codec library itself: which bytes
  stand for which value is given to the models.
* R's collector moves nothing and frees what is unreachable; an object that R itself keeps (NULL, a caller's arguments) is never freed.
* Not modelled: `ipaddr.go` (stateless queries of the operating system; the race of `GetAvailPort` is documented there and no caller keeps the port),
  `vprint.go`, `exists.go`, `history_unix.go`, `attic/` (printing, `stat`, one call of readline: no state another part reads), the `Makefile`.

## 7. Plan

Done, in this order: `Signals`/`EmbedR` (the package's reason to exist), `RmqServer` with `RpcService`, `WebServer`, `ServeRestart`, `Repl`, with their proofs; then
crashes of the RMQ server, `Frames`, `Decode`, `Codec`, `Session`, `TimeCodec`; then the proofs that streams are read as written, that conversions return what they should, that
`Session` implements `Frames`, and that what R sends through msgpack comes back.

Next:

1. A second look at `EmbedR`: the Go callbacks under R's handlers, and theorems about what nesting preserves for outer frames
   (`my_r_act`, `entry`).
2. The deadlines of `RmqServer` in proofs of abstract time bounds.

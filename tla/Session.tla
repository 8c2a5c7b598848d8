------------------------------ MODULE Session -------------------------------
(***************************************************************************)
(* An R session that calls the exported conversions of r2go.go, one at a     *)
(* time: ToMsgpack and FromMsgpack for one value, or ReadMsgpackFrame or     *)
(* ReadNewlineDelimJson again and again along a stream.  Each call runs       *)
(* decodeHelper in R's memory (Decode) and must return what the definition    *)
(* by recursion says (Codec); along a stream it must be the reader of         *)
(* Frames.                                                                  *)
(***************************************************************************)
EXTENDS Codec, Frames

CONSTANTS
  MessageValues,   \* what messages from elsewhere decode to
  MsgpackValue(_)  \* what the msgpack decoder makes of the bytes of a frame

VARIABLES
  call,        \* where the exported function is
  sexp,        \* the R value that is sent through msgpack
  input,       \* the Go value that is decoded
  extent,      \* the part of the stream it comes from
  returnList,  \* the list of offset and value that is returned
  values       \* what the calls have returned to R

vars == <<decoder, reader, call, sexp, input, extent, returnList, values>>

Parsed(format, text) == IF format = "json" THEN JsonValue(text) ELSE MsgpackValue(text)

\* The reader's decoder is this module's, and no frame holds just an extension.
ASSUME SessionAssumption ==
  /\ MessageValues \subseteq GoValue
  /\ \A s \in SexpValue : SexpToIface[s] \in GoValue
  /\ \A s \in Streams : \A i \in 0..Len(s.bytes) : \A j \in i..Len(s.bytes) :
       LET text == SubSeq(s.bytes, i + 1, j)
           val == Parsed(s.format, text)
       IN  /\ val # Malformed => val \in GoValue /\ Decoded[val] # Undefined
           /\ Decodes(s.format, text) <=> val # Malformed /\ Decoded[val] # Failure

NoValue == <<"none", <<>>, <<>>>>
NoStream == [format |-> "none", bytes |-> <<>>, records |-> <<>>, starts |-> <<0>>]

Init ==
  /\ heap = NoHeap /\ protect = Unprotected
  /\ frames = <<>> /\ warned = FALSE /\ decoded = "none"
  /\ input = Malformed /\ extent = <<0, 0>> /\ returnList = R_NilValue /\ values = <<>>
  /\ \/ ReaderInit /\ sexp = NoValue /\ call = "idle"
     \/ /\ stream = NoStream /\ offset = 0 /\ read = <<>> /\ status = "reading"
        /\ \/ sexp \in SexpValue /\ call = "ToMsgpack"
           \/ sexp = NoValue /\ call = "message"

\* decodeHelper(r, 0, true)
Decoding(val) ==
  /\ input' = val
  /\ frames' = <<NewFrame(val)>>
  /\ decoded' = "none" /\ warned' = FALSE

\* decodeHelper has returned, an object or an error.
Ready(function) == call = function /\ frames = <<>>

-----------------------------------------------------------------------------
\* A value that becomes nil is returned as NULL; the others are encoded.
ToMsgpack ==
  /\ call = "ToMsgpack"
  /\ IF SexpToIface[sexp] = Nil
     THEN values' = <<Null>> /\ call' = "returned" /\ UNCHANGED <<decoder, input>>
     ELSE Decoding(SexpToIface[sexp]) /\ call' = "FromMsgpack" /\ UNCHANGED <<heap, protect, values>>
  /\ UNCHANGED <<reader, sexp, extent, returnList>>

\* A message that another program encoded; one of no bytes is NULL, one that
\* does not decode or is no raw vector an error.
Message ==
  /\ call = "message"
  /\ \/ /\ \E val \in MessageValues : Decoding(val)
        /\ call' = "FromMsgpack" /\ UNCHANGED values
     \/ /\ values' \in {<<Null>>, <<Failure>>} /\ call' = "returned"
        /\ UNCHANGED <<frames, decoded, warned, input>>
  /\ UNCHANGED <<heap, protect, reader, sexp, extent, returnList>>

\* FromMsgpack returns the object that decodeMsgpackToR returned.
FromMsgpack ==
  /\ Ready("FromMsgpack")
  /\ values' = <<Value>>
  /\ call' = "returned"
  /\ heap' = NoHeap
  /\ UNCHANGED <<protect, frames, warned, decoded, reader, sexp, input, extent, returnList>>

-----------------------------------------------------------------------------
(* The calls along a stream.                                                *)
Fail == End("error") /\ call' = "returned"

StartDecoding(from, to) ==
  LET val == Parsed(stream.format, Extent(from, to))
  IN  IF val = Malformed
      THEN Fail /\ protect' = Unprotected /\ UNCHANGED <<frames, decoded, warned, input, extent>>
      ELSE /\ Decoding(val) /\ extent' = <<from, to>>
           /\ call' = "decode"
           /\ UNCHANGED reader

\* The beginning of ReadMsgpackFrame.
StartFrame ==
  /\ call = "idle" /\ stream.format = "msgpack"
  /\ \E junk \in Junk :
       LET p == Window(offset, junk)
       IN  \/ /\ FrameRefused(p) /\ call' = "returned"
              /\ UNCHANGED <<protect, frames, warned, decoded, input, extent>>
           \/ /\ IsFrame(p)
              /\ StartDecoding(offset + headerSize(p), offset + totalFrameSize(p))
              /\ UNCHANGED protect
  /\ UNCHANGED <<heap, sexp, returnList, values>>

\* The beginning of ReadNewlineDelimJson, which protects rawStream: an error
\* drops that again, the early return of NULL does not.
StartLine ==
  /\ call = "idle" /\ stream.format = "json"
  /\ \/ /\ LineRefused /\ call' = "returned"
        /\ protect' = IF n = 0 THEN Pushed(protect, rawStream) ELSE Unprotected
        /\ UNCHANGED <<frames, warned, decoded, input, extent>>
     \/ /\ \E next \in 0..n : IsNext(offset, next) /\ StartDecoding(offset, next)
        /\ call' = "decode" => protect' = Pushed(protect, rawStream)
  /\ UNCHANGED <<heap, sexp, returnList, values>>

DecodeFails ==
  /\ Ready("decode") /\ decoded = "error"
  /\ Fail
  /\ UNCHANGED <<decoder, sexp, input, extent, returnList, values>>

\* Mutant: rObject is not protected while the list is allocated.
MakeListUnprotected ==
  /\ Ready("decode") /\ decoded # "error"
  /\ \E S \in Collections(protect) :
       /\ S # Addr
       /\ heap' = Allocated(S, <<"VECSXP", <<>>, <<>>>>)
       /\ protect' = Pushed(Pushed(protect, decoded), Fresh(S))
       /\ returnList' = Fresh(S)
  /\ call' = "list"
  /\ UNCHANGED <<frames, warned, decoded, reader, sexp, input, extent, values>>

\* Rf_protect(rObject); returnList := allocVector(VECSXP, 2); Rf_protect(returnList)
MakeList ==
  /\ Ready("decode") /\ decoded # "error"
  /\ \E S \in Collections(Pushed(protect, decoded)) :
       /\ S # Addr
       /\ heap' = Allocated(S, <<"VECSXP", <<>>, <<>>>>)
       /\ protect' = Pushed(Pushed(protect, decoded), Fresh(S))
       /\ returnList' = Fresh(S)
  /\ call' = "list"
  /\ UNCHANGED <<frames, warned, decoded, reader, sexp, input, extent, values>>

\* Mutant: rawStream stays protected.
ReleasedButStream == Dropped(Dropped(protect, decoded), returnList)

\* What the call has protected is unprotected.
Released ==
  LET p == Dropped(Dropped(protect, decoded), returnList)
  IN  IF stream.format = "json" THEN Dropped(p, rawStream) ELSE p

\* Mutant: the list returns where the record began.
OffsetBefore == offset

\* start+totalSz
OffsetBehind == extent[2]

\* The list gets ScalarReal(start+totalSz) and rObject, and is returned.
ReturnList ==
  /\ call = "list"
  /\ \E S \in Collections(protect) :
       /\ S # Addr
       /\ LET h == Allocated(S, <<"REALSXP", <<OffsetBehind>>, <<>>>>)
              list == WithElement(WithElement(h, returnList, Fresh(S)), returnList, decoded)
              pair == list[returnList][2]
          IN  /\ offset' = list[pair[1]][2][1]
              /\ values' = Append(values, ValueAt(list, pair[2]))
  /\ read' = Append(read, extent)
  /\ heap' = NoHeap
  /\ protect' = Released
  /\ returnList' = R_NilValue
  /\ call' = "idle"
  /\ UNCHANGED <<frames, warned, decoded, stream, status, sexp, input, extent>>

-----------------------------------------------------------------------------
Step == decodeHelper /\ UNCHANGED <<reader, call, sexp, input, extent, returnList, values>>

\* The only way to stop: a session that ends elsewhere is a deadlock.
Returned == call = "returned" /\ UNCHANGED vars

Next ==
  \/ ToMsgpack \/ Message \/ FromMsgpack \/ StartFrame \/ StartLine
  \/ DecodeFails \/ MakeList \/ ReturnList \/ Step \/ Returned

Spec == Init /\ [][Next]_vars

-----------------------------------------------------------------------------
TypeOK ==
  /\ protect \in [Addr \cup Kept -> Nat]
  /\ decoded \in Addr \cup {R_NilValue, NoObject, "none", "error"}
  /\ call \in {"idle", "ToMsgpack", "message", "FromMsgpack", "decode", "list", "returned"}
  /\ offset \in Nat
  /\ status \in {"reading", "null", "error", "panic"}
  /\ returnList \in Addr \cup {R_NilValue}

\* Whatever happened in between, a call gives back the protect stack it found;
\* the one exception is rawStream after a JSON stream of no bytes.
Balanced ==
  call \in {"idle", "returned"} =>
    protect = IF status = "null" /\ stream.format = "json" THEN Pushed(Unprotected, rawStream)
              ELSE Unprotected

\* A conversion builds in R's memory the value that the definition by recursion
\* gives, and fails exactly when that has none; the value is intact until it is
\* returned, and what a stream's calls return are the values of its records.
AsDecoded ==
  /\ frames = <<>> /\ call \in {"FromMsgpack", "decode", "list"} => Value = Decoded[input]
  /\ call = "returned" /\ input # Malformed /\ stream = NoStream => values = <<Decoded[input]>>
  /\ stream # NoStream =>
       values = [i \in 1..Len(read) |-> Decoded[Parsed(stream.format, Extent(read[i][1], read[i][2]))]]

\* A value that went from R through msgpack and back is what Surviving says.
RoundTrip ==
  call = "returned" /\ sexp # NoValue /\ ~HasJson[sexp] => values = <<Surviving[sexp]>>

\* Along a stream the session is the reader of Frames; a conversion of one
\* value reads no stream.
Reader == INSTANCE Frames WITH Streams <- Streams \cup {NoStream}
ReadsAsReader == Reader!ReaderSpec

\* When an integer of an array changes its value and no error is raised, R is
\* warned.
LossTold == frames = <<>> /\ input # Malformed /\ decoded # "error" => (Lossy[input] => warned)
=============================================================================

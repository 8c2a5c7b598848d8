--------------------------- MODULE SessionProofs ---------------------------
(***************************************************************************)
(* Proofs about Session for every set of values, streams, addresses and      *)
(* decoders: between the calls R's protect stack is as it was, nothing that   *)
(* a call needs is freed, what a call returns is what the definition by       *)
(* recursion says, and along a stream the session is the reader of Frames.    *)
(* A value that R sends through msgpack comes back as Surviving says.        *)
(***************************************************************************)
EXTENDS Session, DecodeProofs, FramesProofs, FiniteSetTheorems, WellFoundedInduction

-----------------------------------------------------------------------------
(* The stream.                                                              *)

ReaderOK ==
  /\ status \in {"reading", "null", "error", "panic"}
  /\ \/ stream = NoStream /\ offset = 0 /\ read = <<>> /\ status = "reading"
     \/ stream \in Streams /\ WrittenInv

LEMMA NoStreamIs ==
  /\ NoStream.format = "none" /\ NoStream.bytes = <<>> /\ NoStream \notin Streams
  /\ NoStream.starts = <<0>> /\ NoStream.records = <<>>
BY FramesAssumption DEF NoStream, WellWritten

LEMMA StatusStays ==
  ASSUME ReaderOK, [ReaderNext]_reader
  PROVE  status' \in {"reading", "null", "error", "panic"} /\ stream' = stream
<1>1. CASE UNCHANGED reader
  BY <1>1 DEF reader, ReaderOK
<1>2. CASE ReadMsgpackFrame
  BY <1>2 DEF ReadMsgpackFrame, FrameRefused, Attempt, End, ReaderOK
<1>3. CASE ReadNewlineDelimJson
  BY <1>3 DEF ReadNewlineDelimJson, LineRefused, Attempt, End, ReaderOK
<1> QED
  BY <1>1, <1>2, <1>3 DEF ReaderNext

LEMMA StepReader == ReaderOK /\ [ReaderNext]_reader => ReaderOK'
<1> SUFFICES ASSUME ReaderOK, [ReaderNext]_reader PROVE ReaderOK'
  OBVIOUS
<1>1. CASE stream = NoStream
  <2>1. ~ReaderNext
    BY <1>1, NoStreamIs DEF ReaderNext, ReadMsgpackFrame, ReadNewlineDelimJson
  <2>2. UNCHANGED reader /\ stream \notin Streams
    BY <1>1, <2>1, NoStreamIs
  <2> QED
    BY <1>1, <2>2 DEF ReaderOK, reader
<1>2. CASE stream # NoStream
  <2>1. stream \in Streams /\ WrittenInv
    BY <1>2 DEF ReaderOK
  <2>2. WrittenInv'
    BY <2>1, StepProgress
  <2> QED
    BY <2>1, <2>2, StatusStays DEF ReaderOK
<1> QED
  BY <1>1, <1>2

\* What Frames promises of the reader.
LEMMA ReaderPromises ==
  ReaderOK => ReadsRecords /\ ReadsToEnd /\ ReadsInside /\ OverreadHarmless /\ offset \in Nat
<1> SUFFICES ASSUME ReaderOK PROVE ReadsRecords /\ ReadsToEnd /\ ReadsInside /\ OverreadHarmless /\ offset \in Nat
  OBVIOUS
<1>1. CASE stream = NoStream
  <2>1. offset = 0 /\ read = <<>> /\ status = "reading" /\ n = 0
    BY <1>1, NoStreamIs DEF ReaderOK, n, bytes
  <2>2. \A i \in 1..Len(read) : FALSE
    BY <2>1
  <2> QED
    BY <2>1, <2>2 DEF ReadsRecords, ReadsToEnd, ReadsInside, OverreadHarmless
<1>2. CASE stream # NoStream
  <2>1. WrittenInv /\ ReadsInside /\ bytes \in Seq(Byte) /\ n \in Nat /\ offset \in 0..n
    BY <1>2, StreamBytes DEF ReaderOK, WrittenInv, InsideInv, ReadOK, ReadsInside
  <2>2. OverreadHarmless
    BY <2>1, SameDecision DEF OverreadHarmless, Agree
  <2> QED
    BY <2>1, <2>2, ProgressRead
<1> QED
  BY <1>1, <1>2

-----------------------------------------------------------------------------
(* The memory.                                                              *)

\* How often a call along the stream protects rawStream.
StreamHeld == IF stream.format = "json" THEN 1 ELSE 0

\* The protect stack of a call that has not called decodeHelper.
Base == IF stream.format = "json" THEN Pushed(Unprotected, rawStream) ELSE Unprotected

AtRest == frames = <<>> /\ heap = NoHeap /\ protect = Unprotected

Converting == input \in GoValue /\ MeansInv(input) /\ Returns(StreamHeld)

\* The list is made, and rObject, which decodeHelper returned, is intact.
HasList ==
  /\ frames = <<>> /\ GoodHeap(heap) /\ Meaningful(heap)
  /\ decoded \in UsedIn(heap) \cup {R_NilValue}
  /\ returnList \in UsedIn(heap) /\ returnList # decoded
  /\ heap[returnList] = <<"VECSXP", <<>>, <<>>>> /\ Orphans(heap, {returnList})
  /\ protect = Pushed(Pushed(Base, decoded), returnList)
  /\ input \in GoValue
  /\ ValueAt(heap, decoded) = Decoded[input] /\ Decoded[input] \notin {Failure, Undefined}

Over ==
  /\ frames = <<>> /\ GoodHeap(heap)
  /\ protect = IF status = "null" /\ stream.format = "json" THEN Pushed(Unprotected, rawStream)
               ELSE Unprotected

LEMMA StepConverts ==
  ASSUME Converting, [decodeHelper]_decoder, input' = input, stream' = stream
  PROVE  Converting'
<1>2. MeansInv(input) /\ input \in GoValue /\ Returns(StreamHeld) /\ DecodeInv
  BY DEF Converting, MeansInv
<1>3. PICK v, k : v = input /\ k = StreamHeld
  OBVIOUS
<1>4. MeansInv(v)' /\ Returns(k)'
  BY <1>2, <1>3, MeansSteps, ReturnsSteps
<1>5. input' = v /\ StreamHeld' = k
  BY <1>3 DEF StreamHeld
<1>6. MeansInv(input)'
  BY <1>4, <1>5
<1>7. Returns(StreamHeld)'
  BY <1>4, <1>5 DEF Returns
<1> QED
  BY <1>2, <1>5, <1>3, <1>6, <1>7 DEF Converting

LEMMA StartsMeans ==
  ASSUME NEW val \in GoValue
  PROVE  (heap = NoHeap /\ NoneProtected /\ frames = <<NewFrame(val)>> => MeansInv(val) /\ ToldInv(val))'
<1>1. heap = NoHeap /\ NoneProtected /\ frames = <<NewFrame(val)>> => MeansInv(val) /\ ToldInv(val)
  BY StartMeans, StartTold
<1> QED
  BY <1>1, PTL

\* A conversion starts.
LEMMA Starts ==
  ASSUME NEW val, val \in GoValue, Decoding(val), heap' = NoHeap, NoneProtected',
         protect'[rawStream] = StreamHeld, stream' = stream
  PROVE  Converting' /\ ToldInv(input)'
<1>1. input' = val /\ frames' = <<NewFrame(val)>> /\ decoded' = "none"
  BY DEF Decoding
<1>2. MeansInv(val)' /\ ToldInv(val)'
  BY <1>1, StartsMeans
<1>3. StreamHeld' = StreamHeld
  BY DEF StreamHeld
<1>4. Returns(StreamHeld)'
  BY <1>1, <1>3 DEF Returns
<1> QED
  BY <1>1, <1>2, <1>4 DEF Converting

-----------------------------------------------------------------------------
(* The invariant.                                                           *)

\* A call along the stream takes the bytes between from and to for a record.
RecordAt(from, to) ==
  \/ /\ stream.format = "msgpack"
     /\ \E junk \in Junk :
          LET p == Window(offset, junk)
          IN  IsFrame(p) /\ from = offset + headerSize(p) /\ to = offset + totalFrameSize(p)
  \/ stream.format = "json" /\ from = offset /\ to \in 0..n /\ IsNext(offset, to)

Chosen ==
  \E from, to :
    /\ extent = <<from, to>> /\ RecordAt(from, to)
    /\ input = Parsed(stream.format, Extent(from, to)) /\ input # Malformed

Control ==
  /\ call \in {"idle", "ToMsgpack", "message", "FromMsgpack", "decode", "list", "returned"}
  /\ call # "returned" => status = "reading"
  /\ call \in {"ToMsgpack", "message", "FromMsgpack"} => stream = NoStream
  /\ call \in {"idle", "decode", "list"} => stream \in Streams
  /\ call = "ToMsgpack" => sexp \in SexpValue
  /\ call \in {"ToMsgpack", "message"} => input = Malformed
  /\ call # "list" => returnList = R_NilValue
  /\ decoded \in Addr \cup {R_NilValue, NoObject, "none", "error"}

Memory ==
  /\ call \in {"idle", "ToMsgpack", "message"} => AtRest
  /\ call \in {"FromMsgpack", "decode"} => Converting
  /\ call \in {"decode", "list"} => Chosen
  /\ call = "list" => HasList
  /\ call = "returned" => Over

\* What the record from e[1] to e[2] decodes to.
RecordValue(e) == Decoded[Parsed(stream.format, Extent(e[1], e[2]))]

Results ==
  /\ input # Malformed => ToldInv(input)
  /\ stream # NoStream => values = [i \in 1..Len(read) |-> RecordValue(read[i])]
  /\ stream = NoStream /\ call = "returned" /\ input # Malformed => values = <<Decoded[input]>>

SessionInv == ReaderOK /\ Control /\ Memory /\ Results

-----------------------------------------------------------------------------
\* The stream of a call is one of Streams, and was written.
LEMMA OnStream ==
  ASSUME ReaderOK, stream \in Streams
  PROVE  /\ bytes \in Seq(Byte) /\ n \in Nat /\ n = Len(stream.bytes) /\ offset \in 0..n
         /\ stream # NoStream /\ stream.format \in {"msgpack", "json"} /\ read \in Seq(Int \X Int)
<1>1. WrittenInv /\ stream # NoStream
  BY NoStreamIs DEF ReaderOK
<1> QED
  BY <1>1, StreamBytes DEF WrittenInv, InsideInv, ReadOK, ReadsInside, WellWritten, n, bytes

LEMMA RecordInside ==
  ASSUME ReaderOK, stream \in Streams, NEW from, NEW to, RecordAt(from, to)
  PROVE  from \in Nat /\ to \in Nat /\ from \leq to /\ to \leq n
<1>1. bytes \in Seq(Byte) /\ n \in Nat /\ offset \in 0..n
  BY OnStream
<1>2. CASE stream.format = "msgpack"
  <2>1. PICK junk \in Junk :
          LET p == Window(offset, junk)
          IN  IsFrame(p) /\ from = offset + headerSize(p) /\ to = offset + totalFrameSize(p)
    BY <1>2 DEF RecordAt
  <2> DEFINE p == Window(offset, junk)
  <2>2. /\ headerSize(p) \in Nat /\ totalFrameSize(p) \in Nat /\ headerSize(p) \leq totalFrameSize(p)
    BY <1>1, WindowBytes, Sizes
  <2>3. offset + totalFrameSize(p) \leq n
    BY <2>1 DEF IsFrame, Fits
  <2> HIDE DEF p
  <2> QED
    BY <1>1, <2>1, <2>2, <2>3 DEF p
<1>3. CASE stream.format # "msgpack"
  BY <1>1, <1>3 DEF RecordAt, IsNext
<1> QED
  BY <1>2, <1>3

\* The reader's decoder finds a value in a record when the conversion has one.
LEMMA RecordDecodes ==
  ASSUME ReaderOK, stream \in Streams, NEW from, NEW to, RecordAt(from, to),
         NEW val, val = Parsed(stream.format, Extent(from, to))
  PROVE  /\ val # Malformed => val \in GoValue /\ Decoded[val] # Undefined
         /\ Decodes(stream.format, Extent(from, to)) <=> val # Malformed /\ Decoded[val] # Failure
<1>1. from \in 0..Len(stream.bytes) /\ to \in from..Len(stream.bytes)
  BY RecordInside, OnStream
<1> QED
  BY <1>1, SessionAssumption DEF Extent, bytes

\* One call along the stream is a step of the reader.
LEMMA ReadsOne ==
  ASSUME stream \in Streams, status = "reading", NEW from, NEW to, RecordAt(from, to), Attempt(from, to)
  PROVE  ReaderNext
BY DEF RecordAt, ReaderNext, ReadMsgpackFrame, ReadNewlineDelimJson

LEMMA FailsToRead ==
  ASSUME ReaderOK, stream \in Streams, status = "reading", NEW from, NEW to, RecordAt(from, to),
         NEW val, val = Parsed(stream.format, Extent(from, to)),
         val = Malformed \/ Decoded[val] = Failure, End("error")
  PROVE  ReaderNext
BY RecordDecodes, ReadsOne DEF Attempt

-----------------------------------------------------------------------------
(* How a call along the stream starts.                                      *)

\* It ends at once, with nothing protected but perhaps the stream.
Ends ==
  /\ call' = "returned" /\ ReaderNext /\ read' = read /\ stream' = stream
  /\ protect' = (IF status' = "null" /\ stream.format = "json" THEN Pushed(Unprotected, rawStream)
                 ELSE Unprotected)
  /\ UNCHANGED <<heap, frames, warned, decoded, input, returnList, values>>

\* It begins to decode a record.
Begins ==
  /\ call' = "decode" /\ protect' = Base
  /\ \E from, to :
       LET val == Parsed(stream.format, Extent(from, to))
       IN  RecordAt(from, to) /\ extent' = <<from, to>> /\ val # Malformed /\ Decoding(val)
  /\ UNCHANGED <<reader, heap, returnList, values>>

LEMMA Idle ==
  ASSUME SessionInv, call = "idle"
  PROVE  ReaderOK /\ stream \in Streams /\ status = "reading" /\ AtRest /\ returnList = R_NilValue
BY DEF SessionInv, Control, Memory

LEMMA EndsBegins ==
  ASSUME SessionInv, call = "idle", NEW from, NEW to, RecordAt(from, to), StartDecoding(from, to),
         protect' = IF call' = "decode" THEN Base ELSE Unprotected,
         UNCHANGED <<heap, returnList, values>>
  PROVE  Ends \/ Begins
<1> DEFINE val == Parsed(stream.format, Extent(from, to))
<1>1. CASE val = Malformed
  <2>1. Fail /\ UNCHANGED <<frames, decoded, warned, input>>
    BY <1>1 DEF StartDecoding
  <2>2. call' = "returned" /\ End("error")
    BY <2>1 DEF Fail
  <2>3. ReaderNext
    BY <1>1, <2>2, Idle, FailsToRead
  <2> QED
    BY <2>1, <2>2, <2>3 DEF Ends, End
<1>2. CASE val # Malformed
  <2>1. Decoding(val) /\ extent' = <<from, to>> /\ call' = "decode" /\ UNCHANGED reader
    BY <1>2 DEF StartDecoding
  <2> QED
    BY <1>2, <2>1 DEF Begins
<1> QED
  BY <1>1, <1>2

LEMMA StartFrameIs == ASSUME SessionInv, StartFrame PROVE Ends \/ Begins
<1>1. call = "idle" /\ stream.format = "msgpack" /\ UNCHANGED <<heap, returnList, values>>
  BY DEF StartFrame
<1>2. stream \in Streams /\ status = "reading" /\ protect = Unprotected
  BY <1>1, Idle DEF AtRest
<1>3. PICK junk \in Junk :
        LET p == Window(offset, junk)
        IN  \/ /\ FrameRefused(p) /\ call' = "returned"
               /\ UNCHANGED <<protect, frames, warned, decoded, input, extent>>
            \/ /\ IsFrame(p)
               /\ StartDecoding(offset + headerSize(p), offset + totalFrameSize(p))
               /\ UNCHANGED protect
  BY DEF StartFrame
<1> DEFINE p == Window(offset, junk)
           from == offset + headerSize(p)
           to == offset + totalFrameSize(p)
<1>4. CASE /\ FrameRefused(p) /\ call' = "returned"
           /\ UNCHANGED <<protect, frames, warned, decoded, input, extent>>
  <2>1. ReaderNext
    BY <1>1, <1>2, <1>4 DEF ReaderNext, ReadMsgpackFrame
  <2>2. read' = read /\ stream' = stream
    BY <1>4 DEF FrameRefused, End
  <2> QED
    BY <1>1, <1>2, <1>4, <2>1, <2>2 DEF Ends
<1>5. CASE IsFrame(p) /\ StartDecoding(from, to) /\ UNCHANGED protect
  <2>1. RecordAt(from, to)
    BY <1>1, <1>5 DEF RecordAt
  <2>2. protect' = Unprotected /\ Base = Unprotected
    BY <1>1, <1>2, <1>5 DEF Base
  <2> HIDE DEF from, to
  <2> QED
    BY <1>1, <1>5, <2>1, <2>2, EndsBegins
<1> QED
  BY <1>3, <1>4, <1>5

LEMMA StartLineIs == ASSUME SessionInv, StartLine PROVE Ends \/ Begins
<1>1. call = "idle" /\ stream.format = "json" /\ UNCHANGED <<heap, returnList, values>>
  BY DEF StartLine
<1>2. stream \in Streams /\ status = "reading" /\ protect = Unprotected
  BY <1>1, Idle DEF AtRest
<1>3. CASE /\ LineRefused /\ call' = "returned"
           /\ protect' = (IF n = 0 THEN Pushed(protect, rawStream) ELSE Unprotected)
           /\ UNCHANGED <<frames, warned, decoded, input, extent>>
  <2>1. ReaderNext
    BY <1>1, <1>2, <1>3 DEF ReaderNext, ReadNewlineDelimJson
  <2>2. read' = read /\ stream' = stream /\ (n = 0 <=> status' = "null")
    BY <1>3 DEF LineRefused, End
  <2> QED
    BY <1>1, <1>2, <1>3, <2>1, <2>2 DEF Ends
<1>4. CASE /\ \E next \in 0..n : IsNext(offset, next) /\ StartDecoding(offset, next)
           /\ call' = "decode" => protect' = Pushed(protect, rawStream)
  <2>1. PICK next \in 0..n : IsNext(offset, next) /\ StartDecoding(offset, next)
    BY <1>4
  <2>2. RecordAt(offset, next)
    BY <1>1, <2>1 DEF RecordAt
  <2>3. call' # "decode" => protect' = Unprotected
    BY <2>1 DEF StartDecoding
  <2>4. protect' = IF call' = "decode" THEN Base ELSE Unprotected
    BY <1>1, <1>2, <1>4, <2>3 DEF Base
  <2> QED
    BY <1>1, <2>1, <2>2, <2>4, EndsBegins
<1> QED
  BY <1>3, <1>4 DEF StartLine

-----------------------------------------------------------------------------
(* The steps.                                                               *)

ValuesOK == stream # NoStream => values = [i \in 1..Len(read) |-> RecordValue(read[i])]

LEMMA ValuesStay ==
  ASSUME SessionInv, values' = values, read' = read, stream' = stream
  PROVE  ValuesOK'
<1>1. ValuesOK
  BY DEF SessionInv, Results, ValuesOK
<1> QED
  BY <1>1 DEF ValuesOK, RecordValue, Extent, bytes

LEMMA ToldStays ==
  ASSUME SessionInv, UNCHANGED <<frames, warned, decoded, input>>
  PROVE  (input # Malformed => ToldInv(input))'
<1>1. input # Malformed => ToldInv(input)
  BY DEF SessionInv, Results
<1> QED
  BY <1>1 DEF ToldInv

LEMMA RecordStays ==
  ASSUME NEW from, NEW to, RecordAt(from, to), UNCHANGED reader
  PROVE  RecordAt(from, to)' /\ (Extent(from, to))' = Extent(from, to) /\ stream' = stream
BY DEF RecordAt, IsFrame, Fits, IsNext, Window, Extent, n, bytes, reader

LEMMA NoHeapGood == GoodHeap(NoHeap)
<1>1. \A a \in Addr : NoHeap[a] = Free
  BY DEF NoHeap
<1>2. UsedIn(NoHeap) = {} /\ \A a \in Addr : ObjectOK(NoHeap[a])
  BY <1>1, FreeObject DEF UsedIn
<1> QED
  BY <1>2 DEF GoodHeap, NoHeap

LEMMA BaseIs ==
  /\ Base \in [Addr \cup Kept -> Nat] /\ Base[rawStream] = StreamHeld
  /\ \A a \in Addr \cup {R_NilValue} : Base[a] = 0
BY Outside DEF Base, Unprotected, Pushed, Kept, StreamHeld

LEMMA EndsStep ==
  ASSUME SessionInv, call = "idle", Ends
  PROVE  SessionInv'
<1>1. ReaderOK'
  BY Idle, StepReader DEF Ends
<1>2. Control'
  BY DEF SessionInv, Control, Ends
<1>3. Over'
  BY Idle, NoHeapGood DEF Over, Ends, AtRest
<1>4. Memory'
  BY <1>3 DEF Memory, Ends
<1>5. Results'
  <2>1. stream' # NoStream
    BY Idle, NoStreamIs DEF Ends
  <2> QED
    BY <2>1, ValuesStay, ToldStays DEF Results, Ends, ValuesOK
<1> QED
  BY <1>1, <1>2, <1>4, <1>5 DEF SessionInv

LEMMA BeginsStep ==
  ASSUME SessionInv, call = "idle", Begins
  PROVE  SessionInv'
<1>1. /\ call' = "decode" /\ protect' = Base
      /\ UNCHANGED <<reader, heap, returnList, values>>
  BY DEF Begins
<1>2. PICK from, to, val :
        /\ val = Parsed(stream.format, Extent(from, to)) /\ RecordAt(from, to)
        /\ extent' = <<from, to>> /\ val # Malformed /\ Decoding(val)
  BY DEF Begins
<1>3. ReaderOK /\ stream \in Streams /\ status = "reading" /\ AtRest /\ returnList = R_NilValue
  BY Idle
<1>4. stream' = stream /\ status' = status /\ read' = read
  BY <1>1 DEF reader
<1>5. ReaderOK'
  BY <1>1, <1>3, StepReader
<1>6. Control'
  BY <1>1, <1>2, <1>3, <1>4 DEF Control, Decoding
<1>7. val \in GoValue
  BY <1>2, <1>3, RecordDecodes
<1>8. Converting' /\ ToldInv(input)'
  <2>1. NoneProtected' /\ protect'[rawStream] = StreamHeld
    BY <1>1, BaseIs DEF NoneProtected
  <2> QED
    BY <1>1, <1>2, <1>3, <1>4, <1>7, <2>1, Starts DEF AtRest
<1>9. Chosen'
  <2>1. RecordAt(from, to)' /\ (Extent(from, to))' = Extent(from, to)
    BY <1>1, <1>2, RecordStays
  <2>2. input' = val
    BY <1>2 DEF Decoding
  <2>3. input' = Parsed(stream.format, Extent(from, to))'
    BY <1>2, <1>4, <2>1, <2>2 DEF Parsed
  <2> QED
    BY <1>2, <2>1, <2>2, <2>3 DEF Chosen
<1>10. Memory'
  BY <1>1, <1>8, <1>9 DEF Memory
<1>11. Results'
  BY <1>1, <1>4, <1>8, ValuesStay DEF Results, ValuesOK
<1> QED
  BY <1>5, <1>6, <1>10, <1>11 DEF SessionInv

\* A conversion that is over has given back what it protected.
LEMMA ProtectReturned ==
  ASSUME Converting, frames = <<>>
  PROVE  protect = IF decoded = "error" THEN Unprotected ELSE Base
<1>1. /\ protect \in [Addr \cup Kept -> Nat] /\ \A a \in Addr \cup {R_NilValue} : protect[a] = 0
      /\ protect[rawStream] = IF decoded = "error" THEN 0 ELSE StreamHeld
  BY AllGivenBack DEF Converting, MeansInv, Returns, GivenBack, DecodeInv, ProtectOK
<1>2. \A a \in Addr \cup Kept : a \in Addr \cup {R_NilValue} \/ a = rawStream
  BY DEF Kept
<1>3. /\ Unprotected \in [Addr \cup Kept -> Nat]
      /\ \A a \in Addr \cup Kept : Unprotected[a] = 0
  BY DEF Unprotected
<1>4. CASE decoded = "error"
  BY <1>1, <1>2, <1>3, <1>4
<1>5. CASE decoded # "error"
  BY <1>1, <1>2, <1>5, BaseIs
<1> QED
  BY <1>4, <1>5

LEMMA OutsideStream ==
  ASSUME SessionInv, call \in {"ToMsgpack", "message", "FromMsgpack"}
  PROVE  ReaderOK /\ stream = NoStream /\ Base = Unprotected /\ StreamHeld = 0 /\ status = "reading"
BY NoStreamIs DEF SessionInv, Control, Base, StreamHeld

\* A conversion of one value starts, outside a stream.
LEMMA SingleStep ==
  ASSUME SessionInv, call \in {"ToMsgpack", "message"}, NEW val \in GoValue, Decoding(val),
         call' = "FromMsgpack", UNCHANGED <<heap, protect, values, reader, returnList>>
  PROVE  SessionInv'
<1>1. AtRest /\ returnList = R_NilValue
  BY DEF SessionInv, Control, Memory
<1>2. stream' = stream /\ status' = status /\ read' = read
  BY DEF reader
<1>3. ReaderOK'
  BY OutsideStream, StepReader
<1>4. Control'
  BY <1>1, <1>2, OutsideStream DEF Control, Decoding
<1>5. Converting' /\ ToldInv(input)'
  <2>1. protect' = Base
    BY <1>1, OutsideStream DEF AtRest
  <2>2. NoneProtected' /\ protect'[rawStream] = StreamHeld
    BY <2>1, BaseIs DEF NoneProtected
  <2> QED
    BY <1>1, <1>2, <2>2, Starts DEF AtRest
<1>6. Memory'
  BY <1>5 DEF Memory
<1>7. Results'
  BY <1>2, <1>5, ValuesStay DEF Results, ValuesOK
<1> QED
  BY <1>3, <1>4, <1>6, <1>7 DEF SessionInv

\* A call outside a stream returns without a conversion.
LEMMA AtOnceStep ==
  ASSUME SessionInv, call \in {"ToMsgpack", "message"}, call' = "returned",
         UNCHANGED <<decoder, input, reader, returnList>>
  PROVE  SessionInv'
<1>1. AtRest /\ input = Malformed /\ returnList = R_NilValue /\ decoded \in Addr \cup {R_NilValue, NoObject, "none", "error"}
  BY DEF SessionInv, Control, Memory
<1>2. stream' = stream /\ status' = status /\ UNCHANGED <<heap, protect, frames, warned, decoded>>
  BY DEF reader, decoder
<1>3. ReaderOK'
  BY OutsideStream, StepReader
<1>4. Control'
  BY <1>1, <1>2, OutsideStream DEF Control
<1>5. Over'
  BY <1>1, <1>2, OutsideStream, NoHeapGood DEF Over, AtRest
<1>6. Memory' /\ Results'
  BY <1>1, <1>2, <1>5, OutsideStream DEF Memory, Results
<1> QED
  BY <1>3, <1>4, <1>6 DEF SessionInv

LEMMA ToMsgpackStep == ASSUME SessionInv, ToMsgpack PROVE SessionInv'
<1>1. call = "ToMsgpack" /\ sexp \in SexpValue
  BY DEF ToMsgpack, SessionInv, Control
<1>2. SexpToIface[sexp] \in GoValue
  BY <1>1, SessionAssumption
<1>3. CASE SexpToIface[sexp] = Nil
  BY <1>1, <1>3, AtOnceStep DEF ToMsgpack
<1>4. CASE SexpToIface[sexp] # Nil
  <2>1. PICK val \in GoValue : val = SexpToIface[sexp]
    BY <1>2
  <2> QED
    BY <1>1, <1>4, <2>1, SingleStep DEF ToMsgpack
<1> QED
  BY <1>3, <1>4

LEMMA MessageStep == ASSUME SessionInv, Message PROVE SessionInv'
<1>1. call = "message" /\ UNCHANGED <<heap, protect, reader, sexp, extent, returnList>>
  BY DEF Message
<1>2. CASE (\E val \in MessageValues : Decoding(val)) /\ call' = "FromMsgpack" /\ UNCHANGED values
  BY <1>1, <1>2, SessionAssumption, SingleStep
<1>3. CASE call' = "returned" /\ UNCHANGED <<frames, decoded, warned, input>>
  BY <1>1, <1>3, AtOnceStep DEF decoder
<1> QED
  BY <1>2, <1>3 DEF Message

LEMMA FromMsgpackStep == ASSUME SessionInv, FromMsgpack PROVE SessionInv'
<1>1. /\ call = "FromMsgpack" /\ frames = <<>> /\ values' = <<Value>> /\ call' = "returned" /\ heap' = NoHeap
      /\ UNCHANGED <<protect, frames, warned, decoded, reader, input, returnList>>
  BY DEF FromMsgpack, Ready
<1>2. Converting /\ returnList = R_NilValue /\ decoded \in Addr \cup {R_NilValue, NoObject, "none", "error"}
  BY <1>1 DEF SessionInv, Control, Memory
<1>3. stream' = stream /\ status' = status
  BY <1>1 DEF reader
<1>4. ReaderOK'
  BY <1>1, OutsideStream, StepReader
<1>5. Control'
  BY <1>1, <1>2, <1>3, OutsideStream DEF Control
<1>6. protect = Unprotected
  BY <1>1, <1>2, OutsideStream, ProtectReturned
<1>7. Over'
  BY <1>1, <1>3, <1>6, OutsideStream, NoHeapGood DEF Over
<1>8. values' = <<Decoded[input]>>
  BY <1>1, <1>2, ReturnedMeans DEF Converting
<1>9. Memory'
  BY <1>1, <1>7 DEF Memory
<1>10. Results'
  BY <1>1, <1>3, <1>8, OutsideStream, ToldStays DEF Results
<1> QED
  BY <1>4, <1>5, <1>9, <1>10 DEF SessionInv

\* The record that is being decoded stays the same.
LEMMA ChosenStays ==
  ASSUME Chosen, UNCHANGED <<reader, extent, input>>
  PROVE  Chosen'
<1>1. PICK from, to :
        /\ extent = <<from, to>> /\ RecordAt(from, to)
        /\ input = Parsed(stream.format, Extent(from, to)) /\ input # Malformed
  BY DEF Chosen
<1>2. RecordAt(from, to)' /\ (Extent(from, to))' = Extent(from, to) /\ stream' = stream
  BY <1>1, RecordStays
<1>3. input' = Parsed(stream.format, Extent(from, to))'
  BY <1>1, <1>2 DEF Parsed
<1> QED
  BY <1>1, <1>2, <1>3 DEF Chosen

LEMMA StepStep == ASSUME SessionInv, Step PROVE SessionInv'
<1>1. [decodeHelper]_decoder /\ UNCHANGED <<reader, call, sexp, input, extent, returnList, values>>
  BY DEF Step
<1>2. stream' = stream /\ status' = status /\ read' = read
  BY <1>1 DEF reader
<1>3. frames # <<>>
  BY DEF Step, decodeHelper, EnterScalar, EnterBytes, EnterJson, EnterNil, EnterArray, EnterMap,
     EnterUnknown, MakeNames, FillElement, CallElement, FinishArray, FinishMap, ReturnElement,
     FillName, Finish, In
<1>4. call \in {"FromMsgpack", "decode"} /\ Converting
  BY <1>3 DEF SessionInv, Control, Memory, AtRest, HasList, Over
<1>5. Converting'
  BY <1>1, <1>2, <1>4, StepConverts
<1>6. ReaderOK'
  BY <1>1, StepReader DEF SessionInv
<1>7. Control'
  <2>1. decoded' \in Addr \cup {R_NilValue, NoObject, "none", "error"}
    BY <1>5 DEF Converting, Returns, UsedIn
  <2> QED
    BY <1>1, <1>2, <2>1 DEF SessionInv, Control
<1>8. call = "decode" => Chosen'
  BY <1>1, ChosenStays DEF SessionInv, Memory
<1>9. Memory'
  BY <1>1, <1>4, <1>5, <1>8 DEF Memory
<1>10. (input # Malformed => ToldInv(input))'
  <2>1. PICK v : v = input
    OBVIOUS
  <2>2. MeansInv(v) /\ (v # Malformed => ToldInv(v))
    BY <1>4, <2>1 DEF Converting, SessionInv, Results
  <2>3. v # Malformed => ToldInv(v)'
    BY <1>1, <2>2, ToldSteps
  <2>4. input' = v
    BY <1>1, <2>1
  <2> QED
    BY <2>3, <2>4
<1>11. Results'
  BY <1>1, <1>2, <1>4, <1>10, ValuesStay DEF Results, ValuesOK
<1> QED
  BY <1>6, <1>7, <1>9, <1>11 DEF SessionInv

\* What decodeHelper has returned along a stream: an object, unless it failed.
LEMMA RecordResult ==
  ASSUME SessionInv, call = "decode", frames = <<>>
  PROVE  /\ decoded = "error" => Decoded[input] = Failure
         /\ decoded # "error" =>
              /\ decoded \in UsedIn(heap) \cup {R_NilValue}
              /\ ValueAt(heap, decoded) = Decoded[input] /\ Decoded[input] \notin {Failure, Undefined}
         /\ GoodHeap(heap) /\ Meaningful(heap) /\ input \in GoValue
<1>1. ReaderOK /\ stream \in Streams /\ Converting /\ Chosen
  BY DEF SessionInv, Control, Memory
<1>2. PICK from, to :
        /\ RecordAt(from, to) /\ input = Parsed(stream.format, Extent(from, to)) /\ input # Malformed
  BY <1>1 DEF Chosen
<1>3. Decoded[input] # Undefined
  BY <1>1, <1>2, RecordDecodes
<1>4. Outcome(input) /\ GoodHeap(heap) /\ Meaningful(heap) /\ input \in GoValue
      /\ decoded \in UsedIn(heap) \cup {R_NilValue, NoObject, "error"}
  BY <1>1 DEF Converting, MeansInv, DecodeInv, Returns
<1>5. decoded # "error" => decoded # NoObject
  BY <1>3, <1>4 DEF Outcome, Result
<1> QED
  BY <1>4, <1>5 DEF Outcome, Result

LEMMA DecodeFailsStep == ASSUME SessionInv, DecodeFails PROVE SessionInv' /\ ReaderNext
<1>1. /\ call = "decode" /\ frames = <<>> /\ decoded = "error" /\ call' = "returned" /\ End("error")
      /\ UNCHANGED <<heap, protect, frames, warned, decoded, input, returnList, values>>
  BY DEF DecodeFails, Ready, Fail, decoder
<1>2. /\ ReaderOK /\ stream \in Streams /\ status = "reading" /\ Chosen /\ Converting
      /\ returnList = R_NilValue
  BY <1>1 DEF SessionInv, Control, Memory
<1>3. Decoded[input] = Failure /\ GoodHeap(heap)
  BY <1>1, RecordResult
<1>4. ReaderNext
  <2>1. PICK from, to : RecordAt(from, to) /\ input = Parsed(stream.format, Extent(from, to))
    BY <1>2 DEF Chosen
  <2> QED
    BY <1>1, <1>2, <1>3, <2>1, FailsToRead
<1>5. ReaderOK'
  BY <1>2, <1>4, StepReader
<1>6. stream' = stream /\ read' = read /\ status' = "error"
  BY <1>1 DEF End
<1>7. Control'
  BY <1>1, <1>2, <1>6 DEF SessionInv, Control
<1>8. protect = Unprotected
  BY <1>1, <1>2, ProtectReturned
<1>9. Over'
  BY <1>1, <1>3, <1>6, <1>8 DEF Over, GoodHeap
<1>10. Memory'
  BY <1>1, <1>9 DEF Memory
<1>11. stream' # NoStream
  BY <1>2, <1>6, NoStreamIs
<1>12. Results'
  BY <1>1, <1>6, <1>11, ValuesStay, ToldStays DEF Results, ValuesOK
<1> QED
  BY <1>4, <1>5, <1>7, <1>10, <1>12 DEF SessionInv

LEMMA MakeListStep == ASSUME SessionInv, MakeList PROVE SessionInv'
<1> DEFINE o == <<"VECSXP", <<>>, <<>>>>
<1>1. /\ call = "decode" /\ frames = <<>> /\ decoded # "error" /\ call' = "list"
      /\ UNCHANGED <<frames, warned, decoded, reader, sexp, input, extent, values>>
  BY DEF MakeList, Ready
<1>2. /\ ReaderOK /\ stream \in Streams /\ status = "reading" /\ Chosen /\ Converting
      /\ decoded \in Addr \cup {R_NilValue, NoObject, "none", "error"}
  BY <1>1 DEF SessionInv, Control, Memory
<1>3. /\ decoded \in UsedIn(heap) \cup {R_NilValue} /\ input \in GoValue
      /\ ValueAt(heap, decoded) = Decoded[input] /\ Decoded[input] \notin {Failure, Undefined}
      /\ GoodHeap(heap) /\ Meaningful(heap)
  BY <1>1, RecordResult
<1>4. protect = Base
  BY <1>1, <1>2, ProtectReturned
<1>5. PICK S \in Collections(Pushed(protect, decoded)) :
        /\ S # Addr /\ heap' = Allocated(S, o)
        /\ protect' = Pushed(Pushed(protect, decoded), Fresh(S)) /\ returnList' = Fresh(S)
  BY DEF MakeList
<1>6. decoded \in S \cup {R_NilValue}
  <2> SUFFICES ASSUME decoded \in UsedIn(heap) PROVE decoded \in S
    BY <1>3
  <2>1. Pushed(protect, decoded)[decoded] > 0
    BY <1>4, BaseIs DEF Pushed, UsedIn
  <2> QED
    BY <2>1, <1>5, CollectionKeeps
<1>7. NewObject(o)
  BY NewKinds
<1>8. PICK b : b = Fresh(S)
  OBVIOUS
<1>9. PICK g : g = Allocated(S, o)
  OBVIOUS
<1>10. /\ Meaningful(g) /\ Keeps(heap, g, S) /\ GoodHeap(g) /\ UsedIn(g) = S \cup {b}
       /\ b \in Addr /\ b \notin S /\ g[b] = o /\ Orphans(g, {b})
  BY <1>3, <1>5, <1>7, <1>8, <1>9, AllocatedKeeps
<1>11. ValueAt(g, decoded) = Decoded[input]
  BY <1>3, <1>6, <1>10 DEF Keeps
<1>12. b # decoded /\ b # R_NilValue
  BY <1>6, <1>10, Outside DEF Kept
<1>13. stream' = stream /\ status' = status /\ read' = read /\ Base' = Base
  BY <1>1 DEF reader, Base
<1>14. heap' = g /\ returnList' = b /\ protect' = Pushed(Pushed(Base, decoded), b)
  BY <1>4, <1>5, <1>8, <1>9
<1>15. HasList'
  <2>1. frames' = <<>> /\ decoded' = decoded /\ input' = input
    BY <1>1
  <2>2. GoodHeap(heap)' /\ Meaningful(heap)' /\ UsedIn(heap)' = UsedIn(g) /\ Orphans(heap, {returnList})'
    BY <1>10, <1>14
  <2>3. ValueAt(heap, decoded)' = ValueAt(g, decoded)
    BY <1>14, <2>1
  <2> HIDE DEF o
  <2>4. heap'[returnList'] = o
    BY <1>10, <1>14
  <2>5. decoded' \in UsedIn(heap)' \cup {R_NilValue} /\ returnList' \in UsedIn(heap)' /\ returnList' # decoded'
    BY <1>6, <1>10, <1>12, <1>14, <2>1, <2>2
  <2>6. protect' = Pushed(Pushed(Base, decoded), returnList)'
    BY <1>13, <1>14, <2>1 DEF Pushed
  <2>7. input' \in GoValue /\ ValueAt(heap, decoded)' = Decoded[input'] /\ Decoded[input'] \notin {Failure, Undefined}
    BY <1>3, <1>11, <2>1, <2>3
  <2> QED
    BY <2>1, <2>2, <2>4, <2>5, <2>6, <2>7 DEF HasList, o
<1>16. Chosen'
  BY <1>1, <1>2, ChosenStays
<1>17. ReaderOK'
  BY <1>1, <1>2, StepReader
<1>18. Control'
  BY <1>1, <1>2, <1>13 DEF Control
<1>19. Memory'
  BY <1>1, <1>15, <1>16 DEF Memory
<1>20. Results'
  BY <1>1, <1>13, ValuesStay, ToldStays DEF Results, ValuesOK
<1> QED
  BY <1>17, <1>18, <1>19, <1>20 DEF SessionInv

LEMMA BackToBase ==
  ASSUME NEW a \in Addr \cup {R_NilValue}, NEW b \in Addr, a # b,
         protect = Pushed(Pushed(Base, a), b)
  PROVE  Dropped(Dropped(protect, a), b) = Base
<1> DEFINE D == Dropped(Dropped(protect, a), b)
<1>1. a \in Addr \cup Kept /\ b \in Addr \cup Kept /\ Base \in [Addr \cup Kept -> Nat]
  BY BaseIs DEF Kept
<1>2. D \in [Addr \cup Kept -> Int] /\ \A c \in Addr \cup Kept : D[c] = Base[c]
  BY <1>1 DEF Dropped, Pushed
<1>3. Base \in [Addr \cup Kept -> Int]
  BY <1>1
<1> HIDE DEF D
<1> QED
  BY <1>2, <1>3 DEF D

LEMMA StreamReleased ==
  (IF stream.format = "json" THEN Dropped(Base, rawStream) ELSE Base) = Unprotected
<1>1. CASE stream.format = "json"
  <2> DEFINE D == Dropped(Base, rawStream)
  <2>1. rawStream \in Addr \cup Kept /\ Base = Pushed(Unprotected, rawStream)
    BY <1>1 DEF Kept, Base
  <2>2. D \in [Addr \cup Kept -> Int] /\ \A c \in Addr \cup Kept : D[c] = 0
    BY <2>1 DEF Dropped, Pushed, Unprotected
  <2>3. Unprotected \in [Addr \cup Kept -> Int] /\ \A c \in Addr \cup Kept : Unprotected[c] = 0
    BY DEF Unprotected
  <2> HIDE DEF D
  <2> QED
    BY <1>1, <2>2, <2>3 DEF D
<1>2. CASE stream.format # "json"
  BY <1>2 DEF Base
<1> QED
  BY <1>1, <1>2

\* The offset and the value are put into the list, which nothing leads to.
LEMMA PairMade ==
  ASSUME NEW h, GoodHeap(h), Meaningful(h), NEW r \in UsedIn(h), h[r] = <<"VECSXP", <<>>, <<>>>>,
         Orphans(h, {r}), NEW f \in UsedIn(h), f # r, NEW a \in UsedIn(h) \cup {R_NilValue}, a # r,
         NEW list, list = WithElement(WithElement(h, r, f), r, a)
  PROVE  list[r][2] = <<f, a>> /\ list[f] = h[f] /\ ValueAt(list, a) = ValueAt(h, a)
<1> DEFINE K == UsedIn(h) \ {r}
<1>1. PICK g : g = WithElement(h, r, f)
  OBVIOUS
<1>2. r \in Addr /\ h[r][1] = "VECSXP" /\ h[r][2] = <<>>
  BY DEF UsedIn
<1>3. GoodHeap(g)
  BY <1>1, <1>2, WithElementGood
<1>4. g[r][2] = Append(h[r][2], f) /\ \A c \in Addr : c # r => g[c] = h[c]
  BY <1>1, <1>2, ElementAdded
<1>5. list[r][2] = Append(g[r][2], a) /\ \A c \in Addr : c # r => list[c] = g[c]
  BY <1>1, <1>2, <1>3, ElementAdded
<1>6. list[r][2] = <<f, a>>
  <2> DEFINE pair == Append(Append(<<>>, f), a)
  <2>1. /\ pair \in Seq({f, a}) /\ Len(pair) = 2
        /\ pair[1] = f /\ pair[2] = a
    OBVIOUS
  <2>2. list[r][2] = pair
    BY <1>2, <1>4, <1>5
  <2> HIDE DEF pair
  <2>3. <<f, a>> \in Seq({f, a}) /\ Len(<<f, a>>) = 2
    OBVIOUS
  <2>4. \A i \in 1..2 : pair[i] = <<f, a>>[i]
    BY <2>1
  <2>5. pair = <<f, a>>
    BY <2>1, <2>3, <2>4, SeqEqual
  <2> QED
    BY <2>2, <2>5
<1>7. \A c \in Addr : c # r => list[c] = h[c]
  BY <1>4, <1>5
<1>8. ClosedIn(h, K)
  <2>1. ClosedIn(h, UsedIn(h))
    BY GoodClosed
  <2> QED
    BY <1>2, <2>1, ClosedWithout
<1>9. Changes(h, list, K, r)
  BY <1>2, <1>7 DEF Changes, UsedIn
<1>10. LeadsInto(list, r, K)
  <2>1. DOMAIN list[r][2] = 1..2 /\ list[r][2][1] = f /\ list[r][2][2] = a
    BY <1>6
  <2>2. f \in K \cup {R_NilValue} /\ a \in K \cup {R_NilValue}
    OBVIOUS
  <2> QED
    BY <2>1, <2>2 DEF LeadsInto
<1>11. \A c \in K \cup {R_NilValue} : ValueAt(list, c) = ValueAt(h, c)
  BY <1>8, <1>9, <1>10, OneChanged
<1> QED
  BY <1>2, <1>6, <1>7, <1>11 DEF UsedIn

\* What a call that has made its list returns, whatever R collects before.
LEMMA Returning ==
  ASSUME HasList, ReturnList
  PROVE  /\ offset' = extent[2]
         /\ values' = Append(values, Decoded[input])
         /\ Released = Unprotected
<1>1. PICK S \in Collections(protect) :
        /\ S # Addr
        /\ LET h == Allocated(S, <<"REALSXP", <<OffsetBehind>>, <<>>>>)
               list == WithElement(WithElement(h, returnList, Fresh(S)), returnList, decoded)
               pair == list[returnList][2]
           IN  /\ offset' = list[pair[1]][2][1]
               /\ values' = Append(values, ValueAt(list, pair[2]))
  BY DEF ReturnList
<1>2. PICK o : o = <<"REALSXP", <<OffsetBehind>>, <<>>>>
  OBVIOUS
<1>3. PICK h, f : h = Allocated(S, o) /\ f = Fresh(S)
  OBVIOUS
<1>4. PICK list : list = WithElement(WithElement(h, returnList, f), returnList, decoded)
  OBVIOUS
<1>5. /\ offset' = list[list[returnList][2][1]][2][1]
      /\ values' = Append(values, ValueAt(list, list[returnList][2][2]))
  BY <1>1, <1>2, <1>3, <1>4
<1>6. /\ GoodHeap(heap) /\ Meaningful(heap) /\ returnList # decoded /\ returnList \in UsedIn(heap)
      /\ decoded \in UsedIn(heap) \cup {R_NilValue}
      /\ protect = Pushed(Pushed(Base, decoded), returnList)
      /\ heap[returnList] = <<"VECSXP", <<>>, <<>>>> /\ Orphans(heap, {returnList})
      /\ ValueAt(heap, decoded) = Decoded[input]
  BY DEF HasList
<1>7. returnList \in S /\ decoded \in S \cup {R_NilValue}
  <2>1. decoded \in Addr \cup Kept /\ returnList \in Addr \cup Kept
    BY <1>6 DEF UsedIn, Kept
  <2>2. protect[returnList] > 0 /\ protect[decoded] > 0
    BY <1>6, <2>1, BaseIs DEF Pushed
  <2> QED
    BY <1>6, <2>2, CollectionKeeps
<1>8. NewObject(o)
  BY <1>2, NewKinds
<1>9. /\ Meaningful(h) /\ Keeps(heap, h, S) /\ GoodHeap(h) /\ UsedIn(h) = S \cup {f}
      /\ f \in Addr /\ f \notin S /\ h[f] = o /\ ElementsIn(h, f) = {}
  <2>1. S # Addr /\ S \in Collections(protect) /\ GoodHeap(heap) /\ Meaningful(heap)
    BY <1>1, <1>6
  <2>2. h = Allocated(S, o) /\ f = Fresh(S)
    BY <1>3
  <2> QED
    BY <1>8, <2>1, <2>2, AllocatedKeeps
<1>10. h[returnList] = heap[returnList] /\ ValueAt(h, decoded) = ValueAt(heap, decoded)
  BY <1>7, <1>9 DEF Keeps
<1>11. Orphans(h, {returnList})
  <2>1. ASSUME NEW c \in S PROVE ElementsIn(h, c) \cap {returnList} = {}
    <3>1. h[c] = heap[c]
      BY <1>9 DEF Keeps
    <3>2. ElementsIn(h, c) = ElementsIn(heap, c)
      BY <3>1 DEF ElementsIn
    <3>3. c \in UsedIn(heap)
      BY CollectionKeeps
    <3> QED
      BY <1>6, <3>2, <3>3 DEF Orphans
  <2> QED
    BY <1>9, <2>1 DEF Orphans
<1>12. list[returnList][2] = <<f, decoded>> /\ list[f] = h[f] /\ ValueAt(list, decoded) = ValueAt(h, decoded)
  <2>1. returnList \in UsedIn(h) /\ f \in UsedIn(h) /\ f # returnList /\ decoded \in UsedIn(h) \cup {R_NilValue}
    BY <1>7, <1>9
  <2> QED
    BY <1>4, <1>6, <1>9, <1>10, <1>11, <2>1, PairMade
<1>13. offset' = extent[2]
  <2>1. list[list[returnList][2][1]] = o
    BY <1>9, <1>12
  <2> QED
    BY <1>2, <1>5, <2>1 DEF OffsetBehind
<1>14. values' = Append(values, Decoded[input])
  BY <1>5, <1>6, <1>10, <1>12
<1>15. Released = Unprotected
  <2>1. Dropped(Dropped(protect, decoded), returnList) = Base
    BY <1>6, BackToBase DEF UsedIn
  <2> QED
    BY <2>1, StreamReleased DEF Released
<1> QED
  BY <1>13, <1>14, <1>15

\* A record more is read, and its value returned.
LEMMA ValueReturned ==
  ASSUME ValuesOK, ReaderOK, stream \in Streams, NEW from, NEW to, stream' = stream,
         read' = Append(read, <<from, to>>),
         values' = Append(values, Decoded[Parsed(stream.format, Extent(from, to))])
  PROVE  ValuesOK'
<1> DEFINE d == Len(read)
           e == <<from, to>>
<1>1. PICK G : G = [i \in 1..(d + 1) |-> RecordValue(read'[i])]
  OBVIOUS
<1>2. /\ d \in Nat /\ read \in Seq(Int \X Int)
      /\ values = [i \in 1..d |-> RecordValue(read[i])]
  BY OnStream DEF ValuesOK
<1>3. PICK r : r = read'
  OBVIOUS
<1>4. Len(r) = d + 1 /\ r[d + 1] = e /\ \A i \in 1..d : r[i] = read[i]
  <2>1. \E S : read \in Seq(S)
    BY <1>2
  <2> QED
    BY <1>3, <2>1, Pushing DEF IsSeq
<1>5. PICK v : v = Decoded[Parsed(stream.format, Extent(from, to))]
  OBVIOUS
<1>6. RecordValue(e) = v
  BY <1>5 DEF RecordValue
<1>7. d + 1 \in 1..(d + 1) /\ \A i \in 1..d : i \in 1..(d + 1)
  BY <1>2
<1> HIDE DEF d, e
<1>8. G[d + 1] = v /\ \A i \in 1..d : values[i] = G[i]
  BY <1>1, <1>2, <1>3, <1>4, <1>6, <1>7
<1>9. G = [i \in 1..(d + 1) |-> G[i]] /\ values = [i \in 1..d |-> values[i]]
  BY <1>1, <1>2
<1>10. Append(values, G[d + 1]) = G
  <2>1. d \in Nat /\ \A i \in 1..d : values[i] = G[i]
    BY <1>2, <1>8
  <2> QED
    BY <1>9, <2>1, Extend
<1>11. values' = G
  BY <1>5, <1>8, <1>10
<1>13. values' = [i \in 1..Len(read') |-> RecordValue(read'[i])]
  BY <1>1, <1>3, <1>4, <1>11
<1> QED
  BY <1>13 DEF ValuesOK, RecordValue, Extent, bytes

LEMMA ReturnListStep == ASSUME SessionInv, ReturnList PROVE SessionInv' /\ ReaderNext
<1>1. /\ call = "list" /\ call' = "idle" /\ heap' = NoHeap /\ protect' = Released /\ returnList' = R_NilValue
      /\ read' = Append(read, extent)
      /\ UNCHANGED <<frames, warned, decoded, stream, status, sexp, input, extent>>
  BY DEF ReturnList
<1>2. /\ ReaderOK /\ stream \in Streams /\ status = "reading" /\ Chosen /\ HasList /\ ValuesOK
      /\ decoded \in Addr \cup {R_NilValue, NoObject, "none", "error"}
  BY <1>1 DEF SessionInv, Control, Memory, Results, ValuesOK
<1>3. offset' = extent[2] /\ values' = Append(values, Decoded[input]) /\ Released = Unprotected
  BY <1>2, Returning
<1>4. PICK from, to :
        /\ extent = <<from, to>> /\ RecordAt(from, to)
        /\ input = Parsed(stream.format, Extent(from, to)) /\ input # Malformed
  BY <1>2 DEF Chosen
<1>5. Decodes(stream.format, Extent(from, to))
  BY <1>2, <1>4, RecordDecodes DEF HasList
<1>6. ReaderNext
  <2>1. Attempt(from, to)
    BY <1>1, <1>3, <1>4, <1>5 DEF Attempt
  <2> QED
    BY <1>2, <1>4, <2>1, ReadsOne
<1>7. ReaderOK'
  BY <1>2, <1>6, StepReader
<1>8. Control'
  BY <1>1, <1>2 DEF Control
<1>9. frames = <<>>
  BY <1>2 DEF HasList
<1>10. Memory'
  BY <1>1, <1>3, <1>9 DEF Memory, AtRest
<1>11. ValuesOK'
  BY <1>1, <1>2, <1>3, <1>4, ValueReturned
<1>12. Results'
  BY <1>1, <1>11, ToldStays DEF Results, ValuesOK
<1> QED
  BY <1>6, <1>7, <1>8, <1>10, <1>12 DEF SessionInv

LEMMA StutterStep == ASSUME SessionInv, UNCHANGED vars PROVE SessionInv'
<1>1. /\ UNCHANGED <<call, sexp, input, extent, returnList, values, reader, decoder>>
      /\ UNCHANGED <<stream, offset, read, status>>
      /\ UNCHANGED <<heap, protect, frames, warned, decoded>>
  BY DEF vars, reader, decoder
<1>2. ReaderOK'
  BY <1>1, StepReader DEF SessionInv
<1>3. Control'
  BY <1>1 DEF SessionInv, Control
<1>4. Converting => Converting'
  BY <1>1, StepConverts
<1>5. Chosen => Chosen'
  BY <1>1, ChosenStays
<1>6. Base' = Base
  BY <1>1 DEF Base
<1>7. HasList => HasList'
  <2>1. GoodHeap(heap)' = GoodHeap(heap) /\ Meaningful(heap)' = Meaningful(heap)
        /\ UsedIn(heap)' = UsedIn(heap) /\ Orphans(heap, {returnList})' = Orphans(heap, {returnList})
        /\ ValueAt(heap, decoded)' = ValueAt(heap, decoded)
    BY <1>1
  <2>2. (Pushed(Pushed(Base, decoded), returnList))' = Pushed(Pushed(Base, decoded), returnList)
    BY <1>1, <1>6 DEF Pushed
  <2> QED
    BY <1>1, <2>1, <2>2 DEF HasList
<1>8. (AtRest => AtRest') /\ (Over => Over')
  BY <1>1 DEF AtRest, Over
<1>9. Memory'
  BY <1>1, <1>4, <1>5, <1>7, <1>8 DEF SessionInv, Memory
<1>10. Results'
  <2>1. ValuesOK'
    BY <1>1, ValuesStay
  <2>2. (input # Malformed => ToldInv(input))'
    BY <1>1, ToldStays
  <2> QED
    BY <1>1, <2>1, <2>2 DEF SessionInv, Results, ValuesOK
<1> QED
  BY <1>2, <1>3, <1>9, <1>10 DEF SessionInv

LEMMA InitInv == Init => SessionInv
<1> SUFFICES ASSUME Init PROVE SessionInv
  OBVIOUS
<1>1. AtRest /\ input = Malformed /\ returnList = R_NilValue /\ decoded = "none" /\ values = <<>>
  BY DEF Init, AtRest
<1>2. read = <<>> /\ status = "reading"
  BY DEF Init, ReaderInit
<1>3. \/ ReaderInit /\ call = "idle"
      \/ /\ stream = NoStream /\ offset = 0
         /\ (call = "ToMsgpack" /\ sexp \in SexpValue) \/ call = "message"
  BY DEF Init
<1>4. \/ stream \in Streams /\ WrittenInv /\ call = "idle"
      \/ /\ stream = NoStream /\ offset = 0
         /\ (call = "ToMsgpack" /\ sexp \in SexpValue) \/ call = "message"
  BY <1>3, InitProgress DEF ReaderInit
<1>5. ReaderOK
  BY <1>2, <1>4 DEF ReaderOK
<1>6. Control
  BY <1>1, <1>2, <1>4 DEF Control
<1>9. Memory
  BY <1>1, <1>4 DEF Memory
<1>7. values = [i \in 1..Len(read) |-> RecordValue(read[i])]
  <2>1. 1..Len(read) = {}
    BY <1>2
  <2> QED
    BY <1>1, <2>1
<1>8. Results
  BY <1>1, <1>7 DEF Results
<1> QED
  BY <1>5, <1>6, <1>8, <1>9 DEF SessionInv

LEMMA SessionSteps == SessionInv /\ [Next]_vars => SessionInv' /\ [ReaderNext]_reader
<1> SUFFICES ASSUME SessionInv, [Next]_vars PROVE SessionInv' /\ [ReaderNext]_reader
  OBVIOUS
<1>1. CASE UNCHANGED vars
  BY <1>1, StutterStep DEF vars
<1>2. CASE StartFrame \/ StartLine
  <2>1. call = "idle" /\ (Ends \/ Begins)
    BY <1>2, StartFrameIs, StartLineIs DEF StartFrame, StartLine
  <2> QED
    BY <2>1, EndsStep, BeginsStep DEF Ends, Begins
<1>3. CASE DecodeFails \/ ReturnList
  BY <1>3, DecodeFailsStep, ReturnListStep
<1>4. CASE ToMsgpack \/ Message \/ FromMsgpack \/ MakeList \/ Step
  <2>1. UNCHANGED reader
    BY <1>4 DEF ToMsgpack, Message, FromMsgpack, MakeList, Step
  <2> QED
    BY <1>4, <2>1, ToMsgpackStep, MessageStep, FromMsgpackStep, MakeListStep, StepStep
<1>5. CASE Returned
  BY <1>1, <1>5 DEF Returned
<1> QED
  BY <1>1, <1>2, <1>3, <1>4, <1>5 DEF Next

-----------------------------------------------------------------------------
(* The properties.                                                          *)

\* Who is on the protect stack, in each state of a call.
LEMMA ProtectIs ==
  ASSUME SessionInv
  PROVE  /\ protect \in [Addr \cup Kept -> Nat]
         /\ call \notin {"FromMsgpack", "decode"} =>
              GoodHeap(heap) /\ frames = <<>> /\ \A a \in Addr : protect[a] > 0 => a \in UsedIn(heap)
<1>1. /\ Unprotected \in [Addr \cup Kept -> Nat] /\ Unprotected[rawStream] = 0
      /\ Pushed(Unprotected, rawStream) \in [Addr \cup Kept -> Nat]
      /\ \A a \in Addr : Unprotected[a] = 0 /\ Pushed(Unprotected, rawStream)[a] = 0
  BY Outside DEF Unprotected, Pushed, Kept
<1>2. call \in {"idle", "ToMsgpack", "message"} => AtRest
  BY DEF SessionInv, Memory
<1>3. CASE AtRest
  BY <1>1, <1>3, NoHeapGood DEF AtRest
<1>4. CASE Over
  BY <1>1, <1>4 DEF Over
<1>5. CASE HasList
  <2>1. /\ protect = Pushed(Pushed(Base, decoded), returnList) /\ GoodHeap(heap) /\ frames = <<>>
        /\ decoded \in UsedIn(heap) \cup {R_NilValue} /\ returnList \in UsedIn(heap)
    BY <1>5 DEF HasList
  <2>2. Pushed(Base, decoded) \in [Addr \cup Kept -> Nat]
        /\ \A a \in Addr : a # decoded => Pushed(Base, decoded)[a] = 0
    BY <2>1, BaseIs DEF Pushed, UsedIn, Kept
  <2>3. /\ protect \in [Addr \cup Kept -> Nat]
        /\ \A a \in Addr : a # decoded /\ a # returnList => protect[a] = 0
    BY <2>1, <2>2 DEF Pushed, UsedIn
  <2>4. ASSUME NEW a \in Addr, protect[a] > 0 PROVE a \in UsedIn(heap)
    <3>1. a = decoded \/ a = returnList
      BY <2>3, <2>4
    <3>2. R_NilValue \notin Addr
      BY Outside DEF Kept
    <3> QED
      BY <2>1, <3>1, <3>2
  <2> QED
    BY <2>1, <2>3, <2>4
<1>6. CASE Converting
  <2>1. protect \in [Addr \cup Kept -> Nat]
    BY <1>6 DEF Converting, MeansInv, DecodeInv, ProtectOK
  <2>2. CASE call \in {"idle", "ToMsgpack", "message"}
    BY <1>2, <1>3, <2>2
  <2>3. CASE call = "list"
    BY <1>5, <2>3 DEF SessionInv, Memory
  <2>4. CASE call = "returned"
    BY <1>4, <2>4 DEF SessionInv, Memory
  <2> QED
    BY <2>1, <2>2, <2>3, <2>4 DEF SessionInv, Control
<1> QED
  BY <1>2, <1>3, <1>4, <1>5, <1>6 DEF SessionInv, Control, Memory

LEMMA TypesFollow == SessionInv => TypeOK
<1> SUFFICES ASSUME SessionInv PROVE TypeOK
  OBVIOUS
<1>1. protect \in [Addr \cup Kept -> Nat]
  BY ProtectIs
<1>2. offset \in Nat /\ status \in {"reading", "null", "error", "panic"}
  BY ReaderPromises DEF SessionInv, ReaderOK
<1>3. returnList \in Addr \cup {R_NilValue}
  BY DEF SessionInv, Control, Memory, HasList, UsedIn
<1> QED
  BY <1>1, <1>2, <1>3 DEF SessionInv, Control, TypeOK

LEMMA BalanceFollows == SessionInv => Balanced
BY DEF SessionInv, Control, Memory, AtRest, Over, Balanced

LEMMA NothingDanglesHere == SessionInv => NothingDangles
<1> SUFFICES ASSUME SessionInv PROVE NothingDangles
  OBVIOUS
<1>1. CASE call \in {"FromMsgpack", "decode"}
  BY <1>1, NothingLost DEF SessionInv, Memory, Converting, MeansInv
<1>2. CASE call \notin {"FromMsgpack", "decode"}
  <2>1. GoodHeap(heap) /\ frames = <<>> /\ \A a \in Addr : protect[a] > 0 => a \in UsedIn(heap)
    BY <1>2, ProtectIs
  <2>2. \A i \in 1..Len(frames) : FALSE
    BY <2>1
  <2> QED
    BY <2>1, <2>2, ListsWhole, UsedHere DEF NothingDangles
<1> QED
  BY <1>1, <1>2

LEMMA DecodedFollows == SessionInv => AsDecoded
<1> SUFFICES ASSUME SessionInv PROVE AsDecoded
  OBVIOUS
<1>1. ASSUME frames = <<>>, call \in {"FromMsgpack", "decode"}
      PROVE  Value = Decoded[input]
  BY <1>1, ReturnedMeans DEF SessionInv, Memory, Converting
<1>2. ASSUME call = "list"
      PROVE  Value = Decoded[input]
  <2>1. /\ decoded \in Addr \cup {R_NilValue} /\ ValueAt(heap, decoded) = Decoded[input]
    BY <1>2 DEF SessionInv, Memory, HasList, UsedIn
  <2>2. decoded # "error" /\ decoded # NoObject
    BY <2>1, DecodeAssumption DEF Kept
  <2> QED
    BY <2>1, <2>2 DEF Value
<1>3. stream # NoStream =>
        values = [i \in 1..Len(read) |-> Decoded[Parsed(stream.format, Extent(read[i][1], read[i][2]))]]
  BY DEF SessionInv, Results, RecordValue
<1>4. call = "returned" /\ input # Malformed /\ stream = NoStream => values = <<Decoded[input]>>
  BY DEF SessionInv, Results
<1> QED
  BY <1>1, <1>2, <1>3, <1>4 DEF AsDecoded

LEMMA LossFollows == SessionInv => LossTold
BY ReturnedTold DEF SessionInv, Results, LossTold

\* Every variable of a session has its type; nothing is on the protect stack
\* less than no times.
THEOREM SessionTypes == Spec => []TypeOK
BY InitInv, SessionSteps, TypesFollow, PTL DEF Spec

\* Each exported conversion gives back the protect stack as it found it, whatever
\* failed in between; but ReadNewlineDelimJson of no bytes keeps rawStream.
THEOREM SessionBalanced == Spec => []Balanced
BY InitInv, SessionSteps, BalanceFollows, PTL DEF Spec

\* R frees no object that the package has protected, that decodeHelper still
\* uses, or that one of these leads to, and no null pointer is in a list.
THEOREM SessionKeeps == Spec => []NothingDangles
BY InitInv, SessionSteps, NothingDanglesHere, PTL DEF Spec

\* FromMsgpack and the readers of streams return what the definition by recursion
\* says of the value they decode: the right value, for any value and any moment
\* of collection, also after it was put into the list with the offset.
THEOREM SessionDecodes == Spec => []AsDecoded
BY InitInv, SessionSteps, DecodedFollows, PTL DEF Spec

\* An integer of an array that becomes another number is never lost silently.
THEOREM SessionTellsLoss == Spec => []LossTold
BY InitInv, SessionSteps, LossFollows, PTL DEF Spec

\* What Frames promises holds of the offsets and extents of a session, decoder
\* and memory included: the records are those that were written, each is read
\* once and whole, none that is there is left out, all lie inside the stream,
\* and the bytes behind the vector decide nothing.
THEOREM SessionReads == Spec => [](ReadsRecords /\ ReadsToEnd /\ ReadsInside /\ OverreadHarmless)
<1>1. SessionInv => ReadsRecords /\ ReadsToEnd /\ ReadsInside /\ OverreadHarmless
  BY ReaderPromises DEF SessionInv
<1> QED
  BY <1>1, InitInv, SessionSteps, PTL DEF Spec

\* A step of a session that changes the extents read moves the offset on.
LEMMA ReaderAdvances == ReaderOK /\ [ReaderNext]_reader => [read' # read => offset' > offset]_reader
<1> SUFFICES ASSUME ReaderOK, [ReaderNext]_reader PROVE [read' # read => offset' > offset]_reader
  OBVIOUS
<1>1. CASE stream \in Streams /\ WrittenInv
  BY <1>1, StepInside DEF WrittenInv
<1>2. CASE stream = NoStream
  BY <1>2, NoStreamIs DEF ReaderNext, ReadMsgpackFrame, ReadNewlineDelimJson
<1> QED
  BY <1>1, <1>2 DEF ReaderOK

\* Every call along a stream that returns a value returns a later offset.
THEOREM SessionAdvances == Spec => Advances
<1>1. SessionInv /\ [Next]_vars => [read' # read => offset' > offset]_reader
  BY SessionSteps, ReaderAdvances DEF SessionInv
<1> QED
  BY <1>1, InitInv, SessionSteps, PTL DEF Spec, Advances

LEMMA InitReads == Init => Reader!ReaderInit
BY DEF Init, ReaderInit, Reader!ReaderInit

\* What the reader reads of a stream does not depend on which streams there are.
LEMMA SameHeader ==
  ASSUME NEW p
  PROVE  Reader!headerSize(p) = headerSize(p) /\ Reader!totalFrameSize(p) = totalFrameSize(p)
<1>1. Reader!headerSize(p) = headerSize(p)
  BY DEF Reader!headerSize, headerSize, Reader!Bin8, Reader!Bin16, Reader!Bin32, Bin8, Bin16, Bin32
<1>2. Reader!payloadSize(p) = payloadSize(p)
  BY DEF Reader!payloadSize, payloadSize, Reader!Bin8, Reader!Bin16, Reader!Bin32, Bin8, Bin16, Bin32
<1> QED
  BY <1>1, <1>2 DEF Reader!totalFrameSize, totalFrameSize

LEMMA SameAttempt ==
  ASSUME NEW from, NEW to
  PROVE  Attempt(from, to) => Reader!Attempt(from, to)
BY DEF Attempt, Reader!Attempt, Extent, Reader!Extent, End, Reader!End, bytes, Reader!bytes

LEMMA SameFrame ==
  ASSUME NEW p
  PROVE  /\ FrameRefused(p) => Reader!FrameRefused(p)
         /\ IsFrame(p) => Reader!IsFrame(p)
<1>1. Reader!n = n /\ (Reader!Fits(p) <=> Fits(p)) /\ Reader!totalFrameSize(p) = totalFrameSize(p)
  BY SameHeader DEF Reader!n, n, Reader!bytes, bytes, Reader!Fits, Fits
<1> QED
  BY <1>1 DEF FrameRefused, Reader!FrameRefused, IsFrame, Reader!IsFrame, End, Reader!End

LEMMA StepReads == [ReaderNext]_reader => [Reader!ReaderNext]_(Reader!reader)
<1>1. Reader!reader = reader /\ Reader!n = n /\ (UNCHANGED reader => UNCHANGED Reader!reader)
  BY DEF Reader!reader, reader, Reader!n, n, Reader!bytes, bytes
<1>2. ASSUME ReadMsgpackFrame PROVE Reader!ReadMsgpackFrame
  <2>1. PICK junk \in Junk : \/ FrameRefused(Window(offset, junk))
                            \/ /\ IsFrame(Window(offset, junk))
                               /\ Attempt(offset + headerSize(Window(offset, junk)),
                                          offset + totalFrameSize(Window(offset, junk)))
    BY <1>2 DEF ReadMsgpackFrame
  <2>2. PICK p : p = Window(offset, junk)
    OBVIOUS
  <2>3. Reader!Window(offset, junk) = p
    BY <2>2 DEF Window, Reader!Window, Reader!n, n, Reader!bytes, bytes
  <2>4. \/ Reader!FrameRefused(p)
        \/ /\ Reader!IsFrame(p)
           /\ Reader!Attempt(offset + Reader!headerSize(p), offset + Reader!totalFrameSize(p))
    BY <2>1, <2>2, SameFrame, SameHeader, SameAttempt
  <2> QED
    BY <1>2, <2>3, <2>4 DEF ReadMsgpackFrame, Reader!ReadMsgpackFrame
<1>3. ASSUME ReadNewlineDelimJson PROVE Reader!ReadNewlineDelimJson
  <2>1. LineRefused => Reader!LineRefused
    BY <1>1 DEF LineRefused, Reader!LineRefused, End, Reader!End
  <2>2. ASSUME NEW next, IsNext(offset, next) PROVE Reader!IsNext(offset, next)
    BY <1>1, <2>2 DEF IsNext, Reader!IsNext, Newline, Reader!Newline, bytes, Reader!bytes
  <2> QED
    BY <1>1, <1>3, <2>1, <2>2, SameAttempt DEF ReadNewlineDelimJson, Reader!ReadNewlineDelimJson
<1> QED
  BY <1>1, <1>2, <1>3 DEF ReaderNext, Reader!ReaderNext

\* With decodeHelper and R's memory between the start of a call and its return,
\* a session reads a stream as the reader of Frames does, which decodes in one
\* step: it implements that specification.
THEOREM SessionIsReader == Spec => ReadsAsReader
BY InitInv, SessionSteps, InitReads, StepReads, PTL DEF Spec, ReadsAsReader, Reader!ReaderSpec

-----------------------------------------------------------------------------
(* A trip to Go and back: the order of the keys.                            *)

LEMMA LeastOf ==
  ASSUME NEW K \in SUBSET Nat, K # {}
  PROVE  \E k \in K : \A j \in K : k \leq j
<1> DEFINE R == OpToRel(<, Nat)
<1>1. IsWellFoundedOn(R, Nat)
  BY NatLessThanWellFounded
<1>2. \A i, j \in Nat : <<i, j>> \in R <=> i < j
  BY DEF OpToRel
<1> HIDE DEF R
<1>3. PICK k \in K : \A j \in K : ~(<<j, k>> \in R)
  BY <1>1, WFMin
<1>4. \A i, j \in Nat : ~(i < j) => j \leq i
  OBVIOUS
<1> QED
  BY <1>2, <1>3, <1>4

\* The ranks of a finite set tell its elements apart, and q has them all in
\* the order of their ranks, in size places.
Ranks(S, rank) ==
  /\ IsFiniteSet(S)
  /\ \A x \in S : rank[x] \in Int
  /\ \A x, y \in S : rank[x] = rank[y] => x = y

InOrder(S, rank, size, q) ==
  /\ size \in Nat /\ q \in [1..size -> S]
  /\ \A i, j \in 1..size : i < j => rank[q[i]] < rank[q[j]]
  /\ \A x \in S : \E i \in 1..size : q[i] = x

\* There is such an order, in which each element has the place of its rank.
LEMMA SortedIs ==
  \A S, rank : Ranks(S, rank) => InOrder(S, rank, Cardinality(S), Sorted(S, rank))
<1> SUFFICES ASSUME NEW S, NEW rank, IsFiniteSet(S), \A x \in S : rank[x] \in Int,
                    \A x, y \in S : rank[x] = rank[y] => x = y
             PROVE  InOrder(S, rank, Cardinality(S), Sorted(S, rank))
  BY DEF Ranks
<1> DEFINE size == Cardinality(S)
           NotAbove(x) == {y \in S : rank[y] \leq rank[x]}
           place == [x \in S |-> Cardinality(NotAbove(x))]
           Rises(q) == \A i, j \in 1..size : i < j => rank[q[i]] < rank[q[j]]
<1>1. size \in Nat /\ IsFiniteSet(1..size) /\ Cardinality(1..size) = size
  <2>1. size \in Nat
    BY FS_CardinalityType
  <2>2. 0 \in Int /\ 1 \in Int /\ size \in Int
    BY <2>1
  <2>3. IsFiniteSet(1..size) /\ Cardinality(1..size) = IF 1 > size THEN 0 ELSE size - 1 + 1
    BY <2>2, FS_Interval
  <2> QED
    BY <2>1, <2>3
<1>2. \A x \in S : /\ IsFiniteSet(NotAbove(x)) /\ Cardinality(NotAbove(x)) \in Nat
                   /\ Cardinality(NotAbove(x)) \leq size /\ Cardinality(NotAbove(x)) # 0
  <2> TAKE x \in S
  <2>1. NotAbove(x) \in SUBSET S /\ x \in NotAbove(x)
    OBVIOUS
  <2> HIDE DEF NotAbove
  <2>2. IsFiniteSet(NotAbove(x)) /\ Cardinality(NotAbove(x)) \leq size
    BY <2>1, FS_Subset
  <2>3. Cardinality(NotAbove(x)) \in Nat
    BY <2>2, FS_CardinalityType
  <2>4. Cardinality(NotAbove(x)) # 0
    BY <2>1, <2>2, FS_EmptySet
  <2> QED
    BY <2>2, <2>3, <2>4
<1>3. \A x, y \in S : rank[x] < rank[y] => Cardinality(NotAbove(x)) < Cardinality(NotAbove(y))
  <2> SUFFICES ASSUME NEW x \in S, NEW y \in S, rank[x] < rank[y]
               PROVE  Cardinality(NotAbove(x)) < Cardinality(NotAbove(y))
    OBVIOUS
  <2>1. NotAbove(x) \in SUBSET NotAbove(y) /\ y \in NotAbove(y) /\ y \notin NotAbove(x)
    OBVIOUS
  <2>2. Cardinality(NotAbove(x)) \in Nat /\ Cardinality(NotAbove(y)) \in Nat /\ IsFiniteSet(NotAbove(y))
    BY <1>2
  <2> HIDE DEF NotAbove
  <2>3. Cardinality(NotAbove(x)) \leq Cardinality(NotAbove(y)) /\ Cardinality(NotAbove(y)) # Cardinality(NotAbove(x))
    BY <2>1, <2>2, FS_Subset
  <2> QED
    BY <2>2, <2>3
<1> HIDE DEF NotAbove
<1>4. place \in Injection(S, 1..size)
  <2>1. place \in [S -> 1..size]
    BY <1>1, <1>2
  <2>2. ASSUME NEW x \in S, NEW y \in S, place[x] = place[y] PROVE x = y
    <3>1. Cardinality(NotAbove(x)) = Cardinality(NotAbove(y)) /\ Cardinality(NotAbove(x)) \in Nat
      BY <1>2, <2>2
    <3>2. ~(rank[x] < rank[y]) /\ ~(rank[y] < rank[x])
      BY <1>3, <3>1
    <3> QED
      BY <3>2
  <2> QED
    BY <2>1, <2>2 DEF Injection, IsInjective
<1>5. place \in Surjection(S, 1..size)
  BY <1>1, <1>4, FS_Injection
<1>6. \A i \in 1..size : \E x \in S : place[x] = i
  BY <1>5 DEF Surjection
<1> DEFINE p == [i \in 1..size |-> CHOOSE x \in S : place[x] = i]
<1>7. p \in [1..size -> S] /\ \A i \in 1..size : place[p[i]] = i
  BY <1>6
<1> HIDE DEF p
<1>8. Rises(p)
  <2> SUFFICES ASSUME NEW i \in 1..size, NEW j \in 1..size, i < j PROVE rank[p[i]] < rank[p[j]]
    OBVIOUS
  <2>1. p[i] \in S /\ p[j] \in S
    BY <1>7
  <2>2. Cardinality(NotAbove(p[i])) = i /\ Cardinality(NotAbove(p[j])) = j
    BY <1>7, <2>1
  <2>3. ~(rank[p[j]] < rank[p[i]]) /\ p[i] # p[j]
    BY <1>1, <1>3, <2>1, <2>2
  <2> QED
    BY <2>1, <2>3
<1> DEFINE q == Sorted(S, rank)
<1>9. q \in [1..size -> S] /\ Rises(q)
  BY <1>7, <1>8 DEF Sorted
<1> HIDE DEF q
<1>10. \A x \in S : \E i \in 1..size : q[i] = x
  <2>1. q \in Injection(1..size, S)
    <3>1. ASSUME NEW i \in 1..size, NEW j \in 1..size, q[i] = q[j] PROVE i = j
      <4>1. rank[q[i]] \in Int
        BY <1>9
      <4> QED
        BY <1>1, <1>9, <3>1, <4>1
    <3> QED
      BY <1>9, <3>1 DEF Injection, IsInjective
  <2>2. q \in Surjection(1..size, S)
    BY <1>1, <2>1, FS_Injection
  <2> QED
    BY <2>2 DEF Surjection
<1> QED
  BY <1>1, <1>9, <1>10 DEF q, InOrder

\* Integers have only one ascending order.
LEMMA OneOrder ==
  ASSUME NEW K, NEW rank, NEW m, NEW k, NEW t, NEW u, \A x \in K : rank[x] = x /\ x \in Int,
         InOrder(K, rank, m, t), InOrder(K, rank, k, u)
  PROVE  m = k /\ \A i \in 1..m : t[i] = u[i]
<1> SUFFICES ASSUME K \in SUBSET Int, m \in Nat, k \in Nat,
                    t \in [1..m -> K], \A i, j \in 1..m : i < j => t[i] < t[j],
                    \A x \in K : \E i \in 1..m : t[i] = x,
                    u \in [1..k -> K], \A i, j \in 1..k : i < j => u[i] < u[j],
                    \A x \in K : \E i \in 1..k : u[i] = x
             PROVE  m = k /\ \A i \in 1..m : t[i] = u[i]
  BY DEF InOrder
<1> DEFINE D == {i \in Nat : i \in (1..m) \cup (1..k) /\ ~(i \in 1..m /\ i \in 1..k /\ t[i] = u[i])}
<1>1. (\A i \in 1..m : t[i] \in Int) /\ (\A i \in 1..k : u[i] \in Int)
  OBVIOUS
<1>2. CASE D = {}
  <2>1. \A i \in (1..m) \cup (1..k) : i \in 1..m /\ i \in 1..k /\ t[i] = u[i]
    BY <1>2
  <2>2. m = k
    <3>1. m \in 1..m \/ m = 0
      OBVIOUS
    <3>2. k \in 1..k \/ k = 0
      OBVIOUS
    <3> QED
      BY <2>1, <3>1, <3>2
  <2> QED
    BY <2>1, <2>2
<1>3. CASE D # {}
  <2>1. PICK d \in D : \A j \in D : d \leq j
    <3>1. D \in SUBSET Nat
      OBVIOUS
    <3> HIDE DEF D
    <3> QED
      BY <1>3, <3>1, LeastOf
  <2>2. d \in Nat /\ d \in (1..m) \cup (1..k) /\ ~(d \in 1..m /\ d \in 1..k /\ t[d] = u[d])
    OBVIOUS
  <2>3. \A i \in 1..(d - 1) : i \in 1..m /\ i \in 1..k /\ t[i] = u[i]
    <3> TAKE i \in 1..(d - 1)
    <3>1. i \notin D /\ i \in Nat
      BY <2>1, <2>2
    <3>2. i \in (1..m) \cup (1..k)
      BY <2>2
    <3> QED
      BY <3>1, <3>2
  <2> HIDE DEF D
  <2>4. ASSUME d \in 1..m PROVE d \in 1..k /\ u[d] \leq t[d]
    <3>1. PICK j \in 1..k : u[j] = t[d]
      BY <2>4
    <3>2. ~(j < d)
      <4>1. SUFFICES ASSUME j < d PROVE FALSE
        OBVIOUS
      <4>2. j \in 1..(d - 1)
        BY <2>2, <4>1
      <4>3. j \in 1..m /\ t[j] = t[d]
        BY <2>3, <3>1, <4>2
      <4>4. t[j] < t[d]
        BY <2>4, <4>1, <4>3
      <4> QED
        BY <1>1, <2>4, <4>3, <4>4
    <3>3. d \in 1..k
      BY <2>2, <2>4, <3>2
    <3>4. j \in Nat /\ (j = d \/ d < j)
      BY <2>2, <3>2
    <3>5. d < j => u[d] < u[j]
      BY <3>3
    <3>6. u[d] \in Int /\ t[d] \in Int /\ u[j] = t[d]
      BY <1>1, <2>4, <3>1, <3>3
    <3>7. \A a, b \in Int : a < b \/ a = b => a \leq b
      OBVIOUS
    <3>8. u[d] < t[d] \/ u[d] = t[d]
      BY <3>4, <3>5, <3>6, Zenon
    <3> QED
      BY <3>3, <3>6, <3>7, <3>8, Zenon
  <2>5. ASSUME d \in 1..k PROVE d \in 1..m /\ t[d] \leq u[d]
    <3>1. PICK j \in 1..m : t[j] = u[d]
      BY <2>5
    <3>2. ~(j < d)
      <4>1. SUFFICES ASSUME j < d PROVE FALSE
        OBVIOUS
      <4>2. j \in 1..(d - 1)
        BY <2>2, <4>1
      <4>3. j \in 1..k /\ u[j] = u[d]
        BY <2>3, <3>1, <4>2
      <4>4. u[j] < u[d]
        BY <2>5, <4>1, <4>3
      <4> QED
        BY <1>1, <2>5, <4>3, <4>4
    <3>3. d \in 1..m
      BY <2>2, <2>5, <3>2
    <3>4. j \in Nat /\ (j = d \/ d < j)
      BY <2>2, <3>2
    <3>5. d < j => t[d] < t[j]
      BY <3>3
    <3>6. t[d] \in Int /\ u[d] \in Int /\ t[j] = u[d]
      BY <1>1, <2>5, <3>1, <3>3
    <3>7. \A a, b \in Int : a < b \/ a = b => a \leq b
      OBVIOUS
    <3>8. t[d] < u[d] \/ t[d] = u[d]
      BY <3>4, <3>5, <3>6, Zenon
    <3> QED
      BY <3>3, <3>6, <3>7, <3>8, Zenon
  <2>6. d \in 1..m /\ d \in 1..k /\ t[d] \leq u[d] /\ u[d] \leq t[d]
    BY <2>2, <2>4, <2>5
  <2> QED
    BY <1>1, <2>2, <2>6
<1> QED
  BY <1>2, <1>3

-----------------------------------------------------------------------------
(* One R value.                                                             *)

LEMMA SexpIs ==
  ASSUME NEW s \in SexpValue
  PROVE  /\ IsSexpValue(s) /\ NA_LOGICAL # 1
         /\ SexpToIface[s] = IfaceBy(SexpToIface, s) /\ SexpToIface[s] \in GoValue
         /\ HasJson[s] <=> HasJsonBy(HasJson, s)
         /\ Surviving[s] = SurvivingBy(Surviving, s)
BY SexpAssumption, SessionAssumption

\* What is empty, or of a type that is not supported, becomes NULL.
LEMMA OthersSurvive ==
  ASSUME NEW s \in SexpValue, SexpElements(s) = <<>> \/ s[1] \notin Supported
  PROVE  SexpToIface[s] = Nil /\ Decoded[SexpToIface[s]] = Null /\ Surviving[s] = Null
<1>1. SexpToIface[s] = Nil
  <2>1. IfaceBy(SexpToIface, s) = Nil
    BY DEF IfaceBy, Supported
  <2> QED
    BY <2>1, SexpIs
<1>2. Surviving[s] = Null
  <2>1. SurvivingBy(Surviving, s) = Null
    BY DEF SurvivingBy, Supported
  <2> QED
    BY <2>1, SexpIs
<1>3. Nil \in GoValue /\ Type(Nil) = "nil"
  BY <1>1, SexpIs DEF Nil, Type
<1> QED
  BY <1>1, <1>2, <1>3, DecodedNil

\* Raw bytes, unless they look like JSON.
LEMMA BytesSurvive ==
  ASSUME NEW s \in SexpValue, SexpElements(s) # <<>>, s[1] = "RAWSXP", ~HasJson[s]
  PROVE  Decoded[SexpToIface[s]] = Surviving[s] /\ Type(SexpToIface[s]) = "bytes"
<1>1. SexpToIface[s] = <<"bytes", SexpElements(s)>>
  <2>1. IfaceBy(SexpToIface, s) = <<"bytes", SexpElements(s)>>
    BY DEF IfaceBy
  <2> QED
    BY <2>1, SexpIs
<1>2. Surviving[s] = <<"RAWSXP", SexpElements(s), <<>>>>
  <2>1. SurvivingBy(Surviving, s) = <<"RAWSXP", SexpElements(s), <<>>>>
    BY DEF SurvivingBy, Supported
  <2> QED
    BY <2>1, SexpIs
<1>3. SexpElements(s)[1] # LeftBrace
  <2>1. ~HasJsonBy(HasJson, s)
    BY SexpIs
  <2> QED
    BY <2>1 DEF HasJsonBy, LooksLikeJson
<1> QED
  BY <1>1, <1>2, <1>3, SexpIs, DecodedBytes DEF IsJson, Type, Content

\* The element of a vector that a Go element becomes again.
LEMMA ElementSurvives ==
  ASSUME NEW s \in SexpValue, NEW i \in DOMAIN SexpElements(s),
         s[1] \in {"REALSXP", "INTSXP", "STRSXP", "LGLSXP"}
  PROVE  LET g == GoElement(s, i)
             e == SexpElements(s)[i]
         IN  /\ Type(g) = CASE s[1] = "REALSXP" -> "float64" [] s[1] = "INTSXP" -> "int64"
                            [] s[1] = "STRSXP" -> "string" [] s[1] = "LGLSXP" -> "bool"
             /\ Atom(g) = CASE s[1] \in {"REALSXP", "INTSXP"} -> e
                            [] s[1] = "STRSXP" -> IF e = NA_STRING THEN NAText ELSE e
                            [] s[1] = "LGLSXP" -> IF e = NA_LOGICAL THEN 0 ELSE e
<1>1. IsSexpValue(s) /\ NA_LOGICAL # 1
  BY SexpIs
<1>2. CASE s[1] = "REALSXP"
  BY <1>2 DEF GoElement, Type, Content, Atom
<1>3. CASE s[1] = "INTSXP"
  BY <1>1, <1>3 DEF GoElement, Type, Content, Atom, IsSexpValue
<1>4. CASE s[1] = "STRSXP"
  BY <1>4 DEF GoElement, Type, Content, Atom
<1>5. CASE s[1] = "LGLSXP"
  <2>1. SexpElements(s)[i] \in {0, 1, NA_LOGICAL}
    BY <1>1, <1>5 DEF IsSexpValue
  <2> QED
    BY <1>1, <1>5, <2>1 DEF GoElement, Type, Content, Atom
<1> QED
  BY <1>2, <1>3, <1>4, <1>5

\* Vectors.
LEMMA VectorsSurvive ==
  ASSUME NEW s \in SexpValue, SexpElements(s) # <<>>, s[1] \in {"REALSXP", "INTSXP", "STRSXP", "LGLSXP"}
  PROVE  Decoded[SexpToIface[s]] = Surviving[s] /\ Type(SexpToIface[s]) = "array"
<1> DEFINE e == SexpElements(s)
           go == [i \in DOMAIN e |-> GoElement(s, i)]
           val == <<"array", go>>
<1>1. SexpToIface[s] = val
  <2>1. IfaceBy(SexpToIface, s) = val
    BY DEF IfaceBy
  <2> QED
    BY <2>1, SexpIs
<1>2. DOMAIN e = 1..Len(e) /\ Len(e) \in Nat \ {0} /\ e = [i \in 1..Len(e) |-> e[i]]
  <2>1. e \in Seq(ToSet(e))
    BY SexpIs DEF IsSexpValue
  <2> QED
    BY <2>1, LenProperties, EmptySeq
<1>3. DOMAIN go = 1..Len(e) /\ Len(go) = Len(e) /\ go # <<>>
  BY <1>2
<1>4. \A i \in 1..Len(e) : Type(go[i]) = Type(go[1]) /\ Type(go[1]) \in Scalar
  BY <1>2, ElementSurvives DEF Scalar
<1>5. val \in GoValue /\ IsVector(val) /\ Size(val) = Len(e) /\ Content(val) = go /\ Type(val) = "array"
  <2>1. Content(val) = go /\ Type(val) = "array"
    BY DEF Content, Type
  <2>2. Type(go[1]) \in Scalar
    BY <1>2, <1>4
  <2> QED
    BY <1>1, <1>3, <2>1, <2>2, SexpIs DEF IsVector, IsArray, Size
<1>6. Decoded[val] = <<SexpType[Type(go[1])], [i \in 1..Len(e) |-> Atom(go[i])], <<>>>>
  <2> HIDE DEF val, go
  <2> QED
    BY <1>4, <1>5, DecodedVector
<1>7. Surviving[s] = SurvivingBy(Surviving, s)
  BY SexpIs
<1>8. \A i \in 1..Len(e) : go[i] = GoElement(s, i)
  BY <1>2
<1> HIDE DEF go
<1>9. CASE s[1] \in {"REALSXP", "INTSXP"}
  <2>1. SurvivingBy(Surviving, s) = <<"REALSXP", e, <<>>>>
    BY <1>9 DEF SurvivingBy, Supported
  <2>2. SexpType[Type(go[1])] = "REALSXP"
    BY <1>2, <1>8, <1>9, ElementSurvives DEF SexpType
  <2>3. [i \in 1..Len(e) |-> Atom(go[i])] = e
    <3>1. \A i \in 1..Len(e) : Atom(go[i]) = e[i]
      BY <1>2, <1>8, <1>9, ElementSurvives
    <3> QED
      BY <1>2, <3>1
  <2> QED
    BY <1>1, <1>5, <1>6, <1>7, <2>1, <2>2, <2>3
<1>10. CASE s[1] = "STRSXP"
  <2>1. SurvivingBy(Surviving, s)
          = <<"STRSXP", [i \in DOMAIN e |-> IF e[i] = NA_STRING THEN NAText ELSE e[i]], <<>>>>
    BY <1>10 DEF SurvivingBy, Supported
  <2>2. SexpType[Type(go[1])] = "STRSXP"
    BY <1>2, <1>8, <1>10, ElementSurvives DEF SexpType
  <2>3. [i \in 1..Len(e) |-> Atom(go[i])] = [i \in DOMAIN e |-> IF e[i] = NA_STRING THEN NAText ELSE e[i]]
    <3>1. \A i \in 1..Len(e) : Atom(go[i]) = IF e[i] = NA_STRING THEN NAText ELSE e[i]
      BY <1>2, <1>8, <1>10, ElementSurvives
    <3> QED
      BY <1>2, <3>1
  <2> QED
    BY <1>1, <1>5, <1>6, <1>7, <2>1, <2>2, <2>3
<1>11. CASE s[1] = "LGLSXP"
  <2>1. SurvivingBy(Surviving, s)
          = <<"LGLSXP", [i \in DOMAIN e |-> IF e[i] = NA_LOGICAL THEN 0 ELSE e[i]], <<>>>>
    BY <1>11 DEF SurvivingBy, Supported
  <2>2. SexpType[Type(go[1])] = "LGLSXP"
    BY <1>2, <1>8, <1>11, ElementSurvives DEF SexpType
  <2>3. [i \in 1..Len(e) |-> Atom(go[i])] = [i \in DOMAIN e |-> IF e[i] = NA_LOGICAL THEN 0 ELSE e[i]]
    <3>1. \A i \in 1..Len(e) : Atom(go[i]) = IF e[i] = NA_LOGICAL THEN 0 ELSE e[i]
      BY <1>2, <1>8, <1>11, ElementSurvives
    <3> QED
      BY <1>2, <3>1
  <2> QED
    BY <1>1, <1>5, <1>6, <1>7, <2>1, <2>2, <2>3
<1> QED
  BY <1>9, <1>10, <1>11

-----------------------------------------------------------------------------
(* Lists.                                                                   *)

\* No R value becomes a scalar, and what survives is an R value.
LEMMA NoScalar ==
  ASSUME NEW s \in SexpValue
  PROVE  Type(SexpToIface[s]) \in {"nil", "array", "map", "bytes"} /\ Type(SexpToIface[s]) \notin Scalar
<1>1. Type(IfaceBy(SexpToIface, s)) \in {"nil", "array", "map", "bytes"}
  <2>1. CASE SexpElements(s) = <<>>
    BY <2>1 DEF IfaceBy, Type, Nil
  <2>2. CASE SexpElements(s) # <<>> /\ s[1] = "VECSXP" /\ SexpNames(s) # <<>>
    BY <2>2 DEF IfaceBy, Type
  <2>3. CASE SexpElements(s) # <<>> /\ s[1] = "VECSXP" /\ SexpNames(s) = <<>>
    BY <2>3 DEF IfaceBy, Type
  <2>4. CASE SexpElements(s) # <<>> /\ s[1] \in {"REALSXP", "INTSXP", "STRSXP", "LGLSXP"}
    BY <2>4 DEF IfaceBy, Type
  <2>5. CASE SexpElements(s) # <<>> /\ s[1] = "RAWSXP"
    BY <2>5 DEF IfaceBy, Type
  <2>6. CASE SexpElements(s) # <<>> /\ s[1] \notin {"VECSXP", "REALSXP", "INTSXP", "STRSXP", "LGLSXP", "RAWSXP"}
    BY <2>6 DEF IfaceBy, Type, Nil
  <2> QED
    BY <2>1, <2>2, <2>3, <2>4, <2>5, <2>6
<1> QED
  BY <1>1, SexpIs DEF Scalar

LEMMA SurvivorUnmarked ==
  ASSUME NEW s \in SexpValue
  PROVE  Surviving[s] \notin {Failure, Undefined}
<1> DEFINE v == SurvivingBy(Surviving, s)
<1>1. v = Null \/ \E k \in {"STRSXP", "REALSXP", "LGLSXP", "RAWSXP", "VECSXP"} : \E c, d : v = <<k, c, d>>
  <2>1. CASE SexpElements(s) = <<>> \/ s[1] \notin Supported
    BY <2>1, OthersSurvive, SexpIs
  <2>2. CASE SexpElements(s) # <<>> /\ s[1] \in {"REALSXP", "INTSXP"}
    BY <2>2 DEF SurvivingBy, Supported
  <2>3. CASE SexpElements(s) # <<>> /\ s[1] = "LGLSXP"
    BY <2>3 DEF SurvivingBy, Supported
  <2>4. CASE SexpElements(s) # <<>> /\ s[1] = "STRSXP"
    BY <2>4 DEF SurvivingBy, Supported
  <2>5. CASE SexpElements(s) # <<>> /\ s[1] = "RAWSXP"
    BY <2>5 DEF SurvivingBy, Supported
  <2>6. CASE SexpElements(s) # <<>> /\ s[1] = "VECSXP" /\ SexpNames(s) = <<>>
    BY <2>6 DEF SurvivingBy, Supported
  <2>7. CASE SexpElements(s) # <<>> /\ s[1] = "VECSXP" /\ SexpNames(s) # <<>>
    BY <2>7 DEF SurvivingBy, Supported
  <2> QED
    BY <2>1, <2>2, <2>3, <2>4, <2>5, <2>6, <2>7 DEF Supported
<1>2. v \notin {Failure, Undefined}
  BY <1>1, NoMark
<1> QED
  BY <1>2, SexpIs

Survives(s) == ~HasJson[s] => Decoded[SexpToIface[s]] = Surviving[s]

\* The elements of a list without bytes that look like JSON have none either.
LEMMA ListParts ==
  ASSUME NEW s \in SexpValue, s[1] = "VECSXP", SexpElements(s) # <<>>
  PROVE  LET e == SexpElements(s)
         IN  /\ DOMAIN e = 1..Len(e) /\ Len(e) \in Nat \ {0} /\ \A i \in 1..Len(e) : e[i] \in SexpValue
             /\ ~HasJson[s] => \A i \in 1..Len(e) : ~HasJson[e[i]]
<1> DEFINE e == SexpElements(s)
<1>1. e \in Seq(SexpValue) /\ e # <<>>
  BY SexpIs DEF IsSexpValue
<1>2. DOMAIN e = 1..Len(e) /\ Len(e) \in Nat \ {0} /\ \A i \in 1..Len(e) : e[i] \in SexpValue
  BY <1>1, LenProperties, EmptySeq, ElementOfSeq
<1>3. ASSUME ~HasJson[s], NEW i \in 1..Len(e) PROVE ~HasJson[e[i]]
  <2>1. ~HasJsonBy(HasJson, s)
    BY <1>3, SexpIs
  <2> QED
    BY <1>2, <1>3, <2>1 DEF HasJsonBy
<1> QED
  BY <1>2, <1>3

\* A list without names.
LEMMA UnnamedSurvive ==
  ASSUME NEW s \in SexpValue, s[1] = "VECSXP", SexpElements(s) # <<>>, SexpNames(s) = <<>>,
         ~HasJson[s], \A i \in 1..Len(SexpElements(s)) : Survives(SexpElements(s)[i])
  PROVE  Decoded[SexpToIface[s]] = Surviving[s]
<1> DEFINE e == SexpElements(s)
           go == [i \in DOMAIN e |-> SexpToIface[e[i]]]
           val == <<"array", go>>
<1>1. /\ DOMAIN e = 1..Len(e) /\ Len(e) \in Nat \ {0} /\ \A i \in 1..Len(e) : e[i] \in SexpValue
      /\ \A i \in 1..Len(e) : ~HasJson[e[i]]
  BY ListParts
<1>2. SexpToIface[s] = val
  <2>1. IfaceBy(SexpToIface, s) = val
    BY DEF IfaceBy
  <2> QED
    BY <2>1, SexpIs
<1>3. /\ val \in GoValue /\ Type(val) = "array" /\ Content(val) = go /\ Size(val) = Len(e) /\ go # <<>>
      /\ \A i \in 1..Len(e) : At(val, i) = SexpToIface[e[i]]
  <2>1. Content(val) = go /\ Type(val) = "array"
    BY DEF Content, Type
  <2>2. Len(go) = Len(e) /\ go # <<>>
    BY <1>1
  <2>3. \A i \in 1..Len(e) : go[i] = SexpToIface[e[i]]
    BY <1>1
  <2> QED
    BY <1>2, <2>1, <2>2, <2>3, SexpIs DEF Size, At
<1>4. IsArray(val) /\ ~IsVector(val)
  <2>1. Type(go[1]) \notin Scalar
    BY <1>1, NoScalar
  <2> QED
    BY <1>3, <2>1 DEF IsArray, IsVector
<1>5. \A i \in 1..Len(e) : Decoded[At(val, i)] = Surviving[e[i]] /\ Surviving[e[i]] \notin {Failure, Undefined}
  BY <1>1, <1>3, SurvivorUnmarked DEF Survives
<1> HIDE DEF val, go
<1>6. Decoded[val] = ListOf([i \in 1..Len(e) |-> Decoded[At(val, i)]], <<>>)
  BY <1>3, <1>4, DecodedArray
<1>7. [i \in 1..Len(e) |-> Decoded[At(val, i)]] = [i \in 1..Len(e) |-> Surviving[e[i]]]
  BY <1>5
<1>8. ListOf([i \in 1..Len(e) |-> Surviving[e[i]]], <<>>) = <<"VECSXP", [i \in 1..Len(e) |-> Surviving[e[i]]], <<>>>>
  BY <1>5 DEF ListOf
<1>9. SurvivingBy(Surviving, s) = <<"VECSXP", [i \in DOMAIN e |-> Surviving[e[i]]], <<>>>>
  BY DEF SurvivingBy, Supported
<1> QED
  BY <1>1, <1>2, <1>6, <1>7, <1>8, <1>9, SexpIs

-----------------------------------------------------------------------------
(* Lists with names.                                                        *)

\* The elements that no later one with the same name replaces, in the order
\* of their names.
Staying(s) ==
  {i \in DOMAIN SexpElements(s) :
     \A j \in DOMAIN SexpElements(s) : j > i => SexpNames(s)[j] # SexpNames(s)[i]}
StayingInOrder(s) == Sorted(Staying(s), SexpNames(s))

LEMMA NamedIs ==
  ASSUME NEW s, SexpNames(s) \in Seq(Int), NEW key, key \in ToSet(SexpNames(s))
  PROVE  /\ Named(s, key) \in 1..Len(SexpNames(s)) /\ SexpNames(s)[Named(s, key)] = key
         /\ \A j \in 1..Len(SexpNames(s)) : SexpNames(s)[j] = key => j \leq Named(s, key)
<1> DEFINE names == SexpNames(s)
           size == Len(names)
           K == {k \in Nat : k \in 0..(size - 1) /\ names[size - k] = key}
<1>1. DOMAIN names = 1..size /\ size \in Nat
  BY LenProperties
<1>2. PICK i \in 1..size : names[i] = key
  BY <1>1 DEF ToSet
<1>3. K \in SUBSET Nat /\ size - i \in K
  <2>1. size - i \in 0..(size - 1) /\ size - (size - i) = i
    BY <1>1
  <2> QED
    BY <1>2, <2>1
<1>4. PICK k \in K : \A j \in K : k \leq j
  <2> HIDE DEF K
  <2> QED
    BY <1>3, LeastOf
<1>5. PICK m \in 1..size : m = size - k
  <2>1. k \in Nat /\ k \in 0..(size - 1)
    OBVIOUS
  <2>2. size - k \in 1..size
    BY <1>1, <2>1
  <2> QED
    BY <2>2
<1>6. names[m] = key /\ \A j \in 1..size : names[j] = key => j \leq m
  <2>1. names[m] = key
    BY <1>5
  <2>2. ASSUME NEW j \in 1..size, names[j] = key PROVE j \leq m
    <3>1. size - j \in 0..(size - 1) /\ size - (size - j) = j /\ size - j \in Nat
      BY <1>1
    <3>2. k \leq size - j
      BY <1>4, <2>2, <3>1
    <3> QED
      BY <1>1, <1>5, <3>2
  <2> QED
    BY <2>1, <2>2
<1> HIDE DEF K
<1>7. Named(s, key) = CHOOSE x \in 1..size : names[x] = key /\ \A j \in 1..size : names[j] = key => j \leq x
  BY <1>1 DEF Named
<1> QED
  BY <1>6, <1>7

\* The keys of the map are the names that stay in their order, and each key
\* has the value of the last element of that name.
LEMMA KeysInOrder ==
  ASSUME NEW s \in SexpValue, s[1] = "VECSXP", SexpElements(s) # <<>>, SexpNames(s) # <<>>
  PROVE  LET keys == SortedKeys(s)
             order == StayingInOrder(s)
         IN  \E size \in Nat :
               /\ DOMAIN keys = 1..size /\ DOMAIN order = 1..size
               /\ keys \in [1..size -> Int] /\ order \in [1..size -> DOMAIN SexpElements(s)]
               /\ \A k \in 1..size : keys[k] = SexpNames(s)[order[k]] /\ Named(s, keys[k]) = order[k]
<1> DEFINE names == SexpNames(s)
           len == Len(names)
           K == ToSet(names)
           S == Staying(s)
           self == [key \in K |-> key]
           keys == Sorted(K, self)
           order == Sorted(S, names)
<1>1. names \in Seq(Int) /\ DOMAIN names = 1..len /\ len \in Nat /\ DOMAIN SexpElements(s) = 1..len
  <2>1. names \in Seq(Int) /\ SexpElements(s) \in Seq(SexpValue) /\ len = Len(SexpElements(s))
    BY SexpIs DEF IsSexpValue
  <2> QED
    BY <2>1, LenProperties
<1>2. /\ K \in SUBSET Int /\ IsFiniteSet(K)
      /\ \A i \in 1..len : names[i] \in Int /\ names[i] \in K
  <2>1. IsFiniteSet(1..len)
    BY <1>1, FS_Interval
  <2>2. \A i \in 1..len : names[i] \in Int /\ names[i] \in K
    BY <1>1, ElementOfSeq DEF ToSet
  <2>3. K = {names[i] : i \in 1..len}
    BY <1>1 DEF ToSet
  <2>4. names \in Surjection(1..len, K)
    BY <1>1, <2>2, <2>3 DEF Surjection
  <2> QED
    BY <2>1, <2>2, <2>3, <2>4, FS_Surjection
<1>3. /\ S \in SUBSET (1..len) /\ IsFiniteSet(S)
      /\ \A x, y \in S : names[x] = names[y] => x = y
  <2>1. S \in SUBSET (1..len)
    BY <1>1 DEF Staying
  <2>2. IsFiniteSet(1..len)
    BY <1>1, FS_Interval
  <2>3. ASSUME NEW x \in S, NEW y \in S, names[x] = names[y] PROVE x = y
    <3>1. ~(x > y) /\ ~(y > x) /\ x \in 1..len /\ y \in 1..len
      BY <1>1, <2>3 DEF Staying
    <3> QED
      BY <1>1, <3>1
  <2> QED
    BY <2>1, <2>2, <2>3, FS_Subset
<1>4. \A key \in K : Named(s, key) \in S /\ names[Named(s, key)] = key
  <2> TAKE key \in K
  <2>1. /\ Named(s, key) \in 1..len /\ names[Named(s, key)] = key
        /\ \A j \in 1..len : names[j] = key => j \leq Named(s, key)
    BY <1>1, NamedIs
  <2>2. \A j \in 1..len : j > Named(s, key) => names[j] # names[Named(s, key)]
    BY <1>1, <2>1
  <2> QED
    BY <1>1, <2>1, <2>2 DEF Staying
<1>5. PICK m : m = Cardinality(K) /\ InOrder(K, self, m, keys)
  <2>1. Ranks(K, self)
    BY <1>2 DEF Ranks
  <2> HIDE DEF K, self
  <2> QED
    BY <2>1, SortedIs
<1>6. PICK k : k = Cardinality(S) /\ InOrder(S, names, k, order)
  <2>1. Ranks(S, names)
    BY <1>2, <1>3 DEF Ranks
  <2> HIDE DEF S, names
  <2> QED
    BY <2>1, SortedIs
<1>7. \A x \in K : self[x] = x /\ x \in Int
  BY <1>2
<1> HIDE DEF keys, order, K, S, self
<1>8. /\ k \in Nat /\ order \in [1..k -> S]
      /\ \A i, j \in 1..k : i < j => names[order[i]] < names[order[j]]
      /\ \A x \in S : \E i \in 1..k : order[i] = x
  BY <1>6 DEF InOrder
<1> DEFINE u == [i \in 1..k |-> names[order[i]]]
<1>9. u \in [1..k -> K] /\ \A i \in 1..k : u[i] = names[order[i]] /\ order[i] \in S /\ order[i] \in 1..len
  BY <1>2, <1>3, <1>8
<1> HIDE DEF u
<1>10. InOrder(K, self, k, u)
  <2>1. ASSUME NEW i \in 1..k, NEW j \in 1..k, i < j PROVE self[u[i]] < self[u[j]]
    <3>1. names[order[i]] < names[order[j]]
      BY <1>8, <2>1
    <3>2. u[i] \in K /\ u[j] \in K
      BY <1>9
    <3> QED
      BY <1>7, <1>9, <3>1, <3>2
  <2>2. ASSUME NEW x \in K PROVE \E i \in 1..k : u[i] = x
    <3>1. PICK i \in 1..k : order[i] = Named(s, x)
      BY <1>4, <1>8
    <3> QED
      BY <1>4, <1>9, <3>1
  <2> QED
    BY <1>8, <1>9, <2>1, <2>2 DEF InOrder
<1>14. m = k /\ \A i \in 1..m : keys[i] = u[i]
  BY <1>5, <1>7, <1>10, OneOrder
<1>15. keys \in [1..m -> K]
  BY <1>5 DEF InOrder
<1>11. \A i \in 1..k : Named(s, keys[i]) = order[i]
  <2> TAKE i \in 1..k
  <2>1. keys[i] \in K /\ names[order[i]] = keys[i] /\ order[i] \in S
    BY <1>9, <1>14, <1>15
  <2>2. Named(s, keys[i]) \in S /\ names[Named(s, keys[i])] = keys[i]
    BY <1>4, <2>1
  <2> QED
    BY <1>3, <2>1, <2>2
<1>12. keys = SortedKeys(s) /\ order = StayingInOrder(s)
  BY DEF keys, order, K, S, self, SortedKeys, StayingInOrder
<1>13. /\ DOMAIN keys = 1..k /\ DOMAIN order = 1..k /\ keys \in [1..k -> Int] /\ order \in [1..k -> 1..len]
       /\ \A i \in 1..k : keys[i] = names[order[i]]
  BY <1>2, <1>3, <1>8, <1>9, <1>14, <1>15
<1> QED
  BY <1>1, <1>8, <1>11, <1>12, <1>13

LEMMA NamedSurvive ==
  ASSUME NEW s \in SexpValue, s[1] = "VECSXP", SexpElements(s) # <<>>, SexpNames(s) # <<>>,
         ~HasJson[s], \A i \in 1..Len(SexpElements(s)) : Survives(SexpElements(s)[i])
  PROVE  Decoded[SexpToIface[s]] = Surviving[s]
<1> DEFINE e == SexpElements(s)
           keys == SortedKeys(s)
           order == StayingInOrder(s)
           go == [k \in DOMAIN keys |-> <<keys[k], SexpToIface[e[Named(s, keys[k])]]>>]
           val == <<"map", go>>
<1>1. /\ DOMAIN e = 1..Len(e) /\ \A i \in 1..Len(e) : e[i] \in SexpValue
      /\ \A i \in 1..Len(e) : ~HasJson[e[i]]
  BY ListParts
<1>2. PICK size \in Nat :
        /\ DOMAIN keys = 1..size /\ DOMAIN order = 1..size
        /\ keys \in [1..size -> Int] /\ order \in [1..size -> DOMAIN e]
        /\ \A k \in 1..size : keys[k] = SexpNames(s)[order[k]] /\ Named(s, keys[k]) = order[k]
  BY KeysInOrder
<1>3. SexpToIface[s] = val
  <2>1. IfaceBy(SexpToIface, s) = val
    BY DEF IfaceBy
  <2> QED
    BY <2>1, SexpIs
<1> HIDE DEF keys, order
<1>4. \A k \in 1..size : order[k] \in 1..Len(e) /\ go[k] = <<keys[k], SexpToIface[e[order[k]]]>>
  BY <1>1, <1>2
<1>5. go \in Seq({go[k] : k \in 1..size}) /\ Len(go) = size
  BY <1>2
<1>6. Content(val) = go /\ Type(val) = "map"
  BY DEF Content, Type
<1> HIDE DEF val, go
<1>7. /\ val \in GoValue /\ Size(val) = size
      /\ \A k \in 1..size : At(val, k) = SexpToIface[e[order[k]]] /\ Content(val)[k][1] = keys[k]
  BY <1>3, <1>4, <1>5, <1>6, SexpIs DEF Size, At
<1>8. \A k \in 1..size : Decoded[At(val, k)] = Surviving[e[order[k]]]
                         /\ Surviving[e[order[k]]] \notin {Failure, Undefined}
  BY <1>1, <1>4, <1>7, SurvivorUnmarked DEF Survives
<1> DEFINE parts == [k \in 1..size |-> Surviving[e[order[k]]]]
           names == [k \in 1..size |-> SexpNames(s)[order[k]]]
<1>9. Decoded[val] = ListOf([k \in 1..size |-> Decoded[At(val, k)]], [k \in 1..size |-> Content(val)[k][1]])
  BY <1>6, <1>7, DecodedMap
<1>10. /\ [k \in 1..size |-> Decoded[At(val, k)]] = parts
       /\ [k \in 1..size |-> Content(val)[k][1]] = names
  BY <1>2, <1>7, <1>8
<1>11. ListOf(parts, names) = <<"VECSXP", parts, names>>
  BY <1>8 DEF ListOf
<1>12. SurvivingBy(Surviving, s)
         = <<"VECSXP", [k \in DOMAIN order |-> Surviving[e[order[k]]]],
                       [k \in DOMAIN order |-> SexpNames(s)[order[k]]]>>
  BY DEF SurvivingBy, Supported, order, StayingInOrder, Staying
<1> QED
  BY <1>2, <1>3, <1>9, <1>10, <1>11, <1>12, SexpIs

\* Every R value without bytes that look like JSON survives as it should: a
\* value of the least depth among those that did not would have parts that do.
THEOREM SexpSurvives ==
  \A s \in SexpValue : ~HasJson[s] => Decoded[SexpToIface[s]] = Surviving[s]
<1> DEFINE Lost == {s \in SexpValue : ~Survives(s)}
           D == {Depth[s] : s \in Lost}
<1>1. SUFFICES ASSUME Lost # {} PROVE FALSE
  BY DEF Survives
<1>2. D \in SUBSET Nat /\ D # {}
  BY <1>1, SexpAssumption
<1>3. PICK least \in D : \A d \in D : least \leq d
  <2> HIDE DEF D
  <2> QED
    BY <1>2, LeastOf
<1>4. PICK s \in Lost : Depth[s] = least
  OBVIOUS
<1>5. s \in SexpValue /\ ~HasJson[s] /\ Decoded[SexpToIface[s]] # Surviving[s]
  BY DEF Survives
<1>6. \A r \in SexpValue : Depth[r] < Depth[s] => Survives(r)
  <2> SUFFICES ASSUME NEW r \in SexpValue, Depth[r] < Depth[s], ~Survives(r) PROVE FALSE
    OBVIOUS
  <2>1. Depth[r] \in D
    OBVIOUS
  <2>2. Depth[s] \leq Depth[r] /\ Depth[r] \in Nat /\ Depth[s] \in Nat
    BY <1>3, <1>4, <1>5, <2>1, SexpAssumption
  <2> QED
    BY <2>2
<1> HIDE DEF Lost, D
<1>7. SexpElements(s) # <<>> /\ s[1] \in Supported
  BY <1>5, OthersSurvive
<1>8. CASE s[1] = "VECSXP"
  <2>1. /\ DOMAIN SexpElements(s) = 1..Len(SexpElements(s))
        /\ \A i \in 1..Len(SexpElements(s)) : SexpElements(s)[i] \in SexpValue
    BY <1>5, <1>7, <1>8, ListParts
  <2>2. \A i \in 1..Len(SexpElements(s)) : Depth[SexpElements(s)[i]] < Depth[s]
    BY <1>5, <1>8, <2>1, SexpAssumption DEF ToSet
  <2>3. \A i \in 1..Len(SexpElements(s)) : Survives(SexpElements(s)[i])
    BY <1>6, <2>1, <2>2
  <2> QED
    BY <1>5, <1>7, <1>8, <2>3, UnnamedSurvive, NamedSurvive
<1>9. CASE s[1] = "RAWSXP"
  BY <1>5, <1>7, <1>9, BytesSurvive
<1>10. CASE s[1] \in {"REALSXP", "INTSXP", "STRSXP", "LGLSXP"}
  BY <1>5, <1>7, <1>10, VectorsSurvive
<1> QED
  BY <1>7, <1>8, <1>9, <1>10 DEF Supported

\* Where the value that a session sends through msgpack is, from call to call.
Sent ==
  sexp # NoValue =>
    /\ sexp \in SexpValue /\ call \in {"ToMsgpack", "FromMsgpack", "returned"}
    /\ call = "FromMsgpack" => input = SexpToIface[sexp]
    /\ call = "returned" => values = <<Decoded[SexpToIface[sexp]]>>

LEMMA SentSteps == SessionInv /\ Sent /\ [Next]_vars => Sent'
<1> SUFFICES ASSUME SessionInv, Sent, [Next]_vars, sexp' # NoValue
             PROVE  /\ sexp' \in SexpValue /\ call' \in {"ToMsgpack", "FromMsgpack", "returned"}
                    /\ call' = "FromMsgpack" => input' = SexpToIface[sexp']
                    /\ call' = "returned" => values' = <<Decoded[SexpToIface[sexp']]>>
  BY DEF Sent
<1>1. sexp' = sexp
  BY DEF Next, vars, ToMsgpack, Message, FromMsgpack, StartFrame, StartLine, DecodeFails,
         MakeList, ReturnList, Step, Returned
<1>2. /\ sexp \in SexpValue /\ call \in {"ToMsgpack", "FromMsgpack", "returned"}
      /\ call = "FromMsgpack" => input = SexpToIface[sexp]
      /\ call = "returned" => values = <<Decoded[SexpToIface[sexp]]>>
  BY <1>1 DEF Sent
<1>3. CASE ToMsgpack
  <2>1. SexpToIface[sexp] \in GoValue
    BY <1>2, SessionAssumption
  <2>2. CASE SexpToIface[sexp] = Nil
    <3>1. Type(Nil) = "nil" /\ Nil \in GoValue
      BY <2>1, <2>2 DEF Type, Nil
    <3>2. Decoded[Nil] = Null
      BY <3>1, DecodedNil
    <3>3. values' = <<Null>> /\ call' = "returned"
      BY <1>3, <2>2 DEF ToMsgpack
    <3> QED
      BY <1>1, <1>2, <2>2, <3>2, <3>3
  <2>3. CASE SexpToIface[sexp] # Nil
    BY <1>1, <1>2, <1>3, <2>3 DEF ToMsgpack, Decoding
  <2> QED
    BY <2>2, <2>3
<1>4. CASE FromMsgpack
  <2>1. frames = <<>> /\ call = "FromMsgpack" /\ values' = <<Value>> /\ call' = "returned"
    BY <1>4 DEF FromMsgpack, Ready
  <2>2. Value = Decoded[input]
    BY <2>1, ReturnedMeans DEF SessionInv, Memory, Converting
  <2> QED
    BY <1>1, <1>2, <2>1, <2>2
<1>5. CASE Step \/ Returned \/ UNCHANGED vars
  <2>1. UNCHANGED <<call, input, values>>
    BY <1>5 DEF Step, Returned, vars
  <2> QED
    BY <1>1, <1>2, <2>1
<1>6. ~(Message \/ StartFrame \/ StartLine \/ DecodeFails \/ MakeList \/ ReturnList)
  BY <1>2 DEF Message, StartFrame, StartLine, DecodeFails, MakeList, ReturnList, Ready
<1> QED
  BY <1>3, <1>4, <1>5, <1>6 DEF Next

\* A value that goes from R through msgpack and back, in R's memory and with
\* collections at any moment, is what Surviving says: nothing else is lost.
THEOREM SessionRoundTrip == Spec => []RoundTrip
<1>1. Init => Sent
  BY DEF Init, Sent
<1>2. Sent => RoundTrip
  BY SexpSurvives DEF Sent, RoundTrip
<1> QED
  BY <1>1, <1>2, InitInv, SessionSteps, SentSteps, PTL DEF Spec
============================================================================

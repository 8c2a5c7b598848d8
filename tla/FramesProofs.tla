---------------------------- MODULE FramesProofs ----------------------------
(***************************************************************************)
(* Proofs about Frames for every set of streams, decoder and memory behind    *)
(* the vector: what is read lies inside the stream, record after record,      *)
(* every successful call moves on, and the bytes beyond the end decide        *)
(* nothing.                                                                 *)
(***************************************************************************)
EXTENDS Frames, SequenceTheorems, TLAPS

\* The extents read are pairs of offsets of the stream.
ReadOK == bytes \in Seq(Byte) /\ read \in Seq(Int \X Int)

InsideInv == ReadOK /\ ReadsInside

LEMMA StreamBytes == bytes \in Seq(Byte) => n \in Nat /\ \A i \in 1..n : bytes[i] \in Byte
BY DEF n

\* The header of a frame is five bytes, of the stream or of what follows it.
LEMMA WindowBytes ==
  ASSUME bytes \in Seq(Byte), offset \in 0..n, NEW junk \in Junk
  PROVE  \A i \in 1..5 : Window(offset, junk)[i] \in Byte
BY StreamBytes, FramesAssumption DEF Window

\* Sizes are natural numbers, and a frame has a header or nothing.
LEMMA Sizes ==
  ASSUME NEW p, \A i \in 1..5 : p[i] \in Byte
  PROVE  /\ headerSize(p) \in Nat /\ payloadSize(p) \in Nat /\ totalFrameSize(p) \in Nat
         /\ headerSize(p) \leq totalFrameSize(p)
<1>1. p[1] \in 0..255 /\ p[2] \in 0..255 /\ p[3] \in 0..255 /\ p[4] \in 0..255 /\ p[5] \in 0..255
  BY DEF Byte
<1>2. headerSize(p) \in Nat
  BY DEF headerSize
<1>3. payloadSize(p) \in Nat
  <2>0. \A x \in Nat : \A y \in 0..255 : 256 * x + y \in Nat
    OBVIOUS
  <2>1. CASE p[1] = Bin8
    BY <1>1, <2>1 DEF payloadSize, Bin8, Bin16, Bin32
  <2>2. CASE p[1] = Bin16
    <3>1. payloadSize(p) = 256 * p[2] + p[3]
      BY <2>2 DEF payloadSize, Bin8, Bin16, Bin32
    <3> QED
      BY <1>1, <2>0, <3>1, p[2] \in Nat
  <2>3. CASE p[1] = Bin32
    <3>1. payloadSize(p) = 256 * (256 * (256 * p[2] + p[3]) + p[4]) + p[5]
      BY <2>3 DEF payloadSize, Bin8, Bin16, Bin32
    <3>2. 256 * p[2] + p[3] \in Nat
      BY <1>1, <2>0, p[2] \in Nat
    <3>3. 256 * (256 * p[2] + p[3]) + p[4] \in Nat
      BY <1>1, <2>0, <3>2
    <3> QED
      BY <1>1, <2>0, <3>1, <3>3
  <2>4. CASE p[1] \notin {Bin8, Bin16, Bin32}
    BY <2>4 DEF payloadSize
  <2> QED
    BY <2>1, <2>2, <2>3, <2>4
<1> QED
  BY <1>2, <1>3 DEF totalFrameSize

-----------------------------------------------------------------------------
\* A record read behind the others keeps them inside, disjoint and ordered.
LEMMA AttemptInside ==
  ASSUME InsideInv, NEW from \in Int, NEW to \in Int,
         offset \leq from, from \leq to, to \leq n, offset < to,
         Attempt(from, to)
  PROVE  InsideInv' /\ (read' # read => offset' > offset)
<1>1. CASE ~Decodes(stream.format, Extent(from, to))
  BY <1>1 DEF InsideInv, ReadOK, ReadsInside, Attempt, End, n, bytes
<1>2. CASE Decodes(stream.format, Extent(from, to))
  <2>1. offset' = to /\ read' = Append(read, <<from, to>>) /\ stream' = stream
    BY <1>2 DEF Attempt
  <2>2. read \in Seq(Int \X Int) /\ <<from, to>> \in Int \X Int /\ offset \in 0..n /\ n' = n /\ n \in Nat
        /\ bytes' = bytes
    BY <2>1, StreamBytes DEF InsideInv, ReadOK, ReadsInside, n, bytes
  <2>3. /\ Len(read') = Len(read) + 1 /\ Len(read) \in Nat /\ read' \in Seq(Int \X Int)
        /\ read'[Len(read) + 1] = <<from, to>>
        /\ \A i \in 1..Len(read) : read'[i] = read[i] /\ read[i] \in Int \X Int
    BY <2>1, <2>2
  <2> Len(read') = Len(read) + 1 /\ Len(read) \in Nat
    BY <2>3
  <2>4. \A i \in 1..Len(read') : i = Len(read) + 1 \/ i \in 1..Len(read)
    OBVIOUS
  <2>5. \A i, j \in 1..Len(read') : i < j => i \in 1..Len(read)
    OBVIOUS
  <2>6. \A i \in 1..Len(read') : 0 \leq read'[i][1] /\ read'[i][1] \leq read'[i][2] /\ read'[i][2] \leq to
    <3> TAKE i \in 1..Len(read')
    <3>1. CASE i = Len(read) + 1
      BY <3>1, <2>2, <2>3
    <3>2. CASE i \in 1..Len(read)
      <4>1. read'[i] = read[i] /\ read[i][1] \in Int /\ read[i][2] \in Int
        BY <3>2, <2>3
      <4>2. 0 \leq read[i][1] /\ read[i][1] \leq read[i][2] /\ read[i][2] \leq offset
        BY <3>2 DEF InsideInv, ReadsInside
      <4> QED
        BY <4>1, <4>2, <2>2
    <3> QED
      BY <3>1, <3>2, <2>4
  <2>7. \A i, j \in 1..Len(read') : i < j => read'[i][2] \leq read'[j][1]
    <3> TAKE i, j \in 1..Len(read')
    <3> HAVE i < j
    <3>1. i \in 1..Len(read)
      BY <2>5
    <3>2. CASE j = Len(read) + 1
      <4>1. read'[i] = read[i] /\ read[i][2] \in Int /\ read'[j][1] = from
        BY <3>1, <3>2, <2>3
      <4>2. read[i][2] \leq offset
        BY <3>1 DEF InsideInv, ReadsInside
      <4> QED
        BY <4>1, <4>2, <2>2
    <3>3. CASE j \in 1..Len(read)
      <4>1. read'[i] = read[i] /\ read'[j] = read[j]
        BY <3>1, <3>3, <2>3
      <4>2. read[i][2] \leq read[j][1]
        BY <3>1, <3>3 DEF InsideInv, ReadsInside
      <4> QED
        BY <4>1, <4>2
    <3> QED
      BY <3>2, <3>3, <2>4
  <2> QED
    BY <2>1, <2>2, <2>3, <2>6, <2>7 DEF InsideInv, ReadOK, ReadsInside
<1> QED
  BY <1>1, <1>2

\* A call that fails changes nothing but the status.
LEMMA EndInside ==
  ASSUME InsideInv, NEW how, End(how)
  PROVE  InsideInv' /\ read' = read
BY DEF InsideInv, ReadOK, ReadsInside, End, n, bytes

LEMMA InitInside == ReaderInit => InsideInv
<1> SUFFICES ASSUME ReaderInit PROVE InsideInv
  OBVIOUS
<1>1. bytes \in Seq(Byte) /\ n \in Nat
  BY StreamBytes, FramesAssumption DEF ReaderInit, WellWritten, bytes
<1> QED
  BY <1>1 DEF ReaderInit, InsideInv, ReadOK, ReadsInside

LEMMA StepInside == InsideInv /\ [ReaderNext]_reader => InsideInv' /\ (read' # read => offset' > offset)
<1> SUFFICES ASSUME InsideInv, [ReaderNext]_reader PROVE InsideInv' /\ (read' # read => offset' > offset)
  OBVIOUS
<1> USE DEF ReaderNext
<1>0. n \in Nat /\ offset \in 0..n /\ bytes \in Seq(Byte)
  BY StreamBytes DEF InsideInv, ReadOK, ReadsInside
<1>1. CASE ReadMsgpackFrame
  <2>1. PICK junk \in Junk :
          \/ FrameRefused(Window(offset, junk))
          \/ /\ IsFrame(Window(offset, junk))
             /\ Attempt(offset + headerSize(Window(offset, junk)),
                        offset + totalFrameSize(Window(offset, junk)))
    BY <1>1 DEF ReadMsgpackFrame
  <2> DEFINE p == Window(offset, junk)
  <2>2. CASE FrameRefused(p)
    BY <2>2, EndInside DEF FrameRefused
  <2>3. CASE IsFrame(p) /\ Attempt(offset + headerSize(p), offset + totalFrameSize(p))
    <3>1. /\ headerSize(p) \in Nat /\ totalFrameSize(p) \in Nat
          /\ headerSize(p) \leq totalFrameSize(p)
      BY <1>0, WindowBytes, Sizes
    <3>2. totalFrameSize(p) # 0 /\ offset + totalFrameSize(p) \leq n
      BY <2>3 DEF IsFrame, Fits
    <3> HIDE DEF p
    <3> QED
      BY <1>0, <2>3, <3>1, <3>2, AttemptInside
  <2> QED
    BY <2>1, <2>2, <2>3
<1>2. CASE ReadNewlineDelimJson
  <2>1. CASE LineRefused
    BY <2>1, EndInside DEF LineRefused
  <2>2. CASE \E next \in 0..n : IsNext(offset, next) /\ Attempt(offset, next)
    <3>1. PICK next \in 0..n : IsNext(offset, next) /\ Attempt(offset, next)
      BY <2>2
    <3>2. next \in (offset + 1)..n
      BY <3>1 DEF IsNext
    <3> QED
      BY <1>0, <3>1, <3>2, AttemptInside
  <2> QED
    BY <1>2, <2>1, <2>2 DEF ReadNewlineDelimJson
<1>3. CASE UNCHANGED reader
  BY <1>3 DEF reader, InsideInv, ReadOK, ReadsInside, n, bytes
<1> QED
  BY <1>1, <1>2, <1>3

-----------------------------------------------------------------------------
\* ReadMsgpackFrame and ReadNewlineDelimJson never read outside the vector nor
\* a record twice, whatever the stream holds (r2go.go:1016, 1100).
THEOREM StaysInside == ReaderSpec => []ReadsInside
<1>1. InsideInv => ReadsInside
  BY DEF InsideInv
<1> QED
  BY <1>1, InitInside, StepInside, PTL DEF ReaderSpec

\* A call that returns a value returns a later offset: a loop that reads until
\* the end of a stream ends (r2go.go:1027, 1110).
THEOREM MovesOn == ReaderSpec => Advances
<1>1. InsideInv /\ [ReaderNext]_reader => [read' # read => offset' > offset]_reader
  BY StepInside
<1> QED
  BY <1>1, InitInside, StepInside, PTL DEF ReaderSpec, Advances

-----------------------------------------------------------------------------
\* All that a header decides.
Agree(p, q) ==
  /\ Fits(p) <=> Fits(q)
  /\ Fits(p) => headerSize(p) = headerSize(q) /\ totalFrameSize(p) = totalFrameSize(q)

\* Two views of the header that differ beyond the end agree.
LEMMA SameDecision ==
  ASSUME bytes \in Seq(Byte), offset \in 0..n, offset < n,
         NEW j \in Junk, NEW k \in Junk
  PROVE  Agree(Window(offset, j), Window(offset, k))
<1> DEFINE p == Window(offset, j)
           q == Window(offset, k)
<1>1. n \in Nat /\ offset \in Nat
  BY StreamBytes
<1>2. \A i \in 1..5 : offset + i \leq n => p[i] = q[i]
  BY DEF Window
<1>3. /\ p[1] \in 0..255 /\ p[2] \in 0..255 /\ p[3] \in 0..255 /\ p[4] \in 0..255 /\ p[5] \in 0..255
      /\ q[1] \in 0..255 /\ q[2] \in 0..255 /\ q[3] \in 0..255 /\ q[4] \in 0..255 /\ q[5] \in 0..255
  BY WindowBytes DEF Byte
<1>4. p[1] = q[1]
  BY <1>1, <1>2
<1>5. payloadSize(p) \in Nat /\ payloadSize(q) \in Nat /\ headerSize(p) = headerSize(q)
  BY <1>4, WindowBytes, Sizes DEF headerSize
<1>6. /\ offset + 1 \leq n => p[1] = q[1]
      /\ offset + 2 \leq n => p[2] = q[2]
      /\ offset + 3 \leq n => p[3] = q[3]
      /\ offset + 4 \leq n => p[4] = q[4]
      /\ offset + 5 \leq n => p[5] = q[5]
  BY <1>2
<1>7. offset + headerSize(p) \leq n => payloadSize(p) = payloadSize(q)
  <2> HIDE DEF p, q
  <2>1. CASE p[1] = Bin8
    BY <2>1, <1>1, <1>4, <1>6 DEF payloadSize, headerSize, Bin8, Bin16, Bin32
  <2>2. CASE p[1] = Bin16
    BY <2>2, <1>1, <1>4, <1>6 DEF payloadSize, headerSize, Bin8, Bin16, Bin32
  <2>3. CASE p[1] = Bin32
    BY <2>3, <1>1, <1>4, <1>6 DEF payloadSize, headerSize, Bin8, Bin16, Bin32
  <2>4. CASE p[1] \notin {Bin8, Bin16, Bin32}
    BY <2>4, <1>4 DEF payloadSize
  <2> QED
    BY <2>1, <2>2, <2>3, <2>4
<1>8. headerSize(p) \in Nat
  BY DEF headerSize
<1> HIDE DEF p, q
<1>9. CASE offset + headerSize(p) \leq n
  <2>1. Agree(p, q)
    BY <1>5, <1>7, <1>9 DEF Agree, Fits, totalFrameSize
  <2> QED
    BY <2>1 DEF p, q
<1>10. CASE ~(offset + headerSize(p) \leq n)
  <2>1. Agree(p, q)
    BY <1>1, <1>5, <1>8, <1>10 DEF Agree, Fits, totalFrameSize
  <2> QED
    BY <2>1 DEF p, q
<1> QED
  BY <1>9, <1>10

\* The five bytes that are always copied (r2go.go:1010) decide nothing that
\* the stream itself does not decide.
THEOREM OverreadSafe == ReaderSpec => []OverreadHarmless
<1>1. InsideInv => OverreadHarmless
  <2> SUFFICES ASSUME InsideInv PROVE OverreadHarmless
    OBVIOUS
  <2>1. bytes \in Seq(Byte) /\ offset \in 0..n
    BY DEF InsideInv, ReadOK, ReadsInside
  <2> QED
    BY <2>1, SameDecision DEF OverreadHarmless, Agree
<1> QED
  BY <1>1, InitInside, StepInside, PTL DEF ReaderSpec

-----------------------------------------------------------------------------
(* Streams that were written.                                              *)

\* The header that the format has for a size is read as that size.
LEMMA HeaderRead ==
  ASSUME NEW size \in Nat, NEW header \in Headers(size), NEW p,
         \A j \in 1..Len(header) : p[j] = header[j]
  PROVE  headerSize(p) = Len(header) /\ payloadSize(p) = size
<1>0. size \div 16777216 \in Int /\ size \div 65536 \in Int /\ size \div 256 \in Int
  OBVIOUS
<1>1. CASE \E k \in {size} \cap Byte : header = <<Bin8, k>>
  <2>1. header = <<Bin8, size>>
    BY <1>1
  <2>2. p[1] = Bin8 /\ p[2] = size /\ Len(header) = 2
    BY <2>1
  <2> QED
    BY <2>2 DEF headerSize, payloadSize, Bin8, Bin16, Bin32
<1>2. CASE \E k \in {size \div 256} \cap Byte : header = <<Bin16, k, size % 256>>
  <2>1. header = <<Bin16, size \div 256, size % 256>>
    BY <1>2
  <2>2. p[1] = Bin16 /\ p[2] = size \div 256 /\ p[3] = size % 256 /\ Len(header) = 3
    BY <2>1
  <2>3. 256 * (size \div 256) + (size % 256) = size
    OBVIOUS
  <2> QED
    BY <2>2, <2>3 DEF headerSize, payloadSize, Bin8, Bin16, Bin32
<1>3. CASE \E k \in {size \div 16777216} \cap Byte :
             header = <<Bin32, k, (size \div 65536) % 256, (size \div 256) % 256, size % 256>>
  <2>1. header = <<Bin32, size \div 16777216, (size \div 65536) % 256, (size \div 256) % 256, size % 256>>
    BY <1>3
  <2>2. /\ p[1] = Bin32 /\ p[2] = size \div 16777216 /\ p[3] = (size \div 65536) % 256
        /\ p[4] = (size \div 256) % 256 /\ p[5] = size % 256 /\ Len(header) = 5
    BY <2>1
  <2> DEFINE a == size \div 16777216
             b == size \div 65536
             c == size \div 256
  <2>3. 256 * c + (size % 256) = size
    OBVIOUS
  <2>4. 256 * b + (c % 256) = c
    OBVIOUS
  <2>5. 256 * a + (b % 256) = b
    OBVIOUS
  <2> HIDE DEF a, b, c
  <2>6. payloadSize(p) = 256 * (256 * (256 * p[2] + p[3]) + p[4]) + p[5] /\ headerSize(p) = 5
    BY <2>2 DEF headerSize, payloadSize, Bin8, Bin16, Bin32
  <2>7. p[2] = a /\ p[3] = b % 256 /\ p[4] = c % 256 /\ p[5] = size % 256
    BY <2>2 DEF a, b, c
  <2>8. 256 * (256 * (256 * p[2] + p[3]) + p[4]) + p[5] = size
    BY <2>3, <2>4, <2>5, <2>7
  <2> QED
    BY <2>2, <2>6, <2>8
<1> QED
  BY <1>1, <1>2, <1>3 DEF Headers

\* A sequence that agrees with a part of another one is that part.
LEMMA PartIs ==
  ASSUME NEW S, NEW s \in Seq(S), NEW r \in Seq(S), NEW a \in Nat, NEW b \in Nat,
         b = a + Len(r), b \leq Len(s), \A j \in 1..Len(r) : s[a + j] = r[j]
  PROVE  SubSeq(s, a + 1, b) = r
<1>1. \A i \in (a + 1)..b : s[i] \in S
  OBVIOUS
<1>2. /\ SubSeq(s, a + 1, b) \in Seq(S)
      /\ Len(SubSeq(s, a + 1, b)) = (IF a + 1 \leq b THEN b - (a + 1) + 1 ELSE 0)
      /\ \A i \in 1..(b - (a + 1) + 1) : SubSeq(s, a + 1, b)[i] = s[a + 1 + i - 1]
  BY <1>1, SubSeqProperties
<1>3. Len(SubSeq(s, a + 1, b)) = Len(r)
  BY <1>2
<1>4. \A i \in 1..Len(r) : SubSeq(s, a + 1, b)[i] = r[i]
  <2> TAKE i \in 1..Len(r)
  <2>1. i \in 1..(b - (a + 1) + 1) /\ a + 1 + i - 1 = a + i
    OBVIOUS
  <2> QED
    BY <1>2, <2>1
<1> QED
  BY <1>2, <1>3, <1>4, SeqEqual

\* Where the reader is after k whole records.
From(k) ==
  IF k = 0 THEN 0 ELSE stream.starts[k + 1] - (IF stream.format = "json" THEN 1 ELSE 0)

\* The types of a stream that was written.
LEMMA Written ==
  ASSUME WellWritten(stream)
  PROVE  /\ bytes \in Seq(Byte) /\ n \in Nat /\ n = Len(bytes)
         /\ Len(Records) \in Nat /\ Len(Records) \geq 1
         /\ stream.format \in {"msgpack", "json"} /\ stream.starts[1] = 0
         /\ \A i \in 1..(Len(Records) + 1) : stream.starts[i] \in Nat
         /\ \A i, j \in 1..(Len(Records) + 1) : i < j => stream.starts[i] < stream.starts[j]
         /\ \A i \in 1..Len(Records) :
              Records[i] \in Seq(Byte) /\ WrittenAt(stream, i) /\ Readable(stream, i)
         /\ NothingBehind(stream) /\ Len(stream.starts) = Len(Records) + 1
<1> USE DEF WellWritten, Records
<1>1. bytes \in Seq(Byte) /\ n \in Nat /\ n = Len(bytes)
  BY DEF bytes, n
<1>2. Records \in Seq(Seq(Byte)) /\ Records # <<>> /\ stream.starts \in Seq(Nat)
      /\ Len(stream.starts) = Len(Records) + 1
  OBVIOUS
<1>3. Len(Records) \in Nat /\ Len(Records) \geq 1
  BY <1>2
<1>4. DOMAIN stream.starts = 1..(Len(Records) + 1) /\ DOMAIN Records = 1..Len(Records)
  BY <1>2
<1>5. \A i \in 1..(Len(Records) + 1) : stream.starts[i] \in Nat
  BY <1>2, <1>4
<1>6. \A i \in 1..Len(Records) : Records[i] \in Seq(Byte)
  BY <1>2, <1>4
<1>7. \A i, j \in 1..(Len(Records) + 1) : i < j => stream.starts[i] < stream.starts[j]
  BY <1>4
<1>8. \A i \in 1..Len(Records) : WrittenAt(stream, i) /\ Readable(stream, i)
  BY <1>4
<1>9. stream.format \in {"msgpack", "json"} /\ stream.starts[1] = 0 /\ NothingBehind(stream)
  OBVIOUS
<1> QED
  BY <1>1, <1>2, <1>3, <1>5, <1>6, <1>7, <1>8, <1>9

\* A whole record is followed by whole records only.
LEMMA WholeOrder ==
  ASSUME WellWritten(stream), NEW i \in 1..Len(Records), NEW j \in 1..Len(Records),
         i < j, Whole(j)
  PROVE  Whole(i)
<1>1. stream.starts[i + 1] < stream.starts[j + 1] /\ stream.starts[i + 1] \in Nat /\ stream.starts[j + 1] \in Nat
      /\ n \in Nat
  <2>1. i + 1 \in 1..(Len(Records) + 1) /\ j + 1 \in 1..(Len(Records) + 1) /\ i + 1 < j + 1
    BY Written
  <2> QED
    BY <2>1, Written
<1> QED
  BY <1>1 DEF Whole


\* The first byte of a frame decides how long its header is.
LEMMA HeaderLength ==
  ASSUME NEW size \in Nat, NEW header \in Headers(size), NEW p, p[1] = header[1]
  PROVE  /\ headerSize(p) = Len(header) /\ header \in Seq(Byte)
         /\ Len(header) \in Nat /\ Len(header) \geq 2
<1>1. CASE \E k \in {size} \cap Byte : header = <<Bin8, k>>
  BY <1>1 DEF headerSize, Byte, Bin8, Bin16, Bin32
<1>2. CASE \E k \in {size \div 256} \cap Byte : header = <<Bin16, k, size % 256>>
  <2>1. size % 256 \in 0..255
    OBVIOUS
  <2> QED
    BY <1>2, <2>1 DEF headerSize, Byte, Bin8, Bin16, Bin32
<1>3. CASE \E k \in {size \div 16777216} \cap Byte :
             header = <<Bin32, k, (size \div 65536) % 256, (size \div 256) % 256, size % 256>>
  <2>1. size % 256 \in 0..255 /\ (size \div 65536) % 256 \in 0..255 /\ (size \div 256) % 256 \in 0..255
    <3>1. size \div 65536 \in Int /\ size \div 256 \in Int
      OBVIOUS
    <3> QED
      BY <3>1
  <2>2. PICK k \in Byte :
          header = <<Bin32, k, (size \div 65536) % 256, (size \div 256) % 256, size % 256>>
    BY <1>3
  <2>3. header[1] = Bin32 /\ Len(header) = 5
    BY <2>2
  <2>4. header \in Seq(Byte)
    BY <2>1, <2>2 DEF Byte, Bin32
  <2> QED
    BY <2>3, <2>4 DEF headerSize, Bin8, Bin16, Bin32
<1> QED
  BY <1>1, <1>2, <1>3 DEF Headers

\* At the start of a record its frame is taken when it is whole, and only then.
LEMMA FrameAt ==
  ASSUME WellWritten(stream), stream.format = "msgpack", offset \in 0..n, offset < n,
         NEW i \in 1..Len(Records), offset = stream.starts[i], NEW junk \in Junk
  PROVE  LET p == Window(offset, junk)
         IN  /\ totalFrameSize(p) # 0
             /\ Fits(p) <=> Whole(i)
             /\ Fits(p) => /\ offset + totalFrameSize(p) = stream.starts[i + 1]
                           /\ Extent(offset + headerSize(p), offset + totalFrameSize(p)) = Records[i]
<1> DEFINE p == Window(offset, junk)
           r == Records[i]
<1>1. bytes \in Seq(Byte) /\ n \in Nat /\ n = Len(bytes) /\ stream.starts[i] \in Nat
      /\ r \in Seq(Byte) /\ WrittenAt(stream, i)
  BY Written
<1>0. n \in Nat /\ offset \in Nat
  BY <1>1
<1>2. PICK header \in Headers(Len(r)) :
        /\ stream.starts[i + 1] = stream.starts[i] + Len(header \o r)
        /\ \A j \in 1..Len(header \o r) :
             stream.starts[i] + j \leq Len(bytes) => bytes[stream.starts[i] + j] = (header \o r)[j]
  BY <1>1 DEF WrittenAt, Framings, Records, bytes
<1>3. Len(r) \in Nat
  BY <1>1
<1>4. header \in Seq(Byte) /\ Len(header) \in Nat /\ Len(header) \geq 2
  <2>1. [x \in {1} |-> header[1]][1] = header[1]
    OBVIOUS
  <2> QED
    BY <1>3, <2>1, HeaderLength
<1>5. /\ Len(header \o r) = Len(header) + Len(r)
      /\ \A j \in 1..Len(header) : (header \o r)[j] = header[j]
      /\ \A j \in 1..Len(r) : (header \o r)[Len(header) + j] = r[j]
  <2>1. /\ Len(header \o r) = Len(header) + Len(r)
        /\ \A j \in 1..(Len(header) + Len(r)) :
             (header \o r)[j] = IF j <= Len(header) THEN header[j] ELSE r[j - Len(header)]
    BY <1>1, <1>4, ConcatProperties
  <2>2. \A j \in 1..Len(header) : j \in 1..(Len(header) + Len(r)) /\ j \leq Len(header)
    BY <1>3, <1>4
  <2>3. \A j \in 1..Len(r) : /\ Len(header) + j \in 1..(Len(header) + Len(r))
                             /\ ~(Len(header) + j \leq Len(header))
                             /\ Len(header) + j - Len(header) = j
    BY <1>3, <1>4
  <2> QED
    BY <2>1, <2>2, <2>3
<1>6. \A j \in 1..Len(header) : j \leq 5 /\ offset + j \leq n => p[j] = header[j]
  <2> TAKE j \in 1..Len(header)
  <2> HAVE j \leq 5 /\ offset + j \leq n
  <2>1. j \in 1..5 /\ j \in 1..Len(header \o r)
    BY <1>3, <1>4, <1>5
  <2>2. p[j] = bytes[offset + j]
    BY <2>1 DEF Window
  <2> QED
    BY <1>1, <1>2, <1>5, <2>1, <2>2
<1>7. p[1] = header[1]
  BY <1>1, <1>4, <1>6
<1>8. headerSize(p) = Len(header) /\ Len(header) \leq 5
  <2>1. headerSize(p) = Len(header)
    BY <1>3, <1>7, HeaderLength
  <2>2. headerSize(p) \leq 5
    BY DEF headerSize
  <2> QED
    BY <2>1, <2>2
<1>9. payloadSize(p) \in Nat
  BY <1>1, WindowBytes, Sizes
<1> HIDE DEF p
<1>10. CASE offset + Len(header) > n
  <2>0. \A x \in Nat : ~(offset + (Len(header) + x) \leq n)
    BY <1>0, <1>4, <1>10
  <2>1. ~Fits(p)
    <3>1. totalFrameSize(p) = Len(header) + payloadSize(p)
      BY <1>8 DEF totalFrameSize
    <3> QED
      BY <1>0, <1>4, <1>9, <1>10, <2>0, <3>1 DEF Fits
  <2>2. ~Whole(i)
    <3>1. stream.starts[i + 1] = offset + (Len(header) + Len(r))
      BY <1>2, <1>5
    <3>2. Whole(i) => stream.starts[i + 1] \leq n
      <4>1. stream.starts[i + 1] \in Nat
        BY <1>0, <1>3, <1>4, <3>1
      <4> QED
        BY <4>1 DEF Whole
    <3> QED
      BY <1>3, <2>0, <3>1, <3>2
  <2>3. totalFrameSize(p) # 0
    BY <1>4, <1>8, <1>9 DEF totalFrameSize
  <2> QED
    BY <2>1, <2>2, <2>3 DEF p
<1>11. CASE offset + Len(header) \leq n
  <2>1. \A j \in 1..Len(header) : p[j] = header[j]
    <3>1. \A j \in 1..Len(header) : j \leq 5 /\ offset + j \leq n
      BY <1>0, <1>4, <1>8, <1>11
    <3> QED
      BY <1>6, <3>1
  <2>2. payloadSize(p) = Len(r)
    BY <1>3, <2>1, HeaderRead
  <2>3. offset + totalFrameSize(p) = stream.starts[i + 1] /\ totalFrameSize(p) # 0
    BY <1>1, <1>2, <1>3, <1>4, <1>5, <1>8, <2>2 DEF totalFrameSize
  <2>4. Fits(p) <=> Whole(i)
    <3>1. stream.starts[i + 1] \in Nat
      BY <1>1, <1>2, <1>3, <1>4, <1>5
    <3> QED
      BY <2>3, <3>1 DEF Fits, Whole
  <2>5. ASSUME Fits(p)
        PROVE  Extent(offset + headerSize(p), offset + totalFrameSize(p)) = r
    <3>1. offset + totalFrameSize(p) \leq Len(bytes)
      BY <1>1, <2>5 DEF Fits
    <3>2. offset + headerSize(p) \in Nat /\ offset + totalFrameSize(p) \in Nat
          /\ offset + totalFrameSize(p) = offset + headerSize(p) + Len(r)
      <4>1. totalFrameSize(p) = headerSize(p) + Len(r) /\ headerSize(p) \in Nat
        BY <1>4, <1>8, <2>2 DEF totalFrameSize
      <4>2. \A o, h, l \in Nat : o + h \in Nat /\ o + (h + l) \in Nat /\ o + (h + l) = o + h + l
        OBVIOUS
      <4> QED
        BY <1>0, <1>3, <4>1, <4>2
    <3>3. \A j \in 1..Len(r) : bytes[offset + headerSize(p) + j] = r[j]
      <4> TAKE j \in 1..Len(r)
      <4>1. Len(header) + j \in 1..Len(header \o r)
        BY <1>3, <1>4, <1>5
      <4>2. offset + (Len(header) + j) \leq Len(bytes) /\ Len(bytes) \in Nat
        <5>1. Len(bytes) \in Nat /\ j \in Nat /\ j \leq Len(r)
          BY <1>0, <1>1, <1>3
        <5>2. \A o, h, l, x, y \in Nat : o + h + l \leq y /\ x \leq l => o + (h + x) \leq y
          OBVIOUS
        <5> QED
          BY <1>0, <1>3, <1>4, <1>8, <3>1, <3>2, <5>1, <5>2
      <4>3. bytes[stream.starts[i] + (Len(header) + j)] = r[j]
        BY <1>2, <1>5, <4>1, <4>2
      <4>4. offset + headerSize(p) + j = offset + (Len(header) + j)
        <5>1. \A o, h, x \in Nat : o + h + x = o + (h + x)
          OBVIOUS
        <5>2. j \in Nat
          BY <1>3
        <5>3. offset + headerSize(p) + j = offset + Len(header) + j
          BY <1>8
        <5> QED
          BY <1>0, <1>4, <5>1, <5>2, <5>3
      <4> QED
        BY <4>3, <4>4
    <3> DEFINE a == offset + headerSize(p)
               b == offset + totalFrameSize(p)
    <3> HIDE DEF a, b
    <3>4. a \in Nat /\ b \in Nat /\ b = a + Len(r) /\ b \leq Len(bytes) /\ \A j \in 1..Len(r) : bytes[a + j] = r[j]
      BY <3>1, <3>2, <3>3 DEF a, b
    <3>5. SubSeq(bytes, a + 1, b) = r
      BY <1>1, <3>4, PartIs
    <3> QED
      BY <3>5 DEF Extent, a, b
  <2> QED
    BY <2>3, <2>4, <2>5 DEF p
<1> QED
  BY <1>1, <1>4, <1>10, <1>11


\* The line of record i + 1 in the vector, as far as it goes.
LEMMA LineText ==
  ASSUME WellWritten(stream), stream.format = "json", NEW i \in 1..Len(Records)
  PROVE  /\ Len(Records[i]) \in Nat /\ Len(Records[i]) \geq 1
         /\ stream.starts[i] \in Nat
         /\ stream.starts[i + 1] = stream.starts[i] + Len(Records[i]) + 1
         /\ \A j \in 1..Len(Records[i]) :
              /\ Records[i][j] # Newline
              /\ stream.starts[i] + j \leq n => bytes[stream.starts[i] + j] = Records[i][j]
         /\ stream.starts[i + 1] \leq n => bytes[stream.starts[i + 1]] = Newline
         /\ Decodes("json", IF i = 1 THEN Records[i] ELSE <<Newline>> \o Records[i])
         /\ Whole(i) <=> stream.starts[i] + Len(Records[i]) \leq n
<1> DEFINE r == Records[i]
<1>1. bytes \in Seq(Byte) /\ n \in Nat /\ n = Len(bytes) /\ stream.starts[i] \in Nat
      /\ r \in Seq(Byte) /\ WrittenAt(stream, i) /\ Readable(stream, i)
  BY Written
<1>2. /\ stream.starts[i + 1] = stream.starts[i] + Len(Append(r, Newline))
      /\ \A j \in 1..Len(Append(r, Newline)) :
           stream.starts[i] + j \leq Len(bytes) => bytes[stream.starts[i] + j] = Append(r, Newline)[j]
  BY <1>1 DEF WrittenAt, Framings, Records, bytes
<1>3. r # <<>> /\ (\A j \in DOMAIN r : r[j] # Newline)
      /\ Decodes("json", IF i = 1 THEN r ELSE <<Newline>> \o r)
  BY <1>1 DEF Readable, Records
<1>4. /\ Len(r) \in Nat /\ Len(r) \geq 1 /\ Len(Append(r, Newline)) = Len(r) + 1
      /\ Append(r, Newline)[Len(r) + 1] = Newline
      /\ \A j \in 1..Len(r) : j \in DOMAIN r /\ Append(r, Newline)[j] = r[j] /\ j \in 1..(Len(r) + 1)
  BY <1>1, <1>3
<1>5. stream.starts[i + 1] = stream.starts[i] + Len(r) + 1
  <2>1. stream.starts[i + 1] = stream.starts[i] + (Len(r) + 1)
    BY <1>2, <1>4
  <2>2. \A x, y \in Nat : x + (y + 1) = x + y + 1
    OBVIOUS
  <2> QED
    BY <1>1, <1>4, <2>1, <2>2
<1>6. \A j \in 1..Len(r) :
        r[j] # Newline /\ (stream.starts[i] + j \leq n => bytes[stream.starts[i] + j] = r[j])
  BY <1>1, <1>2, <1>3, <1>4
<1>7. stream.starts[i + 1] \leq n => bytes[stream.starts[i + 1]] = Newline
  <2>1. Len(r) + 1 \in 1..Len(Append(r, Newline)) /\ stream.starts[i] + (Len(r) + 1) = stream.starts[i + 1]
    <3>1. Len(r) + 1 \in 1..(Len(r) + 1)
      BY <1>4
    <3> QED
      BY <1>2, <1>4, <3>1
  <2> QED
    BY <1>1, <1>2, <1>4, <2>1
<1>8. Whole(i) <=> stream.starts[i] + Len(r) \leq n
  BY <1>1, <1>4, <1>5 DEF Whole
<1> QED
  BY <1>1, <1>3, <1>4, <1>5, <1>6, <1>7, <1>8

\* Where the next newline is, from the start of a line: at its end, or nowhere.
LEMMA NextNewline ==
  ASSUME WellWritten(stream), stream.format = "json", NEW i \in 1..Len(Records),
         NEW start \in Nat, start = From(i - 1), NEW next \in 0..n, IsNext(start, next)
  PROVE  next = IF Whole(i) THEN stream.starts[i] + Len(Records[i]) ELSE n
<1> DEFINE a == stream.starts[i]
           e == a + Len(Records[i])
<1>1. n \in Nat /\ a \in Nat /\ e \in Nat /\ a + 1 \leq e /\ stream.starts[i + 1] = e + 1
      /\ (Whole(i) <=> e \leq n)
  <2>1. /\ n \in Nat /\ a \in Nat /\ Len(Records[i]) \in Nat /\ Len(Records[i]) \geq 1
        /\ stream.starts[i + 1] = a + Len(Records[i]) + 1
        /\ Whole(i) <=> a + Len(Records[i]) \leq n
    BY Written, LineText
  <2>2. \A x, l \in Nat : l \geq 1 => x + l \in Nat /\ x + 1 \leq x + l
    OBVIOUS
  <2> QED
    BY <2>1, <2>2
<1>2. start \leq a /\ a \leq start + 1
  <2>1. CASE i = 1
    BY <2>1, Written DEF From
  <2>2. CASE i # 1
    <3>1. i - 1 # 0 /\ i - 1 + 1 = i
      BY <2>2, Written
    <3>2. start = a - 1
      BY <3>1 DEF From
    <3>3. \A x, y \in Nat : x = y - 1 => x \leq y /\ y \leq x + 1
      OBVIOUS
    <3> QED
      BY <1>1, <3>2, <3>3
  <2> QED
    BY <2>1, <2>2
<1>3. /\ next \in (start + 1)..n
      /\ next < n => bytes[next + 1] = Newline
      /\ \A j \in (start + 1)..(next - 1) : bytes[j + 1] # Newline
  BY DEF IsNext
<1>4. \A j \in 1..Len(Records[i]) :
        Records[i][j] # Newline /\ (a + j \leq n => bytes[a + j] = Records[i][j])
  BY LineText
<1>5. \A x \in Nat : a < x /\ x \leq e /\ x \leq n => bytes[x] # Newline
  <2> TAKE x \in Nat
  <2> HAVE a < x /\ x \leq e /\ x \leq n
  <2>1. x - a \in 1..Len(Records[i]) /\ a + (x - a) = x
    <3>1. Len(Records[i]) \in Nat /\ a \in Nat
      BY LineText
    <3> QED
      BY <3>1
  <2> QED
    BY <1>4, <2>1
<1>6. CASE Whole(i)
  <2>1. ~(next < e)
    <3> SUFFICES ASSUME next < e PROVE FALSE
      OBVIOUS
    <3>1. next + 1 \in Nat /\ a < next + 1 /\ next + 1 \leq e /\ next + 1 \leq n /\ next < n
      BY <1>1, <1>2, <1>3, <1>6
    <3> QED
      BY <1>3, <1>5, <3>1
  <2>2. ~(next > e)
    <3> SUFFICES ASSUME next > e PROVE FALSE
      OBVIOUS
    <3>1. e \in (start + 1)..(next - 1) /\ e + 1 \leq n
      <4> HIDE DEF e, a
      <4> QED
        BY <1>1, <1>2
    <3>2. bytes[e + 1] = Newline
      BY <1>1, <3>1, LineText
    <3> QED
      BY <1>3, <3>1, <3>2
  <2>3. next = e
    BY <1>1, <2>1, <2>2
  <2> QED
    BY <2>3, <1>6
<1>7. CASE ~Whole(i)
  <2>1. ~(next < n)
    <3> SUFFICES ASSUME next < n PROVE FALSE
      OBVIOUS
    <3>1. next + 1 \in Nat /\ a < next + 1 /\ next + 1 \leq e /\ next + 1 \leq n
      BY <1>1, <1>2, <1>3, <1>7
    <3> QED
      BY <1>3, <1>5, <3>1
  <2>2. next = n
    BY <1>1, <2>1
  <2> QED
    BY <2>2, <1>7
<1> QED
  BY <1>6, <1>7

\* A record as the decoder sees it, in a text.
PayloadOf(text) ==
  IF stream.format = "json" /\ text # <<>> /\ text[1] = Newline THEN Tail(text) ELSE text

\* A line is read from the newline before it: as its record, or the part of it
\* that is there.
LEMMA LineRead ==
  ASSUME WellWritten(stream), stream.format = "json", NEW i \in 1..Len(Records),
         NEW to \in Nat, to \leq n, From(i - 1) < to,
         to \leq stream.starts[i] + Len(Records[i])
  PROVE  LET text == Extent(From(i - 1), to)
             size == to - stream.starts[i]
         IN  /\ text = (IF i = 1 THEN <<>> ELSE <<Newline>>) \o SubSeq(Records[i], 1, size)
             /\ PayloadOf(text) = SubSeq(Records[i], 1, Len(PayloadOf(text)))
             /\ size = Len(Records[i]) => PayloadOf(text) = Records[i]
<1> DEFINE r == Records[i]
           a == stream.starts[i]
           size == to - a
           part == SubSeq(r, 1, size)
           text == Extent(From(i - 1), to)
<1>1. bytes \in Seq(Byte) /\ n \in Nat /\ n = Len(bytes) /\ r \in Seq(Byte) /\ a \in Nat /\ Len(r) \in Nat
      /\ Newline \in Byte
  BY Written, LineText DEF Byte, Newline
<1>2. \A j \in 1..Len(r) : r[j] # Newline /\ (a + j \leq n => bytes[a + j] = r[j])
  BY LineText
<1>3. (i = 1 => From(i - 1) = 0 /\ a = 0) /\ (i # 1 => From(i - 1) = a - 1 /\ a \geq 1)
  <2>1. i = 1 => From(i - 1) = 0 /\ a = 0
    BY Written DEF From
  <2>2. i # 1 => From(i - 1) = a - 1 /\ a \geq 1
    <3>1. i # 1 => 1 \in 1..(Len(Records) + 1) /\ i \in 1..(Len(Records) + 1) /\ 1 < i
      BY Written
    <3>2. i # 1 => a > 0
      BY <3>1, Written
    <3> QED
      BY <3>2, <1>1 DEF From
  <2> QED
    BY <2>1, <2>2
<1>4. size \in 0..Len(r)
  BY <1>1, <1>3
<1>5. /\ part \in Seq(Byte) /\ Len(part) = size
      /\ \A j \in 1..size : part[j] = r[j]
  <2>1. \A j \in 1..size : r[j] \in Byte
    BY <1>1, <1>4
  <2>2. /\ part \in Seq(Byte)
        /\ Len(part) = (IF 1 \leq size THEN size - 1 + 1 ELSE 0)
        /\ \A j \in 1..(size - 1 + 1) : part[j] = r[1 + j - 1]
    BY <1>4, <2>1, SubSeqProperties
  <2>3. \A j \in 1..size : j \in 1..(size - 1 + 1) /\ 1 + j - 1 = j
    BY <1>4
  <2> QED
    BY <1>4, <2>2, <2>3
<1>6. \A j \in 1..size : bytes[a + j] = part[j]
  <2> TAKE j \in 1..size
  <2>1. j \in 1..Len(r) /\ a + j \leq n
    BY <1>1, <1>4
  <2> QED
    BY <1>2, <1>5, <2>1
<1>7. size = Len(r) => part = r
  BY <1>1, <1>5, SeqEqual
<1>8. part # <<>> => part[1] # Newline
  <2>1. part # <<>> => 1 \in 1..size /\ 1 \in 1..Len(r)
    BY <1>4, <1>5
  <2> QED
    BY <2>1, <1>2, <1>5
<1> HIDE DEF part, size, a, r
<1>9. size = to - a /\ part = SubSeq(r, 1, size)
  BY DEF size, part
<1>10. CASE i = 1
  <2>1. SubSeq(bytes, 0 + 1, to) = part
    <3>1. to = 0 + Len(part) /\ \A j \in 1..Len(part) : bytes[0 + j] = part[j]
      BY <1>1, <1>3, <1>5, <1>6, <1>9, <1>10
    <3> QED
      BY <1>1, <1>5, <3>1, PartIs
  <2>2. text = part
    BY <2>1, <1>3, <1>10 DEF Extent
  <2>3. PayloadOf(text) = part
    BY <2>2, <1>8 DEF PayloadOf
  <2>4. <<>> \o part = part
    BY <1>5, ConcatEmptySeq
  <2>5. part = SubSeq(r, 1, Len(part))
    BY <1>5, <1>9
  <2> HIDE DEF text
  <2>6. /\ text = (IF i = 1 THEN <<>> ELSE <<Newline>>) \o part
        /\ PayloadOf(text) = SubSeq(r, 1, Len(PayloadOf(text)))
        /\ size = Len(r) => PayloadOf(text) = r
    BY <2>2, <2>3, <2>4, <2>5, <1>7, <1>10
  <2> QED
    BY <2>6 DEF text, part, size, a, r
<1>11. CASE i # 1
  <2> DEFINE whole == <<Newline>> \o part
  <2>1. <<Newline>> \in Seq(Byte) /\ Len(<<Newline>>) = 1 /\ <<Newline>>[1] = Newline
    BY <1>1
  <2>2. /\ whole \in Seq(Byte) /\ Len(whole) = 1 + Len(part)
        /\ \A j \in 1..(1 + Len(part)) : whole[j] = IF j \leq 1 THEN <<Newline>>[j] ELSE part[j - 1]
    BY <1>5, <2>1, ConcatProperties
  <2>3. bytes[a] = Newline
    <3>1. i - 1 \in 1..Len(Records) /\ i - 1 + 1 = i
      BY <1>11, Written
    <3>2. a \leq n
      BY <1>1, <1>3, <1>11
    <3>3. stream.starts[i - 1 + 1] \leq n => bytes[stream.starts[i - 1 + 1]] = Newline
      BY <3>1, LineText
    <3> QED
      BY <3>1, <3>2, <3>3 DEF a
  <2> HIDE DEF whole
  <2>4. \A j \in 1..Len(whole) : bytes[a - 1 + j] = whole[j]
    <3> TAKE j \in 1..Len(whole)
    <3>0. Len(part) \in Nat /\ Len(part) = size
      BY <1>4, <1>5
    <3>1. CASE j = 1
      BY <3>1, <1>1, <2>1, <2>2, <2>3, <3>0
    <3>2. CASE j # 1
      <4>1. j - 1 \in 1..size /\ a - 1 + j = a + (j - 1) /\ j \in 1..(1 + Len(part)) /\ ~(j \leq 1)
        BY <1>1, <2>2, <3>0, <3>2
      <4> QED
        BY <1>6, <2>2, <4>1
    <3> QED
      BY <3>1, <3>2
  <2>5. SubSeq(bytes, a - 1 + 1, to) = whole
    <3>1. a - 1 \in Nat /\ to = a - 1 + Len(whole) /\ to \leq Len(bytes)
      BY <1>1, <1>3, <1>4, <1>5, <1>9, <1>11, <2>2
    <3> QED
      BY <1>1, <2>2, <2>4, <3>1, PartIs
  <2>6. text = whole
    BY <2>5, <1>3, <1>11 DEF Extent
  <2>7. whole # <<>> /\ whole[1] = Newline /\ Tail(whole) = part
    <3>1. Len(part) \in Nat
      BY <1>4, <1>5
    <3>2. Len(whole) # 0 /\ whole[1] = Newline
      BY <2>1, <2>2, <3>1
    <3>3. whole # <<>>
      BY <3>2, <2>2
    <3>4. /\ Tail(whole) \in Seq(Byte) /\ Len(Tail(whole)) = Len(whole) - 1
          /\ \A j \in 1..Len(Tail(whole)) : Tail(whole)[j] = whole[j + 1]
      BY <2>2, <3>3, HeadTailProperties
    <3>5. \A j \in 1..Len(part) : Tail(whole)[j] = part[j]
      <4> TAKE j \in 1..Len(part)
      <4>1. j \in 1..Len(Tail(whole)) /\ j + 1 \in 1..(1 + Len(part)) /\ ~(j + 1 \leq 1) /\ j + 1 - 1 = j
        BY <2>2, <3>1, <3>4
      <4> QED
        BY <2>2, <3>4, <4>1
    <3>6. Len(Tail(whole)) = Len(part)
      BY <2>2, <3>1, <3>4
    <3>7. Tail(whole) = part
      BY <1>5, <3>4, <3>5, <3>6, SeqEqual
    <3> QED
      BY <3>2, <3>3, <3>7
  <2>8. PayloadOf(text) = part
    BY <2>6, <2>7 DEF PayloadOf
  <2>9. part = SubSeq(r, 1, Len(part))
    BY <1>5, <1>9
  <2> HIDE DEF text
  <2>10. /\ text = (IF i = 1 THEN <<>> ELSE <<Newline>>) \o part
         /\ PayloadOf(text) = SubSeq(r, 1, Len(PayloadOf(text)))
         /\ size = Len(r) => PayloadOf(text) = r
    BY <2>6, <2>8, <2>9, <1>7, <1>11 DEF whole
  <2> QED
    BY <2>10 DEF text, part, size, a, r
<1> QED
  BY <1>10, <1>11


-----------------------------------------------------------------------------
\* Extent i is that of record i, whole or, at the end of the vector, in part.
RecordRead(i) ==
  \/ Payload(i) = Records[i]
  \/ /\ stream.format = "json" /\ read[i][2] = n
     /\ Payload(i) = SubSeq(Records[i], 1, Len(Payload(i)))

\* After k records the reader is at the start of the next one, or a line that
\* is there in part took it to the end.
Caught(k) == k \geq 1 /\ stream.format = "json" /\ offset = n /\ ~Whole(k)

Progress ==
  LET k == Len(read)
  IN  /\ k \leq Len(Records)
      /\ offset = From(k) \/ Caught(k)
      /\ \A i \in 1..k : RecordRead(i)
      /\ \A i \in 1..k : Whole(i) \/ (i = k /\ Caught(k))
      /\ status # "reading" =>
           /\ k < Len(Records) => ~Whole(k + 1)
           /\ status = "panic" => n > stream.starts[Len(stream.starts)]

\* What holds of a reader of a stream that was written.
WrittenInv == WellWritten(stream) /\ InsideInv /\ Progress

LEMMA ProgressRead ==
  ASSUME WrittenInv
  PROVE  ReadsRecords /\ ReadsToEnd
<1> DEFINE k == Len(read)
<1>1. k \in Nat /\ Len(Records) \in Nat /\ k \leq Len(Records)
  BY Written DEF WrittenInv, InsideInv, ReadOK, Progress
<1>2. ReadsRecords
  BY DEF WrittenInv, Progress, ReadsRecords, RecordRead
<1>3. ASSUME status # "reading"
      PROVE  \A i \in 1..Len(Records) : Whole(i) => i \leq k
  <2> SUFFICES ASSUME NEW i \in 1..Len(Records), Whole(i), ~(i \leq k)
               PROVE  FALSE
    OBVIOUS
  <2>1. k < Len(Records) /\ k + 1 \in 1..Len(Records) /\ (i = k + 1 \/ k + 1 < i)
    BY <1>1
  <2>2. ~Whole(k + 1)
    BY <1>3, <2>1 DEF WrittenInv, Progress
  <2>3. Whole(k + 1)
    BY <2>1, WholeOrder DEF WrittenInv
  <2> QED
    BY <2>2, <2>3
<1>4. \A i \in 1..(k - 1) : Whole(i)
  <2>1. \A i \in 1..(k - 1) : i \in 1..k /\ i # k
    BY <1>1
  <2> QED
    BY <2>1 DEF WrittenInv, Progress
<1>5. ReadsToEnd
  BY <1>3, <1>4 DEF ReadsToEnd, WrittenInv, Progress
<1> QED
  BY <1>2, <1>5

LEMMA InitProgress == ReaderInit => WrittenInv
<1> SUFFICES ASSUME ReaderInit PROVE WrittenInv
  OBVIOUS
<1>1. WellWritten(stream) /\ InsideInv /\ Len(read) = 0
  BY FramesAssumption, InitInside DEF ReaderInit
<1>2. Len(Records) \in Nat
  BY <1>1, Written
<1> QED
  BY <1>1, <1>2 DEF ReaderInit, WrittenInv, Progress, From

\* A call that fails ends the reading where no whole record is left.
LEMMA EndProgress ==
  ASSUME WrittenInv, NEW how, End(how),
         Len(read) < Len(Records) => ~Whole(Len(read) + 1),
         how = "panic" => n > stream.starts[Len(stream.starts)]
  PROVE  WrittenInv'
<1>1. InsideInv'
  BY EndInside DEF WrittenInv
<1>2. UNCHANGED <<stream, offset, read>> /\ status' = how
  BY DEF End
<1>3. bytes' = bytes /\ n' = n /\ Records' = Records
  BY <1>2 DEF bytes, n, Records
<1>4. \A i : Whole(i)' <=> Whole(i)
  BY <1>2, <1>3 DEF Whole
<1>5. \A i : RecordRead(i)' <=> RecordRead(i)
  BY <1>2, <1>3 DEF RecordRead, Payload, Extent
<1>6. \A i : From(i)' = From(i) /\ (Caught(i)' <=> Caught(i))
  BY <1>2, <1>3, <1>4 DEF From, Caught
<1> QED
  BY <1>1, <1>2, <1>3, <1>4, <1>5, <1>6 DEF WrittenInv, Progress

\* A call that returns the next record.
LEMMA ReadProgress ==
  ASSUME WrittenInv, InsideInv', status = "reading", NEW from \in Int, NEW to \in Int,
         offset' = to, read' = Append(read, <<from, to>>), UNCHANGED <<stream, status>>,
         Len(read) < Len(Records), offset = From(Len(read)),
         LET i == Len(read) + 1
             payload == PayloadOf(Extent(from, to))
         IN  \/ Whole(i) /\ to = From(i) /\ payload = Records[i]
             \/ /\ ~Whole(i) /\ stream.format = "json" /\ to = n
                /\ payload = SubSeq(Records[i], 1, Len(payload))
  PROVE  WrittenInv'
<1>0. PICK k : k = Len(read)
  OBVIOUS
<1>1. read \in Seq(Int \X Int) /\ k \in Nat /\ <<from, to>> \in Int \X Int
  BY <1>0 DEF WrittenInv, InsideInv, ReadOK
<1>2. /\ Len(read') = k + 1 /\ read'[k + 1] = <<from, to>>
      /\ \A i \in 1..k : read'[i] = read[i]
  BY <1>0, <1>1
<1>3. bytes' = bytes /\ n' = n /\ Records' = Records
  BY DEF bytes, n, Records
<1>4. \A i : (Whole(i)' <=> Whole(i)) /\ From(i)' = From(i)
  BY <1>3 DEF Whole, From
<1>5. \A i \in 1..k : RecordRead(i)' <=> RecordRead(i)
  BY <1>2, <1>3 DEF RecordRead, Payload, Extent
<1>6. Payload(k + 1)' = PayloadOf(Extent(from, to))
  <2>1. read'[k + 1][1] = from /\ read'[k + 1][2] = to
    BY <1>2
  <2>2. Extent(read[k + 1][1], read[k + 1][2])' = Extent(from, to)
    BY <1>3, <2>1 DEF Extent
  <2> QED
    BY <2>2 DEF Payload, PayloadOf
<1>7. RecordRead(k + 1)'
  <2>1. read'[k + 1][2] = to
    BY <1>2
  <2> QED
    BY <1>0, <1>3, <1>6, <2>1 DEF RecordRead
<1>8. \A i \in 1..(k + 1) : i = k + 1 \/ i \in 1..k
  BY <1>1
<1>9. offset' = From(k + 1)' \/ Caught(k + 1)'
  BY <1>0, <1>1, <1>3, <1>4 DEF Caught
<1>10. \A i \in 1..k : Whole(i)
  <2> SUFFICES ASSUME NEW i \in 1..k, ~Whole(i) PROVE FALSE
    OBVIOUS
  <2>1. i = k /\ Caught(k)
    BY <1>0 DEF WrittenInv, Progress
  <2>2. From(k) = n /\ n \in Nat /\ stream.starts[k + 1] \in Nat /\ k \geq 1 /\ stream.format = "json"
    <3>1. k + 1 \in 1..(Len(Records) + 1)
      BY <1>0, <1>1, Written DEF WrittenInv
    <3>2. offset = n /\ k \geq 1 /\ stream.format = "json"
      BY <2>1 DEF Caught
    <3> QED
      BY <1>0, <3>1, <3>2, Written DEF WrittenInv
  <2>3. stream.starts[k + 1] - 1 = n
    BY <1>1, <2>2 DEF From
  <2> QED
    BY <2>1, <2>2, <2>3 DEF Whole, Caught
<1>11. \A i \in 1..(k + 1) : Whole(i)' \/ (i = k + 1 /\ Caught(k + 1)')
  <2> TAKE i \in 1..(k + 1)
  <2>1. CASE i \in 1..k
    BY <2>1, <1>4, <1>10
  <2>2. CASE i = k + 1
    <3>1. CASE Whole(k + 1)
      BY <3>1, <2>2, <1>4
    <3>2. CASE ~Whole(k + 1)
      <4>1. stream.format = "json" /\ to = n /\ k + 1 \geq 1
        BY <1>0, <3>2, <1>1
      <4>2. Caught(k + 1)'
        BY <4>1, <3>2, <1>3, <1>4 DEF Caught
      <4> QED
        BY <4>2, <2>2
    <3> QED
      BY <3>1, <3>2
  <2> QED
    BY <2>1, <2>2, <1>8
<1>12. \A i \in 1..(k + 1) : RecordRead(i)'
  BY <1>0, <1>5, <1>7, <1>8 DEF WrittenInv, Progress
<1>13. k + 1 \leq Len(Records) /\ status' = "reading" /\ WellWritten(stream)'
  BY <1>0, <1>1, Written DEF WrittenInv
<1>14. Progress'
  BY <1>2, <1>3, <1>9, <1>11, <1>12, <1>13 DEF Progress
<1> QED
  BY <1>13, <1>14 DEF WrittenInv


LEMMA FromIs ==
  ASSUME WellWritten(stream), NEW k \in 0..Len(Records)
  PROVE  /\ stream.starts[k + 1] \in Nat
         /\ stream.format = "msgpack" => From(k) = stream.starts[k + 1]
         /\ stream.format = "json" => From(k) = IF k = 0 THEN 0 ELSE stream.starts[k + 1] - 1
<1>1. Len(Records) \in Nat /\ stream.starts[1] = 0
  BY Written
<1>2. k + 1 \in 1..(Len(Records) + 1) /\ (k = 0 => k + 1 = 1)
  BY <1>1
<1>3. stream.starts[k + 1] \in Nat
  BY <1>2, Written
<1> QED
  BY <1>1, <1>2, <1>3 DEF From

\* Bytes that are no frame of the format have a size of 0.
LEMMA NoFrame ==
  ASSUME NEW p, p[1] \notin {Bin8, Bin16, Bin32}
  PROVE  headerSize(p) = 0 /\ totalFrameSize(p) = 0
BY DEF headerSize, payloadSize, totalFrameSize

\* One frame: refused behind the last whole record, and read before it.
LEMMA FrameProgress ==
  ASSUME WrittenInv, InsideInv', status = "reading", stream.format = "msgpack", NEW junk \in Junk,
         LET p == Window(offset, junk)
         IN  \/ FrameRefused(p)
             \/ IsFrame(p) /\ Attempt(offset + headerSize(p), offset + totalFrameSize(p))
  PROVE  WrittenInv'
<1> DEFINE p == Window(offset, junk)
           k == Len(read)
           N == Len(Records)
           end == stream.starts[Len(stream.starts)]
<1>1. n \in Nat /\ n = Len(bytes) /\ offset \in 0..n /\ k \in 0..N /\ N \in Nat /\ N \geq 1
  BY Written DEF WrittenInv, InsideInv, ReadOK, ReadsInside, Progress
<1>2. offset = From(k) /\ offset = stream.starts[k + 1] /\ WellWritten(stream)
  BY <1>1, FromIs DEF WrittenInv, Progress, Caught
<1>3. CASE k < N /\ offset < n
  <2>1. k + 1 \in 1..N
    BY <1>1, <1>3
  <2>2. /\ totalFrameSize(p) # 0
        /\ Fits(p) <=> Whole(k + 1)
        /\ Fits(p) => /\ offset + totalFrameSize(p) = stream.starts[k + 1 + 1]
                      /\ Extent(offset + headerSize(p), offset + totalFrameSize(p)) = Records[k + 1]
    BY <1>1, <1>2, <1>3, <2>1, FrameAt
  <2> HIDE DEF p
  <2>3. CASE FrameRefused(p)
    <3>1. End("error") /\ ~Whole(k + 1)
      BY <1>1, <1>3, <2>2, <2>3 DEF FrameRefused
    <3> QED
      BY <3>1, EndProgress
  <2>4. CASE IsFrame(p) /\ Attempt(offset + headerSize(p), offset + totalFrameSize(p))
    <3> DEFINE from == offset + headerSize(p)
               to == offset + totalFrameSize(p)
    <3>1. Whole(k + 1) /\ Extent(from, to) = Records[k + 1] /\ to = From(k + 1)
      <4>1. k + 1 \in 0..N
        BY <2>1
      <4> QED
        BY <1>2, <2>2, <2>4, <4>1, FromIs DEF IsFrame
    <3>2. Decodes(stream.format, Extent(from, to))
      <4>1. Readable(stream, k + 1)
        BY <1>2, <2>1, Written
      <4> QED
        BY <3>1, <4>1 DEF Readable, Records
    <3>3. offset' = to /\ read' = Append(read, <<from, to>>) /\ UNCHANGED <<stream, status>>
      BY <2>4, <3>2 DEF Attempt
    <3>4. headerSize(p) \in Int /\ from \in Int
      <4>1. headerSize(p) \in Int
        BY DEF headerSize
      <4> QED
        BY <1>1, <4>1
    <3>5. to \in Int
      BY <1>2, <2>2, <2>1, <3>1, FromIs, k + 1 \in 0..N
    <3>6. PayloadOf(Extent(from, to)) = Records[k + 1]
      BY <3>1 DEF PayloadOf
    <3> HIDE DEF from, to
    <3> QED
      BY <1>2, <1>3, <3>1, <3>3, <3>4, <3>5, <3>6, ReadProgress
  <2> QED
    BY <2>3, <2>4 DEF p
<1>4. CASE k < N /\ ~(offset < n)
  <2>1. End("error") \/ End("null")
    BY <1>1, <1>4 DEF FrameRefused, IsFrame
  <2>2. ~Whole(k + 1)
    <3>1. k + 1 \in 1..(N + 1) /\ k + 1 + 1 \in 1..(N + 1) /\ k + 1 < k + 1 + 1
      BY <1>1, <1>4
    <3>2. stream.starts[k + 1] < stream.starts[k + 1 + 1] /\ stream.starts[k + 1 + 1] \in Nat
          /\ stream.starts[k + 1] \in Nat
      BY <1>2, <3>1, Written
    <3> QED
      BY <1>1, <1>2, <1>4, <3>2 DEF Whole
  <2> QED
    BY <2>1, <2>2, EndProgress
<1>5. CASE k = N
  <2>1. offset = end
    BY <1>1, <1>2, <1>5, Written
  <2>2. ASSUME offset < n
        PROVE  totalFrameSize(p) = 0
    <3>1. bytes[offset + 1] \notin {Bin8, Bin16, Bin32}
      BY <1>1, <1>2, <2>1, <2>2, Written DEF NothingBehind, bytes
    <3>2. p[1] = bytes[offset + 1]
      BY <1>1, <2>2 DEF Window
    <3> QED
      BY <3>1, <3>2, NoFrame
  <2>3. ~IsFrame(p)
    BY <2>2 DEF IsFrame
  <2>4. End("error") \/ End("null") \/ (End("panic") /\ n > end)
    BY <1>1, <2>1, <2>3 DEF FrameRefused
  <2>5. ~(k < N)
    BY <1>1, <1>5
  <2> QED
    BY <2>4, <2>5, EndProgress
<1> QED
  BY <1>1, <1>3, <1>4, <1>5

\* One line: likewise, and a line that is cut may still be read in part.
LEMMA LineProgress ==
  ASSUME WrittenInv, InsideInv', status = "reading", stream.format = "json",
         LineRefused \/ \E next \in 0..n : IsNext(offset, next) /\ Attempt(offset, next)
  PROVE  WrittenInv'
<1> DEFINE k == Len(read)
           N == Len(Records)
           end == stream.starts[Len(stream.starts)]
<1>1. n \in Nat /\ n = Len(bytes) /\ offset \in 0..n /\ k \in 0..N /\ N \in Nat /\ N \geq 1
      /\ WellWritten(stream)
  BY Written DEF WrittenInv, InsideInv, ReadOK, ReadsInside, Progress
<1>2. ASSUME k < N, ~(offset < n)
      PROVE  ~Whole(k + 1)
  <2>1. k + 1 \in 1..N
    BY <1>1, <1>2
  <2>2. CASE offset = From(k)
    <3>1. stream.starts[k + 1] \in Nat /\ offset \leq stream.starts[k + 1]
      BY <1>1, <2>2, FromIs
    <3>2. Len(Records[k + 1]) \in Nat /\ Len(Records[k + 1]) \geq 1
          /\ (Whole(k + 1) <=> stream.starts[k + 1] + Len(Records[k + 1]) \leq n)
      BY <1>1, <2>1, LineText
    <3> QED
      BY <1>1, <1>2, <3>1, <3>2
  <2>3. CASE Caught(k)
    <3>1. k \in 1..N /\ k < k + 1 /\ ~Whole(k)
      BY <1>1, <2>3 DEF Caught
    <3> QED
      BY <1>1, <2>1, <3>1, WholeOrder
  <2> QED
    BY <2>2, <2>3 DEF WrittenInv, Progress
<1>3. CASE LineRefused
  <2>1. (End("error") \/ End("null")) /\ ~(offset < n)
    BY <1>1, <1>3 DEF LineRefused
  <2> QED
    BY <1>2, <2>1, EndProgress
<1>4. CASE \E next \in 0..n : IsNext(offset, next) /\ Attempt(offset, next)
  <2>1. PICK next \in 0..n : IsNext(offset, next) /\ Attempt(offset, next)
    BY <1>4
  <2>2. offset < n /\ offset < next /\ next \in Nat /\ next \leq n /\ offset \in Nat
    BY <1>1, <2>1 DEF IsNext
  <2>3. offset = From(k)
    BY <1>1, <2>2 DEF WrittenInv, Progress, Caught
  <2>4. CASE k < N
    <3> DEFINE i == k + 1
               a == stream.starts[k + 1]
               r == Records[k + 1]
    <3>1. i \in 1..N /\ i - 1 = k
      BY <1>1, <2>4
    <3>2. /\ Len(r) \in Nat /\ a \in Nat /\ (Whole(i) <=> a + Len(r) \leq n)
          /\ stream.starts[i + 1] = a + Len(r) + 1
          /\ Decodes("json", IF i = 1 THEN r ELSE <<Newline>> \o r)
      BY <1>1, <3>1, LineText
    <3>3. next = IF Whole(i) THEN a + Len(r) ELSE n
      BY <1>1, <2>1, <2>2, <2>3, <3>1, NextNewline
    <3>4. next \leq a + Len(r)
      BY <1>1, <3>2, <3>3
    <3>5. /\ Extent(offset, next) = (IF i = 1 THEN <<>> ELSE <<Newline>>) \o SubSeq(r, 1, next - a)
          /\ PayloadOf(Extent(offset, next)) = SubSeq(r, 1, Len(PayloadOf(Extent(offset, next))))
          /\ next - a = Len(r) => PayloadOf(Extent(offset, next)) = r
      BY <1>1, <2>2, <2>3, <3>1, <3>4, LineRead
    <3>6. CASE Whole(i)
      <4>1. next = a + Len(r) /\ next - a = Len(r)
        BY <3>2, <3>3, <3>6
      <4>2. r \in Seq(Byte)
        BY <1>1, <3>1, Written
      <4>3. SubSeq(r, 1, Len(r)) = r /\ <<>> \o r = r
        BY <4>2, SubSeqFull, ConcatEmptySeq
      <4>4. Extent(offset, next) = IF i = 1 THEN r ELSE <<Newline>> \o r
        BY <3>5, <4>1, <4>3
      <4>5. Decodes(stream.format, Extent(offset, next))
        BY <3>2, <4>4
      <4>6. offset' = next /\ read' = Append(read, <<offset, next>>) /\ UNCHANGED <<stream, status>>
        BY <2>1, <4>5 DEF Attempt
      <4>7. next = From(i)
        <5>1. i \in 0..N /\ i # 0
          BY <3>1
        <5>2. From(i) = stream.starts[i + 1] - 1
          BY <1>1, <5>1, FromIs
        <5> QED
          BY <3>2, <4>1, <5>2
      <4>8. PayloadOf(Extent(offset, next)) = r
        BY <3>5, <4>1
      <4> QED
        BY <2>2, <2>3, <2>4, <3>6, <4>6, <4>7, <4>8, ReadProgress
    <3>7. CASE ~Whole(i)
      <4>1. next = n
        BY <3>3, <3>7
      <4>2. CASE Decodes(stream.format, Extent(offset, next))
        <5>1. offset' = next /\ read' = Append(read, <<offset, next>>) /\ UNCHANGED <<stream, status>>
          BY <2>1, <4>2 DEF Attempt
        <5>2. PayloadOf(Extent(offset, n)) = SubSeq(Records[Len(read) + 1], 1, Len(PayloadOf(Extent(offset, n))))
          BY <3>5, <4>1
        <5>3. ~Whole(Len(read) + 1) /\ offset \in Int /\ n \in Int /\ Len(read) < Len(Records) /\ offset = From(Len(read))
          BY <1>1, <2>2, <2>3, <2>4, <3>7
        <5>4. offset' = n /\ read' = Append(read, <<offset, n>>) /\ UNCHANGED <<stream, status>>
          BY <4>1, <5>1
        <5> QED
          BY <5>2, <5>3, <5>4, ReadProgress
      <4>3. CASE ~Decodes(stream.format, Extent(offset, next))
        <5>1. End("error")
          BY <2>1, <4>3 DEF Attempt
        <5> QED
          BY <3>7, <5>1, EndProgress
      <4> QED
        BY <4>2, <4>3
    <3> QED
      BY <3>6, <3>7
  <2>5. CASE k = N
    <3>1. end \in Nat /\ offset = end - 1
      <4>1. k # 0 /\ From(k) = stream.starts[k + 1] - 1 /\ stream.starts[k + 1] \in Nat
        BY <1>1, <2>5, FromIs
      <4> QED
        BY <1>1, <2>3, <2>5, <4>1, Written
    <3>2. next \in end..n /\ \A j \in (end + 1)..next : bytes[j] # Newline
      <4>1. next \in end..n
        BY <2>2, <3>1
      <4>2. ASSUME NEW j \in (end + 1)..next
            PROVE  bytes[j] # Newline
        <5>1. j - 1 \in (offset + 1)..(next - 1) /\ j - 1 + 1 = j
          BY <2>2, <3>1
        <5> QED
          BY <2>1, <5>1 DEF IsNext
      <4> QED
        BY <4>1, <4>2
    <3>3. ~Decodes("json", SubSeq(bytes, end, next))
      BY <1>1, <3>2, Written DEF NothingBehind, bytes
    <3>4. Extent(offset, next) = SubSeq(bytes, end, next)
      BY <3>1, offset + 1 = end DEF Extent
    <3>5. End("error")
      BY <2>1, <3>3, <3>4 DEF Attempt
    <3>6. ~(k < N)
      BY <1>1, <2>5
    <3> QED
      BY <3>5, <3>6, EndProgress
  <2> QED
    BY <1>1, <2>4, <2>5
<1> QED
  BY <1>3, <1>4

LEMMA StepProgress == WrittenInv /\ [ReaderNext]_reader => WrittenInv'
<1> SUFFICES ASSUME WrittenInv, [ReaderNext]_reader PROVE WrittenInv'
  OBVIOUS
<1>1. InsideInv'
  BY StepInside DEF WrittenInv
<1>2. CASE ReadMsgpackFrame
  <2>1. PICK junk \in Junk :
          \/ FrameRefused(Window(offset, junk))
          \/ /\ IsFrame(Window(offset, junk))
             /\ Attempt(offset + headerSize(Window(offset, junk)),
                        offset + totalFrameSize(Window(offset, junk)))
    BY <1>2 DEF ReadMsgpackFrame
  <2> QED
    BY <1>1, <1>2, <2>1, FrameProgress DEF ReadMsgpackFrame
<1>3. CASE ReadNewlineDelimJson
  BY <1>1, <1>3, LineProgress DEF ReadNewlineDelimJson
<1>4. CASE UNCHANGED reader
  BY <1>1, <1>4 DEF reader, WrittenInv, Progress, RecordRead, Payload, Extent, Whole, From, Caught,
                    Records, bytes, n
<1> QED
  BY <1>2, <1>3, <1>4 DEF ReaderNext

\* From a stream of records that were written with a header of the format, or a
\* newline behind each, a reader gets the payloads in the order of writing:
\* each once and whole, but for a last line that is cut (r2go.go:1008-1034,
\* 1085-1117).
THEOREM GetsRecords == ReaderSpec => []ReadsRecords
<1>1. WrittenInv => ReadsRecords
  BY ProgressRead
<1> QED
  BY <1>1, InitProgress, StepProgress, PTL DEF ReaderSpec

\* A reader does not stop before a record that is there as a whole, and panics
\* only at bytes behind the last frame (r2go.go:1020-1024).
THEOREM GetsAll == ReaderSpec => []ReadsToEnd
<1>1. WrittenInv => ReadsToEnd
  BY ProgressRead
<1> QED
  BY <1>1, InitProgress, StepProgress, PTL DEF ReaderSpec

=============================================================================

------------------------------- MODULE Frames -------------------------------
(***************************************************************************)
(* Streams of records in an R raw vector (r2go.go): msgpack binary frames   *)
(* read by ReadMsgpackFrame, newline-delimited JSON read by                  *)
(* ReadNewlineDelimJson.  A reader starts at offset 0 and passes each        *)
(* returned offset to the next call, until a call fails.  Offsets count      *)
(* from 0, sequences from 1.                                                *)
(***************************************************************************)
EXTENDS Integers, Sequences

CONSTANTS
  Streams,       \* what may be read
  Decodes(_, _), \* whether the format's decoder finds a value in some bytes
  Junk           \* what may lie in memory behind the vector, five bytes each

Byte == 0..255
Newline == 10

Bin8 == 196
Bin16 == 197
Bin32 == 198

-----------------------------------------------------------------------------
(* Streams as they are written: records one after the other, each in its     *)
(* frame or its line, record i from offset starts[i] to starts[i+1].  The    *)
(* vector may hold less, cut anywhere, or go on with other bytes.            *)

\* The headers of the msgpack format for a payload of that size.
Headers(size) ==
  {<<Bin8, k>> : k \in {size} \cap Byte}
  \cup {<<Bin16, k, size % 256>> : k \in {size \div 256} \cap Byte}
  \cup {<<Bin32, k, (size \div 65536) % 256, (size \div 256) % 256, size % 256>>
         : k \in {size \div 16777216} \cap Byte}

Framings(format, record) ==
  IF format = "json" THEN {Append(record, Newline)}
  ELSE {header \o record : header \in Headers(Len(record))}

\* The record and its frame are where they should be, as far as the vector goes.
WrittenAt(s, i) ==
  \E chunk \in Framings(s.format, s.records[i]) :
    /\ s.starts[i + 1] = s.starts[i] + Len(chunk)
    /\ \A j \in 1..Len(chunk) : s.starts[i] + j \leq Len(s.bytes) => s.bytes[s.starts[i] + j] = chunk[j]

\* The decoder finds a value in the record, and a line has no other newline.
Readable(s, i) ==
  LET record == s.records[i]
  IN  IF s.format = "json"
      THEN /\ record # <<>> /\ \A j \in DOMAIN record : record[j] # Newline
           /\ Decodes("json", IF i = 1 THEN record ELSE <<Newline>> \o record)
      ELSE Decodes("msgpack", record)

\* The bytes behind the last record are not taken for one.
NothingBehind(s) ==
  LET end == s.starts[Len(s.starts)]
  IN  IF s.format = "json"
      THEN \A to \in end..Len(s.bytes) :
             (\A j \in (end + 1)..to : s.bytes[j] # Newline) => ~Decodes("json", SubSeq(s.bytes, end, to))
      ELSE end < Len(s.bytes) => s.bytes[end + 1] \notin {Bin8, Bin16, Bin32}

WellWritten(s) ==
  /\ s.format \in {"msgpack", "json"}
  /\ s.bytes \in Seq(Byte) /\ s.records \in Seq(Seq(Byte)) /\ s.records # <<>>
  /\ s.starts \in Seq(Nat) /\ Len(s.starts) = Len(s.records) + 1 /\ s.starts[1] = 0
  /\ \A i, j \in DOMAIN s.starts : i < j => s.starts[i] < s.starts[j]
  /\ \A i \in DOMAIN s.records : WrittenAt(s, i) /\ Readable(s, i)
  /\ NothingBehind(s)

ASSUME FramesAssumption ==
  /\ \A s \in Streams : WellWritten(s)
  /\ Junk \subseteq [1..5 -> Byte] /\ Junk # {}

-----------------------------------------------------------------------------
VARIABLES
  stream,   \* what is read: [format, bytes], and how it was written
  offset,   \* where the next call starts
  read,     \* history: the extents <<from, to>> of the records read
  status    \* "reading", or how the last call ended: "null", "error", "panic"

reader == <<stream, offset, read, status>>

bytes == stream.bytes
n == Len(bytes)

-----------------------------------------------------------------------------
(* DecodeMsgpackBinArrayHeader.                                             *)
headerSize(p) ==
  CASE p[1] = Bin8 -> 2 [] p[1] = Bin16 -> 3 [] p[1] = Bin32 -> 5 [] OTHER -> 0

\* Mutant: little endian.
payloadSizeLittle(p) ==
  CASE p[1] = Bin8 -> p[2]
    [] p[1] = Bin16 -> p[2] + 256 * p[3]
    [] p[1] = Bin32 -> p[2] + 256 * (p[3] + 256 * (p[4] + 256 * p[5]))
    [] OTHER -> 0

payloadSize(p) ==
  CASE p[1] = Bin8 -> p[2]
    [] p[1] = Bin16 -> 256 * p[2] + p[3]
    [] p[1] = Bin32 -> 256 * (256 * (256 * p[2] + p[3]) + p[4]) + p[5]
    [] OTHER -> 0

totalFrameSize(p) == headerSize(p) + payloadSize(p)

\* The five bytes at start, whatever follows the vector.
Window(start, junk) ==
  [i \in 1..5 |-> IF start + i \leq n THEN bytes[start + i] ELSE junk[i]]

\* Mutant: the frame may lack its last byte.
FitsAllButOne(p) == offset + totalFrameSize(p) \leq n + 1

\* start+totalSz > n is an error.
Fits(p) == offset + totalFrameSize(p) \leq n

-----------------------------------------------------------------------------
(* next_newline_pos: i is the first newline behind start, or the end of the  *)
(* vector.                                                                 *)
IsNext(start, i) ==
  /\ i \in (start + 1)..n
  /\ i < n => bytes[i + 1] = Newline
  /\ \A j \in (start + 1)..(i - 1) : bytes[j + 1] # Newline

Extent(from, to) == SubSeq(bytes, from + 1, to)

-----------------------------------------------------------------------------
ReaderInit ==
  /\ stream \in Streams
  /\ offset = 0 /\ read = <<>> /\ status = "reading"

End(how) == status' = how /\ UNCHANGED <<stream, offset, read>>

\* The bytes are decoded, and the offset behind them returned, or the call fails.
Attempt(from, to) ==
  IF Decodes(stream.format, Extent(from, to))
  THEN /\ offset' = to
       /\ read' = Append(read, <<from, to>>)
       /\ UNCHANGED <<stream, status>>
  ELSE End("error")

\* The call ends before anything is decoded: a vector of no bytes, an offset
\* at the end, a frame that goes beyond it; for a frame of no bytes &bytes[0]
\* panics.
FrameRefused(p) ==
  \/ n = 0 /\ End("null")
  \/ n # 0 /\ (offset \geq n \/ ~Fits(p)) /\ End("error")
  \/ offset < n /\ Fits(p) /\ totalFrameSize(p) = 0 /\ End("panic")

IsFrame(p) == offset < n /\ Fits(p) /\ totalFrameSize(p) # 0

ReadMsgpackFrame ==
  /\ status = "reading" /\ stream.format = "msgpack"
  /\ \E junk \in Junk :
       LET p == Window(offset, junk)
       IN  \/ FrameRefused(p)
           \/ IsFrame(p) /\ Attempt(offset + headerSize(p), offset + totalFrameSize(p))

LineRefused ==
  \/ n = 0 /\ End("null")
  \/ n # 0 /\ offset \geq n /\ End("error")

ReadNewlineDelimJson ==
  /\ status = "reading" /\ stream.format = "json"
  /\ \/ LineRefused
     \/ \E next \in 0..n : IsNext(offset, next) /\ Attempt(offset, next)

ReaderNext == ReadMsgpackFrame \/ ReadNewlineDelimJson
ReaderSpec == ReaderInit /\ [][ReaderNext]_reader

-----------------------------------------------------------------------------
(* What the reader gets.                                                    *)
Records == stream.records

\* Record i is there; a line is whole without its newline.
Whole(i) == stream.starts[i + 1] - (IF stream.format = "json" THEN 1 ELSE 0) \leq n

\* A record as the decoder sees it: JSON skips the newline before it.
Payload(i) ==
  LET text == Extent(read[i][1], read[i][2])
  IN  IF stream.format = "json" /\ text # <<>> /\ text[1] = Newline THEN Tail(text) ELSE text

\* Every record is read once, in the order of writing and whole; only the
\* last line of a cut stream may be read in part.
ReadsRecords ==
  /\ Len(read) \leq Len(Records)
  /\ \A i \in 1..Len(read) :
       \/ Payload(i) = Records[i]
       \/ /\ stream.format = "json" /\ read[i][2] = n
          /\ Payload(i) = SubSeq(Records[i], 1, Len(Payload(i)))

\* A reader ends after all records that are there as a whole (and perhaps a
\* part of a line), and never in a panic when every byte belongs to a frame.
ReadsToEnd ==
  status # "reading" =>
    /\ \A i \in 1..Len(Records) : Whole(i) => i \leq Len(read)
    /\ \A i \in 1..(Len(read) - 1) : Whole(i)
    /\ status = "panic" => n > stream.starts[Len(stream.starts)]

\* The bytes that are read beyond the end of the vector (r2go.go:1010) do not
\* decide what happens.
OverreadHarmless ==
  \A j, k \in Junk : offset < n =>
    LET p == Window(offset, j) q == Window(offset, k)
    IN  /\ Fits(p) <=> Fits(q)
        /\ Fits(p) => headerSize(p) = headerSize(q) /\ totalFrameSize(p) = totalFrameSize(q)

\* Offsets stay inside the stream, and the records read are disjoint and
\* ordered: none is read twice.
ReadsInside ==
  /\ offset \in 0..n
  /\ \A i \in 1..Len(read) : 0 \leq read[i][1] /\ read[i][1] \leq read[i][2] /\ read[i][2] \leq offset
  /\ \A i, j \in 1..Len(read) : i < j => read[i][2] \leq read[j][1]

\* Every call that returns a value moves on: a reader of a finite stream ends.
Advances == [][read' # read => offset' > offset]_reader

\* "the next byteOffset to use (the byte just after the terminating newline)"
\* (r2go.go:1069-1070).
OffsetAfterNewline ==
  stream.format = "json" /\ offset \in 1..n => bytes[offset] = Newline \/ offset = n
=============================================================================

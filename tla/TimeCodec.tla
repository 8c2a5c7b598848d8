------------------------------ MODULE TimeCodec -----------------------------
(***************************************************************************)
(* EncodeTime and DecodeTime (enctm.go): a time as a descriptor byte, then   *)
(* the seconds, the nanoseconds and the offset of its zone, without the       *)
(* bytes that only repeat the sign.                                          *)
(*                                                                         *)
(* A time is [secs, nsecs, zone]: eight and four bytes, big endian and in     *)
(* two's complement, and the offset from UTC in seconds, as <<>> for UTC and  *)
(* as <<offset>> elsewhere.                                                  *)
(***************************************************************************)
EXTENDS Integers, Sequences

Byte == 0..255
HighBit(b) == b \geq 128
SignByte(pos) == IF pos THEN 0 ELSE 255
Zeros(len) == [i \in 1..len |-> 0]

\* Byte n+1 of v (v[n] in Go) says nothing that byte n+2 does not say.
Redundant(v, pos, n) ==
  /\ n + 1 < Len(v)
  /\ v[n + 1] = SignByte(pos)
  /\ HighBit(v[n + 2]) <=> ~pos

\* How many bytes at the beginning of v are redundant.
pruneSignExt(v, pos) ==
  CHOOSE n \in 0..(Len(v) - 1) :
    ~Redundant(v, pos, n) /\ \A m \in 0..(n - 1) : Redundant(v, pos, m)

\* The bytes of a number that are sent: none for 0.
Sent(v, pos) == IF v = Zeros(Len(v)) THEN <<>> ELSE SubSeq(v, pruneSignExt(v, pos) + 1, Len(v))

\* The offset in minutes, rounded towards 0.
Minutes(offset) == IF offset \geq 0 THEN offset \div 60 ELSE -((-offset) \div 60)

\* 14 bits of an offset, the bits for daylight saving are clear.
SentZone(zone) ==
  IF zone = <<>> THEN <<>>
  ELSE LET z == Minutes(zone[1]) IN <<(z % 16384) \div 256, z % 256>>

EncodeTime(t) ==
  LET secs == Sent(t.secs, ~HighBit(t.secs[1]))
      nsecs == Sent(t.nsecs, TRUE)
      bd == (IF secs = <<>> THEN 0 ELSE 128 + 4 * (Len(secs) - 1))
            + (IF nsecs = <<>> THEN 0 ELSE 64 + Len(nsecs) - 1)
            + (IF t.zone = <<>> THEN 0 ELSE 32)
  IN  <<bd>> \o secs \o nsecs \o SentZone(t.zone)

-----------------------------------------------------------------------------
\* part at the end of len bytes, behind bytes of the given sign.
Filled(part, len, pos) ==
  [i \in 1..len |-> IF i \leq len - Len(part) THEN SignByte(pos) ELSE part[i - (len - Len(part))]]

\* The sign bit of the 14 bits goes into the two bits before them.
ZoneOf(hi, lo) ==
  LET tz == (256 * hi + lo) % 16384
      tzint == IF tz < 8192 THEN tz ELSE tz - 16384
  IN  IF tzint = 0 THEN <<>> ELSE <<60 * tzint>>

DecodeTime(bs) ==
  LET bd == bs[1]
      ns == IF HighBit(bd) THEN ((bd \div 4) % 8) + 1 ELSE 0
      nn == IF (bd \div 64) % 2 = 1 THEN (bd % 4) + 1 ELSE 0
      secs == SubSeq(bs, 2, 1 + ns)
      nsecs == SubSeq(bs, 2 + ns, 1 + ns + nn)
      tz == 2 + ns + nn
  IN  [secs |-> IF ns = 0 THEN Zeros(8) ELSE Filled(secs, 8, ~HighBit(secs[1])),
       nsecs |-> Filled(nsecs, 4, TRUE),
       zone |-> IF (bd \div 32) % 2 = 1 THEN ZoneOf(bs[tz], bs[tz + 1]) ELSE <<>>]

-----------------------------------------------------------------------------
\* A zone that is whole minutes off UTC, by less than the 14 bits can say, is
\* the same after decoding; one that is less than a minute off becomes UTC.
WholeMinutes(zone) ==
  IF zone = <<>> \/ Minutes(zone[1]) = 0 THEN <<>> ELSE <<60 * Minutes(zone[1])>>

\* Decoding gives the instant that was encoded, and its zone to the minute.
TimeKept(t) == DecodeTime(EncodeTime(t)) = [t EXCEPT !.zone = WholeMinutes(@)]

\* The message fits in the buffer of 16 bytes (enctm.go:118), and no byte of it
\* could be left out.
TimeFits(t) ==
  /\ Len(EncodeTime(t)) \leq 16
  /\ Sent(t.secs, ~HighBit(t.secs[1])) # <<>> =>
       LET s == Sent(t.secs, ~HighBit(t.secs[1]))
       IN  Len(s) > 1 => Filled(Tail(s), 8, ~HighBit(s[2])) # t.secs
=============================================================================

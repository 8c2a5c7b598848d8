-------------------------- MODULE TimeCodecProofs ---------------------------
(***************************************************************************)
(* Proofs about the time codec: pruneSignExt takes away only bytes that the   *)
(* reader puts back, for numbers of any length.                              *)
(***************************************************************************)
EXTENDS TimeCodec, WellFoundedInduction, SequenceTheorems, TLAPS

\* The first byte that is not redundant.
LEMMA Pruned ==
  ASSUME NEW len \in Nat \ {0}, NEW v \in Seq(Byte), Len(v) = len, NEW pos \in BOOLEAN
  PROVE  /\ pruneSignExt(v, pos) \in 0..(len - 1)
         /\ ~Redundant(v, pos, pruneSignExt(v, pos))
         /\ \A m \in 0..(pruneSignExt(v, pos) - 1) : Redundant(v, pos, m)
<1> DEFINE K == {k \in 0..(len - 1) : ~Redundant(v, pos, k)}
<1>1. len - 1 \in K
  BY DEF Redundant
<1>2. K \in SUBSET Nat /\ K # {}
  BY <1>1
<1>3. PICK k \in K : \A j \in K : k \leq j
  <2> DEFINE R == OpToRel(<, Nat)
  <2>1. IsWellFoundedOn(R, Nat)
    BY NatLessThanWellFounded
  <2>2. \A i, j \in Nat : <<i, j>> \in R <=> i < j
    BY DEF OpToRel
  <2> HIDE DEF R, K
  <2>3. PICK k \in K : \A j \in K : ~(<<j, k>> \in R)
    BY <1>2, <2>1, WFMin
  <2>4. \A i, j \in Nat : ~(i < j) => j \leq i
    OBVIOUS
  <2> QED
    BY <1>2, <2>2, <2>3, <2>4
<1>4. k \in 0..(len - 1) /\ ~Redundant(v, pos, k) /\ \A m \in 0..(k - 1) : Redundant(v, pos, m)
  <2>1. \A m \in 0..(k - 1) : m \in 0..(len - 1) /\ ~(k \leq m)
    OBVIOUS
  <2> QED
    BY <1>3, <2>1
<1> QED
  BY <1>4 DEF pruneSignExt

\* The bytes that are sent, behind as many sign bytes as were taken away, are
\* the number; the sign of the first one is the number's.
THEOREM SignRestored ==
  ASSUME NEW len \in Nat \ {0}, NEW v \in Seq(Byte), Len(v) = len, v # Zeros(len),
         NEW pos \in BOOLEAN, HighBit(v[1]) <=> ~pos
  PROVE  LET part == Sent(v, pos)
         IN  /\ part \in Seq(Byte) /\ Len(part) \in 1..len
             /\ HighBit(part[1]) <=> ~pos
             /\ Filled(part, len, pos) = v
<1> DEFINE n == pruneSignExt(v, pos)
           part == SubSeq(v, n + 1, len)
<1>1. /\ n \in 0..(len - 1)
      /\ ~Redundant(v, pos, n) /\ \A m \in 0..(n - 1) : Redundant(v, pos, m)
  BY Pruned
<1> HIDE DEF n
<1>2. \A i \in (n + 1)..len : v[i] \in Byte
  <2>1. \A i \in (n + 1)..len : i \in 1..Len(v)
    BY <1>1
  <2> QED
    BY <2>1, ElementOfSeq
<1>3. /\ part \in Seq(Byte) /\ Len(part) = len - n
      /\ \A i \in 1..(len - n) : part[i] = v[n + i]
  <2>1. n + 1 \in Int /\ len \in Int /\ n + 1 \leq len
    BY <1>1
  <2>2. /\ part \in Seq(Byte) /\ Len(part) = len - (n + 1) + 1
        /\ \A i \in 1..(len - (n + 1) + 1) : part[i] = v[n + 1 + i - 1]
    BY <1>2, <2>1, SubSeqProperties
  <2> HIDE DEF part
  <2>3. len - (n + 1) + 1 = len - n /\ \A i \in 1..(len - n) : n + 1 + i - 1 = n + i
    BY <1>1
  <2> QED
    BY <2>2, <2>3
<1>4. Sent(v, pos) = part
  BY DEF Sent, n
<1> HIDE DEF part
<1>5. HighBit(part[1]) <=> ~pos
  <2>1. part[1] = v[n + 1]
    BY <1>1, <1>3
  <2>2. CASE n = 0
    BY <2>1, <2>2
  <2>3. CASE n # 0
    <3>1. Redundant(v, pos, n - 1)
      BY <1>1, <2>3
    <3>2. HighBit(v[n - 1 + 2]) <=> ~pos
      BY <3>1 DEF Redundant
    <3>3. n - 1 + 2 = n + 1
      BY <1>1
    <3> QED
      BY <2>1, <3>2, <3>3
  <2> QED
    BY <2>2, <2>3
<1>6. \A i \in 1..n : v[i] = SignByte(pos)
  <2> TAKE i \in 1..n
  <2>1. i - 1 \in 0..(n - 1) /\ i - 1 + 1 = i
    BY <1>1
  <2>2. Redundant(v, pos, i - 1)
    BY <1>1, <2>1
  <2> QED
    BY <2>1, <2>2 DEF Redundant
<1>7. Filled(part, len, pos) = v
  <2> DEFINE w == Filled(part, len, pos)
  <2>1. w = [i \in 1..len |-> IF i \leq n THEN SignByte(pos) ELSE part[i - n]]
    <3>1. len - Len(part) = n
      BY <1>1, <1>3
    <3> QED
      BY <3>1 DEF Filled
  <2>2. v = [i \in 1..len |-> v[i]]
    BY LenProperties
  <2>3. \A i \in 1..len : (IF i \leq n THEN SignByte(pos) ELSE part[i - n]) = v[i]
    <3> TAKE i \in 1..len
    <3>1. CASE i \leq n
      BY <1>1, <1>6, <3>1
    <3>2. CASE ~(i \leq n)
      <4>1. i - n \in 1..(len - n) /\ n + (i - n) = i
        BY <1>1, <3>2
      <4> QED
        BY <1>3, <3>2, <4>1
    <3> QED
      BY <3>1, <3>2
  <2> QED
    BY <2>1, <2>2, <2>3
<1> QED
  BY <1>1, <1>3, <1>4, <1>5, <1>7
=============================================================================

---------------------------- MODULE DecodeProofs ----------------------------
(***************************************************************************)
(* Proofs about decodeHelper for every Go value and any number of addresses:  *)
(* whenever R collects, what the conversion still needs stays (NothingFreed); *)
(* the protect stack is given back as it was (ProtectBalanced); what is       *)
(* returned stands for the value that the definition by recursion gives       *)
(* (ConversionMeans), and R is warned of an integer that changed              *)
(* (LossReported).                                                          *)
(***************************************************************************)
EXTENDS Codec, SequenceTheorems, TLAPS

LEMMA Outside == Addr \cap Kept = {} /\ R_NilValue # rawStream /\ NoObject \notin Addr \cup Kept
BY DecodeAssumption

-----------------------------------------------------------------------------
(* Heaps.                                                                  *)
UsedIn(h) == {a \in Addr : h[a] # Free}

ElementsIn(h, a) ==
  IF h[a][1] = "VECSXP" THEN {h[a][2][i] : i \in DOMAIN h[a][2]} \cap Addr ELSE {}

ObjectOK(object) ==
  /\ object # Free => object[1] # "free"
  /\ object[1] = "VECSXP" => object[2] \in Seq(Addr \cup {R_NilValue})

\* Every list leads to objects that are there.
GoodHeap(h) ==
  /\ h = [a \in Addr |-> h[a]]
  /\ \A a \in Addr : ObjectOK(h[a])
  /\ \A a \in UsedIn(h) : ElementsIn(h, a) \subseteq UsedIn(h)

LEMMA UsedHere == Used = UsedIn(heap) /\ \A a : Elements(a) = ElementsIn(heap, a)
BY DEF Used, UsedIn, Elements, ElementsIn

LEMMA FreeObject == ObjectOK(Free) /\ Free[1] # "VECSXP"
BY DEF Free, ObjectOK

\* A collection leaves what is protected, and all that it leads to.
LEMMA CollectionKeeps ==
  ASSUME NEW p, NEW S \in Collections(p)
  PROVE  /\ S \subseteq UsedIn(heap)
         /\ \A a \in UsedIn(heap) : p[a] > 0 => a \in S
         /\ \A a \in S : ElementsIn(heap, a) \subseteq S
<1> DEFINE safe == {a \in Used : p[a] > 0}
<1>1. PICK T \in SUBSET (Used \ safe) : S = safe \cup T
  BY DEF Collections
<1>2. \A a \in S : Elements(a) \subseteq S
  BY DEF Collections
<1> QED
  BY <1>1, <1>2, UsedHere

Collected(S) == [a \in Addr |-> IF a \in S THEN heap[a] ELSE Free]

LEMMA CollectedGood ==
  ASSUME GoodHeap(heap), NEW p, NEW S \in Collections(p)
  PROVE  /\ GoodHeap(Collected(S))
         /\ UsedIn(Collected(S)) = S
         /\ \A a \in S : a \in Addr /\ Collected(S)[a] = heap[a]
<1> DEFINE h == Collected(S)
<1>1. S \subseteq UsedIn(heap) /\ \A a \in S : ElementsIn(heap, a) \subseteq S
  BY CollectionKeeps
<1>2. h = [a \in Addr |-> h[a]]
  BY DEF Collected
<1>3. \A a \in Addr : h[a] = IF a \in S THEN heap[a] ELSE Free
  BY DEF Collected
<1>4. UsedIn(h) = S /\ \A a \in S : a \in Addr /\ h[a] = heap[a]
  BY <1>1, <1>3 DEF UsedIn
<1>5. \A a \in Addr : ObjectOK(h[a])
  BY <1>3, FreeObject DEF GoodHeap
<1>6. \A a \in UsedIn(h) : ElementsIn(h, a) \subseteq UsedIn(h)
  BY <1>1, <1>4 DEF ElementsIn
<1> QED
  BY <1>2, <1>4, <1>5, <1>6 DEF GoodHeap

LEMMA FreshAddress ==
  ASSUME NEW S, S \subseteq Addr, S # Addr
  PROVE  Fresh(S) \in Addr /\ Fresh(S) \notin S
BY DEF Fresh

\* A new vector, or an empty list.
NewObject(object) ==
  /\ object # Free /\ ObjectOK(object)
  /\ object[1] = "VECSXP" => object[2] = <<>>

LEMMA AllocatedGood ==
  ASSUME GoodHeap(heap), NEW p, NEW S \in Collections(p), S # Addr,
         NEW object, NewObject(object)
  PROVE  /\ GoodHeap(Allocated(S, object))
         /\ UsedIn(Allocated(S, object)) = S \cup {Fresh(S)}
         /\ Fresh(S) \in Addr /\ Fresh(S) \notin S
         /\ Allocated(S, object)[Fresh(S)] = object
         /\ \A a \in S : a \in Addr /\ Allocated(S, object)[a] = heap[a]
<1> DEFINE h == Allocated(S, object)
           b == Fresh(S)
<1>1. S \subseteq UsedIn(heap) /\ \A a \in S : ElementsIn(heap, a) \subseteq S
  BY CollectionKeeps
<1>2. b \in Addr /\ b \notin S
  BY <1>1, FreshAddress DEF UsedIn
<1>3. h = [a \in Addr |-> h[a]]
  BY DEF Allocated
<1>4. \A a \in Addr : h[a] = IF a \in S THEN heap[a] ELSE IF a = b THEN object ELSE Free
  BY DEF Allocated
<1> HIDE DEF h, b
<1>5. h[b] = object /\ \A a \in S : a \in Addr /\ h[a] = heap[a]
  BY <1>1, <1>2, <1>4 DEF UsedIn
<1>6. UsedIn(h) = S \cup {b}
  BY <1>1, <1>2, <1>4, <1>5 DEF UsedIn, NewObject
<1>7. \A a \in Addr : ObjectOK(h[a])
  BY <1>4, FreeObject DEF GoodHeap, NewObject
<1>8. ElementsIn(h, b) = {}
  BY <1>5 DEF ElementsIn, NewObject
<1>9. \A a \in UsedIn(h) : ElementsIn(h, a) \subseteq UsedIn(h)
  BY <1>1, <1>5, <1>6, <1>8 DEF ElementsIn
<1> QED
  BY <1>2, <1>3, <1>5, <1>6, <1>7, <1>9 DEF GoodHeap, h, b

\* An object that is there is put into a list, or anything into a vector.
LEMMA WithElementGood ==
  ASSUME NEW h, GoodHeap(h), NEW b \in UsedIn(h), NEW a,
         h[b][1] = "VECSXP" => a \in UsedIn(h) \cup {R_NilValue}
  PROVE  /\ GoodHeap(WithElement(h, b, a))
         /\ UsedIn(WithElement(h, b, a)) = UsedIn(h)
         /\ \A c \in Addr : WithElement(h, b, a)[c][1] = h[c][1]
<1> DEFINE g == WithElement(h, b, a)
<1>0. b \in Addr /\ h[b] # Free /\ h[b][1] # "free" /\ ObjectOK(h[b])
  BY DEF UsedIn, GoodHeap, ObjectOK
<1>1. /\ g = [c \in Addr |-> g[c]]
      /\ g[b] = <<h[b][1], Append(h[b][2], a), h[b][3]>>
      /\ \A c \in Addr : c # b => g[c] = h[c]
  BY <1>0 DEF WithElement, GoodHeap
<1> HIDE DEF g
<1>2. g[b][1] = h[b][1] /\ g[b][2] = Append(h[b][2], a)
  <2> DEFINE e == Append(h[b][2], a)
  <2>1. g[b] = <<h[b][1], e, h[b][3]>>
    BY <1>1
  <2> HIDE DEF e
  <2>2. g[b][1] = h[b][1] /\ g[b][2] = e
    BY <2>1
  <2> QED
    BY <2>2 DEF e
<1>3. g[b] # Free
  BY <1>0, <1>2 DEF Free
<1>4. UsedIn(g) = UsedIn(h) /\ \A c \in Addr : g[c][1] = h[c][1]
  BY <1>0, <1>1, <1>2, <1>3 DEF UsedIn
<1>5. CASE h[b][1] = "VECSXP"
  <2>1. h[b][2] \in Seq(Addr \cup {R_NilValue}) /\ a \in Addr \cup {R_NilValue}
    BY <1>0, <1>5 DEF ObjectOK, UsedIn
  <2>2. /\ g[b][2] \in Seq(Addr \cup {R_NilValue})
        /\ DOMAIN g[b][2] = 1..(Len(h[b][2]) + 1)
        /\ DOMAIN h[b][2] = 1..Len(h[b][2])
        /\ \A i \in 1..Len(h[b][2]) : g[b][2][i] = h[b][2][i]
        /\ g[b][2][Len(h[b][2]) + 1] = a
        /\ Len(h[b][2]) \in Nat
    BY <1>2, <2>1, AppendProperties
  <2>3. ObjectOK(g[b])
    BY <1>0, <1>2, <2>2 DEF ObjectOK
  <2>4. ElementsIn(g, b) \subseteq ElementsIn(h, b) \cup ({a} \cap Addr)
    <3> SUFFICES ASSUME NEW i \in DOMAIN g[b][2], g[b][2][i] \in Addr
                 PROVE  g[b][2][i] \in ElementsIn(h, b) \cup ({a} \cap Addr)
      BY DEF ElementsIn
    <3>1. CASE i \in 1..Len(h[b][2])
      BY <1>5, <2>2, <3>1 DEF ElementsIn
    <3>2. CASE i = Len(h[b][2]) + 1
      BY <2>2, <3>2
    <3> QED
      BY <2>2, <3>1, <3>2
  <2>5. {a} \cap Addr \subseteq UsedIn(h)
    BY <1>5, Outside DEF Kept
  <2>6. \A c \in Addr : c # b => ElementsIn(g, c) = ElementsIn(h, c)
    BY <1>1 DEF ElementsIn
  <2> QED
    BY <1>0, <1>1, <1>4, <2>3, <2>4, <2>5, <2>6 DEF GoodHeap, g, UsedIn
<1>6. CASE h[b][1] # "VECSXP"
  <2>1. ObjectOK(g[b])
    BY <1>0, <1>2, <1>6 DEF ObjectOK
  <2>2. ElementsIn(g, b) = {}
    BY <1>2, <1>6 DEF ElementsIn
  <2>3. \A c \in Addr : c # b => ElementsIn(g, c) = ElementsIn(h, c)
    BY <1>1 DEF ElementsIn
  <2> QED
    BY <1>0, <1>1, <1>4, <2>1, <2>2, <2>3 DEF GoodHeap, g, UsedIn
<1> QED
  BY <1>5, <1>6

-----------------------------------------------------------------------------
(* Sequences of any elements.                                              *)
IsSeq(s) == \E S : s \in Seq(S)

LEMMA InSomeSeq ==
  ASSUME NEW s, IsSeq(s), NEW x
  PROVE  \E S : s \in Seq(S) /\ x \in S
<1>1. PICK S : s \in Seq(S)
  BY DEF IsSeq
<1>2. s \in Seq(S \cup {x})
  BY <1>1
<1> QED
  BY <1>2

\* A new element on top, or in the place of the two on top.
LEMMA Pushing ==
  ASSUME NEW s, IsSeq(s), NEW x
  PROVE  /\ IsSeq(Append(s, x)) /\ Len(s) \in Nat /\ Len(Append(s, x)) = Len(s) + 1
         /\ Append(s, x)[Len(s) + 1] = x
         /\ \A i \in 1..Len(s) : Append(s, x)[i] = s[i]
<1>1. PICK S : s \in Seq(S) /\ x \in S
  BY InSomeSeq
<1> QED
  BY <1>1, AppendProperties DEF IsSeq

LEMMA Popping ==
  ASSUME NEW s, IsSeq(s), Len(s) > 1, NEW x
  PROVE  /\ IsSeq(Append(SubSeq(s, 1, Len(s) - 2), x)) /\ Len(s) \in Nat
         /\ Len(Append(SubSeq(s, 1, Len(s) - 2), x)) = Len(s) - 1
         /\ Append(SubSeq(s, 1, Len(s) - 2), x)[Len(s) - 1] = x
         /\ \A i \in 1..(Len(s) - 2) : Append(SubSeq(s, 1, Len(s) - 2), x)[i] = s[i]
<1>1. PICK S : s \in Seq(S) /\ x \in S
  BY InSomeSeq
<1>2. Len(s) \in Nat /\ Len(s) > 1
  BY <1>1
<1> DEFINE u == SubSeq(s, 1, Len(s) - 2)
<1>3. u \in Seq(S) /\ Len(u) = Len(s) - 2 /\ \A i \in 1..(Len(s) - 2) : u[i] = s[i]
  <2>1. 1 \in 1..Len(s) + 1 /\ Len(s) - 2 \in 0..Len(s)
    BY <1>2
  <2>2. /\ u \in Seq(S)
        /\ Len(u) = IF 1 \leq Len(s) - 2 THEN Len(s) - 2 - 1 + 1 ELSE 0
        /\ \A i \in 1..(Len(s) - 2 - 1 + 1) : u[i] = s[1 + i - 1]
    BY <1>1, <2>1, SubSeqProperties
  <2> HIDE DEF u
  <2>3. \A i \in 1..(Len(s) - 2) : i \in 1..(Len(s) - 2 - 1 + 1) /\ 1 + i - 1 = i
    BY <1>2
  <2>4. \A i \in 1..(Len(s) - 2) : u[i] = s[i]
    BY <2>2, <2>3
  <2>5. Len(u) = Len(s) - 2
    <3>1. CASE Len(s) = 2
      BY <2>2, <3>1
    <3>2. CASE Len(s) > 2
      <4>1. 1 \leq Len(s) - 2 /\ Len(s) - 2 - 1 + 1 = Len(s) - 2
        BY <1>2, <3>2
      <4> QED
        BY <2>2, <4>1
    <3> QED
      <4>0. \A k \in Nat : k > 1 => k = 2 \/ k > 2
        OBVIOUS
      <4>1. Len(s) = 2 \/ Len(s) > 2
        BY <1>2, <4>0
      <4> QED
        BY <4>1, <3>1, <3>2
  <2> QED
    BY <2>2, <2>4, <2>5
<1>4. IsSeq(u)
  BY <1>3 DEF IsSeq
<1> HIDE DEF u
<1>5. /\ IsSeq(Append(u, x)) /\ Len(Append(u, x)) = Len(u) + 1
      /\ Append(u, x)[Len(u) + 1] = x
      /\ \A i \in 1..Len(u) : Append(u, x)[i] = u[i]
  BY <1>4, Pushing
<1>6. /\ IsSeq(Append(u, x)) /\ Len(Append(u, x)) = Len(s) - 1
      /\ Append(u, x)[Len(s) - 1] = x
      /\ \A i \in 1..(Len(s) - 2) : Append(u, x)[i] = s[i]
  BY <1>2, <1>3, <1>5
<1> QED
  BY <1>2, <1>6 DEF u

-----------------------------------------------------------------------------
(* The stack of calls.                                                     *)

\* The objects that a call has protected.
Held(f) == {f.s, f.names} \cap Addr

IsCall(f) ==
  f = [val |-> f.val, pc |-> f.pc, s |-> f.s, names |-> f.names, done |-> f.done]

\* A call that waits for the one above it.
Waiting(f) ==
  /\ IsCall(f)
  /\ \/ f.pc = "json" /\ f.s = NoObject /\ f.names = NoObject
     \/ /\ f.pc = "element" /\ f.s \in Addr /\ ~IsVector(f.val)
        /\ Type(f.val) = "map" => f.names \in Addr /\ f.names # f.s
        /\ Type(f.val) # "map" => f.names = NoObject

\* The call on top.
Active(f) ==
  /\ IsCall(f)
  /\ \/ f.pc = "enter" /\ f.s = NoObject /\ f.names = NoObject
     \/ f.pc = "names" /\ f.s \in Addr /\ f.names = NoObject /\ Type(f.val) = "map"
     \/ /\ f.pc = "fill" /\ f.s \in Addr
        /\ Type(f.val) = "map" => f.names \in Addr /\ f.names # f.s
        /\ Type(f.val) # "map" => f.names = NoObject
     \/ f.pc = "key" /\ f.s \in Addr /\ f.names \in Addr /\ f.names # f.s /\ Type(f.val) = "map"
     \/ f.pc = "return" /\ f.s \in Addr \cup {R_NilValue, NoObject} /\ f.names = NoObject

\* A vector that is being filled holds no addresses.
FillsVector(f, h) == f.pc = "fill" /\ IsVector(f.val) => h[f.s][1] # "VECSXP"

StackOK ==
  /\ IsSeq(frames)
  /\ \A i \in 1..(Len(frames) - 1) : Waiting(frames[i])
  /\ frames # <<>> => Active(Top) /\ FillsVector(Top, heap)
  /\ \A i \in 1..Len(frames) : Held(frames[i]) \subseteq UsedIn(heap)
  /\ \A i, j \in 1..Len(frames) : i # j => Held(frames[i]) \cap Held(frames[j]) = {}

\* The protect stack has exactly what the calls hold, each object once.
ProtectOK ==
  /\ protect \in [Addr \cup Kept -> Nat]
  /\ \A a \in Addr :
       protect[a] = IF \E i \in 1..Len(frames) : a \in Held(frames[i]) THEN 1 ELSE 0
  /\ protect[R_NilValue] = IF frames # <<>> /\ Top.s = R_NilValue THEN 1 ELSE 0

DecodeInv == GoodHeap(heap) /\ StackOK /\ ProtectOK

LEMMA LengthOK == DecodeInv => Len(frames) \in Nat /\ (frames # <<>> => Len(frames) \in Nat \ {0})
<1> SUFFICES ASSUME DecodeInv PROVE Len(frames) \in Nat /\ (frames # <<>> => Len(frames) \in Nat \ {0})
  OBVIOUS
<1>1. PICK S : frames \in Seq(S)
  BY DEF DecodeInv, StackOK, IsSeq
<1> QED
  BY <1>1

\* What is protected is held by one of the calls, and is there.
LEMMA ProtectedHeld ==
  ASSUME DecodeInv
  PROVE  \A a \in Addr : /\ protect[a] > 0 <=> \E i \in 1..Len(frames) : a \in Held(frames[i])
                         /\ protect[a] > 0 => a \in UsedIn(heap)
<1> TAKE a \in Addr
<1>1. protect[a] = IF \E i \in 1..Len(frames) : a \in Held(frames[i]) THEN 1 ELSE 0
  BY DEF DecodeInv, ProtectOK
<1>2. (\E i \in 1..Len(frames) : a \in Held(frames[i])) => a \in UsedIn(heap)
  BY DEF DecodeInv, StackOK
<1> QED
  BY <1>1, <1>2

\* A collection leaves what the calls hold, and a new object is nobody's.
LEMMA HeldStays ==
  ASSUME DecodeInv, NEW S \in Collections(protect)
  PROVE  \A i \in 1..Len(frames) : Held(frames[i]) \subseteq S
<1> TAKE i \in 1..Len(frames)
<1>1. \A a \in Held(frames[i]) : a \in Addr /\ protect[a] > 0 /\ a \in UsedIn(heap)
  BY ProtectedHeld DEF Held
<1> QED
  BY <1>1, CollectionKeeps

\* A step after which a call g is on top of m calls that wait.
LEMMA NewTop ==
  ASSUME NEW m \in Nat, NEW g,
         GoodHeap(heap'), IsSeq(frames'), Len(frames') = m + 1, frames'[m + 1] = g,
         \A i \in 1..m : Waiting(frames'[i]) /\ Held(frames'[i]) \subseteq UsedIn(heap'),
         \A i, j \in 1..m : i # j => Held(frames'[i]) \cap Held(frames'[j]) = {},
         Active(g), FillsVector(g, heap'), Held(g) \subseteq UsedIn(heap'),
         \A i \in 1..m : Held(frames'[i]) \cap Held(g) = {},
         protect' \in [Addr \cup Kept -> Nat],
         \A a \in Addr :
           protect'[a] = IF a \in Held(g) \/ (\E i \in 1..m : a \in Held(frames'[i])) THEN 1 ELSE 0,
         protect'[R_NilValue] = IF g.s = R_NilValue THEN 1 ELSE 0
  PROVE  DecodeInv'
<1>1. frames' # <<>> /\ Top' = g
  BY DEF Top
<1>2. \A i \in 1..Len(frames') : i = m + 1 \/ i \in 1..m
  OBVIOUS
<1>3. m + 1 \in 1..Len(frames') /\ \A i \in 1..m : i \in 1..Len(frames')
  OBVIOUS
<1>4. StackOK'
  <2>1. \A i \in 1..(Len(frames') - 1) : Waiting(frames'[i])
    OBVIOUS
  <2>2. \A i \in 1..Len(frames') : Held(frames'[i]) \subseteq UsedIn(heap')
    BY <1>2
  <2>3. \A i, j \in 1..Len(frames') : i # j => Held(frames'[i]) \cap Held(frames'[j]) = {}
    BY <1>2
  <2> QED
    BY <1>1, <2>1, <2>2, <2>3 DEF StackOK
<1>5. ProtectOK'
  <2>1. \A a \in Addr : (\E i \in 1..Len(frames') : a \in Held(frames'[i]))
                        <=> (a \in Held(g) \/ \E i \in 1..m : a \in Held(frames'[i]))
    BY <1>2, <1>3
  <2> QED
    BY <1>1, <2>1 DEF ProtectOK
<1> QED
  BY <1>4, <1>5 DEF DecodeInv

-----------------------------------------------------------------------------
(* Steps of the call on top.                                               *)
LEMMA TopCall ==
  ASSUME DecodeInv, frames # <<>>
  PROVE  /\ Active(Top) /\ IsCall(Top) /\ FillsVector(Top, heap)
         /\ Len(frames) \in Nat \ {0} /\ Top = frames[Len(frames)]
         /\ Len(frames) \in 1..Len(frames)
BY LengthOK DEF DecodeInv, StackOK, Active, Top

\* The call on top is another one, the calls below are what they were.
LEMMA Below ==
  ASSUME DecodeInv, frames # <<>>, NEW g, Becomes(g)
  PROVE  /\ IsSeq(frames') /\ Len(frames') = Len(frames) /\ frames'[Len(frames)] = g
         /\ \A i \in 1..(Len(frames) - 1) : /\ frames'[i] = frames[i]
                                             /\ i \in 1..Len(frames)
                                             /\ Waiting(frames'[i])
                                             /\ Held(frames[i]) \cap Held(Top) = {}
         /\ \A i, j \in 1..(Len(frames) - 1) : i # j => Held(frames[i]) \cap Held(frames[j]) = {}
<1>0. IsSeq(frames)
  BY DEF DecodeInv, StackOK
<1>1. /\ IsSeq(frames') /\ Len(frames') = Len(frames) /\ frames'[Len(frames)] = g
      /\ \A i \in 1..(Len(frames) - 1) : frames'[i] = frames[i]
  <2>1. PICK S : frames \in Seq(S) /\ g \in S
    BY <1>0, InSomeSeq
  <2>2. frames' = [frames EXCEPT ![Len(frames)] = g]
    BY DEF Becomes
  <2>3. Len(frames) \in Nat \ {0} /\ DOMAIN frames = 1..Len(frames)
    BY <2>1
  <2>4. frames' \in Seq(S) /\ Len(frames') = Len(frames)
    BY <2>1, <2>2, <2>3
  <2>5. frames'[Len(frames)] = g /\ \A i \in 1..(Len(frames) - 1) : frames'[i] = frames[i]
    <3>1. Len(frames) \in DOMAIN frames
          /\ \A i \in 1..(Len(frames) - 1) : i \in DOMAIN frames /\ i # Len(frames)
      <4>1. \A n \in Nat \ {0} : n \in 1..n /\ \A i \in 1..(n - 1) : i \in 1..n /\ i # n
        OBVIOUS
      <4> QED
        BY <2>3, <4>1
    <3>2. \A k \in DOMAIN frames : frames'[k] = IF k = Len(frames) THEN g ELSE frames[k]
      BY <2>2
    <3> QED
      BY <3>1, <3>2
  <2> QED
    BY <2>4, <2>5 DEF IsSeq
<1>2. Len(frames) \in Nat \ {0} /\ Top = frames[Len(frames)] /\ Len(frames) \in 1..Len(frames)
  BY TopCall
<1>3. \A i \in 1..(Len(frames) - 1) : i \in 1..Len(frames) /\ i # Len(frames) /\ Waiting(frames[i])
  BY <1>2 DEF DecodeInv, StackOK
<1>4. \A i, j \in 1..Len(frames) : i # j => Held(frames[i]) \cap Held(frames[j]) = {}
  BY DEF DecodeInv, StackOK
<1> QED
  BY <1>1, <1>2, <1>3, <1>4

\* The top changes, but not what it holds, and a collection may run.
LEMMA SameHeld ==
  ASSUME DecodeInv, frames # <<>>, NEW g, Becomes(g), Active(g), Held(g) = Held(Top),
         g.s = R_NilValue <=> Top.s = R_NilValue,
         protect' = protect, GoodHeap(heap'), FillsVector(g, heap'),
         \A i \in 1..Len(frames) : Held(frames[i]) \subseteq UsedIn(heap')
  PROVE  DecodeInv'
<1> DEFINE m == Len(frames) - 1
<1>1. Len(frames) \in Nat \ {0} /\ Top = frames[Len(frames)] /\ Len(frames) \in 1..Len(frames)
  BY TopCall
<1>2. m \in Nat /\ Len(frames') = m + 1 /\ frames'[m + 1] = g /\ IsSeq(frames')
  BY <1>1, Below
<1>3. \A i \in 1..m : Waiting(frames'[i]) /\ Held(frames'[i]) \subseteq UsedIn(heap')
  BY Below
<1>4. \A i, j \in 1..m : i # j => Held(frames'[i]) \cap Held(frames'[j]) = {}
  BY Below
<1>5. \A i \in 1..m : Held(frames'[i]) \cap Held(g) = {}
  BY Below
<1>6. protect' \in [Addr \cup Kept -> Nat] /\ protect'[R_NilValue] = IF g.s = R_NilValue THEN 1 ELSE 0
  BY DEF DecodeInv, ProtectOK
<1>7. \A i \in 1..Len(frames) : i \in 1..m \/ i = Len(frames)
  BY <1>1
<1>8. \A a \in Addr :
        protect'[a] = IF a \in Held(g) \/ (\E i \in 1..m : a \in Held(frames'[i])) THEN 1 ELSE 0
  <2> TAKE a \in Addr
  <2>1. (\E i \in 1..Len(frames) : a \in Held(frames[i]))
        <=> (a \in Held(g) \/ \E i \in 1..m : a \in Held(frames'[i]))
    BY <1>1, <1>7, Below
  <2>2. protect[a] = IF \E i \in 1..Len(frames) : a \in Held(frames[i]) THEN 1 ELSE 0
    BY DEF DecodeInv, ProtectOK
  <2> QED
    BY <2>1, <2>2
<1>9. Held(g) \subseteq UsedIn(heap')
  BY <1>1
<1> HIDE DEF m
<1> QED
  BY <1>2, <1>3, <1>4, <1>5, <1>6, <1>8, <1>9, NewTop

\* The top makes an object and protects it.
LEMMA NewHeld ==
  ASSUME DecodeInv, frames # <<>>, NEW S \in Collections(protect), S # Addr,
         NEW object, NewObject(object),
         heap' = Allocated(S, object), protect' = Pushed(protect, Fresh(S)),
         NEW g, Becomes(g), Active(g), Held(g) = Held(Top) \cup {Fresh(S)},
         g.s # R_NilValue, Top.s # R_NilValue, FillsVector(g, heap')
  PROVE  DecodeInv'
<1> DEFINE m == Len(frames) - 1
           b == Fresh(S)
<1>1. Len(frames) \in Nat \ {0} /\ Top = frames[Len(frames)] /\ Len(frames) \in 1..Len(frames)
  BY TopCall
<1>2. m \in Nat /\ Len(frames') = m + 1 /\ frames'[m + 1] = g /\ IsSeq(frames')
  BY <1>1, Below
<1>3. /\ GoodHeap(heap') /\ UsedIn(heap') = S \cup {b} /\ b \in Addr /\ b \notin S
  BY AllocatedGood DEF DecodeInv
<1>4. \A i \in 1..Len(frames) : Held(frames[i]) \subseteq S
  BY HeldStays
<1> HIDE DEF b
<1>5. \A i \in 1..m : Waiting(frames'[i]) /\ Held(frames'[i]) \subseteq UsedIn(heap')
  BY <1>3, <1>4, Below
<1>6. \A i, j \in 1..m : i # j => Held(frames'[i]) \cap Held(frames'[j]) = {}
  BY Below
<1>7. Held(g) = Held(Top) \cup {b}
  BY DEF b
<1>8. \A i \in 1..m : Held(frames'[i]) \cap Held(g) = {}
  BY <1>3, <1>4, <1>7, Below
<1>9. Held(g) \subseteq UsedIn(heap')
  BY <1>1, <1>3, <1>4, <1>7
<1>10. \A i \in 1..Len(frames) : i \in 1..m \/ i = Len(frames)
  BY <1>1
<1>11. /\ protect \in [Addr \cup Kept -> Nat]
       /\ protect[R_NilValue] = 0
       /\ \A a \in Addr : protect[a] = IF \E i \in 1..Len(frames) : a \in Held(frames[i]) THEN 1 ELSE 0
  BY DEF DecodeInv, ProtectOK
<1>12. /\ protect' \in [Addr \cup Kept -> Nat]
       /\ protect'[b] = protect[b] + 1
       /\ \A a \in Addr \cup Kept : a # b => protect'[a] = protect[a]
  BY <1>3, <1>11 DEF Pushed, b
<1>13. protect'[R_NilValue] = IF g.s = R_NilValue THEN 1 ELSE 0
  BY <1>3, <1>11, <1>12, Outside DEF Kept
<1>14. \A a \in Addr :
        protect'[a] = IF a \in Held(g) \/ (\E i \in 1..m : a \in Held(frames'[i])) THEN 1 ELSE 0
  <2> TAKE a \in Addr
  <2>1. CASE a = b
    <3>1. protect[b] = 0
      BY <1>3, <1>4, <1>11
    <3> QED
      BY <2>1, <3>1, <1>7, <1>12
  <2>2. CASE a # b
    <3>1. (\E i \in 1..Len(frames) : a \in Held(frames[i]))
          <=> (a \in Held(g) \/ \E i \in 1..m : a \in Held(frames'[i]))
      BY <1>1, <1>7, <1>10, <2>2, Below
    <3> QED
      BY <2>2, <3>1, <1>11, <1>12
  <2> QED
    BY <2>1, <2>2
<1> HIDE DEF m
<1> QED
  BY <1>2, <1>3, <1>5, <1>6, <1>8, <1>9, <1>12, <1>13, <1>14, NewTop

\* A call of which some fields change.
Record(v, pc, s, names, done) == [val |-> v, pc |-> pc, s |-> s, names |-> names, done |-> done]

LEMMA RecordOK ==
  ASSUME NEW v, NEW pc, NEW s, NEW names, NEW done, NEW g, g = Record(v, pc, s, names, done)
  PROVE  /\ IsCall(g) /\ g.val = v /\ g.pc = pc /\ g.s = s /\ g.names = names /\ g.done = done
         /\ Held(g) = {s, names} \cap Addr
<1>1. g.val = v /\ g.pc = pc /\ g.s = s /\ g.names = names /\ g.done = done
  BY DEF Record
<1>2. IsCall(g)
  BY <1>1 DEF Record, IsCall
<1>3. Held(g) = {s, names} \cap Addr
  BY <1>1 DEF Held
<1> QED
  BY <1>1, <1>2, <1>3

LEMMA CallChanges ==
  ASSUME NEW f, IsCall(f), NEW pc, NEW s, NEW names, NEW done
  PROVE  /\ [f EXCEPT !.pc = pc] = Record(f.val, pc, f.s, f.names, f.done)
         /\ [f EXCEPT !.s = s, !.pc = pc] = Record(f.val, pc, s, f.names, f.done)
         /\ [f EXCEPT !.pc = pc, !.s = s] = Record(f.val, pc, s, f.names, f.done)
         /\ [f EXCEPT !.names = names, !.pc = pc] = Record(f.val, pc, f.s, names, f.done)
         /\ [f EXCEPT !.done = done] = Record(f.val, f.pc, f.s, f.names, done)
<1> DEFINE val0 == f.val
           pc0 == f.pc
           s0 == f.s
           names0 == f.names
           done0 == f.done
<1>1. f = Record(val0, pc0, s0, names0, done0)
  BY DEF IsCall, Record
<1> HIDE DEF val0, pc0, s0, names0, done0
<1>2. /\ [f EXCEPT !.s = s, !.pc = pc] = [[f EXCEPT !.s = s] EXCEPT !.pc = pc]
      /\ [f EXCEPT !.pc = pc, !.s = s] = [[f EXCEPT !.pc = pc] EXCEPT !.s = s]
      /\ [f EXCEPT !.names = names, !.pc = pc] = [[f EXCEPT !.names = names] EXCEPT !.pc = pc]
  OBVIOUS
<1> DEFINE withPc == [f EXCEPT !.pc = pc]
           withS == [f EXCEPT !.s = s]
           withNames == [f EXCEPT !.names = names]
<1>3. /\ withPc = Record(val0, pc, s0, names0, done0)
      /\ withS = Record(val0, pc0, s, names0, done0)
      /\ withNames = Record(val0, pc0, s0, names, done0)
      /\ [f EXCEPT !.done = done] = Record(val0, pc0, s0, names0, done)
  BY <1>1 DEF Record
<1> HIDE DEF withPc, withS, withNames
<1>4. /\ [withS EXCEPT !.pc = pc] = Record(val0, pc, s, names0, done0)
      /\ [withPc EXCEPT !.s = s] = Record(val0, pc, s, names0, done0)
      /\ [withNames EXCEPT !.pc = pc] = Record(val0, pc, s0, names, done0)
  BY <1>3 DEF Record
<1> QED
  BY <1>2, <1>3, <1>4 DEF withPc, withS, withNames, val0, pc0, s0, names0, done0

LEMMA PcAndDone ==
  ASSUME NEW f, IsCall(f), NEW pc, NEW done
  PROVE  [f EXCEPT !.pc = pc, !.done = done] = Record(f.val, pc, f.s, f.names, done)
<1>1. [f EXCEPT !.pc = pc, !.done = done] = [[f EXCEPT !.pc = pc] EXCEPT !.done = done]
  OBVIOUS
<1>2. [f EXCEPT !.pc = pc] = Record(f.val, pc, f.s, f.names, f.done)
  BY CallChanges
<1> DEFINE g == [f EXCEPT !.pc = pc]
           val0 == f.val
           s0 == f.s
           names0 == f.names
           done0 == f.done
<1>3. g = Record(val0, pc, s0, names0, done0)
  BY <1>2
<1> HIDE DEF g, val0, s0, names0, done0
<1>4. [g EXCEPT !.done = done] = Record(val0, pc, s0, names0, done)
  BY <1>3 DEF Record
<1> QED
  BY <1>1, <1>4 DEF g, val0, s0, names0

LEMMA EnterOK ==
  ASSUME DecodeInv, In("enter")
  PROVE  /\ frames # <<>> /\ IsCall(Top) /\ Top.s = NoObject /\ Top.names = NoObject
         /\ Held(Top) = {} /\ Top.s # R_NilValue
BY TopCall, Outside DEF In, Active, Held, Kept

LEMMA MakesStep ==
  ASSUME DecodeInv, In("enter"), NEW object, NewObject(object), NEW pc, Makes(object, pc),
         \/ pc = "return"
         \/ pc = "names" /\ Type(Top.val) = "map"
         \/ pc = "fill" /\ Type(Top.val) # "map" /\ (IsVector(Top.val) => object[1] # "VECSXP")
  PROVE  DecodeInv'
<1>1. PICK S \in Collections(protect) :
        /\ S # Addr
        /\ heap' = Allocated(S, object)
        /\ protect' = Pushed(protect, Fresh(S))
        /\ Becomes([Top EXCEPT !.s = Fresh(S), !.pc = pc])
  BY DEF Makes
<1> DEFINE b == Fresh(S)
           g == [Top EXCEPT !.s = b, !.pc = pc]
<1>2. /\ frames # <<>> /\ IsCall(Top) /\ Top.names = NoObject /\ Held(Top) = {}
      /\ Top.s # R_NilValue
  BY EnterOK
<1>3. b \in Addr /\ heap'[b] = object
  BY <1>1, AllocatedGood DEF DecodeInv
<1> HIDE DEF b
<1>4. IsCall(g) /\ g.val = Top.val /\ g.pc = pc /\ g.s = b /\ g.names = NoObject
  <2>1. g = Record(Top.val, pc, b, Top.names, Top.done)
    BY <1>2, CallChanges
  <2> HIDE DEF g
  <2> QED
    BY <1>2, <2>1, RecordOK
<1>5. Becomes(g)
  BY <1>1 DEF b
<1> HIDE DEF g
<1>6. Held(g) = Held(Top) \cup {b} /\ g.s # R_NilValue
  BY <1>2, <1>3, <1>4, Outside DEF Held, Kept
<1>7. Active(g)
  BY <1>3, <1>4 DEF Active
<1>8. FillsVector(g, heap')
  BY <1>3, <1>4 DEF FillsVector
<1> QED
  BY <1>1, <1>2, <1>5, <1>6, <1>7, <1>8, NewHeld DEF b

\* The stack is empty and R unwound its protections.
LEMMA Unwound ==
  ASSUME DecodeInv, frames' = <<>>, heap' = heap, protect' = Unprotected
  PROVE  DecodeInv'
<1>1. IsSeq(frames') /\ Len(frames') = 0 /\ \A i \in 1..Len(frames') : FALSE
  BY DEF IsSeq
<1>2. StackOK'
  BY <1>1 DEF StackOK
<1>3. ProtectOK'
  BY <1>1 DEF ProtectOK, Unprotected, Kept
<1> QED
  BY <1>2, <1>3 DEF DecodeInv

LEMMA FailsStep == ASSUME DecodeInv, Fails PROVE DecodeInv'
BY Unwound DEF Fails

-----------------------------------------------------------------------------
(* One lemma per step of decodeHelper.                                     *)
LEMMA NewKinds ==
  /\ \A k \in {"STRSXP", "REALSXP", "LGLSXP", "RAWSXP"} : \A c :
       NewObject(<<k, c, <<>>>>) /\ <<k, c, <<>>>>[1] # "VECSXP"
  /\ NewObject(<<"VECSXP", <<>>, <<>>>>)
  /\ \A t \in Scalar : SexpType[t] \in {"STRSXP", "REALSXP", "LGLSXP", "RAWSXP"}
<1>1. ASSUME NEW k, k \in {"STRSXP", "REALSXP", "LGLSXP", "RAWSXP"}, NEW c
      PROVE  NewObject(<<k, c, <<>>>>) /\ <<k, c, <<>>>>[1] # "VECSXP"
  <2> DEFINE o == <<k, c, <<>>>>
  <2>1. o[1] = k
    OBVIOUS
  <2> HIDE DEF o
  <2> QED
    BY <1>1, <2>1 DEF NewObject, ObjectOK, Free, o
<1>2. NewObject(<<"VECSXP", <<>>, <<>>>>)
  BY DEF NewObject, ObjectOK, Free
<1>3. \A t \in Scalar : SexpType[t] \in {"STRSXP", "REALSXP", "LGLSXP", "RAWSXP"}
  BY DEF Scalar, SexpType
<1> QED
  BY <1>1, <1>2, <1>3

LEMMA EnterScalarStep == ASSUME DecodeInv, EnterScalar PROVE DecodeInv'
<1> DEFINE k == SexpType[Type(Top.val)]
           o == <<k, <<Atom(Top.val)>>, <<>>>>
<1>1. In("enter") /\ Makes(o, "return")
  BY DEF EnterScalar
<1>2. k \in {"STRSXP", "REALSXP", "LGLSXP", "RAWSXP"}
  BY NewKinds DEF EnterScalar
<1>3. NewObject(o) /\ o[1] # "VECSXP"
  BY <1>2, NewKinds
<1> HIDE DEF o
<1> QED
  BY <1>1, <1>3, MakesStep

LEMMA EnterBytesStep == ASSUME DecodeInv, EnterBytes PROVE DecodeInv'
BY NewKinds, MakesStep DEF EnterBytes

LEMMA EnterMapStep == ASSUME DecodeInv, EnterMap PROVE DecodeInv'
BY NewKinds, MakesStep DEF EnterMap

LEMMA EnterArrayStep == ASSUME DecodeInv, EnterArray PROVE DecodeInv'
<1>1. In("enter") /\ Type(Top.val) # "map"
  BY DEF EnterArray, IsArray
<1>2. CASE IsVector(Top.val)
  <2>1. Type(Content(Top.val)[1]) \in Scalar
    BY <1>2 DEF IsVector
  <2> DEFINE k == SexpType[Type(Content(Top.val)[1])]
  <2>2. k \in {"STRSXP", "REALSXP", "LGLSXP", "RAWSXP"}
    BY <2>1, NewKinds
  <2>3. Makes(<<k, <<>>, <<>>>>, "fill")
    BY <1>2 DEF EnterArray
  <2> HIDE DEF k
  <2>4. NewObject(<<k, <<>>, <<>>>>) /\ <<k, <<>>, <<>>>>[1] # "VECSXP"
    BY <2>2, NewKinds
  <2> QED
    BY <1>1, <2>3, <2>4, MakesStep
<1>3. CASE ~IsVector(Top.val)
  <2>1. Makes(<<"VECSXP", <<>>, <<>>>>, "fill")
    BY <1>3 DEF EnterArray
  <2> QED
    BY <1>1, <1>3, <2>1, NewKinds, MakesStep
<1> QED
  BY <1>2, <1>3

LEMMA EnterNilStep == ASSUME DecodeInv, EnterNil PROVE DecodeInv'
<1> DEFINE g == [Top EXCEPT !.s = R_NilValue, !.pc = "return"]
           m == Len(frames) - 1
<1>1. /\ frames # <<>> /\ IsCall(Top) /\ Top.names = NoObject /\ Held(Top) = {}
      /\ Top.s # R_NilValue
  BY EnterOK DEF EnterNil
<1>2. g = Record(Top.val, "return", R_NilValue, Top.names, Top.done)
  BY <1>1, CallChanges
<1>3. Becomes(g) /\ protect' = Pushed(protect, R_NilValue) /\ heap' = heap
  BY DEF EnterNil
<1> HIDE DEF g
<1>4. IsCall(g) /\ g.pc = "return" /\ g.s = R_NilValue /\ g.names = NoObject
  BY <1>1, <1>2, RecordOK
<1>5. Held(g) = {}
  BY <1>4, Outside DEF Held, Kept
<1>6. Active(g) /\ FillsVector(g, heap')
  BY <1>4 DEF Active, FillsVector
<1>7. Len(frames) \in Nat \ {0} /\ Top = frames[Len(frames)] /\ Len(frames) \in 1..Len(frames)
  BY <1>1, TopCall
<1>8. m \in Nat /\ Len(frames') = m + 1 /\ frames'[m + 1] = g /\ IsSeq(frames')
  BY <1>1, <1>3, <1>7, Below
<1>9. \A i \in 1..m : /\ Waiting(frames'[i]) /\ frames'[i] = frames[i] /\ i \in 1..Len(frames)
  BY <1>1, <1>3, Below
<1>10. \A i \in 1..m : Held(frames'[i]) \subseteq UsedIn(heap')
  BY <1>3, <1>9 DEF DecodeInv, StackOK
<1>11. \A i, j \in 1..m : i # j => Held(frames'[i]) \cap Held(frames'[j]) = {}
  BY <1>9 DEF DecodeInv, StackOK
<1>12. /\ protect \in [Addr \cup Kept -> Nat]
       /\ protect[R_NilValue] = 0
       /\ \A a \in Addr : protect[a] = IF \E i \in 1..Len(frames) : a \in Held(frames[i]) THEN 1 ELSE 0
  BY <1>1 DEF DecodeInv, ProtectOK
<1>13. /\ protect' \in [Addr \cup Kept -> Nat]
       /\ protect'[R_NilValue] = 1
       /\ \A a \in Addr : protect'[a] = protect[a]
  BY <1>3, <1>12, Outside DEF Pushed, Kept
<1>14. \A i \in 1..Len(frames) : i \in 1..m \/ i = Len(frames)
  BY <1>7
<1>15. \A a \in Addr :
         protect'[a] = IF a \in Held(g) \/ (\E i \in 1..m : a \in Held(frames'[i])) THEN 1 ELSE 0
  <2> TAKE a \in Addr
  <2>1. (\E i \in 1..Len(frames) : a \in Held(frames[i]))
        <=> (a \in Held(g) \/ \E i \in 1..m : a \in Held(frames'[i]))
    BY <1>1, <1>5, <1>7, <1>9, <1>14
  <2> QED
    BY <2>1, <1>12, <1>13
<1>16. GoodHeap(heap')
  BY <1>3 DEF DecodeInv
<1>17. protect'[R_NilValue] = IF g.s = R_NilValue THEN 1 ELSE 0
  BY <1>4, <1>13
<1>18. \A i \in 1..m : Waiting(frames'[i]) /\ Held(frames'[i]) \subseteq UsedIn(heap')
  BY <1>9, <1>10
<1>19. Held(g) \subseteq UsedIn(heap') /\ \A i \in 1..m : Held(frames'[i]) \cap Held(g) = {}
  BY <1>5
<1>20. protect' \in [Addr \cup Kept -> Nat]
  BY <1>13
<1> HIDE DEF m
<1> QED
  BY <1>6, <1>8, <1>11, <1>15, <1>16, <1>17, <1>18, <1>19, <1>20, NewTop

\* The heap stays.
LEMMA SameHeap ==
  ASSUME DecodeInv, frames # <<>>, NEW g, Becomes(g), Active(g), Held(g) = Held(Top),
         g.s = R_NilValue <=> Top.s = R_NilValue,
         protect' = protect, heap' = heap, FillsVector(g, heap)
  PROVE  DecodeInv'
<1>1. GoodHeap(heap') /\ \A i \in 1..Len(frames) : Held(frames[i]) \subseteq UsedIn(heap')
  BY DEF DecodeInv, StackOK
<1> QED
  BY <1>1, SameHeld

LEMMA EnterUnknownStep == ASSUME DecodeInv, EnterUnknown PROVE DecodeInv'
<1> DEFINE g == [Top EXCEPT !.pc = "return"]
<1>1. frames # <<>> /\ IsCall(Top) /\ Top.s = NoObject /\ Top.names = NoObject
  BY EnterOK DEF EnterUnknown
<1>2. g = Record(Top.val, "return", Top.s, Top.names, Top.done)
  BY <1>1, CallChanges
<1>3. Becomes(g) /\ protect' = protect /\ heap' = heap
  BY DEF EnterUnknown, Goto
<1> HIDE DEF g
<1>4. IsCall(g) /\ g.pc = "return" /\ g.s = Top.s /\ g.names = Top.names
  BY <1>2, RecordOK
<1>5. Active(g) /\ FillsVector(g, heap) /\ Held(g) = Held(Top)
  BY <1>1, <1>4 DEF Active, FillsVector, Held
<1> QED
  BY <1>1, <1>3, <1>4, <1>5, SameHeap

\* The call that fills a vector, a list or a map.
LEMMA FillOK ==
  ASSUME DecodeInv, In("fill")
  PROVE  /\ frames # <<>> /\ IsCall(Top) /\ Top.s \in Addr /\ Top.s \in Held(Top)
         /\ Top.s # R_NilValue
         /\ Type(Top.val) = "map" => Top.names \in Addr /\ Top.names # Top.s
         /\ Type(Top.val) # "map" => Top.names = NoObject
         /\ IsVector(Top.val) => heap[Top.s][1] # "VECSXP"
BY TopCall, Outside DEF In, Active, Held, Kept, FillsVector

LEMMA FinishArrayStep == ASSUME DecodeInv, FinishArray PROVE DecodeInv'
<1> DEFINE g == [Top EXCEPT !.pc = "return"]
<1>1. frames # <<>> /\ IsCall(Top) /\ Top.s \in Addr /\ Top.names = NoObject
  BY FillOK DEF FinishArray, IsArray
<1>2. g = Record(Top.val, "return", Top.s, Top.names, Top.done)
  BY <1>1, CallChanges
<1>3. Becomes(g) /\ protect' = protect /\ heap' = heap
  BY DEF FinishArray, Goto
<1> HIDE DEF g
<1>4. IsCall(g) /\ g.pc = "return" /\ g.s = Top.s /\ g.names = Top.names
  BY <1>2, RecordOK
<1>5. Active(g) /\ FillsVector(g, heap) /\ Held(g) = Held(Top)
  BY <1>1, <1>4 DEF Active, FillsVector, Held
<1> QED
  BY <1>1, <1>3, <1>4, <1>5, SameHeap

LEMMA MakeNamesStep == ASSUME DecodeInv, MakeNames PROVE DecodeInv'
<1>1. PICK S \in Collections(protect) :
        /\ S # Addr
        /\ heap' = Allocated(S, <<"VECSXP", <<>>, <<>>>>)
        /\ protect' = Pushed(protect, Fresh(S))
        /\ Becomes([Top EXCEPT !.names = Fresh(S), !.pc = "fill"])
  BY DEF MakeNames
<1> DEFINE b == Fresh(S)
           object == <<"VECSXP", <<>>, <<>>>>
           g == [Top EXCEPT !.names = b, !.pc = "fill"]
<1>2. /\ frames # <<>> /\ IsCall(Top) /\ Top.s \in Addr /\ Top.s \in Held(Top)
      /\ Top.names = NoObject /\ Type(Top.val) = "map" /\ Held(Top) = {Top.s}
  BY TopCall, Outside DEF MakeNames, In, Active, Held
<1>3. NewObject(object)
  BY NewKinds
<1>4. g = Record(Top.val, "fill", Top.s, b, Top.done)
  BY <1>2, CallChanges
<1> HIDE DEF object
<1>5. b \in Addr /\ b \notin S
  BY <1>1, <1>3, AllocatedGood DEF DecodeInv, object
<1>6. Top.s \in S
  BY <1>2, TopCall, HeldStays
<1> HIDE DEF b
<1>7. Becomes(g)
  BY <1>1 DEF b
<1> HIDE DEF g
<1>8. IsCall(g) /\ g.val = Top.val /\ g.pc = "fill" /\ g.s = Top.s /\ g.names = b
  BY <1>4, RecordOK
<1>9. Active(g) /\ Held(g) = Held(Top) \cup {b} /\ g.s # R_NilValue /\ Top.s # R_NilValue
  BY <1>2, <1>5, <1>6, <1>8, Outside DEF Active, Held, Kept
<1>10. FillsVector(g, heap')
  BY <1>2, <1>8 DEF FillsVector, IsVector, IsArray
<1> QED
  BY <1>1, <1>2, <1>3, <1>7, <1>9, <1>10, NewHeld DEF b, object

\* The collection that frees nothing.
LEMMA NoCollection == ASSUME DecodeInv PROVE Used \in Collections(protect)
<1> DEFINE safe == {a \in Used : protect[a] > 0}
<1>1. Used = safe \cup (Used \ safe) /\ Used \ safe \in SUBSET (Used \ safe)
  OBVIOUS
<1>2. \A a \in Used : Elements(a) \subseteq Used
  BY UsedHere DEF DecodeInv, GoodHeap
<1> QED
  BY <1>1, <1>2 DEF Collections

LEMMA FillElementStep == ASSUME DecodeInv, FillElement PROVE DecodeInv'
<1> DEFINE e == Content(Top.val)[Top.done + 1]
           d == Top.done + 1
           g == [Top EXCEPT !.done = d]
<1>1. /\ frames # <<>> /\ IsCall(Top) /\ Top.s \in Addr /\ Top.s \in Held(Top)
      /\ heap[Top.s][1] # "VECSXP" /\ Type(Top.val) # "map" /\ Top.names = NoObject
      /\ IsVector(Top.val) /\ Top.pc = "fill"
  BY FillOK DEF FillElement, IsVector, IsArray, In
<1>2. CASE Type(e) # Type(Content(Top.val)[1])
  BY <1>2, FailsStep DEF FillElement
<1>3. CASE Type(e) = Type(Content(Top.val)[1])
  <2>1. PICK S \in Collections(protect) : heap' = WithElement(Collected(S), Top.s, Atom(e))
    BY <1>3, NoCollection DEF FillElement, Collected
  <2>2. Becomes(g) /\ protect' = protect
    BY <1>3 DEF FillElement
  <2> HIDE DEF d
  <2>3. g = Record(Top.val, Top.pc, Top.s, Top.names, d)
    BY <1>1, CallChanges
  <2> HIDE DEF g, e
  <2>4. IsCall(g) /\ g.val = Top.val /\ g.pc = "fill" /\ g.s = Top.s /\ g.names = Top.names
    BY <1>1, <2>3, RecordOK
  <2>5. /\ GoodHeap(Collected(S)) /\ UsedIn(Collected(S)) = S
        /\ \A a \in S : a \in Addr /\ Collected(S)[a] = heap[a]
    BY CollectedGood DEF DecodeInv
  <2>6. \A i \in 1..Len(frames) : Held(frames[i]) \subseteq S
    BY HeldStays
  <2>7. Top.s \in S
    BY <1>1, <2>6, TopCall
  <2> DEFINE h == Collected(S)
  <2>8. GoodHeap(h) /\ Top.s \in UsedIn(h) /\ h[Top.s][1] # "VECSXP"
    BY <1>1, <2>5, <2>7
  <2>9. heap' = WithElement(h, Top.s, Atom(e))
    BY <2>1
  <2> HIDE DEF h
  <2>10. GoodHeap(heap') /\ UsedIn(heap') = UsedIn(h) /\ heap'[Top.s][1] # "VECSXP"
    BY <1>1, <2>8, <2>9, WithElementGood
  <2>11. \A i \in 1..Len(frames) : Held(frames[i]) \subseteq UsedIn(heap')
    BY <2>5, <2>6, <2>10 DEF h
  <2>12. Active(g) /\ Held(g) = Held(Top) /\ FillsVector(g, heap')
    BY <1>1, <2>4, <2>10 DEF Active, Held, FillsVector
  <2> QED
    BY <1>1, <2>2, <2>4, <2>10, <2>11, <2>12, SameHeld
<1> QED
  BY <1>2, <1>3

LEMMA FillNameStep == ASSUME DecodeInv, FillName PROVE DecodeInv'
<1> DEFINE key == Content(Top.val)[Top.done + 1][1]
           d == Top.done + 1
           g == [Top EXCEPT !.pc = "fill", !.done = d]
<1>1. /\ frames # <<>> /\ IsCall(Top) /\ Top.s \in Addr /\ Top.names \in Addr
      /\ Top.names \in Held(Top) /\ Top.names # Top.s /\ Type(Top.val) = "map"
  BY TopCall DEF FillName, In, Active, Held
<1>2. PICK S \in Collections(protect) :
        /\ S # Addr
        /\ heap' = WithElement(Allocated(S, <<"STRSXP", <<key>>, <<>>>>), Top.names, Fresh(S))
  BY DEF FillName
<1>3. Becomes(g) /\ protect' = protect
  BY DEF FillName
<1> HIDE DEF d
<1>4. g = Record(Top.val, "fill", Top.s, Top.names, d)
  <2>1. IsCall(Top)
    BY <1>1
  <2> QED
    BY <2>1, PcAndDone
<1> HIDE DEF g, key
<1>5. IsCall(g) /\ g.val = Top.val /\ g.pc = "fill" /\ g.s = Top.s /\ g.names = Top.names
  BY <1>4, RecordOK
<1> DEFINE object == <<"STRSXP", <<key>>, <<>>>>
           h == Allocated(S, object)
           b == Fresh(S)
<1>6. NewObject(object)
  BY NewKinds
<1>7. heap' = WithElement(h, Top.names, b)
  BY <1>2
<1> HIDE DEF object
<1>8. /\ GoodHeap(h) /\ UsedIn(h) = S \cup {b} /\ b \in Addr
      /\ \A a \in S : a \in Addr /\ h[a] = heap[a]
  BY <1>2, <1>6, AllocatedGood DEF DecodeInv
<1>9. \A i \in 1..Len(frames) : Held(frames[i]) \subseteq S
  BY HeldStays
<1> HIDE DEF h, b
<1>10. Top.names \in UsedIn(h) /\ b \in UsedIn(h)
  BY <1>1, <1>8, <1>9, TopCall
<1>11. GoodHeap(heap') /\ UsedIn(heap') = UsedIn(h)
  BY <1>7, <1>8, <1>10, WithElementGood
<1>12. \A i \in 1..Len(frames) : Held(frames[i]) \subseteq UsedIn(heap')
  BY <1>8, <1>9, <1>11
<1>13. Active(g) /\ Held(g) = Held(Top) /\ FillsVector(g, heap')
  BY <1>1, <1>5 DEF Active, Held, FillsVector, IsVector, IsArray
<1> QED
  BY <1>1, <1>3, <1>5, <1>11, <1>12, <1>13, SameHeld

LEMMA FinishMapStep == ASSUME DecodeInv, FinishMap PROVE DecodeInv'
<1> DEFINE g == [Top EXCEPT !.names = NoObject, !.pc = "return"]
           m == Len(frames) - 1
           s == Top.s
           b == Top.names
           named == <<heap[s][1], heap[s][2], NamesOf(heap, b)>>
<1>1. /\ frames # <<>> /\ IsCall(Top) /\ s \in Addr /\ b \in Addr /\ s # b
      /\ Held(Top) = {s, b}
  BY FillOK DEF FinishMap, Held
<1>2. PICK S \in Collections(protect) :
        heap' = [a \in Addr |-> IF a = s THEN named ELSE IF a \in S THEN heap[a] ELSE Free]
  BY DEF FinishMap
<1>3. Becomes(g) /\ protect' = Dropped(protect, b)
  BY DEF FinishMap
<1>4. g = Record(Top.val, "return", s, NoObject, Top.done)
  BY <1>1, CallChanges
<1>5. named[1] = heap[s][1] /\ named[2] = heap[s][2]
  BY DEF NamesOf
<1> HIDE DEF g, named
<1>6. IsCall(g) /\ g.pc = "return" /\ g.s = s /\ g.names = NoObject /\ Held(g) = {s}
  BY <1>1, <1>4, RecordOK, Outside
<1>7. Active(g) /\ FillsVector(g, heap') /\ g.s # R_NilValue
  BY <1>1, <1>6, Outside DEF Active, FillsVector, Kept
<1>8. Len(frames) \in Nat \ {0} /\ Top = frames[Len(frames)] /\ Len(frames) \in 1..Len(frames)
  BY <1>1, TopCall
<1>9. \A i \in 1..Len(frames) : Held(frames[i]) \subseteq S
  BY HeldStays
<1>10. s \in S
  BY <1>1, <1>8, <1>9
<1>11. GoodHeap(heap') /\ UsedIn(heap') = S
  <2>1. S \subseteq UsedIn(heap) /\ \A a \in S : ElementsIn(heap, a) \subseteq S
    BY CollectionKeeps
  <2>2. /\ heap' = [a \in Addr |-> heap'[a]] /\ heap'[s] = named
        /\ \A a \in Addr : a # s => heap'[a] = IF a \in S THEN heap[a] ELSE Free
    BY <1>1, <1>2
  <2>3. heap[s] # Free /\ ObjectOK(heap[s]) /\ heap[s][1] # "free"
    BY <1>1, <1>10, <2>1 DEF UsedIn, DecodeInv, GoodHeap, ObjectOK
  <2>4. named # Free /\ ObjectOK(named)
    BY <1>5, <2>3 DEF ObjectOK, Free
  <2>5. UsedIn(heap') = S
    BY <1>1, <1>10, <2>1, <2>2, <2>4 DEF UsedIn
  <2>6. \A a \in Addr : ObjectOK(heap'[a])
    BY <2>2, <2>4, FreeObject DEF DecodeInv, GoodHeap
  <2>7. \A a \in S : ElementsIn(heap', a) = ElementsIn(heap, a)
    <3> TAKE a \in S
    <3>1. CASE a = s
      BY <1>5, <2>2, <3>1 DEF ElementsIn
    <3>2. CASE a # s
      <4>1. a \in Addr /\ heap'[a] = heap[a]
        BY <2>1, <2>2, <3>2 DEF UsedIn
      <4> QED
        BY <4>1 DEF ElementsIn
    <3> QED
      BY <3>1, <3>2
  <2> QED
    BY <2>1, <2>2, <2>5, <2>6, <2>7 DEF GoodHeap
<1>12. m \in Nat /\ Len(frames') = m + 1 /\ frames'[m + 1] = g /\ IsSeq(frames')
  BY <1>1, <1>3, <1>8, Below
<1>13. \A i \in 1..m : Waiting(frames'[i]) /\ Held(frames'[i]) \subseteq UsedIn(heap')
  BY <1>1, <1>3, <1>9, <1>11, Below
<1>14. \A i, j \in 1..m : i # j => Held(frames'[i]) \cap Held(frames'[j]) = {}
  BY <1>1, <1>3, Below
<1>15. \A i \in 1..m : Held(frames'[i]) \cap Held(Top) = {}
  BY <1>1, <1>3, Below
<1>16. \A i \in 1..m : Held(frames'[i]) \cap Held(g) = {}
  BY <1>1, <1>6, <1>15
<1>17. Held(g) \subseteq UsedIn(heap')
  BY <1>6, <1>10, <1>11
<1>18. /\ protect \in [Addr \cup Kept -> Nat] /\ protect[R_NilValue] = 0
       /\ \A a \in Addr : protect[a] = IF \E i \in 1..Len(frames) : a \in Held(frames[i]) THEN 1 ELSE 0
  BY <1>1, Outside DEF DecodeInv, ProtectOK, Kept
<1>19. protect[b] = 1
  BY <1>1, <1>8, <1>18
<1>20. /\ protect' \in [Addr \cup Kept -> Nat]
       /\ protect'[b] = 0 /\ \A a \in Addr \cup Kept : a # b => protect'[a] = protect[a]
  BY <1>1, <1>3, <1>18, <1>19 DEF Dropped
<1>21. protect'[R_NilValue] = IF g.s = R_NilValue THEN 1 ELSE 0
  BY <1>1, <1>7, <1>18, <1>20, Outside DEF Kept
<1>22. \A i \in 1..Len(frames) : i \in 1..m \/ i = Len(frames)
  BY <1>8
<1>23. \A i \in 1..m : frames'[i] = frames[i] /\ i \in 1..Len(frames)
  BY <1>1, <1>3, Below
<1>24. \A a \in Addr :
         protect'[a] = IF a \in Held(g) \/ (\E i \in 1..m : a \in Held(frames'[i])) THEN 1 ELSE 0
  <2> TAKE a \in Addr
  <2>1. CASE a = b
    BY <1>1, <1>6, <1>15, <1>20, <2>1
  <2>2. CASE a # b
    <3>1. (\E i \in 1..Len(frames) : a \in Held(frames[i]))
          <=> (a \in Held(g) \/ \E i \in 1..m : a \in Held(frames'[i]))
      BY <1>1, <1>6, <1>8, <1>22, <1>23, <2>2
    <3> QED
      BY <2>2, <3>1, <1>18, <1>20
  <2> QED
    BY <2>1, <2>2
<1>25. protect' \in [Addr \cup Kept -> Nat]
  BY <1>20
<1>26. GoodHeap(heap')
  BY <1>11
<1> HIDE DEF m, s, b
<1> QED
  BY <1>7, <1>12, <1>13, <1>14, <1>16, <1>17, <1>21, <1>24, <1>25, <1>26, NewTop

\* A call of decodeHelper inside a call, which then waits with what it holds.
\* The call on top waits as f for a call g that it makes.
LEMMA CallAdded ==
  ASSUME DecodeInv, frames # <<>>, NEW f, NEW g,
         frames' = Append([frames EXCEPT ![Len(frames)] = f], g)
  PROVE  /\ IsSeq(frames') /\ Len(frames') = Len(frames) + 1
         /\ frames'[Len(frames) + 1] = g /\ frames'[Len(frames)] = f
         /\ \A i \in 1..Len(frames) : i # Len(frames) => frames'[i] = frames[i]
<1> DEFINE n == Len(frames)
           t == [frames EXCEPT ![n] = f]
<1>1. n \in Nat \ {0} /\ n \in 1..n
  BY TopCall
<1>2. frames' = Append(t, g)
  OBVIOUS
<1>3. IsSeq(t) /\ Len(t) = n /\ t[n] = f /\ \A i \in 1..n : i # n => t[i] = frames[i]
  <2>1. PICK T : frames \in Seq(T) /\ f \in T
    BY InSomeSeq DEF DecodeInv, StackOK
  <2>2. DOMAIN frames = 1..n
    BY <2>1
  <2>3. t \in Seq(T) /\ Len(t) = n
    BY <1>1, <2>1, <2>2
  <2>4. \A k \in 1..n : t[k] = IF k = n THEN f ELSE frames[k]
    BY <2>2
  <2> QED
    BY <1>1, <2>3, <2>4 DEF IsSeq
<1> HIDE DEF t
<1>4. IsSeq(frames') /\ Len(frames') = n + 1 /\ frames'[n + 1] = g
      /\ \A i \in 1..n : frames'[i] = t[i]
  <2>1. /\ IsSeq(Append(t, g)) /\ Len(Append(t, g)) = Len(t) + 1 /\ Append(t, g)[Len(t) + 1] = g
        /\ \A i \in 1..Len(t) : Append(t, g)[i] = t[i]
    BY <1>3, Pushing
  <2> QED
    BY <1>2, <1>3, <2>1
<1> HIDE DEF n
<1> QED
  BY <1>1, <1>3, <1>4 DEF n

LEMMA CallStep ==
  ASSUME DecodeInv, frames # <<>>, NEW pc, NEW v,
         frames' = Append([frames EXCEPT ![Len(frames)].pc = pc], NewFrame(v)),
         heap' = heap, protect' = protect, Top.s # R_NilValue,
         Waiting([Top EXCEPT !.pc = pc])
  PROVE  DecodeInv'
<1> DEFINE n == Len(frames)
           f == [Top EXCEPT !.pc = pc]
           g == NewFrame(v)
<1>1. n \in Nat \ {0} /\ Top = frames[n] /\ n \in 1..n /\ IsCall(Top)
  BY TopCall
<1>2. g = Record(v, "enter", NoObject, NoObject, 0)
  BY DEF NewFrame, Record
<1>3. f = Record(Top.val, pc, Top.s, Top.names, Top.done)
  BY <1>1, CallChanges
<1>4. Held(f) = Held(Top) /\ Waiting(f)
  BY <1>3, RecordOK DEF Held
<1>5. frames' = Append([frames EXCEPT ![n] = f], g)
  BY <1>1
<1> HIDE DEF g, f
<1>6. IsCall(g) /\ g.pc = "enter" /\ g.s = NoObject /\ g.names = NoObject /\ Held(g) = {}
  BY <1>2, RecordOK, Outside
<1>7. Active(g) /\ FillsVector(g, heap') /\ g.s # R_NilValue
  BY <1>6, Outside DEF Active, FillsVector, Kept
<1>8. /\ IsSeq(frames') /\ Len(frames') = n + 1 /\ frames'[n + 1] = g /\ frames'[n] = f
      /\ \A i \in 1..n : i # n => frames'[i] = frames[i]
  BY <1>5, CallAdded
<1>9. IsSeq(frames') /\ Len(frames') = n + 1 /\ frames'[n + 1] = g
  BY <1>8
<1>10. \A i \in 1..n : Held(frames'[i]) = Held(frames[i])
  BY <1>1, <1>4, <1>8
<1>11. \A i \in 1..n : Waiting(frames'[i])
  <2> TAKE i \in 1..n
  <2>1. i # n => i \in 1..(n - 1)
    BY <1>1
  <2>2. i # n => Waiting(frames[i])
    BY <2>1 DEF DecodeInv, StackOK
  <2> QED
    BY <1>4, <1>8, <2>2
<1>12. /\ \A i \in 1..n : Held(frames'[i]) \subseteq UsedIn(heap')
       /\ \A i, j \in 1..n : i # j => Held(frames'[i]) \cap Held(frames'[j]) = {}
  BY <1>10 DEF DecodeInv, StackOK
<1>13. /\ protect' \in [Addr \cup Kept -> Nat]
       /\ protect'[R_NilValue] = 0
       /\ \A a \in Addr : protect'[a] = IF \E i \in 1..n : a \in Held(frames[i]) THEN 1 ELSE 0
  BY DEF DecodeInv, ProtectOK
<1>14. \A a \in Addr :
         protect'[a] = IF a \in Held(g) \/ (\E i \in 1..n : a \in Held(frames'[i])) THEN 1 ELSE 0
  BY <1>6, <1>10, <1>13
<1>15. GoodHeap(heap')
  BY DEF DecodeInv
<1>16. /\ \A i \in 1..n : Waiting(frames'[i]) /\ Held(frames'[i]) \subseteq UsedIn(heap')
       /\ \A i \in 1..n : Held(frames'[i]) \cap Held(g) = {}
       /\ Held(g) \subseteq UsedIn(heap')
  BY <1>6, <1>11, <1>12
<1>17. protect'[R_NilValue] = IF g.s = R_NilValue THEN 1 ELSE 0
  BY <1>7, <1>13
<1>18. protect' \in [Addr \cup Kept -> Nat] /\ n \in Nat
  BY <1>1, <1>13
<1>19. \A i, j \in 1..n : i # j => Held(frames'[i]) \cap Held(frames'[j]) = {}
  BY <1>12
<1> HIDE DEF n
<1> QED
  BY <1>7, <1>9, <1>14, <1>15, <1>16, <1>17, <1>18, <1>19, NewTop

LEMMA EnterJsonStep == ASSUME DecodeInv, EnterJson PROVE DecodeInv'
<1> DEFINE f == [Top EXCEPT !.pc = "json"]
           json == JsonValue(Content(Top.val))
<1>1. CASE json = Malformed
  BY <1>1, FailsStep DEF EnterJson
<1>2. CASE json # Malformed
  <2>1. /\ frames # <<>> /\ IsCall(Top) /\ Top.s = NoObject /\ Top.names = NoObject
        /\ Top.s # R_NilValue
    BY EnterOK DEF EnterJson
  <2>2. f = Record(Top.val, "json", Top.s, Top.names, Top.done)
    BY <2>1, CallChanges
  <2>3. IsCall(f) /\ f.pc = "json" /\ f.s = NoObject /\ f.names = NoObject
    BY <2>1, <2>2, RecordOK
  <2>4. Waiting(f)
    BY <2>3 DEF Waiting
  <2>5. /\ frames' = Append([frames EXCEPT ![Len(frames)].pc = "json"], NewFrame(json))
        /\ heap' = heap /\ protect' = protect
    BY <1>2 DEF EnterJson
  <2> QED
    BY <2>1, <2>4, <2>5, CallStep
<1> QED
  BY <1>1, <1>2

LEMMA CallElementStep == ASSUME DecodeInv, CallElement PROVE DecodeInv'
<1> DEFINE f == [Top EXCEPT !.pc = "element"]
           v == At(Top.val, Top.done + 1)
<1>1. /\ frames # <<>> /\ IsCall(Top) /\ Top.s \in Addr /\ Top.s # R_NilValue
      /\ Type(Top.val) = "map" => Top.names \in Addr /\ Top.names # Top.s
      /\ Type(Top.val) # "map" => Top.names = NoObject
      /\ ~IsVector(Top.val)
  BY FillOK DEF CallElement
<1>2. f = Record(Top.val, "element", Top.s, Top.names, Top.done)
  BY <1>1, CallChanges
<1>3. /\ frames' = Append([frames EXCEPT ![Len(frames)].pc = "element"], NewFrame(v))
      /\ heap' = heap /\ protect' = protect
  BY DEF CallElement
<1> HIDE DEF v
<1>4. IsCall(f) /\ f.val = Top.val /\ f.pc = "element" /\ f.s = Top.s /\ f.names = Top.names
  BY <1>2, RecordOK
<1>5. Waiting(f)
  BY <1>1, <1>4 DEF Waiting
<1> QED
  BY <1>1, <1>3, <1>5, CallStep

\* The call on top gives its object to the one below, which goes on as g.
LEMMA ReturnStep ==
  ASSUME DecodeInv, frames # <<>>, Len(frames) > 1, NEW g,
         frames' = Append(SubSeq(frames, 1, Len(frames) - 2), g),
         GoodHeap(heap'), UsedIn(heap') = UsedIn(heap), Active(g), FillsVector(g, heap'),
         protect' \in [Addr \cup Kept -> Nat],
         \/ /\ Held(g) = Held(frames[Len(frames) - 1]) \cup Held(Top)
            /\ protect' = protect
            /\ g.s = R_NilValue <=> Top.s = R_NilValue
         \/ /\ Held(g) = Held(frames[Len(frames) - 1])
            /\ \A a \in Addr : protect'[a] = IF a \in Held(Top) THEN 0 ELSE protect[a]
            /\ protect'[R_NilValue] = 0 /\ g.s # R_NilValue
  PROVE  DecodeInv'
<1> DEFINE n == Len(frames)
           m == n - 2
<1>1. n \in Nat /\ n > 1 /\ Top = frames[n]
  BY TopCall
<1>2. /\ m \in Nat /\ m + 1 = n - 1 /\ n \in 1..n /\ (m + 1) \in 1..n /\ m + 1 # n
      /\ \A i \in 1..m : i \in 1..n /\ i # n /\ i # m + 1 /\ i \in 1..(n - 1)
      /\ \A i \in 1..n : i = n \/ i = m + 1 \/ i \in 1..m
  BY <1>1
<1>3. IsSeq(frames') /\ Len(frames') = m + 1 /\ frames'[m + 1] = g
      /\ \A i \in 1..m : frames'[i] = frames[i]
  <2>1. IsSeq(frames)
    BY DEF DecodeInv, StackOK
  <2> DEFINE t == Append(SubSeq(frames, 1, Len(frames) - 2), g)
  <2>2. /\ IsSeq(t) /\ Len(t) = Len(frames) - 1 /\ t[Len(frames) - 1] = g
        /\ \A i \in 1..(Len(frames) - 2) : t[i] = frames[i]
    BY <2>1, Popping
  <2>3. frames' = t
    OBVIOUS
  <2> HIDE DEF t
  <2> QED
    BY <1>2, <2>2, <2>3
<1>4. Top = frames[n] /\ Held(frames[n - 1]) = Held(frames[m + 1])
  BY <1>1, <1>2
<1>5. /\ protect \in [Addr \cup Kept -> Nat]
      /\ protect[R_NilValue] = IF Top.s = R_NilValue THEN 1 ELSE 0
      /\ \A a \in Addr : protect[a] = IF \E i \in 1..n : a \in Held(frames[i]) THEN 1 ELSE 0
  BY DEF DecodeInv, ProtectOK
<1>6. /\ \A i, j \in 1..n : i # j => Held(frames[i]) \cap Held(frames[j]) = {}
      /\ \A i \in 1..n : Held(frames[i]) \subseteq UsedIn(heap')
      /\ \A i \in 1..(n - 1) : Waiting(frames[i])
  BY DEF DecodeInv, StackOK
<1>7. /\ Held(frames[m + 1]) \subseteq Held(g)
      /\ Held(g) \subseteq Held(frames[m + 1]) \cup Held(frames[n])
  BY <1>4
<1>8. /\ \A a \in Addr : protect'[a] = IF a \in Held(Top) \ Held(g) THEN 0 ELSE protect[a]
      /\ protect'[R_NilValue] = IF g.s = R_NilValue THEN 1 ELSE 0
  <2>1. Held(Top) \cap Held(frames[m + 1]) = {}
    BY <1>2, <1>4, <1>6
  <2> QED
    BY <1>4, <1>5, <2>1
<1> HIDE DEF m, n
<1>9. \A i \in 1..m : Waiting(frames'[i]) /\ Held(frames'[i]) \subseteq UsedIn(heap')
  BY <1>2, <1>3, <1>6
<1>10. \A i, j \in 1..m : i # j => Held(frames'[i]) \cap Held(frames'[j]) = {}
  BY <1>2, <1>3, <1>6
<1>11. Held(g) \subseteq UsedIn(heap')
  BY <1>2, <1>6, <1>7
<1>12. \A i \in 1..m : Held(frames'[i]) \cap Held(g) = {}
  <2> TAKE i \in 1..m
  <2>1. Held(frames[i]) \cap Held(frames[m + 1]) = {} /\ Held(frames[i]) \cap Held(frames[n]) = {}
    BY <1>2, <1>6
  <2> QED
    BY <1>3, <1>7, <2>1
<1>13. \A a \in Addr :
         protect'[a] = IF a \in Held(g) \/ (\E i \in 1..m : a \in Held(frames'[i])) THEN 1 ELSE 0
  <2> TAKE a \in Addr
  <2>1. CASE a \in Held(Top) \ Held(g)
    <3>1. ~ \E i \in 1..m : a \in Held(frames'[i])
      BY <1>2, <1>3, <1>4, <1>6, <2>1
    <3> QED
      BY <1>8, <2>1, <3>1
  <2>2. CASE a \notin Held(Top) \ Held(g)
    <3>1. (\E i \in 1..n : a \in Held(frames[i]))
          <=> (a \in Held(g) \/ \E i \in 1..m : a \in Held(frames'[i]))
      <4>1. ASSUME NEW i \in 1..n, a \in Held(frames[i])
            PROVE  a \in Held(g) \/ \E j \in 1..m : a \in Held(frames'[j])
        BY <1>2, <1>3, <1>4, <1>7, <2>2, <4>1
      <4>2. a \in Held(g) => a \in Held(frames[m + 1]) \/ a \in Held(frames[n])
        BY <1>7
      <4>3. \A i \in 1..m : frames'[i] = frames[i] /\ i \in 1..n
        BY <1>2, <1>3
      <4> QED
        BY <1>2, <4>1, <4>2, <4>3
    <3> QED
      BY <1>5, <1>8, <2>2, <3>1
  <2> QED
    BY <2>1, <2>2
<1>14. protect'[R_NilValue] = IF g.s = R_NilValue THEN 1 ELSE 0
  BY <1>8
<1>15. m \in Nat /\ IsSeq(frames') /\ Len(frames') = m + 1 /\ frames'[m + 1] = g
  BY <1>2, <1>3
<1> QED
  BY <1>9, <1>10, <1>11, <1>12, <1>13, <1>14, <1>15, NewTop

LEMMA ReturnOK ==
  ASSUME DecodeInv, In("return")
  PROVE  /\ frames # <<>> /\ Top.s \in Addr \cup {R_NilValue, NoObject}
         /\ Held(Top) = {Top.s} \cap Addr
BY TopCall, Outside DEF In, Active, Held

LEMMA ReturnElementStep == ASSUME DecodeInv, ReturnElement PROVE DecodeInv'
<1> DEFINE f == frames[Len(frames) - 1]
           a == Top.s
           Back(g) == frames' = Append(SubSeq(frames, 1, Len(frames) - 2), g)
<1>1. /\ frames # <<>> /\ Len(frames) > 1 /\ a \in Addr \cup {R_NilValue, NoObject}
      /\ Held(Top) = {a} \cap Addr
  BY ReturnOK DEF ReturnElement
<1>2. Len(frames) \in Nat /\ Top = frames[Len(frames)] /\ Len(frames) \in 1..Len(frames)
      /\ Len(frames) - 1 \in 1..Len(frames) /\ Len(frames) - 1 \in 1..(Len(frames) - 1)
      /\ Len(frames) - 1 # Len(frames)
  BY <1>1, TopCall
<1>3. /\ Waiting(f) /\ IsCall(f) /\ Held(f) \subseteq UsedIn(heap) /\ Held(Top) \subseteq UsedIn(heap)
      /\ Held(f) \cap Held(Top) = {}
  BY <1>2 DEF DecodeInv, StackOK, Waiting
<1>4. /\ protect \in [Addr \cup Kept -> Nat]
      /\ protect[R_NilValue] = IF a = R_NilValue THEN 1 ELSE 0
      /\ a \in Addr => protect[a] = 1
  BY <1>1, <1>2 DEF DecodeInv, ProtectOK
<1>5. CASE a = NoObject /\ Fails
  BY <1>5, FailsStep
<1>6. CASE /\ a # NoObject /\ f.pc = "json"
           /\ Back([f EXCEPT !.pc = "return", !.s = a])
           /\ UNCHANGED <<heap, protect, warned, decoded>>
  <2> DEFINE g == [f EXCEPT !.pc = "return", !.s = a]
  <2>1. f.names = NoObject /\ Held(f) = {}
    BY <1>3, <1>6, Outside DEF Waiting, Held
  <2>2. g = Record(f.val, "return", a, f.names, f.done)
    BY <1>3, CallChanges
  <2>3. Back(g)
    BY <1>6
  <2> HIDE DEF g, f, a
  <2>4. IsCall(g) /\ g.pc = "return" /\ g.s = a /\ g.names = NoObject /\ Held(g) = {a} \cap Addr
    BY <2>1, <2>2, RecordOK, Outside
  <2>5. Active(g) /\ FillsVector(g, heap')
    BY <1>1, <2>4 DEF Active, FillsVector
  <2>6. Held(g) = Held(f) \cup Held(Top) /\ (g.s = R_NilValue <=> Top.s = R_NilValue)
    BY <1>1, <2>1, <2>4 DEF a
  <2>7. GoodHeap(heap') /\ UsedIn(heap') = UsedIn(heap) /\ protect' = protect
        /\ protect' \in [Addr \cup Kept -> Nat]
    BY <1>4, <1>6 DEF DecodeInv
  <2> QED
    BY <1>1, <2>3, <2>5, <2>6, <2>7, ReturnStep DEF f
<1>7. CASE /\ a # NoObject /\ f.pc = "element"
           /\ Embed(f, a)
           /\ IF Type(f.val) = "map" THEN Back([f EXCEPT !.pc = "key"])
              ELSE Back([f EXCEPT !.pc = "fill", !.done = f.done + 1])
  <2> DEFINE d == f.done + 1
             g == IF Type(f.val) = "map" THEN [f EXCEPT !.pc = "key"]
                  ELSE [f EXCEPT !.pc = "fill", !.done = d]
  <2>1. /\ f.s \in Addr /\ f.s \in Held(f) /\ ~IsVector(f.val)
        /\ Type(f.val) = "map" => f.names \in Addr /\ f.names # f.s
        /\ Type(f.val) # "map" => f.names = NoObject
    BY <1>3, <1>7 DEF Waiting, Held
  <2>2. a \in Addr \cup {R_NilValue}
    BY <1>1, <1>7
  <2>3. Back(g)
    BY <1>7
  <2>4. heap' = WithElement(heap, f.s, a) /\ protect' = Dropped(protect, a)
    BY <1>7 DEF Embed
  <2> HIDE DEF d
  <2>5. [f EXCEPT !.pc = "key"] = Record(f.val, "key", f.s, f.names, f.done)
    BY <1>3, CallChanges
  <2>6. [f EXCEPT !.pc = "fill", !.done = d] = Record(f.val, "fill", f.s, f.names, d)
    BY <1>3, PcAndDone
  <2>7. /\ IsCall(g) /\ g.val = f.val /\ g.s = f.s /\ g.names = f.names
        /\ g.pc = IF Type(f.val) = "map" THEN "key" ELSE "fill"
    <3>1. CASE Type(f.val) = "map"
      <4>1. g = Record(f.val, "key", f.s, f.names, f.done)
        BY <2>5, <3>1
      <4> HIDE DEF g, f
      <4> QED
        BY <3>1, <4>1, RecordOK
    <3>2. CASE Type(f.val) # "map"
      <4>1. g = Record(f.val, "fill", f.s, f.names, d)
        BY <2>6, <3>2
      <4> HIDE DEF g, f
      <4> QED
        BY <3>2, <4>1, RecordOK
    <3> QED
      BY <3>1, <3>2
  <2> HIDE DEF g, f, a
  <2>8. Active(g) /\ FillsVector(g, heap') /\ Held(g) = Held(f) /\ g.s # R_NilValue
    BY <2>1, <2>7, Outside DEF Active, FillsVector, Held, Kept
  <2>9. f.s \in UsedIn(heap) /\ a \in UsedIn(heap) \cup {R_NilValue}
    BY <1>1, <1>3, <2>1, <2>2
  <2>10. GoodHeap(heap') /\ UsedIn(heap') = UsedIn(heap)
    BY <2>4, <2>9, WithElementGood DEF DecodeInv
  <2>11. /\ protect' \in [Addr \cup Kept -> Nat] /\ protect'[a] = 0
         /\ \A b \in Addr \cup Kept : b # a => protect'[b] = protect[b]
    BY <1>4, <2>2, <2>4 DEF Dropped, Kept
  <2>12. /\ \A b \in Addr : protect'[b] = IF b \in Held(Top) THEN 0 ELSE protect[b]
         /\ protect'[R_NilValue] = 0
    BY <1>1, <1>4, <2>2, <2>11, Outside DEF Kept
  <2>13. protect' \in [Addr \cup Kept -> Nat]
    BY <2>11
  <2> QED
    BY <1>1, <2>3, <2>8, <2>10, <2>12, <2>13, ReturnStep DEF f
<1> QED
  BY <1>5, <1>6, <1>7 DEF ReturnElement

LEMMA FinishStep == ASSUME DecodeInv, Finish PROVE DecodeInv'
<1> DEFINE a == Top.s
<1>1. frames # <<>> /\ Len(frames) = 1 /\ a \in Addr \cup {R_NilValue, NoObject}
      /\ Held(Top) = {a} \cap Addr
  BY ReturnOK DEF Finish
<1>2. heap' = heap /\ frames' = <<>>
      /\ protect' = IF a = NoObject THEN protect ELSE Dropped(protect, a)
  BY DEF Finish
<1>3. \A i \in 1..Len(frames) : frames[i] = Top
  BY <1>1 DEF Top
<1>4. 1 \in 1..Len(frames)
  BY <1>1
<1>5. /\ protect \in [Addr \cup Kept -> Nat]
      /\ protect[R_NilValue] = IF a = R_NilValue THEN 1 ELSE 0
      /\ \A b \in Addr : protect[b] = IF b = a THEN 1 ELSE 0
  BY <1>1, <1>3, <1>4 DEF DecodeInv, ProtectOK
<1> HIDE DEF a
<1>6. /\ protect' \in [Addr \cup Kept -> Nat] /\ protect'[R_NilValue] = 0
      /\ \A b \in Addr : protect'[b] = 0
  <2>1. CASE a = NoObject
    BY <1>2, <1>5, <2>1, Outside DEF Kept
  <2>2. CASE a \in Addr \cup {R_NilValue}
    BY <1>2, <1>5, <2>2, Outside DEF Dropped, Kept
  <2> QED
    BY <1>1, <2>1, <2>2
<1>7. IsSeq(frames') /\ Len(frames') = 0 /\ \A i \in 1..Len(frames') : FALSE
  BY <1>2 DEF IsSeq
<1> QED
  BY <1>2, <1>6, <1>7 DEF DecodeInv, StackOK, ProtectOK

\* Nothing that a conversion may use is protected.
NoneProtected ==
  protect \in [Addr \cup Kept -> Nat] /\ \A a \in Addr \cup {R_NilValue} : protect[a] = 0

LEMMA Start ==
  ASSUME NEW val, heap = NoHeap, NoneProtected, frames = <<NewFrame(val)>>
  PROVE  DecodeInv
<1> DEFINE g == NewFrame(val)
<1>1. g = Record(val, "enter", NoObject, NoObject, 0)
  BY DEF NewFrame, Record
<1>2. frames = <<g>>
  OBVIOUS
<1> HIDE DEF g
<1>3. IsCall(g) /\ g.pc = "enter" /\ g.s = NoObject /\ g.names = NoObject /\ Held(g) = {}
  BY <1>1, RecordOK, Outside
<1>4. IsSeq(frames) /\ Len(frames) = 1 /\ Top = g /\ \A i \in 1..Len(frames) : i = 1 /\ frames[i] = g
  <2>1. frames \in Seq({g})
    BY <1>2
  <2>2. Len(frames) = 1 /\ frames[1] = g
    BY <1>2
  <2>3. IsSeq(frames)
    BY <2>1 DEF IsSeq
  <2>4. Top = g
    BY <2>2 DEF Top
  <2>5. \A i \in 1..Len(frames) : i = 1
    BY <2>2
  <2> QED
    BY <2>2, <2>3, <2>4, <2>5
<1>5. Active(g) /\ FillsVector(g, heap) /\ g.s # R_NilValue
  BY <1>3, Outside DEF Active, FillsVector, Kept
<1>6. StackOK
  BY <1>3, <1>4, <1>5 DEF StackOK
<1>7. ProtectOK
  BY <1>3, <1>4, <1>5, Outside DEF ProtectOK, NoneProtected, Kept
<1>8. GoodHeap(heap)
  <2>1. \A a \in Addr : heap[a] = Free
    BY DEF NoHeap
  <2>2. UsedIn(heap) = {} /\ \A a \in Addr : ObjectOK(heap[a])
    BY <2>1, FreeObject DEF UsedIn
  <2> QED
    BY <2>2 DEF GoodHeap, NoHeap
<1> QED
  BY <1>6, <1>7, <1>8 DEF DecodeInv

LEMMA Steps == DecodeInv /\ [decodeHelper]_decoder => DecodeInv'
<1> SUFFICES ASSUME DecodeInv, [decodeHelper]_decoder PROVE DecodeInv'
  OBVIOUS
<1>1. CASE UNCHANGED decoder
  BY <1>1 DEF decoder, DecodeInv, StackOK, ProtectOK, Top
<1>2. CASE decodeHelper
  BY <1>2, EnterScalarStep, EnterBytesStep, EnterJsonStep, EnterNilStep, EnterArrayStep,
     EnterMapStep, EnterUnknownStep, MakeNamesStep, FillElementStep, CallElementStep,
     FinishArrayStep, FinishMapStep, ReturnElementStep, FillNameStep, FinishStep
  DEF decodeHelper
<1> QED
  BY <1>1, <1>2

\* A list in a good heap holds R objects that are there, and nothing else.
LEMMA ListsWhole ==
  ASSUME GoodHeap(heap)
  PROVE  \A a \in Used : heap[a][1] = "VECSXP" =>
           \A i \in DOMAIN heap[a][2] : heap[a][2][i] \in Used \cup {R_NilValue}
<1> SUFFICES ASSUME NEW b \in UsedIn(heap), heap[b][1] = "VECSXP", NEW i \in DOMAIN heap[b][2]
             PROVE  heap[b][2][i] \in UsedIn(heap) \cup {R_NilValue}
  BY UsedHere
<1>1. ObjectOK(heap[b]) /\ ElementsIn(heap, b) \subseteq UsedIn(heap)
  BY Zenon DEF GoodHeap, UsedIn
<1>2. heap[b][2][i] \in Addr \cup {R_NilValue}
  BY <1>1 DEF ObjectOK
<1>3. heap[b][2][i] \in Addr => heap[b][2][i] \in ElementsIn(heap, b)
  BY DEF ElementsIn
<1> QED
  BY <1>1, <1>2, <1>3

LEMMA NothingLost == DecodeInv => NothingDangles
<1> SUFFICES ASSUME DecodeInv PROVE NothingDangles
  OBVIOUS
<1>1. \A a \in Addr : protect[a] > 0 => a \in Used
  BY ProtectedHeld, UsedHere
<1>2. \A i \in 1..Len(frames) : {frames[i].s, frames[i].names} \cap Addr \subseteq Used
  BY UsedHere DEF DecodeInv, StackOK, Held
<1> QED
  BY <1>1, <1>2, ListsWhole DEF DecodeInv, NothingDangles

LEMMA UnprotectedHere == protect = Unprotected => NoneProtected
BY DEF Unprotected, NoneProtected, Kept

\* A conversion that is over has given back everything that it protected.
GivenBack == frames = <<>> => \A a \in Addr \cup {R_NilValue} : protect[a] = 0

LEMMA AllGivenBack == DecodeInv => GivenBack
<1> SUFFICES ASSUME DecodeInv, frames = <<>> PROVE \A a \in Addr \cup {R_NilValue} : protect[a] = 0
  BY DEF GivenBack
<1>1. \A i \in 1..Len(frames) : FALSE
  OBVIOUS
<1> QED
  BY <1>1 DEF DecodeInv, ProtectOK

-----------------------------------------------------------------------------
\* decodeHelper, for every value and any number of addresses: a collection,
\* whenever R runs one, frees nothing that is protected, that a call still
\* uses, or that either of these leads to, and no list holds a null pointer.
THEOREM NothingFreed == ASSUME NEW val PROVE Conversion(val) => []NothingDangles
<1>1. heap = NoHeap /\ protect = Unprotected /\ frames = <<NewFrame(val)>> => DecodeInv
  BY Start, UnprotectedHere
<1> QED
  BY <1>1, Steps, NothingLost, PTL DEF Conversion

\* decodeMsgpackToR: when it returns, or has failed, the protect stack is as it was.
THEOREM ProtectBalanced == ASSUME NEW val PROVE Conversion(val) => []GivenBack
<1>1. heap = NoHeap /\ protect = Unprotected /\ frames = <<NewFrame(val)>> => DecodeInv
  BY Start, UnprotectedHere
<1> QED
  BY <1>1, Steps, AllGivenBack, PTL DEF Conversion

-----------------------------------------------------------------------------
(* What the objects of a heap stand for.                                   *)

\* What the object at b leads to is in K, but for NULL.
LeadsInto(h, b, K) == h[b][1] = "VECSXP" => \A i \in DOMAIN h[b][2] : h[b][2][i] \in K \cup {R_NilValue}

\* A set of objects that holds all that its lists lead to.
ClosedIn(h, K) == K \subseteq Addr /\ \A b \in K : LeadsInto(h, b, K)

Values(h, V) == V = [b \in Addr \cup {R_NilValue} |-> ObjectValue(h, V, b)]

ValuesOn(h, K, V) == \A b \in K \cup {R_NilValue} : V[b] = ObjectValue(h, V, b)

\* Every object has a value, and only one: no list is in itself.
Meaningful(h) ==
  /\ \E V : Values(h, V)
  /\ \A K : ClosedIn(h, K) =>
       \A V, W : ValuesOn(h, K, V) /\ ValuesOn(h, K, W) => \A b \in K \cup {R_NilValue} : V[b] = W[b]

LEMMA ItsValues ==
  ASSUME NEW h, Meaningful(h)
  PROVE  \E V : Values(h, V) /\ \A b : ValueAt(h, b) = V[b]
<1> DEFINE V == CHOOSE W : Values(h, W)
<1>1. Values(h, V)
  BY DEF Meaningful
<1>2. \A b : ValueAt(h, b) = V[b]
  BY DEF ValueAt, Values
<1> QED
  BY <1>1, <1>2

LEMMA OneValue ==
  ASSUME NEW h, Meaningful(h), NEW K, ClosedIn(h, K), NEW V, ValuesOn(h, K, V), NEW W, ValuesOn(h, K, W)
  PROVE  \A b \in K \cup {R_NilValue} : V[b] = W[b]
BY DEF Meaningful

LEMMA KnownValues ==
  ASSUME NEW h, Meaningful(h), NEW K, ClosedIn(h, K), NEW V, ValuesOn(h, K, V)
  PROVE  \A b \in K \cup {R_NilValue} : ValueAt(h, b) = V[b]
<1>1. PICK W : Values(h, W) /\ \A b : ValueAt(h, b) = W[b]
  BY ItsValues
<1>2. K \cup {R_NilValue} \subseteq Addr \cup {R_NilValue}
  BY DEF ClosedIn
<1>3. ValuesOn(h, K, W)
  BY <1>1, <1>2 DEF Values, ValuesOn
<1>4. \A b \in K \cup {R_NilValue} : W[b] = V[b]
  BY <1>3, OneValue
<1> QED
  BY <1>1, <1>4

LEMMA ValueEquation ==
  ASSUME NEW h, Meaningful(h)
  PROVE  /\ ValueAt(h, R_NilValue) = Null
         /\ \A b \in Addr : h[b][1] # "VECSXP" => ValueAt(h, b) = h[b]
         /\ \A b \in Addr : h[b][1] = "VECSXP" =>
              ValueAt(h, b) = <<"VECSXP", [i \in DOMAIN h[b][2] |-> ValueAt(h, h[b][2][i])], h[b][3]>>
<1>1. PICK V : Values(h, V) /\ \A b : ValueAt(h, b) = V[b]
  BY ItsValues
<1>2. \A b : ValueAt(h, b) = V[b]
  BY <1>1
<1>3. \A b \in Addr \cup {R_NilValue} : V[b] = ObjectValue(h, V, b)
  BY <1>1 DEF Values
<1>4. ValueAt(h, R_NilValue) = Null
  BY <1>2, <1>3 DEF ObjectValue
<1>5. \A b \in Addr : b # R_NilValue
  BY Outside DEF Kept
<1>6. ASSUME NEW b \in Addr, h[b][1] # "VECSXP"
      PROVE  ValueAt(h, b) = h[b]
  BY <1>2, <1>3, <1>5, <1>6 DEF ObjectValue
<1>7. ASSUME NEW b \in Addr, h[b][1] = "VECSXP"
      PROVE  ValueAt(h, b) = <<"VECSXP", [i \in DOMAIN h[b][2] |-> ValueAt(h, h[b][2][i])], h[b][3]>>
  <2>1. V[b] = <<"VECSXP", [i \in DOMAIN h[b][2] |-> V[h[b][2][i]]], h[b][3]>>
    BY <1>3, <1>5, <1>7 DEF ObjectValue
  <2>2. [i \in DOMAIN h[b][2] |-> V[h[b][2][i]]] = [i \in DOMAIN h[b][2] |-> ValueAt(h, h[b][2][i])]
    BY <1>2
  <2> QED
    BY <1>2, <2>1, <2>2
<1> QED
  BY <1>4, <1>6, <1>7

\* What values on two heaps are when an object and all it leads to is the same.
LEMMA SameObjectValue ==
  ASSUME NEW h, NEW g, NEW K, ClosedIn(h, K), NEW V, NEW W, NEW b \in K \cup {R_NilValue},
         g[b] = h[b] \/ b = R_NilValue,
         \A c \in K \cup {R_NilValue} : V[c] = W[c]
  PROVE  ObjectValue(h, V, b) = ObjectValue(g, W, b)
<1>1. CASE b = R_NilValue
  BY <1>1 DEF ObjectValue
<1>2. CASE b # R_NilValue /\ h[b][1] # "VECSXP"
  BY <1>2 DEF ObjectValue
<1>3. CASE b # R_NilValue /\ h[b][1] = "VECSXP"
  <2>1. \A i \in DOMAIN h[b][2] : h[b][2][i] \in K \cup {R_NilValue}
    BY <1>3 DEF ClosedIn, LeadsInto
  <2>2. [i \in DOMAIN h[b][2] |-> V[h[b][2][i]]] = [i \in DOMAIN h[b][2] |-> W[h[b][2][i]]]
    BY <2>1
  <2>3. ObjectValue(h, V, b) = <<"VECSXP", [i \in DOMAIN h[b][2] |-> V[h[b][2][i]]], h[b][3]>>
    BY <1>3 DEF ObjectValue
  <2>4. ObjectValue(g, W, b) = <<"VECSXP", [i \in DOMAIN h[b][2] |-> W[h[b][2][i]]], h[b][3]>>
    BY <1>3 DEF ObjectValue
  <2> QED
    BY <2>2, <2>3, <2>4
<1> QED
  BY <1>1, <1>2, <1>3

LEMMA SameObjectValues ==
  ASSUME NEW h, NEW g, NEW K, ClosedIn(h, K), \A b \in K : g[b] = h[b], NEW V, NEW W,
         \A b \in K \cup {R_NilValue} : V[b] = W[b]
  PROVE  \A b \in K \cup {R_NilValue} : ObjectValue(h, V, b) = ObjectValue(g, W, b)
<1> TAKE b \in K \cup {R_NilValue}
<1>1. g[b] = h[b] \/ b = R_NilValue
  OBVIOUS
<1> QED
  BY <1>1, SameObjectValue

LEMMA FreeValue ==
  ASSUME NEW h, NEW V, NEW b \in Addr, h[b] = Free
  PROVE  ObjectValue(h, V, b) = Free
BY Outside, FreeObject DEF ObjectValue, Kept

LEMMA NoHeapMeaningful == Meaningful(NoHeap)
<1> DEFINE V == [b \in Addr \cup {R_NilValue} |-> IF b = R_NilValue THEN Null ELSE Free]
<1>1. \A W : \A b \in Addr \cup {R_NilValue} : ObjectValue(NoHeap, W, b) = V[b]
  <2> TAKE W
  <2> TAKE b \in Addr \cup {R_NilValue}
  <2>1. CASE b = R_NilValue
    BY <2>1 DEF ObjectValue
  <2>2. CASE b # R_NilValue
    BY <2>2, FreeValue DEF NoHeap
  <2> QED
    BY <2>1, <2>2
<1>2. Values(NoHeap, V)
  <2>1. V = [b \in Addr \cup {R_NilValue} |-> V[b]]
    OBVIOUS
  <2> HIDE DEF V
  <2>2. [b \in Addr \cup {R_NilValue} |-> V[b]] = [b \in Addr \cup {R_NilValue} |-> ObjectValue(NoHeap, V, b)]
    BY <1>1
  <2> QED
    BY <2>1, <2>2 DEF Values
<1> HIDE DEF V
<1>3. ASSUME NEW K, ClosedIn(NoHeap, K), NEW U, NEW W, ValuesOn(NoHeap, K, U), ValuesOn(NoHeap, K, W)
      PROVE  \A b \in K \cup {R_NilValue} : U[b] = W[b]
  <2> TAKE b \in K \cup {R_NilValue}
  <2>1. b \in Addr \cup {R_NilValue}
    BY <1>3 DEF ClosedIn, LeadsInto
  <2>2. U[b] = ObjectValue(NoHeap, U, b) /\ W[b] = ObjectValue(NoHeap, W, b)
    BY <1>3 DEF ValuesOn
  <2>3. ObjectValue(NoHeap, U, b) = V[b] /\ ObjectValue(NoHeap, W, b) = V[b]
    BY <1>1, <2>1
  <2> QED
    BY <2>2, <2>3
<1> QED
  BY <1>2, <1>3 DEF Meaningful

\* From heap h to g the object at b becomes another, those of K stay, and all
\* else is freed.
Changes(h, g, K, b) ==
  /\ b \in Addr /\ b \notin K
  /\ \A c \in K : g[c] = h[c]
  /\ \A c \in Addr : c \notin K \cup {b} => g[c] = Free

\* Every object of K then has the value that it had.
LEMMA OneChanged ==
  ASSUME NEW h, NEW g, NEW K, NEW b, Changes(h, g, K, b), Meaningful(h), ClosedIn(h, K),
         LeadsInto(g, b, K)
  PROVE  /\ Meaningful(g)
         /\ ClosedIn(g, K)
         /\ \A c \in K \cup {R_NilValue} : ValueAt(g, c) = ValueAt(h, c)
<1>0. PICK H : Values(h, H) /\ \A c : ValueAt(h, c) = H[c]
  BY ItsValues
<1> DEFINE D == Addr \cup {R_NilValue}
           G == [c \in D |-> IF c \in K \cup {R_NilValue} THEN H[c]
                             ELSE IF c = b THEN ObjectValue(g, H, b) ELSE Free]
<1>20. /\ b \in Addr /\ b \notin K
       /\ \A c \in K : g[c] = h[c]
       /\ \A c \in Addr : c \notin K \cup {b} => g[c] = Free
  BY DEF Changes
<1>21. ASSUME NEW c \in K
       PROVE  g[c] = h[c]
  BY DEF Changes
<1>22. ASSUME NEW c \in Addr, c \notin K, c # b
       PROVE  g[c] = Free
  BY <1>22 DEF Changes
<1>23. \A V, W : (\A x \in K \cup {R_NilValue} : V[x] = W[x])
         => \A x \in K \cup {R_NilValue} : ObjectValue(h, V, x) = ObjectValue(g, W, x)
  BY <1>21, SameObjectValues
<1>1. /\ K \subseteq Addr /\ R_NilValue \notin Addr /\ b # R_NilValue
      /\ \A c \in D : c = R_NilValue \/ c \in K \/ c = b \/ (c \in Addr /\ c \notin K \cup {b})
  BY <1>20, Outside DEF ClosedIn, Kept
<1>2. Values(h, H)
  BY <1>0
<1>3. ValuesOn(h, K, H)
  BY <1>1, <1>2 DEF Values, ValuesOn
<1>4. ClosedIn(g, K)
  BY <1>20 DEF ClosedIn, LeadsInto
<1>5. ClosedIn(g, K \cup {b})
  BY <1>20, <1>1 DEF ClosedIn, LeadsInto
<1>6. \A c \in K \cup {R_NilValue} : G[c] = H[c]
  BY <1>1
<1>7. G[b] = ObjectValue(g, H, b) /\ \A c \in Addr : c \notin K \cup {b} => G[c] = Free
  BY <1>20, <1>1
<1>8. \A c \in D : G[c] = ObjectValue(g, G, c)
  <2> HIDE DEF G
  <2> TAKE c \in D
  <2>1. CASE c \in K \cup {R_NilValue}
    <3>1. ObjectValue(h, H, c) = ObjectValue(g, G, c)
      <4>1. \A x \in K \cup {R_NilValue} : H[x] = G[x]
        BY <1>6
      <4> QED
        BY <1>23, <2>1, <4>1
    <3>2. H[c] = ObjectValue(h, H, c)
      BY <1>3, <2>1 DEF ValuesOn
    <3>3. G[c] = H[c]
      BY <1>6, <2>1
    <3> QED
      BY <3>1, <3>2, <3>3
  <2>2. CASE c = b
    <3>1. CASE g[b][1] # "VECSXP"
      BY <1>1, <1>7, <2>2, <3>1 DEF ObjectValue
    <3>2. CASE g[b][1] = "VECSXP"
      <4>1. [i \in DOMAIN g[b][2] |-> H[g[b][2][i]]] = [i \in DOMAIN g[b][2] |-> G[g[b][2][i]]]
        BY <1>6, <3>2 DEF LeadsInto
      <4>2. ObjectValue(g, H, b) = <<"VECSXP", [i \in DOMAIN g[b][2] |-> H[g[b][2][i]]], g[b][3]>>
        BY <1>1, <3>2 DEF ObjectValue
      <4>3. ObjectValue(g, G, b) = <<"VECSXP", [i \in DOMAIN g[b][2] |-> G[g[b][2][i]]], g[b][3]>>
        BY <1>1, <3>2 DEF ObjectValue
      <4> QED
        BY <1>7, <2>2, <4>1, <4>2, <4>3
    <3> QED
      BY <3>1, <3>2
  <2>3. CASE c \in Addr /\ c \notin K \cup {b}
    <3>1. g[c] = Free
      BY <1>22, <2>3
    <3>2. G[c] = Free
      BY <1>7, <2>3
    <3> QED
      BY <2>3, <3>1, <3>2, FreeValue
  <2> QED
    BY <1>1, <2>1, <2>2, <2>3
<1>9. Values(g, G)
  <2>1. G = [c \in D |-> G[c]]
    OBVIOUS
  <2> HIDE DEF G
  <2>2. [c \in D |-> G[c]] = [c \in D |-> ObjectValue(g, G, c)]
    BY <1>8
  <2> QED
    BY <2>1, <2>2 DEF Values
<1> HIDE DEF G
<1>10. ASSUME NEW L, ClosedIn(g, L), NEW U, NEW W, ValuesOn(g, L, U), ValuesOn(g, L, W)
       PROVE  \A c \in L \cup {R_NilValue} : U[c] = W[c]
  <2> DEFINE M == L \cap K
  <2>1. ClosedIn(h, M)
    <3>1. ASSUME NEW x \in M, h[x][1] = "VECSXP", NEW i \in DOMAIN h[x][2]
          PROVE  h[x][2][i] \in M \cup {R_NilValue}
      <4>1. g[x] = h[x]
        BY <1>20
      <4>2. h[x][2][i] \in K \cup {R_NilValue}
        BY <3>1 DEF ClosedIn, LeadsInto
      <4>3. h[x][2][i] \in L \cup {R_NilValue}
        BY <1>10, <3>1, <4>1 DEF ClosedIn, LeadsInto
      <4> QED
        BY <4>2, <4>3
    <3> QED
      BY <1>1, <3>1 DEF ClosedIn, LeadsInto
  <2>2. \A x \in M \cup {R_NilValue} : \A Z : ObjectValue(g, Z, x) = ObjectValue(h, Z, x)
    <3> HIDE DEF M
    <3> TAKE x \in M \cup {R_NilValue}
    <3> TAKE Z
    <3>1. g[x] = h[x] \/ x = R_NilValue
      BY <1>20 DEF M
    <3> QED
      BY <2>1, <3>1, SameObjectValue
  <2>3. ValuesOn(h, M, U) /\ ValuesOn(h, M, W)
    BY <1>10, <2>2 DEF ValuesOn
  <2>4. \A x \in M \cup {R_NilValue} : U[x] = W[x]
    BY <2>1, <2>3, OneValue
  <2> TAKE c \in L \cup {R_NilValue}
  <2>5. CASE c \in M \cup {R_NilValue}
    BY <2>4, <2>5
  <2>6. CASE c = b /\ b \in L
    <3>1. U[b] = ObjectValue(g, U, b) /\ W[b] = ObjectValue(g, W, b)
      BY <1>10, <2>6 DEF ValuesOn
    <3>2. CASE g[b][1] # "VECSXP"
      BY <1>1, <2>6, <3>1, <3>2 DEF ObjectValue
    <3>3. CASE g[b][1] = "VECSXP"
      <4>1. \A i \in DOMAIN g[b][2] : g[b][2][i] \in M \cup {R_NilValue}
        BY <1>10, <2>6, <3>3 DEF ClosedIn, LeadsInto
      <4>2. [i \in DOMAIN g[b][2] |-> U[g[b][2][i]]] = [i \in DOMAIN g[b][2] |-> W[g[b][2][i]]]
        BY <2>4, <4>1
      <4>3. ObjectValue(g, U, b) = <<"VECSXP", [i \in DOMAIN g[b][2] |-> U[g[b][2][i]]], g[b][3]>>
        BY <1>1, <3>3 DEF ObjectValue
      <4>4. ObjectValue(g, W, b) = <<"VECSXP", [i \in DOMAIN g[b][2] |-> W[g[b][2][i]]], g[b][3]>>
        BY <1>1, <3>3 DEF ObjectValue
      <4> QED
        BY <2>6, <3>1, <4>2, <4>3, <4>4
    <3> QED
      BY <3>2, <3>3
  <2>7. CASE c \in L /\ c \notin K \cup {b}
    <3>0. c \in Addr
      BY <1>10, <2>7 DEF ClosedIn
    <3>1. c \in Addr /\ g[c] = Free
      BY <1>22, <2>7, <3>0
    <3>2. U[c] = ObjectValue(g, U, c) /\ W[c] = ObjectValue(g, W, c)
      BY <1>10, <2>7 DEF ValuesOn
    <3> QED
      BY <3>1, <3>2, FreeValue
  <2> QED
    BY <2>5, <2>6, <2>7
<1>11. Meaningful(g)
  BY <1>9, <1>10 DEF Meaningful
<1>12. ValuesOn(g, K, G)
  BY <1>1, <1>9 DEF Values, ValuesOn
<1>13. \A c \in K \cup {R_NilValue} : G[c] = ValueAt(h, c)
  BY <1>0, <1>6
<1>14. \A c \in K \cup {R_NilValue} : ValueAt(g, c) = ValueAt(h, c)
  BY <1>4, <1>11, <1>12, <1>13, KnownValues
<1> QED
  BY <1>4, <1>11, <1>14

-----------------------------------------------------------------------------
(* What the objects of a call stand for while it runs.                     *)

\* What a call that made s of val returns.
Result(val, s, h) ==
  IF s = NoObject THEN Decoded[val] = Undefined
  ELSE ValueAt(h, s) = Decoded[val] /\ Decoded[val] \notin {Failure, Undefined}

\* The vector holds the elements that are done, of one type.
VectorHolds(f, h) ==
  LET type == Type(Content(f.val)[1])
  IN  /\ h[f.s] = <<SexpType[type], [i \in 1..f.done |-> Atom(Content(f.val)[i])], <<>>>>
      /\ \A i \in 1..f.done : Type(Content(f.val)[i]) = type

\* The list holds what the first k parts decode to.
ListHolds(f, h, k) ==
  /\ h[f.s][1] = "VECSXP" /\ h[f.s][3] = <<>> /\ Len(h[f.s][2]) = k
  /\ \A i \in 1..k : Result(At(f.val, i), h[f.s][2][i], h)

NamesHold(f, h) ==
  /\ h[f.names][1] = "VECSXP" /\ Len(h[f.names][2]) = f.done
  /\ \A i \in 1..f.done : /\ h[f.names][2][i] \in Addr
                          /\ h[h[f.names][2][i]][2] = <<Content(f.val)[i][1]>>

Composite(val) == IsArray(val) \/ Type(val) = "map"

Means(f, h) ==
  /\ f.val \in GoValue /\ f.done \in Nat
  /\ f.pc \in {"enter", "names"} => f.done = 0
  /\ f.pc = "names" => h[f.s] = <<"VECSXP", <<>>, <<>>>>
  /\ f.pc \in {"fill", "element", "key"} => Composite(f.val) /\ f.done \leq Size(f.val)
  /\ f.pc \in {"element", "key"} => ~IsVector(f.val) /\ f.done < Size(f.val)
  /\ f.pc = "fill" /\ IsVector(f.val) => VectorHolds(f, h)
  /\ f.pc \in {"fill", "element"} /\ ~IsVector(f.val) => ListHolds(f, h, f.done)
  /\ f.pc = "key" => ListHolds(f, h, f.done + 1)
  /\ f.pc \in {"fill", "element", "key"} /\ Type(f.val) = "map" => NamesHold(f, h)
  /\ f.pc = "json" => IsJson(f.val) /\ JsonValue(Content(f.val)) # Malformed
  /\ f.pc = "return" => Result(f.val, f.s, h)

\* A list and what it leads to.
LEMMA ListLeads ==
  ASSUME NEW h, GoodHeap(h), NEW K, ClosedIn(h, K), NEW b \in K, h[b][1] = "VECSXP"
  PROVE  /\ h[b][2] \in Seq(Addr \cup {R_NilValue}) /\ Len(h[b][2]) \in Nat
         /\ DOMAIN h[b][2] = 1..Len(h[b][2])
         /\ \A i \in 1..Len(h[b][2]) : h[b][2][i] \in K \cup {R_NilValue}
<1>1. b \in Addr
  BY DEF ClosedIn
<1>2. ObjectOK(h[b])
  BY <1>1 DEF GoodHeap
<1>3. h[b][2] \in Seq(Addr \cup {R_NilValue})
  BY <1>2 DEF ObjectOK
<1>4. DOMAIN h[b][2] = 1..Len(h[b][2]) /\ Len(h[b][2]) \in Nat
  BY <1>3
<1>5. \A i \in DOMAIN h[b][2] : h[b][2][i] \in K \cup {R_NilValue}
  BY DEF ClosedIn, LeadsInto
<1> QED
  BY <1>3, <1>4, <1>5

\* From h to g the objects of K and their values stay.
Keeps(h, g, K) ==
  /\ ClosedIn(h, K)
  /\ \A c \in K : g[c] = h[c]
  /\ \A c \in K \cup {R_NilValue} : ValueAt(g, c) = ValueAt(h, c)

LEMMA ResultKept ==
  ASSUME NEW h, NEW g, NEW K, Keeps(h, g, K), NEW val, NEW s \in K \cup {R_NilValue, NoObject}
  PROVE  Result(val, s, g) <=> Result(val, s, h)
BY DEF Keeps, Result

LEMMA ListKept ==
  ASSUME NEW h, NEW g, NEW K, Keeps(h, g, K), GoodHeap(h), NEW f, f.s \in K, NEW k, ListHolds(f, h, k)
  PROVE  ListHolds(f, g, k)
<1>1. g[f.s] = h[f.s]
  BY DEF Keeps
<1>2. /\ h[f.s][1] = "VECSXP" /\ h[f.s][3] = <<>> /\ Len(h[f.s][2]) = k
      /\ \A i \in 1..k : Result(At(f.val, i), h[f.s][2][i], h)
  BY DEF ListHolds
<1>3. \A i \in 1..k : h[f.s][2][i] \in K \cup {R_NilValue}
  BY <1>2, ListLeads DEF Keeps
<1>4. \A i \in 1..k : Result(At(f.val, i), h[f.s][2][i], g)
  BY <1>2, <1>3, ResultKept
<1>5. g[f.s][1] = "VECSXP" /\ g[f.s][3] = <<>> /\ Len(g[f.s][2]) = k
  BY <1>1, <1>2
<1>6. \A i \in 1..k : Result(At(f.val, i), g[f.s][2][i], g)
  BY <1>1, <1>4
<1> QED
  BY <1>5, <1>6 DEF ListHolds

LEMMA NamesKept ==
  ASSUME NEW h, NEW g, NEW K, Keeps(h, g, K), GoodHeap(h), NEW f, f.names \in K, NamesHold(f, h)
  PROVE  NamesHold(f, g)
<1>1. g[f.names] = h[f.names]
  BY DEF Keeps
<1>2. /\ h[f.names][1] = "VECSXP" /\ Len(h[f.names][2]) = f.done
      /\ \A i \in 1..f.done : /\ h[f.names][2][i] \in Addr
                              /\ h[h[f.names][2][i]][2] = <<Content(f.val)[i][1]>>
  BY DEF NamesHold
<1>3. \A i \in 1..f.done : h[f.names][2][i] \in K
  <2>1. \A i \in 1..f.done : h[f.names][2][i] \in K \cup {R_NilValue}
    BY <1>2, ListLeads DEF Keeps
  <2>2. R_NilValue \notin Addr
    BY Outside DEF Kept
  <2> QED
    BY <1>2, <2>1, <2>2
<1>4. \A i \in 1..f.done : g[h[f.names][2][i]] = h[h[f.names][2][i]]
  BY <1>3 DEF Keeps
<1>5. g[f.names][1] = "VECSXP" /\ Len(g[f.names][2]) = f.done
  BY <1>1, <1>2
<1>6. \A i \in 1..f.done : /\ g[f.names][2][i] \in Addr
                           /\ g[g[f.names][2][i]][2] = <<Content(f.val)[i][1]>>
  BY <1>1, <1>2, <1>4
<1> QED
  BY <1>5, <1>6 DEF NamesHold

LEMMA MeansKept ==
  ASSUME NEW h, NEW g, NEW K, Keeps(h, g, K), GoodHeap(h),
         NEW f, Active(f) \/ Waiting(f), Held(f) \subseteq K, Means(f, h)
  PROVE  Means(f, g)
<1>1. f.pc \in {"names", "fill", "element", "key"} => f.s \in K
  BY DEF Active, Waiting, Held
<1>2. f.pc \in {"fill", "element", "key"} /\ Type(f.val) = "map" => f.names \in K
  BY DEF Active, Waiting, Held
<1>3. f.pc = "return" => f.s \in K \cup {R_NilValue, NoObject}
  BY DEF Active, Waiting, Held
<1>4. f.s \in K => g[f.s] = h[f.s]
  BY DEF Keeps
<1>5. f.pc = "fill" /\ IsVector(f.val) => VectorHolds(f, g)
  BY <1>1, <1>4 DEF Means, VectorHolds
<1>6. f.pc \in {"fill", "element"} /\ ~IsVector(f.val) => ListHolds(f, g, f.done)
  BY <1>1, ListKept DEF Means
<1>7. f.pc = "key" => ListHolds(f, g, f.done + 1)
  BY <1>1, ListKept DEF Means
<1>8. f.pc \in {"fill", "element", "key"} /\ Type(f.val) = "map" => NamesHold(f, g)
  BY <1>2, NamesKept DEF Means
<1>9. f.pc = "return" => Result(f.val, f.s, g)
  BY <1>3, ResultKept DEF Means
<1>10. f.pc = "names" => g[f.s] = <<"VECSXP", <<>>, <<>>>>
  BY <1>1, <1>4 DEF Means
<1> QED
  BY <1>5, <1>6, <1>7, <1>8, <1>9, <1>10 DEF Means

-----------------------------------------------------------------------------
(* The calls, and the value that the outermost was given.                   *)

\* What the call above f was given.
Part(f) == IF f.pc = "json" THEN JsonValue(Content(f.val)) ELSE At(f.val, f.done + 1)

\* No list leads to an object of A.
Orphans(h, A) == \A a \in UsedIn(h) : ElementsIn(h, a) \cap A = {}

CallOK(f, h, root) ==
  /\ Means(f, h) /\ Orphans(h, Held(f))
  /\ Decoded[f.val] = Failure => Decoded[root] = Failure

Outcome(root) == IF decoded = "error" THEN Decoded[root] = Failure ELSE Result(root, decoded, heap)

MeansInv(root) ==
  /\ DecodeInv
  /\ Meaningful(heap)
  /\ \A i \in 1..Len(frames) : CallOK(frames[i], heap, root)
  /\ \A i \in 1..(Len(frames) - 1) : frames[i + 1].val = Part(frames[i])
  /\ frames # <<>> => frames[1].val = root
  /\ frames = <<>> => Outcome(root)

LEMMA CallKept ==
  ASSUME NEW h, NEW g, NEW K, NEW b, NEW root, Changes(h, g, K, b), Keeps(h, g, K), GoodHeap(h),
         NEW f, Active(f) \/ Waiting(f), Held(f) \subseteq K, ElementsIn(g, b) \cap Held(f) = {},
         CallOK(f, h, root)
  PROVE  CallOK(f, g, root)
<1>1. Means(f, g)
  BY MeansKept DEF CallOK
<1>2. ASSUME NEW a \in UsedIn(g)
      PROVE  ElementsIn(g, a) \cap Held(f) = {}
  <2>1. a \in K \/ a = b
    BY DEF UsedIn, Changes
  <2>2. CASE a \in K
    <3>1. g[a] = h[a]
      BY <2>2 DEF Changes
    <3>2. a \in UsedIn(h) /\ ElementsIn(g, a) = ElementsIn(h, a)
      BY <3>1 DEF UsedIn, ElementsIn
    <3> QED
      BY <3>2 DEF CallOK, Orphans
  <2> QED
    BY <2>1, <2>2
<1> QED
  BY <1>1, <1>2 DEF CallOK, Orphans

\* The call on top goes on as g, with the same value.
LEMMA TopStep ==
  ASSUME NEW root, MeansInv(root), DecodeInv', frames # <<>>, NEW g, Becomes(g), g.val = Top.val,
         Meaningful(heap'), \A i \in 1..(Len(frames) - 1) : CallOK(frames[i], heap', root),
         Means(g, heap'), Orphans(heap', Held(g))
  PROVE  MeansInv(root)'
<1> DEFINE n == Len(frames)
<1>1. n \in Nat \ {0} /\ Top = frames[n] /\ n \in 1..n
  BY TopCall DEF MeansInv
<1>2. Len(frames') = n /\ frames'[n] = g /\ \A i \in 1..(n - 1) : frames'[i] = frames[i]
  BY Below DEF MeansInv
<1>3. PICK k : k = n
  OBVIOUS
<1>4. /\ k \in Nat \ {0} /\ Top = frames[k] /\ k \in 1..k
      /\ Len(frames') = k /\ frames'[k] = g /\ \A i \in 1..(k - 1) : frames'[i] = frames[i]
      /\ \A i \in 1..(k - 1) : CallOK(frames[i], heap', root)
  BY <1>1, <1>2, <1>3
<1>5. /\ \A i \in 1..k : CallOK(frames[i], heap, root)
      /\ \A i \in 1..(k - 1) : frames[i + 1].val = Part(frames[i])
      /\ frames[1].val = root
  BY <1>3 DEF MeansInv
<1> HIDE DEF n
<1>6. CallOK(g, heap', root)
  <2>1. Decoded[Top.val] = Failure => Decoded[root] = Failure
    BY <1>4, <1>5 DEF CallOK
  <2> QED
    BY <2>1 DEF CallOK
<1>7. \A i \in 1..k : i = k \/ i \in 1..(k - 1)
  BY <1>4
<1>8. \A i \in 1..k : CallOK(frames'[i], heap', root)
  BY <1>4, <1>6, <1>7
<1>9. \A i \in 1..k : frames'[i].val = frames[i].val
  BY <1>4, <1>7
<1>10. \A i \in 1..(k - 1) : i + 1 \in 1..k
  BY <1>4
<1>11. \A i \in 1..(k - 1) : frames'[i + 1].val = Part(frames'[i])
  BY <1>4, <1>5, <1>9, <1>10
<1>12. frames'[1].val = root
  <2>1. 1 \in 1..k
    BY <1>4
  <2> QED
    BY <1>5, <1>9, <2>1
<1>13. frames' # <<>>
  BY <1>4
<1> QED
  BY <1>4, <1>8, <1>11, <1>12, <1>13 DEF MeansInv

\* A collection leaves a closed set.
LEMMA CollectionClosed ==
  ASSUME GoodHeap(heap), NEW p, NEW S \in Collections(p)
  PROVE  ClosedIn(heap, S) /\ S \subseteq UsedIn(heap)
<1>1. S \subseteq UsedIn(heap) /\ \A a \in S : ElementsIn(heap, a) \subseteq S
  BY CollectionKeeps
<1>2. S \subseteq Addr
  BY <1>1 DEF UsedIn
<1>3. ASSUME NEW a \in S, heap[a][1] = "VECSXP", NEW i \in DOMAIN heap[a][2]
      PROVE  heap[a][2][i] \in S \cup {R_NilValue}
  <2>1. ObjectOK(heap[a])
    BY <1>2 DEF GoodHeap
  <2>2. heap[a][2] \in Seq(Addr \cup {R_NilValue})
    BY <1>3, <2>1 DEF ObjectOK
  <2>3. heap[a][2][i] \in Addr \cup {R_NilValue}
    BY <1>3, <2>2
  <2>4. heap[a][2][i] \in Addr => heap[a][2][i] \in ElementsIn(heap, a)
    BY <1>3 DEF ElementsIn
  <2> QED
    BY <1>1, <2>3, <2>4
<1>4. ClosedIn(heap, S)
  BY <1>2, <1>3 DEF ClosedIn, LeadsInto
<1> QED
  BY <1>1, <1>4

\* Without an object that no list leads to the set is still closed.
LEMMA ClosedWithout ==
  ASSUME NEW h, NEW S, ClosedIn(h, S), S \subseteq UsedIn(h),
         NEW A, Orphans(h, A), NEW b \in A, b \in Addr
  PROVE  ClosedIn(h, S \ {b})
<1>1. S \subseteq Addr /\ \A a \in S : LeadsInto(h, a, S)
  BY DEF ClosedIn
<1>2. ASSUME NEW a \in S \ {b}, h[a][1] = "VECSXP", NEW i \in DOMAIN h[a][2]
      PROVE  h[a][2][i] \in (S \ {b}) \cup {R_NilValue}
  <2>1. h[a][2][i] \in S \cup {R_NilValue}
    BY <1>1, <1>2 DEF LeadsInto
  <2>2. b \notin ElementsIn(h, a)
    BY DEF Orphans
  <2>3. h[a][2][i] # b
    BY <1>2, <2>2 DEF ElementsIn
  <2> QED
    BY <2>1, <2>3
<1> QED
  BY <1>1, <1>2 DEF ClosedIn, LeadsInto

LEMMA CallsOK ==
  ASSUME NEW root, MeansInv(root)
  PROVE  \A i \in 1..Len(frames) : /\ CallOK(frames[i], heap, root)
                                   /\ Active(frames[i]) \/ Waiting(frames[i])
                                   /\ Held(frames[i]) \subseteq UsedIn(heap)
<1> TAKE i \in 1..Len(frames)
<1>1. Len(frames) \in Nat /\ (i = Len(frames) \/ i \in 1..(Len(frames) - 1))
  BY LengthOK DEF MeansInv
<1>2. i = Len(frames) => frames # <<>> /\ frames[i] = Top
  BY <1>1 DEF Top
<1>3. Active(frames[i]) \/ Waiting(frames[i])
  BY <1>1, <1>2 DEF MeansInv, DecodeInv, StackOK
<1> QED
  BY <1>3 DEF MeansInv, DecodeInv, StackOK

\* A new object, after a collection under a state p of the protect stack: what
\* the collection left has the value that it had.
LEMMA AllocatedKeeps ==
  ASSUME GoodHeap(heap), Meaningful(heap), NEW p, NEW S \in Collections(p), S # Addr,
         NEW object, NewObject(object), NEW g, g = Allocated(S, object), NEW b, b = Fresh(S)
  PROVE  /\ Meaningful(g) /\ Keeps(heap, g, S) /\ GoodHeap(g) /\ UsedIn(g) = S \cup {b}
         /\ b \in Addr /\ b \notin S /\ g[b] = object /\ ElementsIn(g, b) = {}
         /\ Changes(heap, g, S, b) /\ Orphans(g, {b})
<1>2. /\ GoodHeap(g) /\ UsedIn(g) = S \cup {b}
      /\ b \in Addr /\ b \notin S /\ g[b] = object
      /\ \A a \in S : a \in Addr /\ g[a] = heap[a]
  BY AllocatedGood
<1>3. ASSUME NEW c \in Addr, c \notin S \cup {b}
      PROVE  g[c] = Free
  BY <1>3 DEF Allocated
<1>4. Changes(heap, g, S, b)
  BY <1>2, <1>3 DEF Changes
<1>5. ClosedIn(heap, S)
  BY CollectionClosed
<1>6. ElementsIn(g, b) = {} /\ LeadsInto(g, b, S)
  BY <1>2 DEF NewObject, ElementsIn, LeadsInto
<1>7. Meaningful(g) /\ \A c \in S \cup {R_NilValue} : ValueAt(g, c) = ValueAt(heap, c)
  BY <1>4, <1>5, <1>6, OneChanged
<1>8. Keeps(heap, g, S)
  BY <1>2, <1>5, <1>7 DEF Keeps
<1>10. Orphans(g, {b})
  <2>1. ASSUME NEW a \in S
        PROVE  ElementsIn(g, a) \subseteq S
    <3>1. ElementsIn(g, a) = ElementsIn(heap, a)
      BY <1>2 DEF ElementsIn
    <3> QED
      BY <3>1, CollectionKeeps
  <2> QED
    BY <1>2, <1>6, <2>1 DEF Orphans
<1> QED
  BY <1>2, <1>4, <1>6, <1>7, <1>8, <1>10

\* R collects and makes an object: the calls have what they had.
LEMMA MakeKeeps ==
  ASSUME NEW root, MeansInv(root), NEW S \in Collections(protect), S # Addr,
         NEW object, NewObject(object), NEW g, g = Allocated(S, object), NEW b, b = Fresh(S)
  PROVE  /\ Meaningful(g) /\ Keeps(heap, g, S) /\ GoodHeap(g) /\ UsedIn(g) = S \cup {b}
         /\ b \in Addr /\ b \notin S /\ g[b] = object
         /\ \A i \in 1..Len(frames) : CallOK(frames[i], g, root) /\ Held(frames[i]) \subseteq S
         /\ Orphans(g, {b})
<1>1. DecodeInv /\ GoodHeap(heap) /\ Meaningful(heap)
  BY DEF MeansInv, DecodeInv
<1>2. /\ Meaningful(g) /\ Keeps(heap, g, S) /\ GoodHeap(g) /\ UsedIn(g) = S \cup {b}
      /\ b \in Addr /\ b \notin S /\ g[b] = object /\ ElementsIn(g, b) = {}
      /\ Changes(heap, g, S, b) /\ Orphans(g, {b})
  BY <1>1, AllocatedKeeps
<1>3. ASSUME NEW i \in 1..Len(frames)
      PROVE  CallOK(frames[i], g, root) /\ Held(frames[i]) \subseteq S
  <2>1. Held(frames[i]) \subseteq S
    BY <1>1, HeldStays
  <2>2. CallOK(frames[i], heap, root) /\ (Active(frames[i]) \/ Waiting(frames[i]))
    BY CallsOK
  <2>3. ElementsIn(g, b) \cap Held(frames[i]) = {}
    BY <1>2
  <2> QED
    BY <1>1, <1>2, <2>1, <2>2, <2>3, CallKept
<1> QED
  BY <1>2, <1>3

\* The call on top makes an object that means what it is to mean.
LEMMA MakesMeans ==
  ASSUME NEW root, MeansInv(root), DecodeInv', In("enter"), NEW object, NewObject(object), NEW pc,
         Makes(object, pc),
         \A h, b : b \in Addr /\ Meaningful(h) /\ h[b] = object
                     => Means(Record(Top.val, pc, b, NoObject, 0), h)
  PROVE  MeansInv(root)'
<1>1. PICK S \in Collections(protect) :
        /\ S # Addr
        /\ heap' = Allocated(S, object)
        /\ Becomes([Top EXCEPT !.s = Fresh(S), !.pc = pc])
  BY DEF Makes
<1>2. PICK b : b = Fresh(S)
  OBVIOUS
<1>3. /\ Meaningful(heap') /\ b \in Addr /\ heap'[b] = object
      /\ \A i \in 1..Len(frames) : CallOK(frames[i], heap', root)
      /\ Orphans(heap', {b})
  BY <1>1, <1>2, MakeKeeps
<1>4. frames # <<>> /\ IsCall(Top) /\ Top.names = NoObject /\ Top.pc = "enter"
  BY EnterOK DEF MeansInv, In
<1>5. Len(frames) \in Nat /\ Top = frames[Len(frames)] /\ Len(frames) \in 1..Len(frames)
  BY <1>4, TopCall DEF MeansInv
<1>6. Top.done = 0
  BY <1>4, <1>5 DEF MeansInv, CallOK, Means
<1> DEFINE f == Record(Top.val, pc, b, NoObject, 0)
<1>7. [Top EXCEPT !.s = b, !.pc = pc] = f
  <2>1. [Top EXCEPT !.s = b, !.pc = pc] = Record(Top.val, pc, b, Top.names, Top.done)
    BY <1>4, CallChanges
  <2> QED
    BY <1>4, <1>6, <2>1
<1>8. Becomes(f)
  BY <1>1, <1>2, <1>7
<1>9. Means(f, heap')
  BY <1>3
<1> HIDE DEF f
<1>10. f.val = Top.val /\ Held(f) = {b}
  <2>1. f = Record(Top.val, pc, b, NoObject, 0)
    BY DEF f
  <2>2. f.val = Top.val /\ Held(f) = {b, NoObject} \cap Addr
    BY <2>1, RecordOK
  <2> QED
    BY <1>3, <2>2, Outside
<1>11. \A i \in 1..(Len(frames) - 1) : CallOK(frames[i], heap', root)
  BY <1>3, <1>5
<1>12. Orphans(heap', Held(f))
  BY <1>3, <1>10
<1> QED
  BY <1>3, <1>4, <1>8, <1>9, <1>10, <1>11, <1>12, TopStep

-----------------------------------------------------------------------------
(* What each kind of value decodes to.                                      *)
LEMMA ValueKinds ==
  ASSUME NEW val \in GoValue
  PROVE  /\ Type(val) \in Scalar \cup {"nil", "bytes", "array", "map", "ext"}
         /\ Scalar \cap {"nil", "bytes", "array", "map", "ext"} = {}
         /\ Type(val) = "array" => Content(val) \in Seq(GoValue)
         /\ Type(val) = "map" => Content(val) \in Seq(Int \X GoValue)
BY CodecAssumption DEF IsGoValue, Scalar

LEMMA DecodedScalar ==
  ASSUME NEW val \in GoValue, Type(val) \in Scalar
  PROVE  Decoded[val] = <<SexpType[Type(val)], <<Atom(val)>>, <<>>>>
BY CodecAssumption, ValueKinds DEF DecodedBy, IsJson, IsVector, IsArray

LEMMA DecodedJson ==
  ASSUME NEW val \in GoValue, IsJson(val)
  PROVE  Decoded[val] = IF JsonValue(Content(val)) = Malformed THEN Failure
                        ELSE Decoded[JsonValue(Content(val))]
BY CodecAssumption, ValueKinds DEF DecodedBy, IsJson, IsVector, IsArray

LEMMA DecodedBytes ==
  ASSUME NEW val \in GoValue, Type(val) = "bytes", ~IsJson(val)
  PROVE  Decoded[val] = <<"RAWSXP", Content(val), <<>>>>
BY CodecAssumption, ValueKinds DEF DecodedBy, IsVector, IsArray

LEMMA DecodedVector ==
  ASSUME NEW val \in GoValue, IsVector(val)
  PROVE  Decoded[val] =
           IF \E i \in 1..Size(val) : Type(Content(val)[i]) # Type(Content(val)[1]) THEN Failure
           ELSE <<SexpType[Type(Content(val)[1])], [i \in 1..Size(val) |-> Atom(Content(val)[i])], <<>>>>
<1>1. Type(val) = "array" /\ ~IsJson(val) /\ Type(val) \notin Scalar
  BY ValueKinds DEF IsVector, IsArray, IsJson
<1>2. Decoded[val] = DecodedBy(Decoded, val)
  BY CodecAssumption
<1> QED
  BY <1>1, <1>2 DEF DecodedBy

LEMMA DecodedArray ==
  ASSUME NEW val \in GoValue, IsArray(val), ~IsVector(val)
  PROVE  Decoded[val] = ListOf([i \in 1..Size(val) |-> Decoded[At(val, i)]], <<>>)
<1>1. Type(val) = "array" /\ ~IsJson(val) /\ Type(val) \notin Scalar
  BY ValueKinds DEF IsArray, IsJson
<1>2. Decoded[val] = DecodedBy(Decoded, val)
  BY CodecAssumption
<1> QED
  BY <1>1, <1>2 DEF DecodedBy

LEMMA DecodedMap ==
  ASSUME NEW val \in GoValue, Type(val) = "map"
  PROVE  Decoded[val] = ListOf([i \in 1..Size(val) |-> Decoded[At(val, i)]],
                               [i \in 1..Size(val) |-> Content(val)[i][1]])
<1>1. ~IsJson(val) /\ Type(val) \notin Scalar /\ ~IsArray(val) /\ ~IsVector(val)
  BY ValueKinds DEF IsVector, IsArray, IsJson
<1>2. Decoded[val] = DecodedBy(Decoded, val)
  BY CodecAssumption
<1> QED
  BY <1>1, <1>2 DEF DecodedBy

LEMMA DecodedExt ==
  ASSUME NEW val \in GoValue, Type(val) = "ext"
  PROVE  Decoded[val] = Undefined
<1>1. ~IsJson(val) /\ Type(val) \notin Scalar /\ ~IsArray(val) /\ ~IsVector(val)
  BY ValueKinds DEF IsVector, IsArray, IsJson
<1>2. Decoded[val] = DecodedBy(Decoded, val)
  BY CodecAssumption
<1> QED
  BY <1>1, <1>2 DEF DecodedBy

LEMMA DecodedNil ==
  ASSUME NEW val \in GoValue, Type(val) = "nil" \/ (Type(val) = "array" /\ ~IsArray(val))
  PROVE  Decoded[val] = Null
<1>1. ~IsJson(val) /\ Type(val) \notin Scalar /\ ~IsArray(val) /\ ~IsVector(val)
  BY ValueKinds DEF IsVector, IsArray, IsJson
<1>2. Decoded[val] = DecodedBy(Decoded, val)
  BY CodecAssumption
<1> QED
  BY <1>1, <1>2 DEF DecodedBy

\* An R value is not the mark of an error.
LEMMA NoMark ==
  /\ \A k \in {"STRSXP", "REALSXP", "LGLSXP", "RAWSXP", "VECSXP"} : \A c, n :
       <<k, c, n>> \notin {Failure, Undefined}
  /\ Null \notin {Failure, Undefined}
  /\ Failure # Undefined
<1>1. ASSUME NEW k \in {"STRSXP", "REALSXP", "LGLSXP", "RAWSXP", "VECSXP", "NILSXP"}, NEW c, NEW n
      PROVE  <<k, c, n>> \notin {Failure, Undefined}
  <2> DEFINE t == <<k, c, n>>
  <2>1. t[1] = k
    OBVIOUS
  <2>2. Failure[1] = "error" /\ Undefined[1] = "undefined"
    BY DEF Failure, Undefined
  <2> HIDE DEF t
  <2>3. t \notin {Failure, Undefined}
    BY <2>1, <2>2
  <2> QED
    BY <2>3 DEF t
<1>2. Null \notin {Failure, Undefined}
  BY DEF Null, Failure, Undefined
<1>3. Failure # Undefined
  BY DEF Failure, Undefined
<1> QED
  BY <1>1, <1>2, <1>3

-----------------------------------------------------------------------------
(* One lemma per step of decodeHelper.                                     *)
LEMMA TopMeans ==
  ASSUME NEW root, MeansInv(root), frames # <<>>
  PROVE  /\ DecodeInv /\ GoodHeap(heap) /\ Meaningful(heap)
         /\ Means(Top, heap) /\ Orphans(heap, Held(Top)) /\ Top.val \in GoValue /\ Top.done \in Nat
         /\ Decoded[Top.val] = Failure => Decoded[root] = Failure
<1>1. Top = frames[Len(frames)] /\ Len(frames) \in 1..Len(frames) /\ DecodeInv
  BY TopCall DEF MeansInv
<1>2. CallOK(Top, heap, root)
  BY <1>1, CallsOK
<1> QED
  BY <1>1, <1>2 DEF CallOK, Means, MeansInv, DecodeInv

\* A vector, which has no parts, returned at once.
LEMMA AtomReturned ==
  ASSUME NEW val \in GoValue, NEW k \in {"STRSXP", "REALSXP", "LGLSXP", "RAWSXP"}, NEW c,
         Decoded[val] = <<k, c, <<>>>>, NEW h, Meaningful(h), NEW b \in Addr, h[b] = <<k, c, <<>>>>
  PROVE  Result(val, b, h)
<1>1. h[b][1] # "VECSXP"
  BY NewKinds
<1>2. ValueAt(h, b) = h[b]
  BY <1>1, ValueEquation
<1>3. b # NoObject
  BY Outside
<1>4. <<k, c, <<>>>> \notin {Failure, Undefined}
  BY NoMark
<1> QED
  BY <1>2, <1>3, <1>4 DEF Result

LEMMA EnterMeans ==
  ASSUME NEW val \in GoValue, NEW k \in {"STRSXP", "REALSXP", "LGLSXP", "RAWSXP"}, NEW c,
         Decoded[val] = <<k, c, <<>>>>, NEW h, Meaningful(h), NEW b \in Addr, h[b] = <<k, c, <<>>>>
  PROVE  Means(Record(val, "return", b, NoObject, 0), h)
<1> DEFINE f == Record(val, "return", b, NoObject, 0)
<1>1. f.val = val /\ f.pc = "return" /\ f.s = b /\ f.done = 0
  BY RecordOK
<1> HIDE DEF f
<1>2. Result(f.val, f.s, h)
  BY <1>1, AtomReturned
<1> QED
  BY <1>1, <1>2 DEF Means, f

LEMMA EnterScalarMeans ==
  ASSUME NEW root, MeansInv(root), EnterScalar, DecodeInv'
  PROVE  MeansInv(root)'
<1> DEFINE k == SexpType[Type(Top.val)]
           c == <<Atom(Top.val)>>
<1>1. In("enter") /\ Type(Top.val) \in Scalar /\ Makes(<<k, c, <<>>>>, "return")
  BY DEF EnterScalar
<1>2. Top.val \in GoValue
  BY <1>1, TopMeans DEF In
<1>3. k \in {"STRSXP", "REALSXP", "LGLSXP", "RAWSXP"}
  BY <1>1, NewKinds
<1>4. Decoded[Top.val] = <<k, c, <<>>>>
  BY <1>1, <1>2, DecodedScalar
<1> HIDE DEF k, c
<1>5. NewObject(<<k, c, <<>>>>)
  BY <1>3, NewKinds
<1>6. \A h, b : b \in Addr /\ Meaningful(h) /\ h[b] = <<k, c, <<>>>>
                  => Means(Record(Top.val, "return", b, NoObject, 0), h)
  BY <1>2, <1>3, <1>4, EnterMeans
<1> QED
  BY <1>1, <1>5, <1>6, MakesMeans

LEMMA EnterBytesMeans ==
  ASSUME NEW root, MeansInv(root), EnterBytes, DecodeInv'
  PROVE  MeansInv(root)'
<1> DEFINE k == "RAWSXP"
           c == Content(Top.val)
<1>1. /\ In("enter") /\ Type(Top.val) = "bytes" /\ ~IsJson(Top.val)
      /\ Makes(<<k, c, <<>>>>, "return")
  BY DEF EnterBytes
<1>2. Top.val \in GoValue
  BY <1>1, TopMeans DEF In
<1>3. k \in {"STRSXP", "REALSXP", "LGLSXP", "RAWSXP"}
  OBVIOUS
<1>4. Decoded[Top.val] = <<k, c, <<>>>>
  BY <1>1, <1>2, DecodedBytes
<1> HIDE DEF k, c
<1>5. NewObject(<<k, c, <<>>>>)
  BY <1>3, NewKinds
<1>6. \A h, b : b \in Addr /\ Meaningful(h) /\ h[b] = <<k, c, <<>>>>
                  => Means(Record(Top.val, "return", b, NoObject, 0), h)
  BY <1>2, <1>3, <1>4, EnterMeans
<1> QED
  BY <1>1, <1>5, <1>6, MakesMeans

LEMMA EnterArrayMeans ==
  ASSUME NEW root, MeansInv(root), EnterArray, DecodeInv'
  PROVE  MeansInv(root)'
<1>1. In("enter") /\ IsArray(Top.val) /\ Type(Top.val) = "array"
  BY DEF EnterArray, IsArray
<1>2. Top.val \in GoValue /\ Content(Top.val) \in Seq(GoValue)
  BY <1>1, TopMeans, ValueKinds DEF In
<1>3. Size(Top.val) \in Nat /\ Composite(Top.val)
  BY <1>1, <1>2 DEF Size, Composite
<1> DEFINE F(b) == Record(Top.val, "fill", b, NoObject, 0)
<1>4. ASSUME NEW b
      PROVE  F(b).val = Top.val /\ F(b).pc = "fill" /\ F(b).s = b /\ F(b).done = 0
  BY RecordOK
<1>5. CASE IsVector(Top.val)
  <2> DEFINE k == SexpType[Type(Content(Top.val)[1])]
  <2>1. k \in {"STRSXP", "REALSXP", "LGLSXP", "RAWSXP"}
    BY <1>5, NewKinds DEF IsVector
  <2>2. Makes(<<k, <<>>, <<>>>>, "fill")
    BY <1>5 DEF EnterArray
  <2>3. NewObject(<<k, <<>>, <<>>>>)
    <3> HIDE DEF k
    <3> QED
      BY <2>1, NewKinds
  <2>4. ASSUME NEW h, NEW b \in Addr, h[b] = <<k, <<>>, <<>>>>
        PROVE  Means(F(b), h)
    <3> DEFINE f == F(b)
    <3>1. f.val = Top.val /\ f.pc = "fill" /\ f.s = b /\ f.done = 0
      BY <1>4
    <3> HIDE DEF f
    <3>2. [i \in 1..f.done |-> Atom(Content(f.val)[i])] = <<>> /\ \A i \in 1..f.done : FALSE
      <4>1. 1..f.done = {}
        BY <3>1
      <4> QED
        BY <4>1
    <3>3. VectorHolds(f, h)
      BY <2>4, <3>1, <3>2 DEF VectorHolds
    <3>4. Type(Top.val) # "map"
      BY <1>1
    <3> QED
      BY <1>2, <1>3, <1>5, <3>1, <3>3, <3>4 DEF Means, f
  <2> HIDE DEF k
  <2>5. \A h, b : b \in Addr /\ Meaningful(h) /\ h[b] = <<k, <<>>, <<>>>> => Means(F(b), h)
    BY <2>4
  <2> QED
    BY <1>1, <2>2, <2>3, <2>5, MakesMeans
<1>6. CASE ~IsVector(Top.val)
  <2>1. Makes(<<"VECSXP", <<>>, <<>>>>, "fill")
    BY <1>6 DEF EnterArray
  <2>2. ASSUME NEW h, NEW b \in Addr, h[b] = <<"VECSXP", <<>>, <<>>>>
        PROVE  Means(F(b), h)
    <3> DEFINE f == F(b)
    <3>1. f.val = Top.val /\ f.pc = "fill" /\ f.s = b /\ f.done = 0
      BY <1>4
    <3> HIDE DEF f
    <3>2. Len(h[b][2]) = 0 /\ h[b][1] = "VECSXP" /\ h[b][3] = <<>> /\ \A i \in 1..0 : FALSE
      BY <2>2
    <3>3. ListHolds(f, h, 0)
      BY <3>1, <3>2 DEF ListHolds
    <3>4. Type(Top.val) # "map"
      BY <1>1
    <3> QED
      BY <1>2, <1>3, <1>6, <3>1, <3>3, <3>4 DEF Means, f
  <2>3. \A h, b : b \in Addr /\ Meaningful(h) /\ h[b] = <<"VECSXP", <<>>, <<>>>> => Means(F(b), h)
    BY <2>2
  <2> QED
    BY <1>1, <2>1, <2>3, NewKinds, MakesMeans
<1> QED
  BY <1>5, <1>6

LEMMA EnterMapMeans ==
  ASSUME NEW root, MeansInv(root), EnterMap, DecodeInv'
  PROVE  MeansInv(root)'
<1>1. In("enter") /\ Type(Top.val) = "map" /\ Makes(<<"VECSXP", <<>>, <<>>>>, "names")
  BY DEF EnterMap
<1>2. Top.val \in GoValue
  BY <1>1, TopMeans DEF In
<1>3. ASSUME NEW h, NEW b \in Addr, h[b] = <<"VECSXP", <<>>, <<>>>>
      PROVE  Means(Record(Top.val, "names", b, NoObject, 0), h)
  <2> DEFINE f == Record(Top.val, "names", b, NoObject, 0)
  <2>1. f.val = Top.val /\ f.pc = "names" /\ f.s = b /\ f.done = 0
    BY RecordOK
  <2> HIDE DEF f
  <2> QED
    BY <1>2, <1>3, <2>1 DEF Means, f
<1>4. \A h, b : b \in Addr /\ Meaningful(h) /\ h[b] = <<"VECSXP", <<>>, <<>>>>
                  => Means(Record(Top.val, "names", b, NoObject, 0), h)
  BY <1>3
<1> QED
  BY <1>1, <1>4, NewKinds, MakesMeans

\* The heap stays.
LEMMA SameHeapMeans ==
  ASSUME NEW root, MeansInv(root), DecodeInv', frames # <<>>, NEW g, Becomes(g), g.val = Top.val,
         heap' = heap, Means(g, heap), Held(g) \subseteq Held(Top)
  PROVE  MeansInv(root)'
<1>1. Len(frames) \in Nat
  BY TopCall DEF MeansInv
<1>2. Meaningful(heap') /\ \A i \in 1..(Len(frames) - 1) : CallOK(frames[i], heap', root)
  BY <1>1, TopMeans, CallsOK
<1>3. Orphans(heap', Held(g))
  <2>1. Orphans(heap, Held(Top))
    BY TopMeans
  <2> QED
    BY <2>1 DEF Orphans
<1>4. Means(g, heap')
  OBVIOUS
<1> QED
  BY <1>2, <1>3, <1>4, TopStep

LEMMA EnterNilMeans ==
  ASSUME NEW root, MeansInv(root), EnterNil, DecodeInv'
  PROVE  MeansInv(root)'
<1> DEFINE g == [Top EXCEPT !.s = R_NilValue, !.pc = "return"]
<1>1. frames # <<>> /\ IsCall(Top) /\ Top.names = NoObject
  BY EnterOK DEF EnterNil, MeansInv
<1>2. Means(Top, heap) /\ Top.val \in GoValue /\ Top.done \in Nat /\ Meaningful(heap)
  BY <1>1, TopMeans
<1>3. g = Record(Top.val, "return", R_NilValue, Top.names, Top.done)
  BY <1>1, CallChanges
<1>4. Becomes(g) /\ heap' = heap /\ (Type(Top.val) = "nil" \/ (Type(Top.val) = "array" /\ ~IsArray(Top.val)))
  BY DEF EnterNil
<1> HIDE DEF g
<1>5. g.val = Top.val /\ g.pc = "return" /\ g.s = R_NilValue /\ g.done = Top.done
      /\ Held(g) = {R_NilValue, Top.names} \cap Addr
  BY <1>3, RecordOK
<1>6. Held(g) \subseteq Held(Top)
  BY <1>1, <1>5, Outside DEF Kept
<1>7. Result(g.val, g.s, heap)
  <2>1. R_NilValue # NoObject
    BY Outside DEF Kept
  <2>2. ValueAt(heap, R_NilValue) = Null
    BY <1>2, ValueEquation
  <2>3. Decoded[Top.val] = Null
    BY <1>2, <1>4, DecodedNil
  <2> QED
    BY <1>5, <2>1, <2>2, <2>3, NoMark DEF Result
<1>8. Means(g, heap)
  BY <1>2, <1>5, <1>7 DEF Means
<1> QED
  BY <1>1, <1>4, <1>5, <1>6, <1>8, SameHeapMeans

LEMMA EnterUnknownMeans ==
  ASSUME NEW root, MeansInv(root), EnterUnknown, DecodeInv'
  PROVE  MeansInv(root)'
<1> DEFINE g == [Top EXCEPT !.pc = "return"]
<1>1. frames # <<>> /\ IsCall(Top) /\ Top.s = NoObject
  BY EnterOK DEF EnterUnknown, MeansInv
<1>2. Means(Top, heap) /\ Top.val \in GoValue /\ Top.done \in Nat
  BY <1>1, TopMeans
<1>3. g = Record(Top.val, "return", Top.s, Top.names, Top.done)
  BY <1>1, CallChanges
<1>4. Becomes(g) /\ heap' = heap /\ Type(Top.val) = "ext"
  BY DEF EnterUnknown, Goto
<1> HIDE DEF g
<1>5. g.val = Top.val /\ g.pc = "return" /\ g.s = Top.s /\ g.done = Top.done
      /\ Held(g) = {Top.s, Top.names} \cap Addr
  BY <1>3, RecordOK
<1>6. Held(g) \subseteq Held(Top)
  BY <1>5 DEF Held
<1>7. Result(g.val, g.s, heap)
  BY <1>1, <1>2, <1>4, <1>5, DecodedExt DEF Result
<1>8. Means(g, heap)
  BY <1>2, <1>5, <1>7 DEF Means
<1> QED
  BY <1>1, <1>4, <1>5, <1>6, <1>8, SameHeapMeans

LEMMA MakeNamesMeans ==
  ASSUME NEW root, MeansInv(root), MakeNames, DecodeInv'
  PROVE  MeansInv(root)'
<1> DEFINE object == <<"VECSXP", <<>>, <<>>>>
<1>1. PICK S \in Collections(protect) :
        /\ S # Addr
        /\ heap' = Allocated(S, object)
        /\ Becomes([Top EXCEPT !.names = Fresh(S), !.pc = "fill"])
  BY DEF MakeNames
<1>2. PICK b : b = Fresh(S)
  OBVIOUS
<1>3. NewObject(object)
  BY NewKinds
<1> HIDE DEF object
<1>4. /\ Meaningful(heap') /\ Keeps(heap, heap', S) /\ b \in Addr /\ heap'[b] = object
      /\ \A i \in 1..Len(frames) : CallOK(frames[i], heap', root) /\ Held(frames[i]) \subseteq S
      /\ Orphans(heap', {b})
  BY <1>1, <1>2, <1>3, MakeKeeps
<1>5. /\ frames # <<>> /\ IsCall(Top) /\ Top.s \in Addr /\ Type(Top.val) = "map"
      /\ Top.pc = "names" /\ Top.s \in Held(Top)
  BY TopCall, Outside DEF MakeNames, In, Active, Held, MeansInv
<1>6. Len(frames) \in Nat /\ Top = frames[Len(frames)] /\ Len(frames) \in 1..Len(frames)
  BY <1>5, TopCall DEF MeansInv
<1>7. Top.done = 0 /\ heap[Top.s] = object /\ Top.val \in GoValue
  BY <1>5, TopMeans DEF Means, object
<1> DEFINE g == [Top EXCEPT !.names = b, !.pc = "fill"]
<1>8. g = Record(Top.val, "fill", Top.s, b, Top.done)
  BY <1>5, CallChanges
<1>9. Becomes(g)
  BY <1>1, <1>2
<1> HIDE DEF g
<1>10. /\ g.val = Top.val /\ g.pc = "fill" /\ g.s = Top.s /\ g.names = b /\ g.done = 0
       /\ Held(g) = {Top.s, b} \cap Addr
  BY <1>7, <1>8, RecordOK
<1>11. heap'[Top.s] = object
  <2>1. Top.s \in S
    BY <1>4, <1>5, <1>6
  <2> QED
    BY <1>4, <1>7, <2>1 DEF Keeps
<1>12. /\ object[1] = "VECSXP" /\ object[3] = <<>> /\ Len(object[2]) = 0
       /\ \A i \in 1..0 : FALSE
  BY DEF object
<1>13. ListHolds(g, heap', 0)
  BY <1>10, <1>11, <1>12 DEF ListHolds
<1>14. NamesHold(g, heap')
  BY <1>4, <1>10, <1>12 DEF NamesHold
<1>15. Means(g, heap')
  <2>1. Content(Top.val) \in Seq(Int \X GoValue)
    BY <1>5, <1>7, ValueKinds
  <2>2. Size(Top.val) \in Nat
    BY <2>1 DEF Size
  <2>3. ~IsVector(Top.val) /\ Composite(Top.val)
    BY <1>5 DEF IsVector, IsArray, Composite
  <2> QED
    BY <1>7, <1>10, <1>13, <1>14, <2>2, <2>3 DEF Means
<1>16. Orphans(heap', Held(g))
  <2>1. Orphans(heap', Held(Top))
    BY <1>4, <1>6 DEF CallOK
  <2>2. Held(g) \subseteq Held(Top) \cup {b}
    BY <1>5, <1>10
  <2> QED
    BY <1>4, <2>1, <2>2 DEF Orphans
<1>17. \A i \in 1..(Len(frames) - 1) : CallOK(frames[i], heap', root)
  BY <1>4, <1>6
<1> QED
  BY <1>4, <1>5, <1>9, <1>10, <1>15, <1>16, <1>17, TopStep

-----------------------------------------------------------------------------
\* All calls are what they should be, with heap h; they hold objects of S.
AllOK(h, root) ==
  \A i \in 1..Len(frames) : CallOK(frames[i], h, root) /\ (Active(frames[i]) \/ Waiting(frames[i]))

HeldIn(S) == \A i \in 1..Len(frames) : Held(frames[i]) \subseteq S

\* A collection leaves S, and of that the object at b changes: it leads to other
\* objects than itself.
Replaces(h, g, S, b) ==
  /\ \A c \in S \ {b} : g[c] = h[c]
  /\ \A c \in Addr \ S : g[c] = Free
  /\ LeadsInto(g, b, S \ {b})

\* The calls that hold neither b nor what it leads to go on.
LEMMA ObjectChanges ==
  ASSUME NEW root, DecodeInv, NEW h, GoodHeap(h), Meaningful(h), AllOK(h, root),
         NEW S, ClosedIn(h, S), S \subseteq UsedIn(h), HeldIn(S),
         NEW j \in 1..Len(frames), NEW b \in Held(frames[j]),
         NEW g, Replaces(h, g, S, b)
  PROVE  /\ Meaningful(g) /\ Keeps(h, g, S \ {b}) /\ Orphans(g, {b})
         /\ \A i \in 1..Len(frames) :
              i # j /\ ElementsIn(g, b) \cap Held(frames[i]) = {} => CallOK(frames[i], g, root)
<1> DEFINE K == S \ {b}
<1>1. b \in Addr /\ b \in S /\ S \subseteq Addr
  BY DEF Held, HeldIn, ClosedIn
<1>2. Orphans(h, Held(frames[j]))
  BY DEF AllOK, CallOK
<1>3. ClosedIn(h, K)
  BY <1>1, <1>2, ClosedWithout
<1>4. Changes(h, g, K, b)
  <2>1. \A c \in Addr : c \notin K \cup {b} => c \in Addr \ S
    BY <1>1
  <2> QED
    BY <1>1, <2>1 DEF Changes, Replaces
<1>5. LeadsInto(g, b, K)
  BY DEF Replaces
<1> HIDE DEF K
<1>6. Meaningful(g) /\ \A c \in K \cup {R_NilValue} : ValueAt(g, c) = ValueAt(h, c)
  BY <1>3, <1>4, <1>5, OneChanged
<1>7. Keeps(h, g, K)
  BY <1>3, <1>4, <1>6 DEF Keeps, Changes
<1>8. ASSUME NEW i \in 1..Len(frames), i # j, ElementsIn(g, b) \cap Held(frames[i]) = {}
      PROVE  CallOK(frames[i], g, root)
  <2>1. Held(frames[i]) \cap Held(frames[j]) = {}
    BY <1>8 DEF DecodeInv, StackOK
  <2>2. Held(frames[i]) \subseteq K
    BY <2>1 DEF K, HeldIn
  <2> QED
    BY <1>4, <1>7, <1>8, <2>2, CallKept DEF AllOK
<1>9. Orphans(g, {b})
  <2>1. ASSUME NEW a \in UsedIn(g)
        PROVE  b \notin ElementsIn(g, a)
    <3>1. a \in K \/ a = b
      BY <1>4 DEF UsedIn, Changes
    <3>2. LeadsInto(g, a, K)
      <4>1. CASE a = b
        BY <1>5, <4>1
      <4>2. CASE a \in K
        BY <1>3, <1>4, <4>2 DEF ClosedIn, LeadsInto, Changes
      <4> QED
        BY <3>1, <4>1, <4>2
    <3>3. b \notin K \cup {R_NilValue}
      BY <1>1, Outside DEF K, Kept
    <3> QED
      BY <3>2, <3>3 DEF LeadsInto, ElementsIn
  <2> QED
    BY <2>1 DEF Orphans
<1> QED
  BY <1>6, <1>7, <1>8, <1>9 DEF K

\* A sequence and one more element.
LEMMA Extend ==
  ASSUME NEW d \in Nat, NEW G, G = [i \in 1..(d + 1) |-> G[i]],
         NEW H, H = [i \in 1..d |-> H[i]], \A i \in 1..d : H[i] = G[i]
  PROVE  Append(H, G[d + 1]) = G
<1> DEFINE T == {G[i] : i \in 1..(d + 1)}
           A == Append(H, G[d + 1])
<1>1. d + 1 \in 1..(d + 1) /\ \A i \in 1..d : i \in 1..(d + 1)
  OBVIOUS
<1>2. G[d + 1] \in T /\ \A i \in 1..d : H[i] \in T
  BY <1>1
<1> HIDE DEF T
<1>3. H \in Seq(T) /\ Len(H) = d
  <2>1. H \in [1..d -> T]
    BY <1>2
  <2> QED
    BY <2>1
<1>4. /\ A \in Seq(T) /\ Len(A) = d + 1 /\ A[d + 1] = G[d + 1]
      /\ \A i \in 1..d : A[i] = H[i]
  BY <1>2, <1>3, AppendProperties
<1> HIDE DEF A
<1>5. A = [i \in 1..(d + 1) |-> A[i]]
  <2>1. DOMAIN A = 1..(d + 1) /\ A \in [1..(d + 1) -> T]
    BY <1>4
  <2> QED
    BY <2>1
<1>6. \A i \in 1..(d + 1) : i \in 1..d \/ i = d + 1
  OBVIOUS
<1>7. \A i \in 1..(d + 1) : A[i] = G[i]
  BY <1>4, <1>6
<1>8. [i \in 1..(d + 1) |-> A[i]] = [i \in 1..(d + 1) |-> G[i]]
  BY <1>7
<1> QED
  BY <1>5, <1>8 DEF A

\* The list of the objects of all parts is the list that val decodes to.
LEMMA ListResult ==
  ASSUME NEW val \in GoValue, Size(val) \in Nat, NEW names,
         Decoded[val] = ListOf([i \in 1..Size(val) |-> Decoded[At(val, i)]], names),
         NEW h, GoodHeap(h), Meaningful(h), NEW s \in Addr,
         h[s][1] = "VECSXP", h[s][3] = names, Len(h[s][2]) = Size(val),
         \A i \in 1..Size(val) : Result(At(val, i), h[s][2][i], h)
  PROVE  Result(val, s, h)
<1> DEFINE e == h[s][2]
           n == Size(val)
           V == [i \in 1..n |-> Decoded[At(val, i)]]
           U == [i \in DOMAIN e |-> ValueAt(h, e[i])]
<1>1. ObjectOK(h[s])
  BY DEF GoodHeap
<1>2. e \in Seq(Addr \cup {R_NilValue})
  BY <1>1 DEF ObjectOK
<1>3. DOMAIN e = 1..n /\ \A i \in 1..n : e[i] \in Addr \cup {R_NilValue}
  BY <1>2
<1>4. ASSUME NEW i \in 1..n
      PROVE  ValueAt(h, e[i]) = Decoded[At(val, i)] /\ Decoded[At(val, i)] \notin {Failure, Undefined}
  <2>1. e[i] # NoObject
    BY <1>3, Outside DEF Kept
  <2> QED
    BY <2>1 DEF Result
<1>5. U = V
  BY <1>3, <1>4
<1>6. ValueAt(h, s) = <<"VECSXP", U, names>>
  BY ValueEquation
<1>7. ListOf(V, names) = <<"VECSXP", V, names>>
  <2>1. DOMAIN V = 1..n /\ \A i \in 1..n : V[i] = Decoded[At(val, i)]
    OBVIOUS
  <2> HIDE DEF V, n
  <2>2. ~ \E i \in DOMAIN V : V[i] \in {Failure, Undefined}
    BY <1>4, <2>1
  <2> QED
    BY <2>2 DEF ListOf
<1>8. s # NoObject
  BY Outside
<1>9. <<"VECSXP", V, names>> \notin {Failure, Undefined}
  BY NoMark
<1>10. Decoded[val] = <<"VECSXP", V, names>>
  BY <1>7
<1> HIDE DEF U, V, n, e
<1> QED
  BY <1>5, <1>6, <1>8, <1>9, <1>10 DEF Result

LEMMA VectorResult ==
  ASSUME NEW f, f.val \in GoValue, IsVector(f.val), f.done = Size(f.val), f.s \in Addr,
         NEW h, Meaningful(h), VectorHolds(f, h)
  PROVE  Result(f.val, f.s, h)
<1> DEFINE k == SexpType[Type(Content(f.val)[1])]
           c == [i \in 1..Size(f.val) |-> Atom(Content(f.val)[i])]
<1>1. /\ h[f.s] = <<k, c, <<>>>>
      /\ ~ \E i \in 1..Size(f.val) : Type(Content(f.val)[i]) # Type(Content(f.val)[1])
  BY DEF VectorHolds
<1>2. Decoded[f.val] = <<k, c, <<>>>>
  BY <1>1, DecodedVector
<1>3. k \in {"STRSXP", "REALSXP", "LGLSXP", "RAWSXP"}
  BY NewKinds DEF IsVector
<1> HIDE DEF k, c
<1> QED
  BY <1>1, <1>2, <1>3, AtomReturned

\* The size of an array or a map.
LEMMA SizeOK ==
  ASSUME NEW val \in GoValue, Composite(val)
  PROVE  /\ Size(val) \in Nat
         /\ \A i \in 1..Size(val) : At(val, i) \in GoValue
         /\ Type(val) # "map" => IsArray(val) /\ \A i : At(val, i) = Content(val)[i]
<1>1. CASE Type(val) = "map"
  <2>1. Content(val) \in Seq(Int \X GoValue)
    BY <1>1, ValueKinds
  <2>2. Len(Content(val)) \in Nat /\ \A i \in 1..Len(Content(val)) : Content(val)[i] \in Int \X GoValue
    BY <2>1
  <2>3. \A i \in 1..Len(Content(val)) : Content(val)[i][2] \in GoValue
    BY <2>2
  <2> QED
    BY <1>1, <2>2, <2>3 DEF Size, At
<1>2. CASE Type(val) # "map"
  <2>1. IsArray(val) /\ Type(val) = "array"
    BY <1>2 DEF Composite, IsArray
  <2>2. Content(val) \in Seq(GoValue)
    BY <2>1, ValueKinds
  <2>3. Len(Content(val)) \in Nat /\ \A i \in 1..Len(Content(val)) : Content(val)[i] \in GoValue
    BY <2>2
  <2> QED
    BY <1>2, <2>1, <2>3 DEF Size, At
<1> QED
  BY <1>1, <1>2

LEMMA FinishArrayMeans ==
  ASSUME NEW root, MeansInv(root), FinishArray, DecodeInv'
  PROVE  MeansInv(root)'
<1> DEFINE g == [Top EXCEPT !.pc = "return"]
<1>1. /\ frames # <<>> /\ IsCall(Top) /\ Top.s \in Addr /\ IsArray(Top.val) /\ Type(Top.val) = "array"
      /\ Top.pc = "fill" /\ Top.done = Size(Top.val) /\ Becomes(g) /\ heap' = heap
  BY FillOK DEF FinishArray, IsArray, MeansInv, Goto, In
<1>2. Means(Top, heap) /\ Top.val \in GoValue /\ Top.done \in Nat /\ Meaningful(heap) /\ GoodHeap(heap)
  BY <1>1, TopMeans
<1>3. g = Record(Top.val, "return", Top.s, Top.names, Top.done)
  BY <1>1, CallChanges
<1> HIDE DEF g
<1>4. g.val = Top.val /\ g.pc = "return" /\ g.s = Top.s /\ g.done = Top.done
      /\ Held(g) = {Top.s, Top.names} \cap Addr
  BY <1>3, RecordOK
<1>5. Held(g) \subseteq Held(Top)
  BY <1>4 DEF Held
<1>6. Result(Top.val, Top.s, heap)
  <2>1. CASE IsVector(Top.val)
    BY <1>1, <1>2, <2>1, VectorResult DEF Means
  <2>2. CASE ~IsVector(Top.val)
    <3>1. ListHolds(Top, heap, Size(Top.val))
      BY <1>1, <1>2, <2>2 DEF Means
    <3>2. Size(Top.val) \in Nat
      BY <1>1, <1>2
    <3>3. Decoded[Top.val] = ListOf([i \in 1..Size(Top.val) |-> Decoded[At(Top.val, i)]], <<>>)
      BY <1>1, <1>2, <2>2, DecodedArray
    <3>4. /\ heap[Top.s][1] = "VECSXP" /\ heap[Top.s][3] = <<>> /\ Len(heap[Top.s][2]) = Size(Top.val)
          /\ \A i \in 1..Size(Top.val) : Result(At(Top.val, i), heap[Top.s][2][i], heap)
      BY <3>1 DEF ListHolds
    <3> QED
      BY <1>1, <1>2, <3>2, <3>3, <3>4, ListResult
  <2> QED
    BY <2>1, <2>2
<1>7. Means(g, heap)
  BY <1>2, <1>4, <1>6 DEF Means
<1> QED
  BY <1>1, <1>4, <1>5, <1>7, SameHeapMeans

LEMMA FinishMapMeans ==
  ASSUME NEW root, MeansInv(root), FinishMap, DecodeInv'
  PROVE  MeansInv(root)'
<1> DEFINE g == [Top EXCEPT !.names = NoObject, !.pc = "return"]
           s == Top.s
           names == NamesOf(heap, Top.names)
           named == <<heap[s][1], heap[s][2], names>>
           n == Size(Top.val)
<1>1. /\ frames # <<>> /\ IsCall(Top) /\ s \in Addr /\ s \in Held(Top) /\ Top.names \in Addr
      /\ Type(Top.val) = "map" /\ Top.pc = "fill" /\ Top.done = n /\ Becomes(g)
  BY FillOK DEF FinishMap, MeansInv, In
<1>2. PICK S \in Collections(protect) :
        heap' = [a \in Addr |-> IF a = s THEN named ELSE IF a \in S THEN heap[a] ELSE Free]
  BY DEF FinishMap
<1>3. /\ DecodeInv /\ Means(Top, heap) /\ Top.val \in GoValue /\ Top.done \in Nat
      /\ Meaningful(heap) /\ GoodHeap(heap) /\ Orphans(heap, Held(Top))
  BY <1>1, TopMeans
<1>4. g = Record(Top.val, "return", s, NoObject, Top.done)
  BY <1>1, CallChanges
<1>5. Len(frames) \in Nat /\ Top = frames[Len(frames)] /\ Len(frames) \in 1..Len(frames)
  BY <1>1, <1>3, TopCall
<1>6. named[1] = heap[s][1] /\ named[2] = heap[s][2] /\ named[3] = names
  <2> HIDE DEF names
  <2> QED
    OBVIOUS
<1> HIDE DEF g, named
<1>7. /\ g.val = Top.val /\ g.pc = "return" /\ g.s = s /\ g.done = Top.done
      /\ Held(g) = {s, NoObject} \cap Addr
  BY <1>4, RecordOK
<1>8. ClosedIn(heap, S) /\ S \subseteq UsedIn(heap) /\ \A i \in 1..Len(frames) : Held(frames[i]) \subseteq S
  BY <1>3, CollectionClosed, HeldStays
<1>9. s \in S /\ S \subseteq Addr
  BY <1>1, <1>5, <1>8 DEF ClosedIn
<1>10. /\ heap'[s] = named /\ (\A c \in S \ {s} : heap'[c] = heap[c])
       /\ \A c \in Addr \ S : heap'[c] = Free
  BY <1>1, <1>2, <1>9
<1>11. ElementsIn(heap', s) = ElementsIn(heap, s)
  BY <1>6, <1>10 DEF ElementsIn
<1>12. \A i \in 1..Len(frames) : ElementsIn(heap', s) \cap Held(frames[i]) = {}
  <2> TAKE i \in 1..Len(frames)
  <2>1. Orphans(heap, Held(frames[i]))
    BY CallsOK DEF CallOK
  <2> QED
    BY <1>8, <1>9, <1>11, <2>1 DEF Orphans
<1>13. LeadsInto(heap', s, S \ {s})
  <2>1. LeadsInto(heap, s, S)
    BY <1>8, <1>9 DEF ClosedIn
  <2>2. s \notin ElementsIn(heap, s)
    BY <1>1, <1>5, <1>11, <1>12
  <2>3. ASSUME heap[s][1] = "VECSXP", NEW i \in DOMAIN heap[s][2]
        PROVE  heap[s][2][i] \in (S \ {s}) \cup {R_NilValue}
    <3>1. heap[s][2][i] \in S \cup {R_NilValue}
      BY <2>1, <2>3 DEF LeadsInto
    <3>2. heap[s][2][i] # s
      BY <1>1, <2>2, <2>3 DEF ElementsIn
    <3> QED
      BY <3>1, <3>2
  <2>4. heap'[s][1] = heap[s][1] /\ heap'[s][2] = heap[s][2]
    BY <1>6, <1>10
  <2> QED
    BY <2>3, <2>4 DEF LeadsInto
<1> HIDE DEF names
<1>14. /\ Meaningful(heap') /\ Keeps(heap, heap', S \ {s}) /\ Orphans(heap', {s})
       /\ \A i \in 1..Len(frames) : i # Len(frames) => CallOK(frames[i], heap', root)
  <2>1. s \in Held(frames[Len(frames)]) /\ AllOK(heap, root) /\ HeldIn(S)
    BY <1>1, <1>5, <1>8, CallsOK DEF AllOK, HeldIn
  <2>2. Replaces(heap, heap', S, s)
    BY <1>10, <1>13 DEF Replaces
  <2> HIDE DEF s
  <2>3. /\ Meaningful(heap') /\ Keeps(heap, heap', S \ {s}) /\ Orphans(heap', {s})
        /\ \A i \in 1..Len(frames) :
             i # Len(frames) /\ ElementsIn(heap', s) \cap Held(frames[i]) = {} => CallOK(frames[i], heap', root)
    BY <1>3, <1>5, <1>8, <2>1, <2>2, ObjectChanges
  <2> QED
    BY <1>12, <2>3
<1>15. Composite(Top.val) /\ ~IsVector(Top.val) /\ n \in Nat
  BY <1>1, <1>3 DEF Composite, IsVector, IsArray
<1>16. ListHolds(Top, heap, n) /\ NamesHold(Top, heap)
  BY <1>1, <1>3, <1>15 DEF Means
<1>17. names = [i \in 1..n |-> Content(Top.val)[i][1]]
  <2>1. /\ heap[Top.names][1] = "VECSXP" /\ Len(heap[Top.names][2]) = n
        /\ \A i \in 1..n : heap[heap[Top.names][2][i]][2] = <<Content(Top.val)[i][1]>>
    BY <1>1, <1>16 DEF NamesHold
  <2>2. heap[Top.names][2] \in Seq(Addr \cup {R_NilValue})
    BY <1>1, <1>3, <2>1 DEF GoodHeap, ObjectOK
  <2>3. DOMAIN heap[Top.names][2] = 1..n
    BY <2>1, <2>2
  <2>4. \A i \in 1..n : heap[heap[Top.names][2][i]][2][1] = Content(Top.val)[i][1]
    <3> TAKE i \in 1..n
    <3> DEFINE t == heap[heap[Top.names][2][i]][2]
               x == Content(Top.val)[i][1]
    <3>1. t = <<x>>
      BY <2>1
    <3> HIDE DEF t, x
    <3>2. t[1] = x
      BY <3>1
    <3> QED
      BY <3>2 DEF t, x
  <2> HIDE DEF n
  <2> QED
    BY <2>3, <2>4 DEF NamesOf, names
<1>18. Result(Top.val, s, heap')
  <2>1. /\ heap[s][1] = "VECSXP" /\ Len(heap[s][2]) = n
        /\ \A i \in 1..n : Result(At(Top.val, i), heap[s][2][i], heap)
    BY <1>16 DEF ListHolds
  <2>2. heap'[s][1] = "VECSXP" /\ heap'[s][2] = heap[s][2] /\ heap'[s][3] = names
    BY <1>6, <1>10, <2>1
  <2>3. GoodHeap(heap')
    BY DEF DecodeInv
  <2>4. DOMAIN heap[s][2] = 1..n
    <3>1. heap[s][2] \in Seq(Addr \cup {R_NilValue})
      BY <1>1, <1>3, <2>1 DEF GoodHeap, ObjectOK
    <3> QED
      BY <2>1, <3>1
  <2>5. \A i \in 1..n : heap[s][2][i] \in (S \ {s}) \cup {R_NilValue}
    BY <1>13, <2>2, <2>4 DEF LeadsInto
  <2>6. \A i \in 1..n : Result(At(Top.val, i), heap'[s][2][i], heap')
    BY <1>14, <2>1, <2>2, <2>5, ResultKept
  <2>7. Decoded[Top.val] = ListOf([i \in 1..n |-> Decoded[At(Top.val, i)]], names)
    BY <1>1, <1>3, <1>17, DecodedMap
  <2>8. Len(heap'[s][2]) = n
    BY <2>1, <2>2
  <2> HIDE DEF s
  <2> QED
    BY <1>1, <1>3, <1>14, <1>15, <2>2, <2>3, <2>6, <2>7, <2>8, ListResult
<1>19. Means(g, heap')
  BY <1>3, <1>7, <1>18 DEF Means
<1>20. Held(g) = {s}
  BY <1>1, <1>7, Outside
<1>21. \A i \in 1..(Len(frames) - 1) : CallOK(frames[i], heap', root)
  BY <1>5, <1>14
<1>22. Orphans(heap', Held(g))
  BY <1>14, <1>20
<1> QED
  BY <1>1, <1>7, <1>14, <1>19, <1>21, <1>22, TopStep

\* Rf_error where val has no value.
LEMMA FailsMeans ==
  ASSUME NEW root, MeansInv(root), Fails, DecodeInv', Decoded[root] = Failure
  PROVE  MeansInv(root)'
<1>1. heap' = heap /\ frames' = <<>> /\ decoded' = "error"
  BY DEF Fails
<1>2. Meaningful(heap')
  BY <1>1 DEF MeansInv
<1>3. Len(frames') = 0 /\ (\A i \in 1..Len(frames') : FALSE) /\ \A i \in 1..(Len(frames') - 1) : FALSE
  BY <1>1
<1>4. Outcome(root)'
  BY <1>1 DEF Outcome
<1> QED
  BY <1>1, <1>2, <1>3, <1>4 DEF MeansInv

LEMMA ElementAdded ==
  ASSUME NEW h, GoodHeap(h), NEW b \in Addr, NEW a, NEW g, g = WithElement(h, b, a)
  PROVE  /\ g[b] = <<h[b][1], Append(h[b][2], a), h[b][3]>>
         /\ g[b][1] = h[b][1] /\ g[b][2] = Append(h[b][2], a) /\ g[b][3] = h[b][3]
         /\ \A c \in Addr : c # b => g[c] = h[c]
<1>1. g[b] = <<h[b][1], Append(h[b][2], a), h[b][3]>> /\ \A c \in Addr : c # b => g[c] = h[c]
  BY DEF WithElement, GoodHeap
<1> DEFINE x == h[b][1]
           y == Append(h[b][2], a)
           z == h[b][3]
<1>2. g[b] = <<x, y, z>>
  BY <1>1
<1> HIDE DEF x, y, z
<1>3. g[b][1] = x /\ g[b][2] = y /\ g[b][3] = z
  BY <1>2
<1> QED
  BY <1>1, <1>3 DEF x, y, z

LEMMA FillElementMeans ==
  ASSUME NEW root, MeansInv(root), FillElement, DecodeInv'
  PROVE  MeansInv(root)'
<1> DEFINE e == Content(Top.val)[Top.done + 1]
           first == Content(Top.val)[1]
           d == Top.done + 1
           s == Top.s
<1>1. /\ frames # <<>> /\ IsCall(Top) /\ s \in Addr /\ s \in Held(Top) /\ Top.names = NoObject
      /\ IsVector(Top.val) /\ Top.pc = "fill" /\ Top.done < Size(Top.val) /\ Type(Top.val) = "array"
  <2>1. In("fill") /\ IsVector(Top.val) /\ Top.done < Size(Top.val)
    BY DEF FillElement
  <2>2. Type(Top.val) = "array"
    BY <2>1 DEF IsVector, IsArray
  <2>3. DecodeInv
    BY DEF MeansInv
  <2> QED
    BY <2>1, <2>2, <2>3, FillOK DEF In
<1>2. /\ DecodeInv /\ Means(Top, heap) /\ Top.val \in GoValue /\ Top.done \in Nat
      /\ Meaningful(heap) /\ GoodHeap(heap) /\ Orphans(heap, Held(Top))
      /\ Decoded[Top.val] = Failure => Decoded[root] = Failure
  BY <1>1, TopMeans
<1>3. Composite(Top.val) /\ Size(Top.val) \in Nat /\ d \in 1..Size(Top.val)
  <2>1. Composite(Top.val)
    BY <1>1 DEF Composite, IsVector
  <2>2. Size(Top.val) \in Nat
    BY <1>2, <2>1, SizeOK
  <2> QED
    BY <1>1, <1>2, <2>1, <2>2
<1>4. CASE Type(e) # Type(first)
  <2>1. Fails
    BY <1>4 DEF FillElement
  <2>2. \E i \in 1..Size(Top.val) : Type(Content(Top.val)[i]) # Type(Content(Top.val)[1])
    BY <1>3, <1>4
  <2>3. Decoded[Top.val] = Failure
    BY <1>1, <1>2, <2>2, DecodedVector
  <2> QED
    BY <1>2, <2>1, <2>3, FailsMeans
<1>5. CASE Type(e) = Type(first)
  <2>1. PICK S \in Collections(protect) : heap' = WithElement(Collected(S), s, Atom(e))
    BY <1>2, <1>5, NoCollection DEF FillElement, Collected
  <2> DEFINE g == [Top EXCEPT !.done = d]
             h == Collected(S)
  <2>2. Becomes(g)
    BY <1>5 DEF FillElement
  <2>3. GoodHeap(h) /\ UsedIn(h) = S /\ \A a \in S : a \in Addr /\ h[a] = heap[a]
    BY <1>2, CollectedGood
  <2>4. \A a \in Addr : a \notin S => h[a] = Free
    BY DEF Collected
  <2>5. /\ ClosedIn(heap, S) /\ S \subseteq UsedIn(heap) /\ S \subseteq Addr
        /\ \A i \in 1..Len(frames) : Held(frames[i]) \subseteq S
    BY <1>2, <2>3, CollectionClosed, HeldStays
  <2>6. Len(frames) \in Nat /\ Top = frames[Len(frames)] /\ Len(frames) \in 1..Len(frames)
    BY <1>1, <1>2, TopCall
  <2>7. s \in S
    BY <1>1, <2>5, <2>6
  <2> HIDE DEF h
  <2>8. /\ heap'[s] = <<h[s][1], Append(h[s][2], Atom(e)), h[s][3]>>
        /\ heap'[s][1] = h[s][1]
        /\ \A c \in Addr : c # s => heap'[c] = h[c]
    BY <1>1, <2>1, <2>3, ElementAdded DEF h
  <2>9. h[s] = heap[s]
    BY <2>3, <2>7
  <2> DEFINE k == SexpType[Type(first)]
             H == [i \in 1..Top.done |-> Atom(Content(Top.val)[i])]
             G == [i \in 1..d |-> Atom(Content(Top.val)[i])]
  <2>10. h[s] = <<k, H, <<>>>> /\ \A i \in 1..Top.done : Type(Content(Top.val)[i]) = Type(first)
    BY <1>1, <1>2, <2>9 DEF Means, VectorHolds
  <2>11. Append(H, Atom(e)) = G
    <3>1. Top.done \in Nat /\ G = [i \in 1..(Top.done + 1) |-> G[i]] /\ H = [i \in 1..Top.done |-> H[i]]
      BY <1>2
    <3>2. \A i \in 1..Top.done : i \in 1..(Top.done + 1)
      BY <1>2
    <3>3. \A i \in 1..Top.done : H[i] = G[i]
      BY <3>2
    <3>4. G[Top.done + 1] = Atom(e)
      <4>1. Top.done + 1 \in 1..d
        BY <1>3
      <4> QED
        BY <4>1
    <3> HIDE DEF G, H
    <3>5. Append(H, G[Top.done + 1]) = G
      BY <3>1, <3>3, Extend
    <3> QED
      BY <3>4, <3>5
  <2>12. k \in {"STRSXP", "REALSXP", "LGLSXP", "RAWSXP"}
    BY <1>1, NewKinds DEF IsVector
  <2>13. heap'[s] = <<k, G, <<>>>> /\ heap'[s][1] # "VECSXP"
    <3> HIDE DEF k, H, G
    <3>1. h[s][1] = k /\ h[s][2] = H /\ h[s][3] = <<>>
      BY <2>10
    <3> QED
      BY <2>8, <2>11, <2>12, <3>1
  <2> HIDE DEF k, H
  <2>14. Replaces(heap, heap', S, s)
    <3>1. \A c \in S \ {s} : heap'[c] = heap[c]
      BY <2>3, <2>8
    <3>2. \A c \in Addr \ S : heap'[c] = Free
      BY <2>4, <2>7, <2>8
    <3> QED
      BY <2>13, <3>1, <3>2 DEF Replaces, LeadsInto
  <2>15. ElementsIn(heap', s) = {}
    BY <2>13 DEF ElementsIn
  <2>16. /\ Meaningful(heap') /\ Orphans(heap', {s})
         /\ \A i \in 1..Len(frames) : i # Len(frames) => CallOK(frames[i], heap', root)
    <3>1. s \in Held(frames[Len(frames)]) /\ AllOK(heap, root) /\ HeldIn(S)
      BY <1>1, <2>5, <2>6, CallsOK DEF AllOK, HeldIn
    <3> HIDE DEF s
    <3>2. /\ Meaningful(heap') /\ Orphans(heap', {s})
          /\ \A i \in 1..Len(frames) :
               i # Len(frames) /\ ElementsIn(heap', s) \cap Held(frames[i]) = {} => CallOK(frames[i], heap', root)
      BY <1>2, <2>5, <2>6, <2>14, <3>1, ObjectChanges
    <3> QED
      BY <2>15, <3>2
  <2>17. g = Record(Top.val, Top.pc, s, Top.names, d)
    BY <1>1, CallChanges
  <2> HIDE DEF g
  <2>18. /\ g.val = Top.val /\ g.pc = "fill" /\ g.s = s /\ g.done = d
         /\ Held(g) = {s, Top.names} \cap Addr
    BY <1>1, <2>17, RecordOK
  <2>19. Held(g) = {s}
    BY <1>1, <2>18, Outside
  <2>20. VectorHolds(g, heap')
    <3>1. \A i \in 1..d : i \in 1..Top.done \/ i = d
      BY <1>2
    <3>2. \A i \in 1..d : Type(Content(Top.val)[i]) = Type(first)
      BY <1>5, <2>10, <3>1
    <3> QED
      BY <2>13, <2>18, <3>2 DEF VectorHolds, k
  <2>21. Means(g, heap')
    BY <1>1, <1>2, <1>3, <2>18, <2>20 DEF Means
  <2>22. \A i \in 1..(Len(frames) - 1) : CallOK(frames[i], heap', root)
    BY <2>6, <2>16
  <2>23. Orphans(heap', Held(g))
    BY <2>16, <2>19
  <2> QED
    BY <1>1, <2>2, <2>16, <2>18, <2>21, <2>22, <2>23, TopStep
<1> QED
  BY <1>4, <1>5

LEMMA GoodClosed ==
  ASSUME NEW h, GoodHeap(h)
  PROVE  ClosedIn(h, UsedIn(h))
<1>1. ASSUME NEW a \in UsedIn(h), h[a][1] = "VECSXP", NEW i \in DOMAIN h[a][2]
      PROVE  h[a][2][i] \in UsedIn(h) \cup {R_NilValue}
  <2>1. ObjectOK(h[a]) /\ ElementsIn(h, a) \subseteq UsedIn(h)
    BY DEF GoodHeap, UsedIn
  <2>2. h[a][2] \in Seq(Addr \cup {R_NilValue})
    BY <1>1, <2>1 DEF ObjectOK
  <2>3. h[a][2][i] \in Addr \cup {R_NilValue}
    BY <1>1, <2>2
  <2>4. h[a][2][i] \in Addr => h[a][2][i] \in ElementsIn(h, a)
    BY <1>1 DEF ElementsIn
  <2> QED
    BY <2>1, <2>3, <2>4
<1> QED
  BY <1>1 DEF ClosedIn, LeadsInto, UsedIn

LEMMA OrphansKept ==
  ASSUME NEW h, NEW g, NEW S, NEW b, Replaces(h, g, S, b), NEW A, Orphans(h, A),
         ElementsIn(g, b) \cap A = {}
  PROVE  Orphans(g, A)
<1>1. ASSUME NEW a \in UsedIn(g), a # b
      PROVE  ElementsIn(g, a) \cap A = {}
  <2>1. a \in S \ {b} /\ a \in Addr
    BY <1>1 DEF Replaces, UsedIn
  <2>2. g[a] = h[a]
    BY <2>1 DEF Replaces
  <2>3. a \in UsedIn(h) /\ ElementsIn(g, a) = ElementsIn(h, a)
    BY <2>2 DEF UsedIn, ElementsIn
  <2> QED
    BY <2>3 DEF Orphans
<1> QED
  BY <1>1 DEF Orphans

\* A list gets one more element.
LEMMA ListLonger ==
  ASSUME NEW h, GoodHeap(h), NEW b \in Addr, h[b][1] = "VECSXP",
         NEW a \in Addr \cup {R_NilValue}, NEW g, g = WithElement(h, b, a)
  PROVE  LET n == Len(h[b][2])
         IN  /\ n \in Nat /\ Len(g[b][2]) = n + 1 /\ g[b][2][n + 1] = a
             /\ DOMAIN h[b][2] = 1..n /\ DOMAIN g[b][2] = 1..(n + 1)
             /\ \A i \in 1..n : g[b][2][i] = h[b][2][i]
             /\ g[b][1] = "VECSXP" /\ g[b][3] = h[b][3]
             /\ ElementsIn(g, b) = ElementsIn(h, b) \cup ({a} \cap Addr)
<1> DEFINE n == Len(h[b][2])
<1>1. h[b][2] \in Seq(Addr \cup {R_NilValue})
  BY DEF GoodHeap, ObjectOK
<1>2. g[b][1] = h[b][1] /\ g[b][2] = Append(h[b][2], a) /\ g[b][3] = h[b][3]
  BY ElementAdded
<1>3. /\ n \in Nat /\ Len(g[b][2]) = n + 1 /\ g[b][2][n + 1] = a
      /\ DOMAIN h[b][2] = 1..n /\ DOMAIN g[b][2] = 1..(n + 1)
      /\ \A i \in 1..n : g[b][2][i] = h[b][2][i]
  BY <1>1, <1>2, AppendProperties
<1>4. g[b][1] = "VECSXP" /\ g[b][3] = h[b][3]
  BY <1>2
<1>5. ElementsIn(g, b) = ElementsIn(h, b) \cup ({a} \cap Addr)
  <2>1. ElementsIn(h, b) = {h[b][2][i] : i \in 1..n} \cap Addr
    BY <1>3 DEF ElementsIn
  <2>2. ElementsIn(g, b) = {g[b][2][i] : i \in 1..(n + 1)} \cap Addr
    BY <1>3, <1>4 DEF ElementsIn
  <2> HIDE DEF n
  <2>3. {g[b][2][i] : i \in 1..(n + 1)} = {h[b][2][i] : i \in 1..n} \cup {a}
    <3>1. \A i \in 1..(n + 1) : i \in 1..n \/ i = n + 1
      BY <1>3
    <3>2. n + 1 \in 1..(n + 1) /\ \A i \in 1..n : i \in 1..(n + 1)
      BY <1>3
    <3> QED
      BY <1>3, <3>1, <3>2
  <2> QED
    BY <2>1, <2>2, <2>3
<1> QED
  BY <1>3, <1>4, <1>5

LEMMA LongerLeads ==
  ASSUME NEW h, NEW g, NEW b \in Addr, GoodHeap(h), h[b][1] = "VECSXP", NEW a \in Addr \cup {R_NilValue},
         g = WithElement(h, b, a), NEW S, ClosedIn(h, S), b \in S, NEW A, Orphans(h, A), b \in A,
         S \subseteq UsedIn(h), a \in (S \ {b}) \cup {R_NilValue}
  PROVE  LeadsInto(g, b, S \ {b})
<1>1. PICK n : n = Len(h[b][2])
  OBVIOUS
<1>2. /\ n \in Nat /\ g[b][2][n + 1] = a
      /\ DOMAIN h[b][2] = 1..n /\ DOMAIN g[b][2] = 1..(n + 1)
      /\ \A i \in 1..n : g[b][2][i] = h[b][2][i]
  BY <1>1, ListLonger
<1>3. ASSUME NEW i \in 1..n
      PROVE  h[b][2][i] \in (S \ {b}) \cup {R_NilValue}
  <2>1. h[b][2][i] \in S \cup {R_NilValue}
    BY <1>2 DEF ClosedIn, LeadsInto
  <2>2. b \notin ElementsIn(h, b)
    BY DEF Orphans
  <2> QED
    BY <1>2, <2>1, <2>2 DEF ElementsIn
<1>4. \A i \in 1..(n + 1) : i \in 1..n \/ i = n + 1
  BY <1>2
<1>5. \A i \in DOMAIN g[b][2] : g[b][2][i] \in (S \ {b}) \cup {R_NilValue}
  BY <1>2, <1>3, <1>4
<1> QED
  BY <1>5 DEF LeadsInto

LEMMA FillNameMeans ==
  ASSUME NEW root, MeansInv(root), FillName, DecodeInv'
  PROVE  MeansInv(root)'
<1> DEFINE key == Content(Top.val)[Top.done + 1][1]
           d == Top.done + 1
           s == Top.s
           b == Top.names
           object == <<"STRSXP", <<key>>, <<>>>>
           g == [Top EXCEPT !.pc = "fill", !.done = d]
<1>1. /\ frames # <<>> /\ IsCall(Top) /\ s \in Addr /\ b \in Addr
      /\ b \in Held(Top) /\ s \in Held(Top) /\ b # s /\ Type(Top.val) = "map" /\ Top.pc = "key"
  BY TopCall DEF FillName, In, Active, Held, MeansInv
<1>2. PICK S \in Collections(protect) :
        /\ S # Addr
        /\ heap' = WithElement(Allocated(S, object), b, Fresh(S))
  BY DEF FillName
<1>3. Becomes(g)
  BY DEF FillName
<1>4. /\ DecodeInv /\ Means(Top, heap) /\ Top.val \in GoValue /\ Top.done \in Nat
      /\ Meaningful(heap) /\ GoodHeap(heap)
  BY <1>1, TopMeans
<1>5. PICK a : a = Fresh(S)
  OBVIOUS
<1>6. PICK h : h = Allocated(S, object)
  OBVIOUS
<1>7. NewObject(object) /\ object[2] = <<key>>
  BY NewKinds
<1>8. g = Record(Top.val, "fill", s, b, d)
  <2>1. \A n : [Top EXCEPT !.pc = "fill", !.done = n] = Record(Top.val, "fill", Top.s, Top.names, n)
    BY <1>1, PcAndDone
  <2> QED
    BY <2>1
<1>9. heap' = WithElement(h, b, a)
  BY <1>2, <1>5, <1>6
<1>10. Len(frames) \in Nat /\ Top = frames[Len(frames)] /\ Len(frames) \in 1..Len(frames)
  BY <1>1, <1>4, TopCall
<1> HIDE DEF g, object
<1>11. /\ Meaningful(h) /\ GoodHeap(h) /\ UsedIn(h) = S \cup {a}
       /\ a \in Addr /\ a \notin S /\ h[a] = object
       /\ \A i \in 1..Len(frames) : CallOK(frames[i], h, root) /\ Held(frames[i]) \subseteq S
  <2> HIDE DEF s, b, d, key
  <2>1. S # Addr /\ NewObject(object) /\ h = Allocated(S, object) /\ a = Fresh(S)
    BY <1>2, <1>5, <1>6, <1>7
  <2> QED
    BY <2>1, MakeKeeps
<1>12. /\ g.val = Top.val /\ g.pc = "fill" /\ g.s = s /\ g.names = b /\ g.done = d
       /\ Held(g) = {s, b} \cap Addr
  BY <1>8, RecordOK
<1>13. Means(Top, h) /\ Orphans(h, Held(Top)) /\ Held(Top) \subseteq S
  BY <1>10, <1>11 DEF CallOK
<1>14. /\ Composite(Top.val) /\ ~IsVector(Top.val) /\ Size(Top.val) \in Nat /\ d \in Nat /\ d \leq Size(Top.val)
       /\ ListHolds(Top, h, d) /\ NamesHold(Top, h)
  <2>1. ~IsVector(Top.val) /\ Composite(Top.val)
    BY <1>1 DEF IsVector, IsArray, Composite
  <2>2. Size(Top.val) \in Nat
    BY <1>4, <2>1, SizeOK
  <2>3. Top.done < Size(Top.val) /\ ListHolds(Top, h, d) /\ NamesHold(Top, h)
    BY <1>1, <1>13 DEF Means
  <2> QED
    BY <1>4, <2>1, <2>2, <2>3
<1> DEFINE U == UsedIn(h)
<1>15. h[b][1] = "VECSXP" /\ Len(h[b][2]) = Top.done
  BY <1>14 DEF NamesHold
<1>16. /\ s \in U /\ b \in U /\ a \in U /\ a # b /\ a # s /\ U \subseteq Addr
  BY <1>1, <1>11, <1>13 DEF UsedIn
<1>17. ClosedIn(h, U)
  BY <1>11, GoodClosed
<1>18. /\ Len(heap'[b][2]) = d /\ heap'[b][2][d] = a
       /\ DOMAIN h[b][2] = 1..Top.done
       /\ \A i \in 1..Top.done : heap'[b][2][i] = h[b][2][i]
       /\ heap'[b][1] = "VECSXP"
       /\ ElementsIn(heap', b) = ElementsIn(h, b) \cup ({a} \cap Addr)
  <2> HIDE DEF s, b, d, key
  <2>1. PICK n : n = Len(h[b][2])
    OBVIOUS
  <2>2. /\ n \in Nat /\ Len(heap'[b][2]) = n + 1 /\ heap'[b][2][n + 1] = a
        /\ DOMAIN h[b][2] = 1..n
        /\ \A i \in 1..n : heap'[b][2][i] = h[b][2][i]
        /\ heap'[b][1] = "VECSXP"
        /\ ElementsIn(heap', b) = ElementsIn(h, b) \cup ({a} \cap Addr)
    BY <1>1, <1>9, <1>11, <1>15, <2>1, ListLonger
  <2>3. n = Top.done /\ d = n + 1
    BY <1>15, <2>1 DEF d
  <2> QED
    BY <2>2, <2>3
<1>19. \A c \in Addr : c # b => heap'[c] = h[c]
  BY <1>1, <1>9, <1>11, ElementAdded
<1>20. LeadsInto(heap', b, U \ {b})
  BY <1>1, <1>9, <1>11, <1>13, <1>15, <1>16, <1>17, LongerLeads
<1> HIDE DEF s, b, d, key
<1>21. Replaces(h, heap', U, b)
  <2>1. \A c \in U \ {b} : heap'[c] = h[c]
    BY <1>16, <1>19
  <2>2. \A c \in Addr \ U : heap'[c] = Free
    BY <1>16, <1>19 DEF UsedIn
  <2> QED
    BY <1>20, <2>1, <2>2 DEF Replaces
<1>22. \A i \in 1..Len(frames) : i # Len(frames) => ElementsIn(heap', b) \cap Held(frames[i]) = {}
  <2> TAKE i \in 1..Len(frames)
  <2>1. Orphans(h, Held(frames[i])) /\ Held(frames[i]) \subseteq S
    BY <1>11 DEF CallOK
  <2>2. ElementsIn(h, b) \cap Held(frames[i]) = {}
    BY <1>16, <2>1 DEF Orphans
  <2> QED
    BY <1>11, <1>18, <2>1, <2>2
<1>23. /\ Meaningful(heap') /\ Keeps(h, heap', U \ {b}) /\ Orphans(heap', {b})
       /\ \A i \in 1..Len(frames) : i # Len(frames) => CallOK(frames[i], heap', root)
  <2>1. b \in Held(frames[Len(frames)]) /\ AllOK(h, root) /\ HeldIn(U)
    BY <1>1, <1>10, <1>11, CallsOK DEF AllOK, HeldIn
  <2> HIDE DEF U
  <2>2. /\ Meaningful(heap') /\ Keeps(h, heap', U \ {b}) /\ Orphans(heap', {b})
        /\ \A i \in 1..Len(frames) :
             i # Len(frames) /\ ElementsIn(heap', b) \cap Held(frames[i]) = {} => CallOK(frames[i], heap', root)
    BY <1>4, <1>10, <1>11, <1>17, <1>21, <2>1, ObjectChanges DEF U
  <2> QED
    BY <1>22, <2>2
<1>24. ListHolds(g, heap', d)
  <2>1. Top.s \in U \ {b}
    BY <1>1, <1>16 DEF s
  <2>2. ListHolds(Top, heap', d)
    BY <1>11, <1>14, <1>23, <2>1, ListKept
  <2> QED
    BY <1>12, <2>2 DEF ListHolds, s
<1>25. NamesHold(g, heap')
  <2>1. ASSUME NEW i \in 1..d
        PROVE  /\ heap'[b][2][i] \in Addr
               /\ heap'[heap'[b][2][i]][2] = <<Content(Top.val)[i][1]>>
    <3>1. CASE i = d
      <4>1. heap'[a] = object
        BY <1>11, <1>16, <1>19
      <4> QED
        BY <1>7, <1>11, <1>18, <3>1, <4>1 DEF d, key
    <3>2. CASE i # d
      <4>1. i \in 1..Top.done
        BY <1>4, <3>2 DEF d
      <4>2. h[b][2][i] \in Addr /\ h[h[b][2][i]][2] = <<Content(Top.val)[i][1]>>
        BY <1>14, <4>1 DEF NamesHold, b
      <4>3. h[b][2][i] # b
        <5>1. h[b][2][i] \in ElementsIn(h, b)
          BY <1>15, <1>18, <4>1, <4>2 DEF ElementsIn
        <5> QED
          BY <1>1, <1>13, <1>16, <5>1 DEF Orphans
      <4> QED
        BY <1>18, <1>19, <4>1, <4>2, <4>3
    <3> QED
      BY <3>1, <3>2
  <2> QED
    BY <1>12, <1>18, <2>1 DEF NamesHold
<1>26. Means(g, heap')
  BY <1>4, <1>12, <1>14, <1>24, <1>25 DEF Means
<1>27. Orphans(heap', Held(g))
  <2>1. Orphans(h, {s})
    BY <1>1, <1>13 DEF Orphans
  <2>2. ElementsIn(heap', b) \cap {s} = {}
    <3>1. s \notin ElementsIn(h, b)
      BY <1>16, <2>1 DEF Orphans
    <3> QED
      BY <1>16, <1>18, <3>1
  <2>3. Orphans(heap', {s})
    BY <1>21, <2>1, <2>2, OrphansKept
  <2> QED
    BY <1>12, <1>23, <2>3 DEF Orphans
<1>28. \A i \in 1..(Len(frames) - 1) : CallOK(frames[i], heap', root)
  BY <1>10, <1>23
<1> QED
  BY <1>1, <1>3, <1>12, <1>23, <1>26, <1>27, <1>28, TopStep

-----------------------------------------------------------------------------
\* The call on top waits as f for a new call, of its next part v.
LEMMA CallMeans ==
  ASSUME NEW root, MeansInv(root), DecodeInv', frames # <<>>, NEW f, NEW v \in GoValue,
         frames' = Append([frames EXCEPT ![Len(frames)] = f], NewFrame(v)), heap' = heap,
         f.val = Top.val, Held(f) = Held(Top), Means(f, heap), v = Part(f),
         Decoded[v] = Failure => Decoded[f.val] = Failure
  PROVE  MeansInv(root)'
<1> DEFINE g == NewFrame(v)
<1>1. PICK n : n = Len(frames)
  OBVIOUS
<1>2. DecodeInv /\ n \in Nat \ {0} /\ Top = frames[n] /\ n \in 1..n
  BY <1>1, TopCall DEF MeansInv
<1>3. /\ Len(frames') = n + 1 /\ frames'[n + 1] = g /\ frames'[n] = f
      /\ \A i \in 1..n : i # n => frames'[i] = frames[i]
  BY <1>1, <1>2, CallAdded
<1>4. /\ \A i \in 1..n : CallOK(frames[i], heap, root)
      /\ \A i \in 1..(n - 1) : frames[i + 1].val = Part(frames[i])
      /\ frames[1].val = root
      /\ Meaningful(heap)
  BY <1>1 DEF MeansInv
<1>5. CallOK(f, heap, root)
  <2>1. CallOK(Top, heap, root)
    BY <1>2, <1>4
  <2> QED
    BY <2>1 DEF CallOK
<1>6. g.val = v /\ CallOK(g, heap, root)
  <2>1. g = Record(v, "enter", NoObject, NoObject, 0)
    BY DEF NewFrame, Record
  <2> HIDE DEF g
  <2>2. g.val = v /\ g.pc = "enter" /\ g.done = 0 /\ Held(g) = {}
    BY <2>1, RecordOK, Outside
  <2>3. Means(g, heap)
    BY <2>2 DEF Means
  <2>4. Orphans(heap, Held(g))
    BY <2>2 DEF Orphans
  <2>5. Decoded[g.val] = Failure => Decoded[root] = Failure
    BY <1>5, <2>2 DEF CallOK
  <2> QED
    BY <2>2, <2>3, <2>4, <2>5 DEF CallOK
<1> HIDE DEF g
<1>7. \A i \in 1..(n + 1) : i = n + 1 \/ i = n \/ (i \in 1..n /\ i # n /\ i \in 1..(n - 1))
  BY <1>2
<1>8. \A i \in 1..(n + 1) : CallOK(frames'[i], heap', root)
  BY <1>2, <1>3, <1>4, <1>5, <1>6, <1>7
<1>9. \A i \in 1..n : i = n \/ (i # n /\ i + 1 \in 1..n /\ i \in 1..(n - 1))
  BY <1>2
<1>10. \A i \in 1..n : frames'[i].val = frames[i].val
  BY <1>2, <1>3
<1>11. \A i \in 1..n : frames'[i + 1].val = Part(frames'[i])
  <2> TAKE i \in 1..n
  <2>1. CASE i = n
    BY <1>3, <1>6, <2>1
  <2>2. CASE i # n
    <3>1. frames[i + 1].val = Part(frames[i]) /\ i + 1 \in 1..n
      BY <1>4, <1>9, <2>2
    <3>2. frames'[i + 1].val = frames[i + 1].val
      BY <1>10, <3>1
    <3> QED
      BY <1>3, <2>2, <3>1, <3>2
  <2> QED
    BY <2>1, <2>2
<1>12. frames'[1].val = root
  <2>1. 1 \in 1..n
    BY <1>2
  <2> QED
    BY <1>4, <1>10, <2>1
<1>13. Len(frames') = n + 1 /\ Len(frames') - 1 = n /\ frames' # <<>>
  BY <1>2, <1>3
<1>14. Meaningful(heap')
  BY <1>4
<1>15. \A i \in 1..Len(frames') : CallOK(frames'[i], heap', root)
  BY <1>8, <1>13
<1>16. \A i \in 1..(Len(frames') - 1) : frames'[i + 1].val = Part(frames'[i])
  BY <1>11, <1>13
<1>17. (frames' # <<>> => frames'[1].val = root) /\ (frames' = <<>> => Outcome(root)')
  BY <1>12, <1>13
<1> QED
  BY <1>14, <1>15, <1>16, <1>17 DEF MeansInv

\* The call on top has returned to the one below, which goes on as g.
LEMMA ReturnMeans ==
  ASSUME NEW root, MeansInv(root), DecodeInv', Len(frames) > 1, NEW g,
         frames' = Append(SubSeq(frames, 1, Len(frames) - 2), g),
         g.val = frames[Len(frames) - 1].val,
         Meaningful(heap'), \A i \in 1..(Len(frames) - 2) : CallOK(frames[i], heap', root),
         CallOK(g, heap', root)
  PROVE  MeansInv(root)'
<1>1. PICK m : m = Len(frames) - 2
  OBVIOUS
<1>2. IsSeq(frames) /\ Len(frames) \in Nat
  BY LengthOK DEF MeansInv, DecodeInv, StackOK
<1>3. m \in Nat /\ Len(frames) = m + 2 /\ Len(frames) - 1 = m + 1 /\ frames # <<>>
  BY <1>1, <1>2
<1>4. Len(frames') = m + 1 /\ frames'[m + 1] = g /\ \A i \in 1..m : frames'[i] = frames[i]
  <2> DEFINE t == Append(SubSeq(frames, 1, Len(frames) - 2), g)
  <2>1. /\ Len(t) = Len(frames) - 1 /\ t[Len(frames) - 1] = g
        /\ \A i \in 1..(Len(frames) - 2) : t[i] = frames[i]
    BY <1>2, Popping
  <2>2. frames' = t
    OBVIOUS
  <2> HIDE DEF t
  <2> QED
    BY <1>1, <1>3, <2>1, <2>2
<1>5. /\ \A i \in 1..(m + 1) : frames[i + 1].val = Part(frames[i])
      /\ frames[1].val = root
  BY <1>3 DEF MeansInv
<1>6. \A i \in 1..(m + 1) : i \in 1..m \/ i = m + 1
  BY <1>3
<1>7. \A i \in 1..(m + 1) : CallOK(frames'[i], heap', root)
  BY <1>1, <1>4, <1>6
<1>8. \A i \in 1..(m + 1) : frames'[i].val = frames[i].val
  BY <1>3, <1>4, <1>6
<1>9. \A i \in 1..m : i \in 1..(m + 1) /\ i + 1 \in 1..(m + 1)
  BY <1>3
<1>10. \A i \in 1..m : frames'[i + 1].val = Part(frames'[i])
  BY <1>4, <1>5, <1>8, <1>9
<1>11. frames'[1].val = root
  <2>1. 1 \in 1..(m + 1)
    BY <1>3
  <2> QED
    BY <1>5, <1>8, <2>1
<1>12. Len(frames') - 1 = m /\ frames' # <<>>
  BY <1>3, <1>4
<1> QED
  BY <1>4, <1>7, <1>10, <1>11, <1>12 DEF MeansInv

\* A list or map with a part that has no value has none.
LEMMA PartFails ==
  ASSUME NEW val \in GoValue, Composite(val), ~IsVector(val), NEW i \in 1..Size(val),
         Decoded[At(val, i)] \in {Failure, Undefined}
  PROVE  Decoded[val] = Failure
<1> DEFINE V == [k \in 1..Size(val) |-> Decoded[At(val, k)]]
<1>1. PICK names : Decoded[val] = ListOf(V, names)
  <2>1. CASE Type(val) = "map"
    BY <2>1, DecodedMap
  <2>2. CASE Type(val) # "map"
    BY <2>2, SizeOK, DecodedArray
  <2> QED
    BY <2>1, <2>2
<1>2. i \in DOMAIN V /\ V[i] \in {Failure, Undefined}
  OBVIOUS
<1> HIDE DEF V
<1> QED
  BY <1>1, <1>2 DEF ListOf

\* Only an extension has no object.
LEMMA HasObject ==
  ASSUME NEW val \in GoValue, Type(val) \notin {"bytes", "ext"}
  PROVE  Decoded[val] # Undefined
<1> DEFINE Lists(names) == ListOf([i \in 1..Size(val) |-> Decoded[At(val, i)]], names)
<1>1. \A names : Lists(names) # Undefined
  BY NoMark DEF ListOf
<1> HIDE DEF Lists
<1>2. CASE Type(val) \in Scalar
  BY <1>2, DecodedScalar, NewKinds, NoMark
<1>3. CASE Type(val) = "nil" \/ (Type(val) = "array" /\ ~IsArray(val))
  BY <1>3, DecodedNil, NoMark
<1>4. CASE IsVector(val)
  <2> DEFINE k == SexpType[Type(Content(val)[1])]
             c == [i \in 1..Size(val) |-> Atom(Content(val)[i])]
  <2>1. k \in {"STRSXP", "REALSXP", "LGLSXP", "RAWSXP"}
    BY <1>4, NewKinds DEF IsVector
  <2>2. Decoded[val] = Failure \/ Decoded[val] = <<k, c, <<>>>>
    BY <1>4, DecodedVector
  <2> HIDE DEF k, c
  <2> QED
    BY <2>1, <2>2, NoMark
<1>5. CASE IsArray(val) /\ ~IsVector(val)
  BY <1>1, <1>5, DecodedArray DEF Lists
<1>6. CASE Type(val) = "map"
  BY <1>1, <1>6, DecodedMap DEF Lists
<1> QED
  BY <1>2, <1>3, <1>4, <1>5, <1>6, ValueKinds

LEMMA EnterJsonMeans ==
  ASSUME NEW root, MeansInv(root), EnterJson, DecodeInv'
  PROVE  MeansInv(root)'
<1> DEFINE f == [Top EXCEPT !.pc = "json"]
           json == JsonValue(Content(Top.val))
<1>1. frames # <<>> /\ IsCall(Top) /\ IsJson(Top.val)
  BY EnterOK DEF EnterJson, MeansInv
<1>2. /\ Means(Top, heap) /\ Top.val \in GoValue /\ Top.done \in Nat
      /\ Decoded[Top.val] = Failure => Decoded[root] = Failure
  BY <1>1, TopMeans
<1>3. Decoded[Top.val] = IF json = Malformed THEN Failure ELSE Decoded[json]
  BY <1>1, <1>2, DecodedJson
<1>4. CASE json = Malformed
  BY <1>2, <1>3, <1>4, FailsMeans DEF EnterJson
<1>5. CASE json # Malformed
  <2>1. json \in GoValue
    BY <1>1, <1>2, <1>5, CodecAssumption DEF IsGoValue
  <2>2. f = Record(Top.val, "json", Top.s, Top.names, Top.done)
    BY <1>1, CallChanges
  <2>3. frames' = Append([frames EXCEPT ![Len(frames)] = f], NewFrame(json)) /\ heap' = heap
    BY <1>5 DEF EnterJson, Top
  <2> HIDE DEF f
  <2>4. f.val = Top.val /\ f.pc = "json" /\ f.done = Top.done /\ Held(f) = Held(Top)
    BY <2>2, RecordOK DEF Held
  <2>5. Means(f, heap) /\ json = Part(f)
    BY <1>1, <1>2, <1>5, <2>4 DEF Means, Part
  <2>6. Decoded[json] = Failure => Decoded[f.val] = Failure
    BY <1>3, <1>5, <2>4
  <2> HIDE DEF json
  <2> QED
    BY <1>1, <2>1, <2>3, <2>4, <2>5, <2>6, CallMeans
<1> QED
  BY <1>4, <1>5

LEMMA CallElementMeans ==
  ASSUME NEW root, MeansInv(root), CallElement, DecodeInv'
  PROVE  MeansInv(root)'
<1> DEFINE f == [Top EXCEPT !.pc = "element"]
           i == Top.done + 1
           v == At(Top.val, i)
<1>1. /\ frames # <<>> /\ IsCall(Top) /\ Top.pc = "fill" /\ ~IsVector(Top.val)
      /\ Top.done < Size(Top.val)
  BY FillOK DEF CallElement, MeansInv, In
<1>2. Means(Top, heap) /\ Top.val \in GoValue /\ Top.done \in Nat
  BY <1>1, TopMeans
<1>3. Composite(Top.val) /\ ListHolds(Top, heap, Top.done) /\ (Type(Top.val) = "map" => NamesHold(Top, heap))
  BY <1>1, <1>2 DEF Means
<1>4. i \in 1..Size(Top.val)
  BY <1>1, <1>2, <1>3, SizeOK
<1>5. v \in GoValue
  BY <1>2, <1>3, <1>4, SizeOK
<1>6. f = Record(Top.val, "element", Top.s, Top.names, Top.done)
  BY <1>1, CallChanges
<1>7. frames' = Append([frames EXCEPT ![Len(frames)] = f], NewFrame(v)) /\ heap' = heap
  BY DEF CallElement, Top
<1> HIDE DEF f
<1>8. /\ f.val = Top.val /\ f.pc = "element" /\ f.s = Top.s /\ f.names = Top.names /\ f.done = Top.done
      /\ Held(f) = Held(Top)
  BY <1>6, RecordOK DEF Held
<1>9. ListHolds(f, heap, f.done) /\ (Type(f.val) = "map" => NamesHold(f, heap))
  BY <1>3, <1>8 DEF ListHolds, NamesHold
<1>10. f.done < Size(f.val) /\ f.done \leq Size(f.val)
  BY <1>1, <1>2, <1>3, <1>8, SizeOK
<1>11. Means(f, heap)
  BY <1>1, <1>2, <1>3, <1>8, <1>9, <1>10 DEF Means
<1>12. v = Part(f)
  BY <1>8 DEF Part
<1>13. Decoded[v] = Failure => Decoded[f.val] = Failure
  BY <1>1, <1>2, <1>3, <1>4, <1>8, PartFails
<1> HIDE DEF v, i
<1> QED
  BY <1>1, <1>5, <1>7, <1>8, <1>11, <1>12, <1>13, CallMeans

\* The list at b had k elements, and has a after them in g.
Longer(h, g, b, a, k) ==
  /\ DOMAIN h[b][2] = 1..k /\ DOMAIN g[b][2] = 1..(k + 1)
  /\ Len(g[b][2]) = k + 1 /\ g[b][2][k + 1] = a
  /\ \A i \in 1..k : g[b][2][i] = h[b][2][i]
  /\ g[b][1] = "VECSXP" /\ g[b][3] = h[b][3]
  /\ ElementsIn(g, b) = ElementsIn(h, b) \cup ({a} \cap Addr)

LEMMA IsLonger ==
  ASSUME NEW h, GoodHeap(h), NEW b \in Addr, h[b][1] = "VECSXP", NEW k, k = Len(h[b][2]),
         NEW a \in Addr \cup {R_NilValue}, NEW g, g = WithElement(h, b, a)
  PROVE  Longer(h, g, b, a, k)
<1>1. /\ DOMAIN h[b][2] = 1..k /\ DOMAIN g[b][2] = 1..(k + 1)
      /\ Len(g[b][2]) = k + 1 /\ g[b][2][k + 1] = a
      /\ \A i \in 1..k : g[b][2][i] = h[b][2][i]
      /\ g[b][1] = "VECSXP" /\ g[b][3] = h[b][3]
      /\ ElementsIn(g, b) = ElementsIn(h, b) \cup ({a} \cap Addr)
  BY ListLonger
<1> QED
  BY <1>1 DEF Longer

\* The calls but the one at j are as they should be, when g has another object at b.
Undisturbed(h, g, S, b, j, root) ==
  /\ Meaningful(g) /\ Keeps(h, g, S \ {b}) /\ Orphans(g, {b})
  /\ \A i \in 1..Len(frames) :
       i # j /\ ElementsIn(g, b) \cap Held(frames[i]) = {} => CallOK(frames[i], g, root)

LEMMA NotDisturbed ==
  ASSUME NEW root, DecodeInv, NEW h, GoodHeap(h), Meaningful(h), AllOK(h, root),
         NEW S, ClosedIn(h, S), S \subseteq UsedIn(h), HeldIn(S),
         NEW j \in 1..Len(frames), NEW b \in Held(frames[j]),
         NEW g, Replaces(h, g, S, b)
  PROVE  Undisturbed(h, g, S, b, j, root)
BY ObjectChanges DEF Undisturbed

\* The object of the call on top becomes an element of the one below.
LEMMA EmbedMeans ==
  ASSUME NEW root, MeansInv(root), NEW n, n = Len(frames), n > 1, frames # <<>>,
         NEW f, f = frames[n - 1], f.pc = "element",
         NEW a, a = Top.s, a # NoObject, Top.pc = "return",
         NEW g, g = WithElement(heap, f.s, a)
  PROVE  /\ Meaningful(g) /\ Orphans(g, Held(f))
         /\ \A i \in 1..(n - 2) : CallOK(frames[i], g, root)
         /\ ListHolds(f, g, f.done + 1)
         /\ Type(f.val) = "map" => NamesHold(f, g)
<1> DEFINE S == UsedIn(heap)
<1>0. PICK b : b = f.s
  OBVIOUS
<1>22. PICK d : d = f.done
  OBVIOUS
<1>1. /\ DecodeInv /\ GoodHeap(heap) /\ Meaningful(heap) /\ Means(Top, heap)
      /\ Active(Top) /\ n \in Nat \ {0} /\ Top = frames[n] /\ n \in 1..n
  BY TopMeans, TopCall
<1>2. /\ n - 1 \in 1..n /\ n - 1 \in 1..(n - 1) /\ n - 1 # n
      /\ \A i \in 1..(n - 2) : i \in 1..n /\ i # n /\ i # n - 1
  BY <1>1
<1>3. CallOK(f, heap, root) /\ Waiting(f) /\ Top.val = Part(f) /\ Held(f) \subseteq S
  <2>1. frames[n - 1 + 1].val = Part(frames[n - 1])
    BY <1>2 DEF MeansInv
  <2>2. n - 1 + 1 = n
    BY <1>1
  <2>3. CallOK(f, heap, root) /\ Waiting(f) /\ Held(f) \subseteq S
    BY <1>2 DEF MeansInv, DecodeInv, StackOK
  <2> QED
    BY <1>1, <2>1, <2>2, <2>3
<1>4. \A i, j \in 1..n : i # j => Held(frames[i]) \cap Held(frames[j]) = {}
  BY DEF MeansInv, DecodeInv, StackOK
<1>5. Held(f) \cap Held(Top) = {}
  BY <1>1, <1>2, <1>4
<1>6. a \in Addr \cup {R_NilValue} /\ Held(Top) = {a} \cap Addr
  BY <1>1, Outside DEF Active, Held
<1>7. /\ b \in Addr /\ b \in Held(f) /\ ~IsVector(f.val)
      /\ Type(f.val) = "map" => f.names \in Held(f) /\ f.names \in Addr /\ f.names # b
      /\ Held(f) = {b, f.names} \cap Addr
  BY <1>0, <1>3 DEF Waiting, Held
<1>8. /\ d \in Nat /\ ListHolds(f, heap, d) /\ (Type(f.val) = "map" => NamesHold(f, heap))
      /\ Orphans(heap, Held(f))
  BY <1>3, <1>7, <1>22 DEF CallOK, Means
<1>9. /\ heap[b][1] = "VECSXP" /\ heap[b][3] = <<>> /\ Len(heap[b][2]) = d
      /\ \A i \in 1..d : Result(At(f.val, i), heap[b][2][i], heap)
  BY <1>0, <1>8 DEF ListHolds
<1>10. Result(At(f.val, d + 1), a, heap)
  <2>1. Part(f) = At(f.val, d + 1)
    BY <1>22 DEF Part
  <2>2. Result(Top.val, a, heap)
    BY <1>1 DEF Means
  <2> QED
    BY <1>3, <2>1, <2>2
<1>11. /\ Len(g[b][2]) = d + 1 /\ g[b][2][d + 1] = a
       /\ DOMAIN heap[b][2] = 1..d /\ DOMAIN g[b][2] = 1..(d + 1)
       /\ \A i \in 1..d : g[b][2][i] = heap[b][2][i]
       /\ g[b][1] = "VECSXP" /\ g[b][3] = <<>>
       /\ ElementsIn(g, b) = ElementsIn(heap, b) \cup ({a} \cap Addr)
  <2>1. /\ g = WithElement(heap, b, a) /\ b \in Addr /\ heap[b][1] = "VECSXP" /\ d = Len(heap[b][2])
        /\ GoodHeap(heap) /\ a \in Addr \cup {R_NilValue}
    BY <1>0, <1>1, <1>6, <1>7, <1>9
  <2>2. Longer(heap, g, b, a, d)
    BY <2>1, IsLonger
  <2> QED
    BY <1>9, <2>2 DEF Longer
<1>12. \A c \in Addr : c # b => g[c] = heap[c]
  BY <1>0, <1>1, <1>7, ElementAdded
<1>13. ClosedIn(heap, S) /\ S \subseteq Addr /\ b \in S
  BY <1>1, <1>3, <1>7, GoodClosed DEF UsedIn
<1>14. a \in (S \ {b}) \cup {R_NilValue}
  <2>1. a \in Addr => a \in Held(Top) /\ a \in S
    <3>1. Held(Top) \subseteq S
      BY <1>1 DEF DecodeInv, StackOK
    <3> QED
      BY <1>6, <3>1
  <2>2. a # b
    BY <1>5, <1>6, <1>7
  <2> QED
    BY <1>6, <2>1, <2>2
<1>15. LeadsInto(g, b, S \ {b})
  <2>1. g = WithElement(heap, b, a)
    BY <1>0
  <2> HIDE DEF S
  <2>2. S \subseteq UsedIn(heap)
    BY DEF S
  <2> QED
    BY <1>1, <1>6, <1>7, <1>8, <1>9, <1>13, <1>14, <2>1, <2>2, LongerLeads
<1>16. Replaces(heap, g, S, b)
  <2>1. \A c \in S \ {b} : g[c] = heap[c]
    BY <1>12, <1>13
  <2>2. \A c \in Addr \ S : g[c] = Free
    BY <1>12, <1>13 DEF UsedIn
  <2> QED
    BY <1>15, <2>1, <2>2 DEF Replaces
<1>17. /\ Meaningful(g) /\ Keeps(heap, g, S \ {b}) /\ Orphans(g, {b})
       /\ \A i \in 1..n :
            i # n - 1 /\ ElementsIn(g, b) \cap Held(frames[i]) = {} => CallOK(frames[i], g, root)
  <2>1. AllOK(heap, root) /\ HeldIn(S) /\ S \subseteq UsedIn(heap)
    BY CallsOK DEF AllOK, HeldIn
  <2>2. PICK j : j = n - 1
    OBVIOUS
  <2>3. b \in Held(frames[j]) /\ j \in 1..Len(frames)
    BY <1>2, <1>7, <2>2
  <2> HIDE DEF S
  <2>4. DecodeInv /\ GoodHeap(heap) /\ Meaningful(heap) /\ ClosedIn(heap, S)
    BY <1>1, <1>13
  <2>5. Undisturbed(heap, g, S, b, j, root)
    BY <1>16, <2>1, <2>3, <2>4, NotDisturbed
  <2> QED
    BY <2>2, <2>5 DEF Undisturbed
<1>18. \A i \in 1..(n - 2) : CallOK(frames[i], g, root)
  <2> TAKE i \in 1..(n - 2)
  <2>1. i \in 1..n /\ i # n - 1 /\ Held(frames[i]) \cap Held(Top) = {}
    BY <1>1, <1>2, <1>4
  <2>2. Orphans(heap, Held(frames[i]))
    BY <2>1 DEF MeansInv, CallOK
  <2>3. ElementsIn(heap, b) \cap Held(frames[i]) = {}
    BY <1>13, <2>2 DEF Orphans
  <2>4. ElementsIn(g, b) \cap Held(frames[i]) = {}
    BY <1>6, <1>11, <2>1, <2>3
  <2> QED
    BY <1>17, <2>1, <2>4
<1>19. ListHolds(f, g, d + 1)
  <2>1. \A i \in 1..d : heap[b][2][i] \in (S \ {b}) \cup {R_NilValue}
    <3>1. DOMAIN g[b][2] = 1..(d + 1)
      BY <1>11
    <3>2. \A i \in 1..d : i \in 1..(d + 1)
      BY <1>8
    <3> QED
      BY <1>11, <1>15, <3>1, <3>2 DEF LeadsInto
  <2>2. \A i \in 1..d : Result(At(f.val, i), g[b][2][i], g)
    <3> TAKE i \in 1..d
    <3>1. heap[b][2][i] \in (S \ {b}) \cup {R_NilValue, NoObject}
      BY <2>1
    <3>2. Result(At(f.val, i), heap[b][2][i], heap)
      BY <1>9
    <3> HIDE DEF S
    <3>3. Result(At(f.val, i), heap[b][2][i], g)
      BY <1>17, <3>1, <3>2, ResultKept
    <3> QED
      BY <1>11, <3>3
  <2>3. Result(At(f.val, d + 1), g[b][2][d + 1], g)
    <3>1. a \in (S \ {b}) \cup {R_NilValue, NoObject}
      BY <1>14
    <3> HIDE DEF S
    <3>2. Result(At(f.val, d + 1), a, g)
      BY <1>10, <1>17, <3>1, ResultKept
    <3> QED
      BY <1>11, <3>2
  <2>4. \A i \in 1..(d + 1) : i \in 1..d \/ i = d + 1
    BY <1>8
  <2>5. \A i \in 1..(d + 1) : Result(At(f.val, i), g[b][2][i], g)
    BY <2>2, <2>3, <2>4
  <2> QED
    BY <1>0, <1>11, <2>5 DEF ListHolds
<1>20. ASSUME Type(f.val) = "map"
       PROVE  NamesHold(f, g)
  <2>1. f.names \in S \ {b}
    BY <1>3, <1>7, <1>20
  <2> HIDE DEF S
  <2> QED
    BY <1>1, <1>8, <1>17, <1>20, <2>1, NamesKept
<1>21. Orphans(g, Held(f))
  <2>1. ASSUME NEW c \in Held(f), c # b
        PROVE  Orphans(g, {c})
    <3>1. Orphans(heap, {c})
      BY <1>8, <2>1 DEF Orphans
    <3>2. c \notin ElementsIn(heap, b)
      BY <1>13, <3>1 DEF Orphans
    <3>3. ElementsIn(g, b) \cap {c} = {}
      BY <1>5, <1>6, <1>11, <2>1, <3>2
    <3> QED
      BY <1>16, <3>1, <3>3, OrphansKept
  <2> QED
    BY <1>17, <2>1 DEF Orphans
<1> QED
  BY <1>17, <1>18, <1>19, <1>20, <1>21, <1>22

LEMMA ReturnElementMeans ==
  ASSUME NEW root, MeansInv(root), ReturnElement, DecodeInv'
  PROVE  MeansInv(root)'
<1> DEFINE n == Len(frames)
           f == frames[n - 1]
           a == Top.s
           Back(g) == frames' = Append(SubSeq(frames, 1, n - 2), g)
<1>1. /\ frames # <<>> /\ n > 1 /\ a \in Addr \cup {R_NilValue, NoObject} /\ Top.pc = "return"
      /\ Held(Top) = {a} \cap Addr
  BY ReturnOK DEF ReturnElement, MeansInv, In
<1>2. n \in Nat /\ n - 1 \in 1..n /\ n - 1 \in 1..(n - 1) /\ \A i \in 1..(n - 2) : i \in 1..n
  BY <1>1, TopCall DEF MeansInv
<1>3. /\ DecodeInv /\ Meaningful(heap) /\ Means(Top, heap) /\ Top.val \in GoValue
      /\ Orphans(heap, Held(Top))
  BY <1>1, TopMeans
<1>4. Result(Top.val, a, heap)
  BY <1>1, <1>3 DEF Means
<1>5. /\ CallOK(f, heap, root) /\ Means(f, heap) /\ Orphans(heap, Held(f)) /\ f.val \in GoValue
      /\ Decoded[f.val] = Failure => Decoded[root] = Failure
      /\ Waiting(f) /\ IsCall(f)
  BY <1>2 DEF MeansInv, CallOK, Means, DecodeInv, StackOK, Waiting
<1>6. Top.val = Part(f)
  <2>1. frames[n - 1 + 1].val = Part(f)
    BY <1>2 DEF MeansInv
  <2>2. n - 1 + 1 = n
    BY <1>2
  <2> QED
    BY <2>1, <2>2 DEF Top
<1>7. CASE a = NoObject /\ Fails
  <2>1. Decoded[Top.val] = Undefined
    BY <1>4, <1>7 DEF Result
  <2>2. CASE f.pc = "json"
    <3>1. IsJson(f.val) /\ Top.val = JsonValue(Content(f.val)) /\ Top.val # Malformed
      BY <1>5, <1>6, <2>2 DEF Means, Part
    <3>2. Type(Top.val) \notin {"bytes", "ext"}
      BY <1>5, <3>1, CodecAssumption DEF IsGoValue
    <3> QED
      BY <1>3, <2>1, <3>2, HasObject
  <2>3. CASE f.pc = "element"
    <3>1. f.done \in Nat /\ Composite(f.val) /\ ~IsVector(f.val) /\ f.done < Size(f.val)
      BY <1>5, <2>3 DEF Means
    <3>2. Size(f.val) \in Nat
      BY <1>5, <3>1, SizeOK
    <3>3. f.done + 1 \in 1..Size(f.val)
      BY <3>1, <3>2
    <3>4. Decoded[At(f.val, f.done + 1)] = Undefined
      BY <1>6, <2>1, <2>3 DEF Part
    <3>5. Decoded[f.val] = Failure
      BY <1>5, <3>1, <3>3, <3>4, PartFails
    <3> QED
      BY <1>5, <1>7, <3>5, FailsMeans
  <2> QED
    BY <1>5, <2>2, <2>3 DEF Waiting
<1>8. CASE /\ a # NoObject /\ f.pc = "json"
           /\ Back([f EXCEPT !.pc = "return", !.s = a])
           /\ UNCHANGED <<heap, protect, warned, decoded>>
  <2> DEFINE g == [f EXCEPT !.pc = "return", !.s = a]
  <2>1. IsJson(f.val) /\ Top.val = JsonValue(Content(f.val)) /\ Top.val # Malformed
    BY <1>5, <1>6, <1>8 DEF Means, Part
  <2>2. Decoded[f.val] = Decoded[Top.val]
    BY <1>5, <2>1, DecodedJson
  <2>3. g = Record(f.val, "return", a, f.names, f.done)
    BY <1>5, CallChanges
  <2>4. Back(g) /\ heap' = heap
    BY <1>8
  <2>5. f.names = NoObject /\ f.done \in Nat
    BY <1>5, <1>8 DEF Waiting, Means
  <2> HIDE DEF g
  <2>6. g.val = f.val /\ g.pc = "return" /\ g.s = a /\ g.done = f.done /\ Held(g) = {a, f.names} \cap Addr
    BY <2>3, RecordOK
  <2> HIDE DEF f, a
  <2>7. Held(g) = Held(Top)
    BY <1>1, <2>5, <2>6, Outside
  <2>8. Result(g.val, g.s, heap)
    BY <1>4, <1>8, <2>2, <2>6 DEF Result
  <2>9. Means(g, heap)
    BY <1>5, <2>5, <2>6, <2>8 DEF Means
  <2>10. CallOK(g, heap', root)
    BY <1>3, <1>5, <2>4, <2>6, <2>7, <2>9 DEF CallOK
  <2>11. Meaningful(heap') /\ \A i \in 1..(n - 2) : CallOK(frames[i], heap', root)
    BY <1>2, <1>3, <2>4 DEF MeansInv
  <2> QED
    BY <1>1, <2>4, <2>6, <2>10, <2>11, ReturnMeans DEF f
<1>9. CASE /\ a # NoObject /\ f.pc = "element"
           /\ Embed(f, a)
           /\ IF Type(f.val) = "map" THEN Back([f EXCEPT !.pc = "key"])
              ELSE Back([f EXCEPT !.pc = "fill", !.done = f.done + 1])
  <2> DEFINE d == f.done + 1
             g == IF Type(f.val) = "map" THEN [f EXCEPT !.pc = "key"]
                  ELSE [f EXCEPT !.pc = "fill", !.done = d]
  <2>1. /\ Meaningful(heap') /\ Orphans(heap', Held(f))
        /\ \A i \in 1..(n - 2) : CallOK(frames[i], heap', root)
        /\ ListHolds(f, heap', d)
        /\ Type(f.val) = "map" => NamesHold(f, heap')
    <3>1. PICK k : k = n
      OBVIOUS
    <3>2. PICK h : h = WithElement(heap, f.s, a) /\ h = heap'
      BY <1>9 DEF Embed
    <3>3. k > 1 /\ k = Len(frames) /\ f = frames[k - 1]
      BY <1>1, <3>1
    <3>4. /\ Meaningful(h) /\ Orphans(h, Held(f))
          /\ \A i \in 1..(k - 2) : CallOK(frames[i], h, root)
          /\ ListHolds(f, h, f.done + 1)
          /\ Type(f.val) = "map" => NamesHold(f, h)
      <4> HIDE DEF f, a
      <4>1. a = Top.s
        BY DEF a
      <4> QED
        BY <1>1, <1>9, <3>2, <3>3, <4>1, EmbedMeans
    <3> QED
      BY <3>1, <3>2, <3>4
  <2>2. Back(g)
    BY <1>9
  <2>3. /\ f.done \in Nat /\ Composite(f.val) /\ ~IsVector(f.val) /\ f.done < Size(f.val)
        /\ Size(f.val) \in Nat
    BY <1>5, <1>9, SizeOK DEF Means
  <2>4. d \in Nat /\ d \leq Size(f.val)
    BY <2>3
  <2>5. Type(f.val) = "map" => g = Record(f.val, "key", f.s, f.names, f.done)
    BY <1>5, CallChanges
  <2> HIDE DEF d
  <2>6. Type(f.val) # "map" => g = Record(f.val, "fill", f.s, f.names, d)
    BY <1>5, PcAndDone
  <2> HIDE DEF g, f
  <2>7. /\ g.val = f.val /\ g.s = f.s /\ g.names = f.names /\ Held(g) = Held(f)
        /\ Type(f.val) = "map" => g.pc = "key" /\ g.done = f.done
        /\ Type(f.val) # "map" => g.pc = "fill" /\ g.done = d
    BY <2>5, <2>6, RecordOK DEF Held
  <2>8. ListHolds(g, heap', d)
    BY <2>1, <2>7 DEF ListHolds
  <2>9. Means(g, heap')
    <3>1. CASE Type(f.val) = "map"
      <4>1. NamesHold(g, heap')
        BY <2>1, <2>7, <3>1 DEF NamesHold
      <4>2. ListHolds(g, heap', g.done + 1)
        BY <2>7, <2>8, <3>1 DEF d
      <4>3. f.done \leq Size(f.val)
        BY <2>3
      <4> QED
        BY <1>5, <2>3, <2>7, <3>1, <4>1, <4>2, <4>3 DEF Means
    <3>2. CASE Type(f.val) # "map"
      BY <1>5, <2>3, <2>4, <2>7, <2>8, <3>2 DEF Means
    <3> QED
      BY <3>1, <3>2
  <2>10. CallOK(g, heap', root)
    BY <1>5, <2>1, <2>7, <2>9 DEF CallOK
  <2> QED
    BY <1>1, <2>1, <2>2, <2>7, <2>10, ReturnMeans DEF f
<1> QED
  BY <1>7, <1>8, <1>9 DEF ReturnElement

LEMMA FinishMeans ==
  ASSUME NEW root, MeansInv(root), Finish, DecodeInv'
  PROVE  MeansInv(root)'
<1>1. frames # <<>> /\ Top.s \in Addr \cup {R_NilValue, NoObject} /\ Top.pc = "return" /\ Len(frames) = 1
  BY ReturnOK DEF Finish, MeansInv, In
<1>2. heap' = heap /\ frames' = <<>> /\ decoded' = Top.s
  BY DEF Finish
<1>3. Means(Top, heap) /\ Meaningful(heap)
  BY <1>1, TopMeans
<1>4. Top.val = root
  BY <1>1 DEF MeansInv, Top
<1>5. Result(root, Top.s, heap)
  BY <1>1, <1>3, <1>4 DEF Means
<1>6. Top.s # "error"
  BY <1>1, DecodeAssumption DEF Kept
<1>7. Outcome(root)'
  BY <1>2, <1>5, <1>6 DEF Outcome
<1>8. Meaningful(heap')
  BY <1>2, <1>3
<1>9. Len(frames') = 0 /\ (\A i \in 1..Len(frames') : FALSE) /\ \A i \in 1..(Len(frames') - 1) : FALSE
  BY <1>2
<1> QED
  BY <1>2, <1>7, <1>8, <1>9 DEF MeansInv

LEMMA StartMeans ==
  ASSUME NEW val \in GoValue, heap = NoHeap, NoneProtected, frames = <<NewFrame(val)>>
  PROVE  MeansInv(val)
<1> DEFINE g == NewFrame(val)
<1>1. g = Record(val, "enter", NoObject, NoObject, 0)
  BY DEF NewFrame, Record
<1>2. frames = <<g>>
  OBVIOUS
<1> HIDE DEF g
<1>3. g.val = val /\ g.pc = "enter" /\ g.done = 0 /\ Held(g) = {}
  BY <1>1, RecordOK, Outside
<1>4. Means(g, heap) /\ Orphans(heap, Held(g))
  BY <1>3 DEF Means, Orphans
<1>5. CallOK(g, heap, val)
  BY <1>3, <1>4 DEF CallOK
<1>6. Len(frames) = 1 /\ frames[1] = g /\ frames # <<>>
  BY <1>2
<1>7. \A i \in 1..Len(frames) : CallOK(frames[i], heap, val)
  BY <1>5, <1>6
<1>8. \A i \in 1..(Len(frames) - 1) : FALSE
  BY <1>6
<1>9. DecodeInv /\ Meaningful(heap)
  BY Start, NoHeapMeaningful
<1> QED
  BY <1>3, <1>6, <1>7, <1>8, <1>9 DEF MeansInv

LEMMA MeansSteps ==
  ASSUME NEW root
  PROVE  MeansInv(root) /\ [decodeHelper]_decoder => MeansInv(root)'
<1> SUFFICES ASSUME MeansInv(root), [decodeHelper]_decoder
             PROVE  MeansInv(root)'
  OBVIOUS
<1>1. DecodeInv'
  BY Steps DEF MeansInv
<1>2. CASE UNCHANGED decoder
  BY <1>2, <1>1 DEF decoder, MeansInv, CallOK, Means, Outcome, Meaningful
<1>3. CASE decodeHelper
  BY <1>1, <1>3, EnterScalarMeans, EnterBytesMeans, EnterJsonMeans, EnterNilMeans, EnterArrayMeans,
     EnterMapMeans, EnterUnknownMeans, MakeNamesMeans, FillElementMeans, CallElementMeans,
     FinishArrayMeans, FinishMapMeans, ReturnElementMeans, FillNameMeans, FinishMeans DEF decodeHelper
<1> QED
  BY <1>2, <1>3

-----------------------------------------------------------------------------
\* An integer that is no double is beyond the limit that is checked.
LEMMA LossSeen ==
  ASSUME NEW i \in Int, DoubleOf(i) # i
  PROVE  Loses(i)
<1>1. PICK p : p = 2^DBL_MANT_DIG
  OBVIOUS
<1>2. p \in Int
  BY <1>1, DecodeAssumption
<1>3. i \notin -p..p
  BY <1>1 DEF DoubleOf
<1>4. i < -(p - 1) \/ i > p - 1
  BY <1>2, <1>3
<1> QED
  BY <1>1, <1>4 DEF Loses, rmax

\* Nothing but an array, a map or JSON loses anything.
LEMMA NoLoss ==
  ASSUME NEW val \in GoValue, ~Composite(val), ~IsJson(val)
  PROVE  ~Lossy[val]
BY CodecAssumption DEF LossyBy, Composite, IsVector

LEMMA JsonLoss ==
  ASSUME NEW val \in GoValue, IsJson(val)
  PROVE  Lossy[val] => JsonValue(Content(val)) # Malformed /\ Lossy[JsonValue(Content(val))]
BY CodecAssumption DEF LossyBy, IsVector, IsArray, IsJson

LEMMA ListLoss ==
  ASSUME NEW val \in GoValue, Composite(val), ~IsVector(val)
  PROVE  Lossy[val] => \E i \in 1..Size(val) : Lossy[At(val, i)]
BY CodecAssumption DEF LossyBy, Composite, IsJson, IsArray

\* A vector of elements of one type that loses something has integers.
LEMMA VectorLoss ==
  ASSUME NEW val \in GoValue, IsVector(val), Lossy[val],
         \A i \in 1..Size(val) : Type(Content(val)[i]) = Type(Content(val)[1])
  PROVE  /\ Type(Content(val)[1]) = "int64"
         /\ \E i \in 1..Size(val) : Loses(Content(Content(val)[i]))
<1>1. Composite(val) /\ Type(val) # "map" /\ ~IsJson(val)
  BY DEF Composite, IsVector, IsArray, IsJson
<1>2. PICK i \in 1..Size(val) : Atom(At(val, i)) # Content(At(val, i))
  BY <1>1, CodecAssumption DEF LossyBy
<1>3. At(val, i) = Content(val)[i] /\ At(val, i) \in GoValue
  BY <1>1, SizeOK DEF At
<1>4. Type(At(val, i)) = "int64" /\ DoubleOf(Content(At(val, i))) # Content(At(val, i))
  BY <1>2 DEF Atom
<1>5. Content(At(val, i)) \in Int
  BY <1>3, <1>4, CodecAssumption DEF IsGoValue
<1>6. Loses(Content(At(val, i)))
  BY <1>4, <1>5, LossSeen
<1> QED
  BY <1>3, <1>4, <1>6

\* What is lost in the parts that are done was told.
Told(f, w) ==
  /\ f.pc \in {"fill", "element"} /\ ~IsVector(f.val) => \A i \in 1..f.done : Lossy[At(f.val, i)] => w
  /\ f.pc = "key" => \A i \in 1..(f.done + 1) : Lossy[At(f.val, i)] => w
  /\ f.pc = "return" => (Lossy[f.val] => w)

ToldInv(root) ==
  /\ \A i \in 1..Len(frames) : Told(frames[i], warned)
  /\ frames = <<>> /\ decoded # "error" => (Lossy[root] => warned)

\* The call on top goes on as g.
LEMMA TopTold ==
  ASSUME NEW root, MeansInv(root), ToldInv(root), frames # <<>>, NEW g, Becomes(g), Told(g, warned'),
         warned => warned'
  PROVE  ToldInv(root)'
<1>1. PICK n : n = Len(frames)
  OBVIOUS
<1>2. n \in Nat \ {0}
  BY <1>1, TopCall DEF MeansInv
<1>3. Len(frames') = n /\ frames'[n] = g /\ \A i \in 1..(n - 1) : frames'[i] = frames[i]
  BY <1>1, Below DEF MeansInv
<1>4. \A i \in 1..n : Told(frames[i], warned')
  BY <1>1 DEF ToldInv, Told
<1>5. \A i \in 1..n : i = n \/ i \in 1..(n - 1)
  BY <1>2
<1>6. \A i \in 1..n : Told(frames'[i], warned')
  BY <1>3, <1>4, <1>5
<1>7. \A i \in 1..Len(frames') : Told(frames'[i], warned')
  BY <1>3, <1>6
<1>8. frames' # <<>>
  BY <1>2, <1>3
<1> QED
  BY <1>7, <1>8 DEF ToldInv

\* An object is made, and nothing is lost.
LEMMA MakesTold ==
  ASSUME NEW root, MeansInv(root), ToldInv(root), In("enter"), NEW object, NEW pc, Makes(object, pc),
         \/ pc = "return" /\ ~Lossy[Top.val]
         \/ pc \in {"names", "fill"}
  PROVE  ToldInv(root)'
<1>1. frames # <<>> /\ IsCall(Top)
  BY EnterOK DEF MeansInv
<1>2. PICK s : Becomes([Top EXCEPT !.s = s, !.pc = pc]) /\ warned' = warned
  BY DEF Makes
<1> DEFINE g == [Top EXCEPT !.s = s, !.pc = pc]
<1>3. g = Record(Top.val, pc, s, Top.names, Top.done)
  BY <1>1, CallChanges
<1>4. Means(Top, heap) /\ Top.pc = "enter"
  BY <1>1, TopMeans DEF In
<1>5. Becomes(g)
  BY <1>2
<1> HIDE DEF g
<1>6. g.val = Top.val /\ g.pc = pc /\ g.done = 0
  BY <1>3, <1>4, RecordOK DEF Means
<1>7. Told(g, warned')
  BY <1>6 DEF Told
<1> QED
  BY <1>1, <1>2, <1>5, <1>7, TopTold

LEMMA ListTold ==
  ASSUME NEW root, ToldInv(root), frames # <<>>, DecodeInv
  PROVE  Told(Top, warned)
BY TopCall DEF ToldInv

LEMMA FailsTold ==
  ASSUME NEW root, Fails
  PROVE  ToldInv(root)'
<1>1. frames' = <<>> /\ decoded' = "error"
  BY DEF Fails
<1>2. \A i \in 1..Len(frames') : FALSE
  BY <1>1
<1> QED
  BY <1>1, <1>2 DEF ToldInv

\* A new call has lost nothing.
LEMMA CallTold ==
  ASSUME NEW root, MeansInv(root), ToldInv(root), frames # <<>>, NEW f, NEW v,
         frames' = Append([frames EXCEPT ![Len(frames)] = f], NewFrame(v)), warned' = warned,
         Told(f, warned)
  PROVE  ToldInv(root)'
<1> DEFINE g == NewFrame(v)
<1>1. PICK n : n = Len(frames)
  OBVIOUS
<1>2. DecodeInv /\ n \in Nat \ {0}
  BY <1>1, TopCall DEF MeansInv
<1>3. /\ Len(frames') = n + 1 /\ frames'[n + 1] = g /\ frames'[n] = f
      /\ \A i \in 1..n : i # n => frames'[i] = frames[i]
  BY <1>1, <1>2, CallAdded
<1>4. Told(g, warned)
  BY DEF Told, NewFrame
<1> HIDE DEF g
<1>5. \A i \in 1..(n + 1) : i = n + 1 \/ i = n \/ (i \in 1..n /\ i # n)
  BY <1>2
<1>6. \A i \in 1..n : Told(frames[i], warned)
  BY <1>1 DEF ToldInv
<1>7. \A i \in 1..(n + 1) : Told(frames'[i], warned)
  BY <1>3, <1>4, <1>5, <1>6
<1>8. \A i \in 1..Len(frames') : Told(frames'[i], warned')
  BY <1>3, <1>7
<1>9. frames' # <<>>
  BY <1>2, <1>3
<1> QED
  BY <1>8, <1>9 DEF ToldInv

\* A call returns to the one below, which goes on as g.
LEMMA ReturnTold ==
  ASSUME NEW root, MeansInv(root), ToldInv(root), Len(frames) > 1, NEW g,
         frames' = Append(SubSeq(frames, 1, Len(frames) - 2), g), warned' = warned, Told(g, warned)
  PROVE  ToldInv(root)'
<1>1. PICK m : m = Len(frames) - 2
  OBVIOUS
<1>2. IsSeq(frames) /\ Len(frames) \in Nat
  BY LengthOK DEF MeansInv, DecodeInv, StackOK
<1>3. m \in Nat /\ Len(frames) = m + 2
  BY <1>1, <1>2
<1>4. Len(frames') = m + 1 /\ frames'[m + 1] = g /\ \A i \in 1..m : frames'[i] = frames[i]
  <2> DEFINE t == Append(SubSeq(frames, 1, Len(frames) - 2), g)
  <2>1. /\ Len(t) = Len(frames) - 1 /\ t[Len(frames) - 1] = g
        /\ \A i \in 1..(Len(frames) - 2) : t[i] = frames[i]
    BY <1>2, Popping
  <2>2. frames' = t /\ Len(frames) - 1 = m + 1
    BY <1>3
  <2> HIDE DEF t
  <2> QED
    BY <1>1, <2>1, <2>2
<1>5. \A i \in 1..(m + 1) : i = m + 1 \/ i \in 1..m
  BY <1>3
<1>6. \A i \in 1..m : i \in 1..Len(frames)
  BY <1>3
<1>7. \A i \in 1..m : Told(frames[i], warned)
  BY <1>6 DEF ToldInv
<1>8. \A i \in 1..(m + 1) : Told(frames'[i], warned)
  BY <1>4, <1>5, <1>7
<1>9. \A i \in 1..Len(frames') : Told(frames'[i], warned')
  BY <1>4, <1>8
<1>10. frames' # <<>>
  BY <1>3, <1>4
<1> QED
  BY <1>9, <1>10 DEF ToldInv

LEMMA EnterTold ==
  ASSUME NEW root, MeansInv(root), ToldInv(root),
         EnterScalar \/ EnterBytes \/ EnterArray \/ EnterMap
  PROVE  ToldInv(root)'
<1>1. In("enter") /\ frames # <<>>
  BY DEF EnterScalar, EnterBytes, EnterArray, EnterMap, In
<1>2. Top.val \in GoValue
  BY <1>1, TopMeans
<1>3. CASE EnterScalar
  <2>1. ~Lossy[Top.val]
    BY <1>2, <1>3, NoLoss, ValueKinds DEF EnterScalar, Composite, IsArray, IsJson
  <2> QED
    BY <1>1, <1>3, <2>1, MakesTold DEF EnterScalar
<1>4. CASE EnterBytes
  <2>1. ~Lossy[Top.val]
    BY <1>2, <1>4, NoLoss DEF EnterBytes, Composite, IsArray
  <2> QED
    BY <1>1, <1>4, <2>1, MakesTold DEF EnterBytes
<1>5. CASE EnterArray
  BY <1>1, <1>5, MakesTold DEF EnterArray
<1>6. CASE EnterMap
  BY <1>1, <1>6, MakesTold DEF EnterMap
<1> QED
  BY <1>3, <1>4, <1>5, <1>6

LEMMA EnterNilTold ==
  ASSUME NEW root, MeansInv(root), ToldInv(root), EnterNil \/ EnterUnknown
  PROVE  ToldInv(root)'
<1>1. frames # <<>> /\ IsCall(Top)
  BY EnterOK DEF EnterNil, EnterUnknown, MeansInv
<1>2. PICK s : (Becomes([Top EXCEPT !.s = s, !.pc = "return"]) \/ Becomes([Top EXCEPT !.pc = "return"]))
               /\ warned' = warned
  BY DEF EnterNil, EnterUnknown, Goto
<1>3. ~Lossy[Top.val]
  <2>1. Top.val \in GoValue
    BY <1>1, TopMeans
  <2> QED
    BY <2>1, NoLoss DEF EnterNil, EnterUnknown, Composite, IsArray, IsJson
<1>4. PICK g : Becomes(g) /\ g.val = Top.val /\ g.pc = "return"
  <2> DEFINE f == [Top EXCEPT !.s = s, !.pc = "return"]
             g == [Top EXCEPT !.pc = "return"]
  <2>1. f = Record(Top.val, "return", s, Top.names, Top.done)
        /\ g = Record(Top.val, "return", Top.s, Top.names, Top.done)
    BY <1>1, CallChanges
  <2>2. Becomes(f) \/ Becomes(g)
    BY <1>2
  <2> HIDE DEF f, g
  <2> QED
    BY <2>1, <2>2, RecordOK
<1>5. Told(g, warned')
  BY <1>3, <1>4 DEF Told
<1> QED
  BY <1>1, <1>2, <1>4, <1>5, TopTold

LEMMA EnterJsonTold ==
  ASSUME NEW root, MeansInv(root), ToldInv(root), EnterJson
  PROVE  ToldInv(root)'
<1> DEFINE f == [Top EXCEPT !.pc = "json"]
           json == JsonValue(Content(Top.val))
<1>1. frames # <<>> /\ IsCall(Top)
  BY EnterOK DEF EnterJson, MeansInv
<1>2. CASE json = Malformed
  BY <1>2, FailsTold DEF EnterJson
<1>3. CASE json # Malformed
  <2>1. f = Record(Top.val, "json", Top.s, Top.names, Top.done)
    BY <1>1, CallChanges
  <2>2. frames' = Append([frames EXCEPT ![Len(frames)] = f], NewFrame(json)) /\ warned' = warned
    BY <1>3 DEF EnterJson, Top
  <2> HIDE DEF f, json
  <2>3. f.pc = "json"
    BY <2>1, RecordOK
  <2>4. Told(f, warned)
    BY <2>3 DEF Told
  <2> QED
    BY <1>1, <2>2, <2>4, CallTold
<1> QED
  BY <1>2, <1>3

LEMMA MakeNamesTold ==
  ASSUME NEW root, MeansInv(root), ToldInv(root), MakeNames
  PROVE  ToldInv(root)'
<1>1. frames # <<>> /\ IsCall(Top) /\ Top.pc = "names"
  BY TopCall DEF MakeNames, MeansInv, In
<1>2. PICK b : Becomes([Top EXCEPT !.names = b, !.pc = "fill"]) /\ warned' = warned
  BY DEF MakeNames
<1> DEFINE g == [Top EXCEPT !.names = b, !.pc = "fill"]
<1>3. g = Record(Top.val, "fill", Top.s, b, Top.done)
  BY <1>1, CallChanges
<1>4. Becomes(g)
  BY <1>2
<1>5. Top.done = 0
  BY <1>1, TopMeans DEF Means
<1> HIDE DEF g
<1>6. g.pc = "fill" /\ g.done = 0
  BY <1>3, <1>5, RecordOK
<1>7. Told(g, warned')
  BY <1>6 DEF Told
<1> QED
  BY <1>1, <1>2, <1>4, <1>7, TopTold

LEMMA FillElementTold ==
  ASSUME NEW root, MeansInv(root), ToldInv(root), FillElement
  PROVE  ToldInv(root)'
<1> DEFINE d == Top.done + 1
           g == [Top EXCEPT !.done = d]
<1>1. frames # <<>> /\ IsCall(Top) /\ Top.pc = "fill" /\ IsVector(Top.val)
  BY FillOK DEF FillElement, MeansInv, In
<1>2. CASE Fails
  BY <1>2, FailsTold
<1>3. CASE Becomes(g) /\ warned' = warned
  <2> HIDE DEF d
  <2>1. g = Record(Top.val, Top.pc, Top.s, Top.names, d)
    BY <1>1, CallChanges
  <2> HIDE DEF g
  <2>2. g.val = Top.val /\ g.pc = "fill"
    BY <1>1, <2>1, RecordOK
  <2>3. Told(g, warned')
    BY <1>1, <2>2 DEF Told
  <2> QED
    BY <1>1, <1>3, <2>3, TopTold
<1> QED
  BY <1>2, <1>3 DEF FillElement

LEMMA CallElementTold ==
  ASSUME NEW root, MeansInv(root), ToldInv(root), CallElement
  PROVE  ToldInv(root)'
<1> DEFINE f == [Top EXCEPT !.pc = "element"]
           v == At(Top.val, Top.done + 1)
<1>1. frames # <<>> /\ IsCall(Top) /\ Top.pc = "fill"
  BY FillOK DEF CallElement, MeansInv, In
<1>2. f = Record(Top.val, "element", Top.s, Top.names, Top.done)
  BY <1>1, CallChanges
<1>3. frames' = Append([frames EXCEPT ![Len(frames)] = f], NewFrame(v)) /\ warned' = warned
  BY DEF CallElement, Top
<1>4. Told(Top, warned)
  BY <1>1, ListTold DEF MeansInv
<1> HIDE DEF f, v
<1>5. f.val = Top.val /\ f.pc = "element" /\ f.done = Top.done
  BY <1>2, RecordOK
<1>6. Told(f, warned)
  BY <1>1, <1>4, <1>5 DEF Told
<1> QED
  BY <1>1, <1>3, <1>6, CallTold

LEMMA FinishArrayTold ==
  ASSUME NEW root, MeansInv(root), ToldInv(root), FinishArray
  PROVE  ToldInv(root)'
<1> DEFINE g == [Top EXCEPT !.pc = "return"]
<1>1. frames # <<>> /\ IsCall(Top) /\ Top.pc = "fill" /\ IsArray(Top.val) /\ Top.done = Size(Top.val)
  BY FillOK DEF FinishArray, MeansInv, In
<1>2. Becomes(g) /\ (warned => warned')
  BY DEF FinishArray, Goto
<1>3. g = Record(Top.val, "return", Top.s, Top.names, Top.done)
  BY <1>1, CallChanges
<1>4. Told(Top, warned) /\ Means(Top, heap) /\ Top.val \in GoValue
  BY <1>1, ListTold, TopMeans DEF MeansInv
<1> HIDE DEF g
<1>5. g.val = Top.val /\ g.pc = "return"
  BY <1>3, RecordOK
<1>6. ASSUME Lossy[Top.val]
      PROVE  warned'
  <2>1. CASE IsVector(Top.val)
    <3>1. \A i \in 1..Size(Top.val) : Type(Content(Top.val)[i]) = Type(Content(Top.val)[1])
      BY <1>1, <1>4, <2>1 DEF Means, VectorHolds
    <3>2. /\ Type(Content(Top.val)[1]) = "int64"
          /\ \E i \in 1..Size(Top.val) : Loses(Content(Content(Top.val)[i]))
      BY <1>4, <1>6, <2>1, <3>1, VectorLoss
    <3> QED
      BY <2>1, <3>2, Zenon DEF FinishArray
  <2>2. CASE ~IsVector(Top.val)
    <3>1. \E i \in 1..Size(Top.val) : Lossy[At(Top.val, i)]
      BY <1>1, <1>4, <1>6, <2>2, ListLoss DEF Composite
    <3>2. warned
      BY <1>1, <1>4, <2>2, <3>1 DEF Told
    <3> QED
      BY <1>2, <3>2, Zenon
  <2> QED
    BY <2>1, <2>2
<1>7. Told(g, warned')
  BY <1>5, <1>6 DEF Told
<1> QED
  BY <1>1, <1>2, <1>7, TopTold

LEMMA FinishMapTold ==
  ASSUME NEW root, MeansInv(root), ToldInv(root), FinishMap
  PROVE  ToldInv(root)'
<1> DEFINE g == [Top EXCEPT !.names = NoObject, !.pc = "return"]
<1>1. frames # <<>> /\ IsCall(Top) /\ Top.pc = "fill" /\ Type(Top.val) = "map" /\ Top.done = Size(Top.val)
  BY FillOK DEF FinishMap, MeansInv, In
<1>2. Becomes(g) /\ warned' = warned
  BY DEF FinishMap
<1>3. g = Record(Top.val, "return", Top.s, NoObject, Top.done)
  BY <1>1, CallChanges
<1>4. Told(Top, warned) /\ Top.val \in GoValue
  BY <1>1, ListTold, TopMeans DEF MeansInv
<1> HIDE DEF g
<1>5. g.val = Top.val /\ g.pc = "return"
  BY <1>3, RecordOK
<1>6. ~IsVector(Top.val) /\ Composite(Top.val)
  BY <1>1 DEF IsVector, IsArray, Composite
<1>7. Lossy[Top.val] => \E i \in 1..Size(Top.val) : Lossy[At(Top.val, i)]
  BY <1>4, <1>6, ListLoss
<1>8. Told(g, warned')
  BY <1>1, <1>2, <1>4, <1>5, <1>6, <1>7 DEF Told
<1> QED
  BY <1>1, <1>2, <1>8, TopTold

LEMMA FillNameTold ==
  ASSUME NEW root, MeansInv(root), ToldInv(root), FillName
  PROVE  ToldInv(root)'
<1> DEFINE d == Top.done + 1
           g == [Top EXCEPT !.pc = "fill", !.done = d]
<1>1. frames # <<>> /\ IsCall(Top) /\ Top.pc = "key"
  BY TopCall DEF FillName, MeansInv, In
<1>2. Becomes(g) /\ warned' = warned
  BY DEF FillName
<1>3. Told(Top, warned)
  BY <1>1, ListTold DEF MeansInv
<1>4. \A i \in 1..d : Lossy[At(Top.val, i)] => warned
  BY <1>1, <1>3 DEF Told
<1> HIDE DEF d
<1>5. g = Record(Top.val, "fill", Top.s, Top.names, d)
  BY <1>1, PcAndDone
<1> HIDE DEF g
<1>6. g.val = Top.val /\ g.pc = "fill" /\ g.done = d
  BY <1>5, RecordOK
<1>7. Told(g, warned')
  BY <1>2, <1>4, <1>6 DEF Told
<1> QED
  BY <1>1, <1>2, <1>7, TopTold

LEMMA ReturnElementTold ==
  ASSUME NEW root, MeansInv(root), ToldInv(root), ReturnElement
  PROVE  ToldInv(root)'
<1> DEFINE n == Len(frames)
           f == frames[n - 1]
           a == Top.s
           Back(g) == frames' = Append(SubSeq(frames, 1, n - 2), g)
<1>1. frames # <<>> /\ n > 1 /\ Top.pc = "return"
  BY ReturnOK DEF ReturnElement, MeansInv, In
<1>2. n \in Nat /\ n - 1 \in 1..n /\ n - 1 \in 1..(n - 1)
  BY <1>1, TopCall DEF MeansInv
<1>3. Lossy[Top.val] => warned
  <2>1. Told(Top, warned)
    BY <1>1, ListTold DEF MeansInv
  <2> QED
    BY <1>1, <2>1 DEF Told
<1>4. /\ Means(f, heap) /\ f.val \in GoValue /\ IsCall(f)
      /\ Told(f, warned)
  BY <1>2 DEF MeansInv, CallOK, Means, DecodeInv, StackOK, Waiting, ToldInv
<1>5. Top.val = Part(f)
  <2>1. frames[n - 1 + 1].val = Part(f)
    BY <1>2 DEF MeansInv
  <2>2. n - 1 + 1 = n
    BY <1>2
  <2> QED
    BY <2>1, <2>2 DEF Top
<1>6. CASE Fails
  BY <1>6, FailsTold
<1>7. CASE f.pc = "json" /\ warned' = warned /\ Back([f EXCEPT !.pc = "return", !.s = a])
  <2> DEFINE g == [f EXCEPT !.pc = "return", !.s = a]
  <2>1. g = Record(f.val, "return", a, f.names, f.done)
    BY <1>4, CallChanges
  <2>2. Back(g)
    BY <1>7
  <2>3. Lossy[f.val] => Lossy[Top.val]
    BY <1>4, <1>5, <1>7, JsonLoss DEF Means, Part
  <2> HIDE DEF g
  <2>4. g.val = f.val /\ g.pc = "return"
    BY <2>1, RecordOK
  <2>5. Told(g, warned)
    BY <1>3, <2>3, <2>4 DEF Told
  <2> HIDE DEF f, a
  <2> QED
    BY <1>1, <1>7, <2>2, <2>5, ReturnTold
<1>8. CASE /\ f.pc = "element" /\ warned' = warned
           /\ IF Type(f.val) = "map" THEN Back([f EXCEPT !.pc = "key"])
              ELSE Back([f EXCEPT !.pc = "fill", !.done = f.done + 1])
  <2> DEFINE d == f.done + 1
             g == IF Type(f.val) = "map" THEN [f EXCEPT !.pc = "key"]
                  ELSE [f EXCEPT !.pc = "fill", !.done = d]
  <2>1. Back(g)
    BY <1>8
  <2>2. f.done \in Nat
    BY <1>4 DEF Means
  <2>3. \A i \in 1..d : Lossy[At(f.val, i)] => warned
    <3>1. ~IsVector(f.val)
      BY <1>4, <1>8 DEF Means
    <3>2. \A i \in 1..f.done : Lossy[At(f.val, i)] => warned
      BY <1>4, <1>8, <3>1 DEF Told
    <3>3. Lossy[At(f.val, d)] => warned
      BY <1>3, <1>5, <1>8 DEF Part
    <3>4. \A i \in 1..d : i = d \/ i \in 1..f.done
      BY <2>2
    <3> QED
      BY <3>2, <3>3, <3>4
  <2>4. Type(f.val) = "map" => g = Record(f.val, "key", f.s, f.names, f.done)
    BY <1>4, CallChanges
  <2> HIDE DEF d
  <2>5. Type(f.val) # "map" => g = Record(f.val, "fill", f.s, f.names, d)
    BY <1>4, PcAndDone
  <2> HIDE DEF g, f
  <2>6. /\ g.val = f.val
        /\ (g.pc = "key" /\ g.done = f.done) \/ (g.pc = "fill" /\ g.done = d)
    BY <2>4, <2>5, RecordOK
  <2>7. Told(g, warned)
    BY <2>3, <2>6 DEF Told, d
  <2> QED
    BY <1>1, <1>8, <2>1, <2>7, ReturnTold
<1> QED
  BY <1>6, <1>7, <1>8 DEF ReturnElement

LEMMA FinishTold ==
  ASSUME NEW root, MeansInv(root), ToldInv(root), Finish
  PROVE  ToldInv(root)'
<1>1. frames # <<>> /\ Top.pc = "return" /\ Len(frames) = 1
  BY DEF Finish, In
<1>2. frames' = <<>> /\ warned' = warned
  BY DEF Finish
<1>3. Told(Top, warned)
  BY <1>1, ListTold DEF MeansInv
<1>4. Top.val = root
  BY <1>1 DEF MeansInv, Top
<1>5. Lossy[root] => warned
  BY <1>1, <1>3, <1>4 DEF Told
<1>6. \A i \in 1..Len(frames') : FALSE
  BY <1>2
<1> QED
  BY <1>2, <1>5, <1>6 DEF ToldInv

LEMMA ToldSteps ==
  ASSUME NEW root
  PROVE  MeansInv(root) /\ ToldInv(root) /\ [decodeHelper]_decoder => ToldInv(root)'
<1> SUFFICES ASSUME MeansInv(root), ToldInv(root), [decodeHelper]_decoder
             PROVE  ToldInv(root)'
  OBVIOUS
<1>1. CASE UNCHANGED decoder
  BY <1>1 DEF decoder, ToldInv
<1>2. CASE decodeHelper
  BY <1>2, EnterTold, EnterNilTold, EnterJsonTold, MakeNamesTold, FillElementTold, CallElementTold,
     FinishArrayTold, FinishMapTold, ReturnElementTold, FillNameTold, FinishTold DEF decodeHelper
<1> QED
  BY <1>1, <1>2

LEMMA StartTold ==
  ASSUME NEW val, frames = <<NewFrame(val)>>
  PROVE  ToldInv(val)
<1> DEFINE g == NewFrame(val)
<1>1. g.pc = "enter"
  BY DEF NewFrame
<1>2. frames = <<g>>
  OBVIOUS
<1> HIDE DEF g
<1>3. Told(g, warned)
  BY <1>1 DEF Told
<1>4. Len(frames) = 1 /\ frames[1] = g /\ frames # <<>>
  BY <1>2
<1>5. \A i \in 1..Len(frames) : Told(frames[i], warned)
  BY <1>3, <1>4
<1> QED
  BY <1>4, <1>5 DEF ToldInv

-----------------------------------------------------------------------------
LEMMA ReturnedMeans ==
  ASSUME NEW root
  PROVE  MeansInv(root) => (frames = <<>> => Value = Decoded[root])
<1> SUFFICES ASSUME MeansInv(root), frames = <<>>
             PROVE  Value = Decoded[root]
  OBVIOUS
<1>1. Outcome(root)
  BY DEF MeansInv
<1>2. NoObject # "error"
  BY DecodeAssumption
<1> QED
  BY <1>1, <1>2 DEF Outcome, Result, Value

LEMMA ReturnedTold ==
  ASSUME NEW root
  PROVE  ToldInv(root) => (frames = <<>> /\ decoded # "error" => (Lossy[root] => warned))
BY DEF ToldInv

\* decodeHelper, for every Go value and whatever R collects in between: the
\* object that it returns stands for the value that the definition by recursion
\* gives, and it fails exactly when that fails.
THEOREM ConversionMeans ==
  ASSUME NEW val \in GoValue
  PROVE  Conversion(val) => [](frames = <<>> => Value = Decoded[val])
<1>1. heap = NoHeap /\ protect = Unprotected /\ frames = <<NewFrame(val)>> => MeansInv(val)
  BY StartMeans, UnprotectedHere
<1>2. MeansInv(val) /\ [decodeHelper]_decoder => MeansInv(val)'
  BY MeansSteps
<1>3. MeansInv(val) => (frames = <<>> => Value = Decoded[val])
  BY ReturnedMeans
<1> QED
  BY <1>1, <1>2, <1>3, PTL DEF Conversion

\* The warning of decodeHelper: when an integer of an array has become another
\* number and no error is raised, R is warned.
THEOREM LossReported ==
  ASSUME NEW val \in GoValue
  PROVE  Conversion(val) => [](frames = <<>> /\ decoded # "error" => (Lossy[val] => warned))
<1>1. heap = NoHeap /\ protect = Unprotected /\ frames = <<NewFrame(val)>> => MeansInv(val) /\ ToldInv(val)
  BY StartMeans, StartTold, UnprotectedHere
<1>2. MeansInv(val) /\ ToldInv(val) /\ [decodeHelper]_decoder => MeansInv(val)' /\ ToldInv(val)'
  BY MeansSteps, ToldSteps
<1>3. ToldInv(val) => (frames = <<>> /\ decoded # "error" => (Lossy[val] => warned))
  BY ReturnedTold
<1> QED
  BY <1>1, <1>2, <1>3, PTL DEF Conversion

-----------------------------------------------------------------------------
\* A conversion returns an object that is there, or none, or fails; the callers'
\* k protections of rawStream stay, until an error drops them.
Returns(k) ==
  /\ frames # <<>> => decoded = "none"
  /\ frames = <<>> => decoded \in UsedIn(heap) \cup {R_NilValue, NoObject, "error"}
  /\ protect[rawStream] = IF decoded = "error" THEN 0 ELSE k

\* A step after which the conversion goes on.
Goes ==
  /\ frames # <<>> /\ frames' # <<>> /\ decoded' = decoded
  /\ protect'[rawStream] = protect[rawStream]

LEMMA GoesReturns == ASSUME NEW k, Returns(k), Goes PROVE Returns(k)'
BY DEF Returns, Goes

LEMMA FailsReturns == ASSUME NEW k, Fails PROVE Returns(k)'
<1>1. protect'[rawStream] = 0
  BY DEF Fails, Unprotected, Kept
<1> QED
  BY <1>1 DEF Fails, Returns

\* No conversion protects rawStream or gives it back.
ButStream ==
  \E a \in Addr \cup {R_NilValue} : protect' \in {protect, Pushed(protect, a), Dropped(protect, a)}

LEMMA StreamStays ==
  ASSUME DecodeInv, ButStream
  PROVE  protect'[rawStream] = protect[rawStream]
<1>1. PICK a \in Addr \cup {R_NilValue} : protect' \in {protect, Pushed(protect, a), Dropped(protect, a)}
  BY DEF ButStream
<1>2. a # rawStream /\ rawStream \in Addr \cup Kept
  BY Outside DEF Kept
<1>3. protect \in [Addr \cup Kept -> Nat]
  BY DEF DecodeInv, ProtectOK
<1> QED
  BY <1>1, <1>2, <1>3 DEF Pushed, Dropped

LEMMA BecomesGoes ==
  ASSUME DecodeInv, frames # <<>>, NEW g, Becomes(g), decoded' = decoded, ButStream
  PROVE  Goes
<1>1. Len(frames') # 0
  BY Below, LengthOK
<1> QED
  BY <1>1, StreamStays DEF Goes

LEMMA MakesGoes ==
  ASSUME DecodeInv, frames # <<>>, NEW S \in Collections(protect), S # Addr, NEW g, Becomes(g),
         protect' = Pushed(protect, Fresh(S)), decoded' = decoded
  PROVE  Goes
<1>1. Fresh(S) \in Addr
  BY CollectionKeeps, FreshAddress DEF UsedIn
<1> QED
  BY <1>1, BecomesGoes DEF ButStream

LEMMA EnterGoes ==
  ASSUME DecodeInv, EnterScalar \/ EnterBytes \/ EnterArray \/ EnterMap
  PROVE  Goes
<1>1. PICK object, pc : Makes(object, pc)
  BY DEF EnterScalar, EnterBytes, EnterArray, EnterMap
<1>2. frames # <<>>
  BY DEF EnterScalar, EnterBytes, EnterArray, EnterMap, In
<1>3. PICK S \in Collections(protect) :
        /\ S # Addr /\ protect' = Pushed(protect, Fresh(S))
        /\ Becomes([Top EXCEPT !.s = Fresh(S), !.pc = pc]) /\ decoded' = decoded
  BY <1>1 DEF Makes
<1> QED
  BY <1>2, <1>3, MakesGoes

LEMMA MakeNamesGoes == ASSUME DecodeInv, MakeNames PROVE Goes
<1>1. frames # <<>>
  BY DEF MakeNames, In
<1>2. PICK S \in Collections(protect) :
        /\ S # Addr /\ protect' = Pushed(protect, Fresh(S))
        /\ Becomes([Top EXCEPT !.names = Fresh(S), !.pc = "fill"]) /\ decoded' = decoded
  BY DEF MakeNames
<1> QED
  BY <1>1, <1>2, MakesGoes

LEMMA SameProtectGoes ==
  ASSUME DecodeInv, EnterUnknown \/ FinishArray \/ FillName \/ (FillElement /\ ~Fails)
  PROVE  Goes
<1>1. frames # <<>> /\ protect' = protect /\ decoded' = decoded
  BY DEF EnterUnknown, FinishArray, FillName, FillElement, In
<1>2. \E g : Becomes(g)
  BY DEF EnterUnknown, FinishArray, FillName, FillElement, Goto
<1> QED
  BY <1>1, <1>2, BecomesGoes DEF ButStream

LEMMA EnterNilGoes == ASSUME DecodeInv, EnterNil PROVE Goes
<1>1. frames # <<>> /\ protect' = Pushed(protect, R_NilValue) /\ decoded' = decoded
      /\ \E g : Becomes(g)
  BY DEF EnterNil, In
<1> QED
  BY <1>1, BecomesGoes DEF ButStream

LEMMA FinishMapGoes == ASSUME DecodeInv, FinishMap PROVE Goes
<1>1. frames # <<>> /\ protect' = Dropped(protect, Top.names) /\ decoded' = decoded
      /\ (\E g : Becomes(g)) /\ Top.pc = "fill" /\ Type(Top.val) = "map"
  BY DEF FinishMap, In
<1>2. Top.names \in Addr
  BY <1>1, TopCall DEF Active
<1> QED
  BY <1>1, <1>2, BecomesGoes DEF ButStream

LEMMA CallGoes == ASSUME DecodeInv, CallElement \/ (EnterJson /\ ~Fails) PROVE Goes
<1>1. frames # <<>> /\ protect' = protect /\ decoded' = decoded
  BY DEF CallElement, EnterJson, In
<1>2. \E f, g : frames' = Append([frames EXCEPT ![Len(frames)] = f], g)
  BY DEF CallElement, EnterJson
<1>3. Len(frames') = Len(frames) + 1 /\ Len(frames) \in Nat
  BY <1>1, <1>2, CallAdded, LengthOK
<1>4. Len(frames') # 0
  BY <1>3
<1>5. frames' # <<>>
  BY <1>4
<1> QED
  BY <1>1, <1>5 DEF Goes

LEMMA ReturnGoes == ASSUME DecodeInv, ReturnElement, ~Fails PROVE Goes
<1>1. frames # <<>> /\ Len(frames) > 1 /\ decoded' = decoded /\ Top.s # NoObject
      /\ (protect' = protect \/ protect' = Dropped(protect, Top.s))
  BY DEF ReturnElement, In, Embed
<1>2. Top.s \in Addr \cup {R_NilValue}
  BY <1>1, ReturnOK DEF ReturnElement
<1>3. \E g : frames' = Append(SubSeq(frames, 1, Len(frames) - 2), g)
  BY DEF ReturnElement
<1>4. Len(frames') = Len(frames) - 1 /\ Len(frames) \in Nat
  BY <1>1, <1>3, Popping DEF DecodeInv, StackOK
<1>5. Len(frames') # 0
  BY <1>1, <1>4
<1>6. frames' # <<>>
  BY <1>5
<1> QED
  BY <1>1, <1>2, <1>6, StreamStays DEF Goes, ButStream

LEMMA FinishReturns == ASSUME NEW k, DecodeInv, Returns(k), Finish PROVE Returns(k)'
<1>1. frames # <<>> /\ frames' = <<>> /\ decoded' = Top.s /\ heap' = heap
      /\ protect' = (IF Top.s = NoObject THEN protect ELSE Dropped(protect, Top.s))
  BY DEF Finish, In
<1>2. Top.s \in Addr \cup {R_NilValue, NoObject} /\ Held(Top) = {Top.s} \cap Addr
  BY ReturnOK DEF Finish
<1>3. Held(Top) \subseteq UsedIn(heap)
  BY <1>1, TopCall DEF DecodeInv, StackOK
<1>4. Top.s \in UsedIn(heap) \cup {R_NilValue, NoObject} /\ Top.s # "error"
  BY <1>2, <1>3, DecodeAssumption DEF Kept
<1>5. protect'[rawStream] = protect[rawStream]
  BY <1>1, <1>2, StreamStays DEF ButStream
<1>6. protect[rawStream] = k
  BY <1>1 DEF Returns
<1>7. UsedIn(heap)' = UsedIn(heap)
  BY <1>1 DEF UsedIn
<1> QED
  BY <1>1, <1>4, <1>5, <1>6, <1>7 DEF Returns

LEMMA ReturnsSteps ==
  ASSUME NEW k
  PROVE  DecodeInv /\ Returns(k) /\ [decodeHelper]_decoder => Returns(k)'
<1> SUFFICES ASSUME DecodeInv, Returns(k), [decodeHelper]_decoder
             PROVE  Returns(k)'
  OBVIOUS
<1>1. CASE UNCHANGED decoder
  BY <1>1 DEF decoder, Returns, UsedIn
<1>2. CASE Fails
  BY <1>2, FailsReturns
<1>3. CASE decodeHelper /\ ~Fails
  BY <1>3, EnterGoes, MakeNamesGoes, SameProtectGoes, EnterNilGoes, FinishMapGoes, CallGoes, ReturnGoes,
     GoesReturns, FinishReturns DEF decodeHelper
<1> QED
  BY <1>1, <1>2, <1>3
=============================================================================

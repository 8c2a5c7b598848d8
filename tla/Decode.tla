------------------------------- MODULE Decode -------------------------------
(***************************************************************************)
(* decodeHelper (r2go.go): the conversion of a decoded msgpack or JSON value *)
(* into R objects, with R's protect stack.  R collects garbage whenever it   *)
(* allocates: everything that no protected object leads to may be freed.     *)
(*                                                                         *)
(* A Go value is <<type, content>>: an array holds a sequence of values, a   *)
(* map a sequence of <<key, value>> sorted by key.  Strings and numbers are   *)
(* integers, strings in their sort order.  An R object is                    *)
(* <<type, elements, names>>; the elements of a list are addresses.          *)
(***************************************************************************)
EXTENDS Integers, Sequences

CONSTANTS
  Addr,          \* the addresses R allocates at
  R_NilValue, rawStream,  \* objects R keeps: NULL, and a caller's argument
  NoObject,      \* the null pointer
  JsonValue(_),  \* what the JSON decoder makes of some bytes,
  Malformed,     \* or this
  DBL_MANT_DIG   \* bits of precision of a double: 53

Kept == {R_NilValue, rawStream}
LeftBrace == 123
Free == <<"free", <<>>, <<>>>>

ASSUME DecodeAssumption ==
  /\ Addr \cap Kept = {} /\ R_NilValue # rawStream /\ NoObject \notin Addr \cup Kept
  /\ {"none", "error"} \cap (Addr \cup Kept \cup {NoObject}) = {}
  /\ DBL_MANT_DIG \in Nat

VARIABLES
  heap,     \* the object at each address, or Free
  protect,  \* how often each object is on the protect stack
  frames,   \* the calls of decodeHelper that are active, outermost first
  warned,   \* R was told that integers lost precision
  decoded   \* what the outermost call returned: an address, "error", or "none"

decoder == <<heap, protect, frames, warned, decoded>>

-----------------------------------------------------------------------------
(* R's allocator.                                                          *)
Used == {a \in Addr : heap[a] # Free}
Unprotected == [a \in Addr \cup Kept |-> 0]
NoHeap == [a \in Addr |-> Free]

Elements(a) ==
  IF heap[a][1] = "VECSXP" THEN {heap[a][2][i] : i \in DOMAIN heap[a][2]} \cap Addr ELSE {}

\* The sets of objects that a collection may leave: it frees nothing that an
\* object of p, a state of the protect stack, leads to.
Collections(p) ==
  LET safe == {a \in Used : p[a] > 0}
  IN  {S \in {safe \cup T : T \in SUBSET (Used \ safe)} : \A a \in S : Elements(a) \subseteq S}

Fresh(S) == CHOOSE a \in Addr \ S : TRUE

\* The heap after a collection that left S, with a new object.
Allocated(S, object) ==
  [a \in Addr |-> IF a \in S THEN heap[a] ELSE IF a = Fresh(S) THEN object ELSE Free]

Pushed(p, a) == [p EXCEPT ![a] = @ + 1]
\* Rf_unprotect_ptr.
Dropped(p, a) == [p EXCEPT ![a] = @ - 1]

\* h with a appended to the elements of the object at b.
WithElement(h, b, a) == [h EXCEPT ![b] = <<@[1], Append(@[2], a), @[3]>>]

-----------------------------------------------------------------------------
(* Values.                                                                 *)
Type(val) == val[1]
Content(val) == val[2]

Scalar == {"string", "int64", "float64", "bool"}
SexpType ==
  [string |-> "STRSXP", int64 |-> "REALSXP", float64 |-> "REALSXP", bool |-> "LGLSXP"]

\* The nearest double, ties to even, of an integer of one bit more than fits.
DoubleOf(i) ==
  IF i \in -(2^DBL_MANT_DIG)..2^DBL_MANT_DIG \/ i % 2 = 0 THEN i
  ELSE IF (i \div 2) % 2 = 0 THEN i - 1 ELSE i + 1

rmax == 2^DBL_MANT_DIG - 1

\* Mutant: a limit of one bit more.
LosesLate(i) == i < -(2 * rmax) \/ i > 2 * rmax

Loses(i) == i < -rmax \/ i > rmax

Atom(val) == IF Type(val) = "int64" THEN DoubleOf(Content(val)) ELSE Content(val)

IsArray(val) == Type(val) = "array" /\ Content(val) # <<>>

\* An array is an R vector when its first element is a scalar.
IsVector(val) == IsArray(val) /\ Type(Content(val)[1]) \in Scalar

\* Raw bytes that start with '{' are taken for JSON.
IsJson(val) == Type(val) = "bytes" /\ Content(val) # <<>> /\ Content(val)[1] = LeftBrace

Size(val) == Len(Content(val))

\* What is at position i of an array or a map.
At(val, i) == IF Type(val) = "map" THEN Content(val)[i][2] ELSE Content(val)[i]

-----------------------------------------------------------------------------
(* A call of decodeHelper: its value, where it is, the object s it makes,   *)
(* the names of a map, and how many elements are done.                      *)
NewFrame(val) == [val |-> val, pc |-> "enter", s |-> NoObject, names |-> NoObject, done |-> 0]

Top == frames[Len(frames)]
Becomes(f) == frames' = [frames EXCEPT ![Len(frames)] = f]
Goto(pc) == Becomes([Top EXCEPT !.pc = pc])

In(pc) == frames # <<>> /\ Top.pc = pc

\* Rf_error: R unwinds its protect stack.
Fails ==
  /\ decoded' = "error" /\ frames' = <<>> /\ protect' = Unprotected
  /\ UNCHANGED <<heap, warned>>

\* Mutant: a vector or list is not protected while it is filled.
MakesUnprotected(object, pc) ==
  /\ \E S \in Collections(protect) :
       /\ S # Addr
       /\ heap' = Allocated(S, object)
       /\ protect' = protect
       /\ Becomes([Top EXCEPT !.s = Fresh(S), !.pc = pc])
  /\ UNCHANGED <<warned, decoded>>

\* s = allocVector(..) or a scalar; Rf_protect(s).
Makes(object, pc) ==
  /\ \E S \in Collections(protect) :
       /\ S # Addr
       /\ heap' = Allocated(S, object)
       /\ protect' = Pushed(protect, Fresh(S))
       /\ Becomes([Top EXCEPT !.s = Fresh(S), !.pc = pc])
  /\ UNCHANGED <<warned, decoded>>

EnterScalar ==
  /\ In("enter") /\ Type(Top.val) \in Scalar
  /\ Makes(<<SexpType[Type(Top.val)], <<Atom(Top.val)>>, <<>>>>, "return")

EnterBytes ==
  /\ In("enter") /\ Type(Top.val) = "bytes" /\ ~IsJson(Top.val)
  /\ Makes(<<"RAWSXP", Content(Top.val), <<>>>>, "return")

\* decodeJsonToR; what it returns is protected again.
EnterJson ==
  /\ In("enter") /\ IsJson(Top.val)
  /\ LET json == JsonValue(Content(Top.val))
     IN  IF json = Malformed THEN Fails
         ELSE /\ frames' = Append([frames EXCEPT ![Len(frames)].pc = "json"], NewFrame(json))
              /\ UNCHANGED <<heap, protect, warned, decoded>>

\* nil, and an array of no elements.
EnterNil ==
  /\ In("enter")
  /\ Type(Top.val) = "nil" \/ (Type(Top.val) = "array" /\ ~IsArray(Top.val))
  /\ Becomes([Top EXCEPT !.s = R_NilValue, !.pc = "return"])
  /\ protect' = Pushed(protect, R_NilValue)
  /\ UNCHANGED <<heap, warned, decoded>>

EnterArray ==
  /\ In("enter") /\ IsArray(Top.val)
  /\ IF IsVector(Top.val)
     THEN Makes(<<SexpType[Type(Content(Top.val)[1])], <<>>, <<>>>>, "fill")
     ELSE Makes(<<"VECSXP", <<>>, <<>>>>, "fill")

EnterMap == In("enter") /\ Type(Top.val) = "map" /\ Makes(<<"VECSXP", <<>>, <<>>>>, "names")

\* The default of the type switch: a msgpack extension; s stays nil.
EnterUnknown ==
  /\ In("enter") /\ Type(Top.val) = "ext"
  /\ Goto("return")
  /\ UNCHANGED <<heap, protect, warned, decoded>>

\* names := allocVector(VECSXP, ..); Rf_protect(names).
MakeNames ==
  /\ In("names")
  /\ \E S \in Collections(protect) :
       /\ S # Addr
       /\ heap' = Allocated(S, <<"VECSXP", <<>>, <<>>>>)
       /\ protect' = Pushed(protect, Fresh(S))
       /\ Becomes([Top EXCEPT !.names = Fresh(S), !.pc = "fill"])
  /\ UNCHANGED <<warned, decoded>>

\* One element of an R vector; mkChar allocates.  val[i].(T) panics on an
\* element of another type than the first, and the panic becomes an R error.
FillElement ==
  /\ In("fill") /\ IsVector(Top.val) /\ Top.done < Size(Top.val)
  /\ LET e == Content(Top.val)[Top.done + 1]
     IN  IF Type(e) # Type(Content(Top.val)[1]) THEN Fails
         ELSE /\ \E S \in IF Type(e) = "string" THEN Collections(protect) ELSE {Used} :
                   heap' = WithElement([a \in Addr |-> IF a \in S THEN heap[a] ELSE Free],
                                       Top.s, Atom(e))
              /\ Becomes([Top EXCEPT !.done = @ + 1])
              /\ UNCHANGED <<protect, warned, decoded>>

\* decodeHelper(val[i], depth+1, ..)
CallElement ==
  /\ In("fill") /\ ~IsVector(Top.val) /\ Top.done < Size(Top.val)
  /\ frames' = Append([frames EXCEPT ![Len(frames)].pc = "element"],
                      NewFrame(At(Top.val, Top.done + 1)))
  /\ UNCHANGED <<heap, protect, warned, decoded>>

FinishArray ==
  /\ In("fill") /\ IsArray(Top.val) /\ Top.done = Size(Top.val)
  /\ Goto("return")
  /\ warned' = (warned \/ (/\ IsVector(Top.val) /\ Type(Content(Top.val)[1]) = "int64"
                           /\ \E i \in 1..Size(Top.val) : Loses(Content(Content(Top.val)[i]))))
  /\ UNCHANGED <<heap, protect, decoded>>

\* setAttrib(s, R_NamesSymbol, names) makes a string vector of names.
NamesOf(h, names) ==
  [i \in DOMAIN h[names][2] |-> h[h[names][2][i]][2][1]]

FinishMap ==
  /\ In("fill") /\ Type(Top.val) = "map" /\ Top.done = Size(Top.val)
  /\ \E S \in Collections(protect) :
       heap' = [a \in Addr |->
                  IF a = Top.s THEN <<heap[a][1], heap[a][2], NamesOf(heap, Top.names)>>
                  ELSE IF a \in S THEN heap[a] ELSE Free]
  /\ protect' = Dropped(protect, Top.names)
  /\ Becomes([Top EXCEPT !.names = NoObject, !.pc = "return"])
  /\ UNCHANGED <<warned, decoded>>

\* Mutant: the element is unprotected before it is in its parent, and R may
\* collect in between.
EmbedLate(f, a) ==
  /\ \E S \in Collections(Dropped(protect, a)) :
       heap' = WithElement([b \in Addr |-> IF b \in S THEN heap[b] ELSE Free], f.s, a)
  /\ protect' = Dropped(protect, a)

\* SET_VECTOR_ELT(s, i, elt); Rf_unprotect_ptr(elt)
Embed(f, a) ==
  /\ heap' = WithElement(heap, f.s, a)
  /\ protect' = Dropped(protect, a)

\* A call returns to the decodeHelper that made it.  A null pointer is not on
\* the protect stack: Rf_unprotect_ptr reports it.
ReturnElement ==
  /\ In("return") /\ Len(frames) > 1
  /\ LET f == frames[Len(frames) - 1]
         a == Top.s
         Back(g) == frames' = Append(SubSeq(frames, 1, Len(frames) - 2), g)
     IN  \/ /\ a = NoObject
            /\ Fails
         \/ /\ a # NoObject /\ f.pc = "json"
            /\ Back([f EXCEPT !.pc = "return", !.s = a])
            /\ UNCHANGED <<heap, protect, warned, decoded>>
         \/ /\ a # NoObject /\ f.pc = "element"
            /\ Embed(f, a)
            /\ IF Type(f.val) = "map" THEN Back([f EXCEPT !.pc = "key"])
               ELSE Back([f EXCEPT !.pc = "fill", !.done = @ + 1])
            /\ UNCHANGED <<warned, decoded>>

\* ksexpString is protected until it is in names.
FillName ==
  /\ In("key")
  /\ LET key == Content(Top.val)[Top.done + 1][1]
     IN  \E S \in Collections(protect) :
           /\ S # Addr
           /\ heap' = WithElement(Allocated(S, <<"STRSXP", <<key>>, <<>>>>), Top.names, Fresh(S))
  /\ Becomes([Top EXCEPT !.pc = "fill", !.done = @ + 1])
  /\ UNCHANGED <<protect, warned, decoded>>

\* decodeMsgpackToR, decodeJsonToR: unprotect s before returning it.
Finish ==
  /\ In("return") /\ Len(frames) = 1
  /\ frames' = <<>> /\ decoded' = Top.s
  /\ protect' = IF Top.s = NoObject THEN protect ELSE Dropped(protect, Top.s)
  /\ UNCHANGED <<heap, warned>>

decodeHelper ==
  \/ EnterScalar \/ EnterBytes \/ EnterJson \/ EnterNil \/ EnterArray \/ EnterMap \/ EnterUnknown
  \/ MakeNames \/ FillElement \/ CallElement \/ FinishArray \/ FinishMap \/ ReturnElement
  \/ FillName \/ Finish

\* One conversion, of any value.
Conversion(val) ==
  /\ heap = NoHeap /\ protect = Unprotected /\ frames = <<NewFrame(val)>>
  /\ warned = FALSE /\ decoded = "none"
  /\ [][decodeHelper]_decoder

-----------------------------------------------------------------------------
\* Everything that is protected or that a call still uses is there, and so is all
\* that it leads to: a collection never frees what the conversion needs.  A list
\* that is used holds R objects only, never the null pointer that decodeHelper
\* returns for a msgpack extension.
NothingDangles ==
  /\ \A a \in Addr : protect[a] > 0 => a \in Used
  /\ \A i \in 1..Len(frames) : {frames[i].s, frames[i].names} \cap Addr \subseteq Used
  /\ \A a \in Used : heap[a][1] = "VECSXP" =>
       \A i \in DOMAIN heap[a][2] : heap[a][2][i] \in Used \cup {R_NilValue}
=============================================================================

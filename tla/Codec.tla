------------------------------- MODULE Codec --------------------------------
(***************************************************************************)
(* What the conversions between R and Go compute (r2go.go), value by value:  *)
(* SexpToIface from R to Go, and as a definition by recursion what           *)
(* decodeHelper returns from Go to R.  Between them lies the wire: msgpack    *)
(* keeps nil, bool, int64, float64, string, bytes, arrays and sorted maps.   *)
(* An R value is <<type, elements, names>>, where the elements of a list are  *)
(* R values; Go values are those of Decode.                                  *)
(***************************************************************************)
EXTENDS Decode, SequencesExt

CONSTANTS
  GoValue,                \* the values a decoder makes, and all that is in them
  SexpValue,              \* R values, and the elements of lists
  NA_LOGICAL, NA_STRING,  \* R's missing values
  NAText                  \* the string "NA"

Null == <<"NILSXP", <<>>, <<>>>>
Nil == <<"nil", <<>>>>
Failure == <<"error", <<>>, <<>>>>
Undefined == <<"undefined", <<>>, <<>>>>

SexpElements(s) == s[2]
SexpNames(s) == s[3]

-----------------------------------------------------------------------------
\* The elements of a Go slice, for each type of vector that is supported.
\* Numbers in the memory of R are copied: a missing integer is a number.
GoElement(s, i) ==
  LET e == SexpElements(s)[i]
  IN  CASE s[1] = "REALSXP" -> <<"float64", e>>
        [] s[1] = "INTSXP" -> <<"int64", e>>
        [] s[1] = "STRSXP" -> <<"string", IF e = NA_STRING THEN NAText ELSE e>>
        [] s[1] = "LGLSXP" -> <<"bool", IF e = 1 THEN 1 ELSE 0>>

\* Mutant: of two elements with the same name the first one stays.
FirstNamed(s, key) == CHOOSE i \in DOMAIN SexpNames(s) :
  SexpNames(s)[i] = key /\ \A j \in DOMAIN SexpNames(s) : SexpNames(s)[j] = key => i \leq j

\* myMap[name] is assigned for each element in turn.
Named(s, key) == CHOOSE i \in DOMAIN SexpNames(s) :
  SexpNames(s)[i] = key /\ \A j \in DOMAIN SexpNames(s) : SexpNames(s)[j] = key => j \leq i

\* The elements of S in the order of their ranks.
Sorted(S, rank) ==
  CHOOSE q \in [1..Cardinality(S) -> S] :
    \A i, j \in 1..Cardinality(S) : i < j => rank[q[i]] < rank[q[j]]

\* makeSortedSlicesFromMap, and the canonical order of the encoder.
SortedKeys(s) == LET names == ToSet(SexpNames(s)) IN Sorted(names, [key \in names |-> key])

\* The Go value of an R value, with F for its parts.
IfaceBy(F, s) ==
  IF SexpElements(s) = <<>> THEN Nil
  ELSE CASE s[1] = "VECSXP" /\ SexpNames(s) # <<>> ->
              LET keys == SortedKeys(s)
              IN  <<"map", [k \in DOMAIN keys |->
                             <<keys[k], F[SexpElements(s)[Named(s, keys[k])]]>>]>>
         [] s[1] = "VECSXP" /\ SexpNames(s) = <<>> ->
              <<"array", [i \in DOMAIN SexpElements(s) |-> F[SexpElements(s)[i]]]>>
         [] s[1] \in {"REALSXP", "INTSXP", "STRSXP", "LGLSXP"} ->
              <<"array", [i \in DOMAIN SexpElements(s) |-> GoElement(s, i)]>>
         [] s[1] = "RAWSXP" -> <<"bytes", SexpElements(s)>>
         [] OTHER -> Nil

SexpToIface[s \in SexpValue] == IfaceBy(SexpToIface, s)

-----------------------------------------------------------------------------
\* A list of values, unless one of them has none.
ListOf(values, names) ==
  IF \E i \in DOMAIN values : values[i] \in {Failure, Undefined} THEN Failure
  ELSE <<"VECSXP", values, names>>

\* What decodeHelper is to return for a Go value, with D for its parts.
DecodedBy(D, val) ==
  CASE Type(val) \in Scalar -> <<SexpType[Type(val)], <<Atom(val)>>, <<>>>>
    [] IsJson(val) -> IF JsonValue(Content(val)) = Malformed THEN Failure ELSE D[JsonValue(Content(val))]
    [] Type(val) = "bytes" /\ ~IsJson(val) -> <<"RAWSXP", Content(val), <<>>>>
    [] IsVector(val) ->
         LET type == Type(Content(val)[1])
         IN  IF \E i \in 1..Size(val) : Type(Content(val)[i]) # type THEN Failure
             ELSE <<SexpType[type], [i \in 1..Size(val) |-> Atom(Content(val)[i])], <<>>>>
    [] IsArray(val) /\ ~IsVector(val) -> ListOf([i \in 1..Size(val) |-> D[At(val, i)]], <<>>)
    [] Type(val) = "map" ->
         ListOf([i \in 1..Size(val) |-> D[At(val, i)]], [i \in 1..Size(val) |-> Content(val)[i][1]])
    [] Type(val) = "ext" -> Undefined
    [] OTHER -> Null

Decoded[val \in GoValue] == DecodedBy(Decoded, val)

\* The R value that the object at b of a heap stands for, with V for its elements.
ObjectValue(h, V, b) ==
  IF b = R_NilValue THEN Null
  ELSE IF h[b][1] # "VECSXP" THEN h[b]
  ELSE <<"VECSXP", [i \in DOMAIN h[b][2] |-> V[h[b][2][i]]], h[b][3]>>

ValueAt(h, a) == LET V[b \in Addr \cup {R_NilValue}] == ObjectValue(h, V, b) IN V[a]

\* The value that decodeHelper has returned.
Value ==
  CASE decoded = "error" -> Failure [] decoded = NoObject -> Undefined [] OTHER -> ValueAt(heap, decoded)

\* Some array of integers in val has one that is no double; L is for its parts.
LossyBy(L, val) ==
  \/ IsVector(val) /\ \E i \in 1..Size(val) : Atom(At(val, i)) # Content(At(val, i))
  \/ /\ (IsArray(val) /\ ~IsVector(val)) \/ Type(val) = "map"
     /\ \E i \in 1..Size(val) : L[At(val, i)]
  \/ IsJson(val) /\ JsonValue(Content(val)) # Malformed /\ L[JsonValue(Content(val))]

Lossy[val \in GoValue] == LossyBy(Lossy, val)

\* The parts of a value are values; JSON has neither raw bytes nor extensions.
IsGoValue(val) ==
  /\ Type(val) \in Scalar \cup {"nil", "bytes", "array", "map", "ext"}
  /\ Type(val) = "int64" => Content(val) \in Int
  /\ Type(val) = "array" => Content(val) \in Seq(GoValue)
  /\ Type(val) = "map" => Content(val) \in Seq(Int \X GoValue)
  /\ IsJson(val) => LET json == JsonValue(Content(val))
                    IN  json # Malformed => json \in GoValue /\ Type(json) \notin {"bytes", "ext"}

\* Values are finite, so the definitions by recursion define.
ASSUME CodecAssumption ==
  \A val \in GoValue :
    /\ IsGoValue(val)
    /\ Decoded[val] = DecodedBy(Decoded, val)
    /\ Lossy[val] = LossyBy(Lossy, val)

-----------------------------------------------------------------------------
(* What survives a trip from R through msgpack back to R.                   *)

\* The types an R value may have that the package converts.
Supported == {"VECSXP", "REALSXP", "INTSXP", "STRSXP", "LGLSXP", "RAWSXP"}

LooksLikeJson(s) == s[1] = "RAWSXP" /\ SexpElements(s)[1] = LeftBrace

\* Somewhere in s there are bytes that will be read as JSON; J is for its parts.
HasJsonBy(J, s) ==
  /\ SexpElements(s) # <<>>
  /\ LooksLikeJson(s) \/ (s[1] = "VECSXP" /\ \E i \in DOMAIN SexpElements(s) : J[SexpElements(s)[i]])

HasJson[s \in SexpValue] == HasJsonBy(HasJson, s)

\* Vectors keep their elements and lose their names, integers become numbers
\* and missing logicals FALSE; a list keeps its elements in order, or, when it
\* has names, those under the last of equal names, sorted by name; whatever is
\* empty or of another type becomes NULL.  V is for the parts of s.
SurvivingBy(V, s) ==
  LET e == SexpElements(s)
      ForEach(Op(_)) == [i \in DOMAIN e |-> Op(e[i])]
      last == {i \in DOMAIN e : \A j \in DOMAIN e : j > i => SexpNames(s)[j] # SexpNames(s)[i]}
      order == Sorted(last, SexpNames(s))
  IN  CASE e = <<>> \/ s[1] \notin Supported -> Null
        [] e # <<>> /\ s[1] \in {"REALSXP", "INTSXP"} -> <<"REALSXP", e, <<>>>>
        [] e # <<>> /\ s[1] = "LGLSXP" ->
             <<"LGLSXP", ForEach(LAMBDA x : IF x = NA_LOGICAL THEN 0 ELSE x), <<>>>>
        [] e # <<>> /\ s[1] = "STRSXP" ->
             <<"STRSXP", ForEach(LAMBDA x : IF x = NA_STRING THEN NAText ELSE x), <<>>>>
        [] e # <<>> /\ s[1] = "RAWSXP" -> <<"RAWSXP", e, <<>>>>
        [] e # <<>> /\ s[1] = "VECSXP" /\ SexpNames(s) = <<>> ->
             <<"VECSXP", [i \in DOMAIN e |-> V[e[i]]], <<>>>>
        [] e # <<>> /\ s[1] = "VECSXP" /\ SexpNames(s) # <<>> ->
             <<"VECSXP", [k \in DOMAIN order |-> V[e[order[k]]]],
                         [k \in DOMAIN order |-> SexpNames(s)[order[k]]]>>

Surviving[s \in SexpValue] == SurvivingBy(Surviving, s)

\* A list holds R values, under a name each or without any; the integers of R
\* are doubles.
IsSexpValue(s) ==
  /\ SexpElements(s) \in Seq(ToSet(SexpElements(s)))
  /\ s[1] = "VECSXP" =>
       /\ SexpElements(s) \in Seq(SexpValue)
       /\ SexpNames(s) # <<>> =>
            SexpNames(s) \in Seq(Int) /\ Len(SexpNames(s)) = Len(SexpElements(s))
  /\ s[1] = "INTSXP" => \A i \in DOMAIN SexpElements(s) :
       SexpElements(s)[i] \in Int /\ DoubleOf(SexpElements(s)[i]) = SexpElements(s)[i]
  /\ s[1] = "LGLSXP" => SexpElements(s) \in Seq({0, 1, NA_LOGICAL})

\* How deep the lists of an R value are nested.
Depth[s \in SexpValue] ==
  IF s[1] # "VECSXP" \/ SexpElements(s) = <<>> THEN 0
  ELSE 1 + Max({Depth[e] : e \in ToSet(SexpElements(s))})

\* R values are finite as well.
ASSUME SexpAssumption ==
  /\ NA_LOGICAL # 1
  /\ \A s \in SexpValue :
       /\ IsSexpValue(s)
       /\ SexpToIface[s] = IfaceBy(SexpToIface, s)
       /\ HasJson[s] = HasJsonBy(HasJson, s)
       /\ Surviving[s] = SurvivingBy(Surviving, s)
       /\ Depth[s] \in Nat
       /\ s[1] = "VECSXP" => \A e \in ToSet(SexpElements(s)) : Depth[e] < Depth[s]
=============================================================================

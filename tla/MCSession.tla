----------------------------- MODULE MCSession ------------------------------
(* Values and streams for TLC.  A double has three bits: 8 is the first       *)
(* integer beyond which the odd ones are lost.                               *)
EXTENDS Session

NAInteger == -8
NALogical == -9

-----------------------------------------------------------------------------
(* What the decoders of the codec library make of the bytes used here.       *)
One == 49     \* the digit 1
JsonObject ==
  (<<123, 125>> :> <<"map", <<>>>>)
  @@ (<<123, 1, 125>> :> <<"map", <<<<1, <<"array", <<<<"int64", 1>>, <<"int64", 9>>>>>>>>>>>>)
  @@ (<<123, 2, 125>> :> <<"map", <<<<1, <<"array", <<<<"string", 1>>, <<"int64", 1>>>>>>>>>>>>)

RECURSIVE Unspaced(_)
Unspaced(text) == IF text # <<>> /\ text[1] = Newline THEN Unspaced(Tail(text)) ELSE text

MCJsonValue(text) ==
  LET t == Unspaced(text)
  IN  IF t = <<>> THEN Malformed
      ELSE IF t[1] = LeftBrace
           THEN IF t \in DOMAIN JsonObject THEN JsonObject[t] ELSE Malformed
      ELSE IF \A i \in DOMAIN t : t[i] = One THEN <<"int64", Len(t)>> ELSE Malformed

MCMsgpackValue(text) ==
  CASE text = <<>> -> Malformed
    [] text # <<>> /\ text[1] < 128 -> <<"int64", text[1] % 8>>
    [] text # <<>> /\ text[1] = 192 -> Nil
    [] Len(text) > 2 /\ text[1] = 146 -> <<"array", <<<<"int64", text[2]>>, <<"int64", text[3]>>>>>>
    [] OTHER -> Malformed

MCDecodes(format, text) ==
  LET val == Parsed(format, text) IN val # Malformed /\ Decoded[val] # Failure

-----------------------------------------------------------------------------
(* Streams, written record by record and cut anywhere.                       *)
Bin(head, size, payload) == [record |-> payload, bytes |-> <<head>> \o size \o payload]
Line(text) == [record |-> text, bytes |-> Append(text, Newline)]

Bytes(chunks) == FlattenSeq([i \in DOMAIN chunks |-> chunks[i].bytes])

Cuts(format, chunks, rest) ==
  {[format |-> format, bytes |-> SubSeq(Bytes(chunks) \o rest, 1, size),
    records |-> [i \in DOMAIN chunks |-> chunks[i].record],
    starts |-> [i \in 1..(Len(chunks) + 1) |-> Len(Bytes(SubSeq(chunks, 1, i - 1)))]]
     : size \in 0..(Len(Bytes(chunks)) + Len(rest))}

MCStreams ==
  Cuts("msgpack", <<Bin(Bin8, <<1>>, <<5>>), Bin(Bin16, <<0, 3>>, <<146, 1, 9>>),
                    Bin(Bin32, <<0, 0, 0, 1>>, <<192>>)>>, <<7, 7>>)
  \cup Cuts("msgpack", <<Bin(Bin8, <<2>>, <<6, 7>>), Bin(Bin16, <<0, 1>>, <<1>>)>>, <<>>)
  \cup Cuts("json", <<Line(<<One>>), Line(<<One, One>>), Line(<<123, 1, 125>>)>>, <<>>)
  \cup Cuts("json", <<Line(<<123, 125>>), Line(<<One>>)>>, <<>>)
  \cup Cuts("json", <<Line(<<One>>)>>, <<123, 2, 125, Newline>>)

MCJunk == {[i \in 1..5 |-> b] : b \in {0, 1, 3}}

-----------------------------------------------------------------------------
(* Values.                                                                  *)
R(type, elements) == <<type, elements, <<>>>>

RVectors ==
  {Null, R("REALSXP", <<1, 2>>), <<"REALSXP", <<3>>, <<1>>>>, R("INTSXP", <<NAInteger, 7>>),
   R("LGLSXP", <<0, 1, NALogical>>), R("STRSXP", <<3, NA_STRING>>), R("RAWSXP", <<5>>),
   R("RAWSXP", <<123, 125>>), R("RAWSXP", <<123, 2, 125>>), R("RAWSXP", <<123>>), R("CLOSXP", <<0>>),
   R("VECSXP", <<>>)}

RLists ==
  {R("VECSXP", <<x, y>>) : x, y \in RVectors}
  \cup {<<"VECSXP", <<x, R("REALSXP", <<4>>)>>, names>> :
          x \in RVectors, names \in {<<1, 2>>, <<2, 1>>, <<1, 1>>}}

RNested ==
  {<<"VECSXP", <<y, y>>, <<2, 1>>>> : y \in RVectors}
  \cup {R("REALSXP", <<4>>), R("STRSXP", <<1>>), R("INTSXP", <<1>>), R("LGLSXP", <<1>>), R("RAWSXP", <<1>>)}

SexpValues ==
  RVectors \cup RLists \cup RNested
  \cup {<<"VECSXP", <<x, R("STRSXP", <<1>>)>>, names>> : x \in RNested, names \in {<<>>, <<2, 1>>}}
  \cup {<<"VECSXP", <<R("INTSXP", <<1>>), R("LGLSXP", <<1>>), R("RAWSXP", <<1>>)>>, names>> :
          names \in {<<3, 2, 3>>, <<2, 3, 1>>}}

MCSexpValue == SexpValues

Atoms ==
  {<<"int64", i>> : i \in {-9, -8, -7, 7, 8, 9, 13}}
  \cup {<<"float64", 1>>, <<"string", 1>>, <<"bool", 0>>, <<"bool", 1>>, Nil, <<"bytes", <<1>>>>}

MCMessageValues ==
  Atoms
  \cup {<<"array", <<x>>>> : x \in Atoms} \cup {<<"array", <<x, y>>>> : x, y \in Atoms}
  \cup {<<"array", <<Nil, <<"array", <<x, <<"int64", 1>>>>>>, x>>>> : x \in Atoms}
  \cup {<<"map", <<<<1, x>>, <<2, <<"array", <<y, x>>>>>>>>>> : x, y \in Atoms}
  \cup {<<"array", <<>>>>, <<"bytes", <<>>>>, <<"map", <<>>>>, <<"ext", <<>>>>,
        <<"array", <<<<"ext", <<>>>>, Nil>>>>}

-----------------------------------------------------------------------------
\* A value and all that is in it.
RECURSIVE Parts(_)
Parts(val) ==
  {val}
  \cup (IF Type(val) \in {"array", "map"} THEN UNION {Parts(At(val, i)) : i \in 1..Size(val)} ELSE {})
  \cup (IF IsJson(val) /\ JsonValue(Content(val)) # Malformed THEN Parts(JsonValue(Content(val))) ELSE {})

StreamValues ==
  UNION {{Parsed(s.format, SubSeq(s.bytes, i + 1, j)) : i, j \in 0..Len(s.bytes)} : s \in MCStreams}

GoValues ==
  UNION {Parts(val) : val \in MCMessageValues \cup {SexpToIface[s] : s \in SexpValues}
                               \cup (StreamValues \ {Malformed})}

\* TLC evaluates GoValues once, but a constant at every use.
MCGoValue == GoValues

-----------------------------------------------------------------------------
(* Times: TLC evaluates the codec of enctm.go on all of them.                *)
Time == INSTANCE TimeCodec

Times ==
  [secs : {[i \in 1..8 |-> IF i < k THEN s ELSE IF i = k THEN b ELSE c] :
             s \in {0, 255}, k \in 1..8, b \in {0, 1, 127, 128, 255}, c \in {0, 255}},
   nsecs : {<<0, 0, 0, 0>>, <<0, 0, 0, 200>>, <<0, 0, 1, 0>>, <<0, 128, 0, 0>>, <<59, 154, 201, 255>>},
   zone : {<<>>, <<0>>, <<59>>, <<-59>>, <<60>>, <<-60>>, <<-28800>>, <<50400>>, <<-1561>>, <<491519>>}]

\* The instant and the zone survive, within 16 bytes (enctm.go).
ASSUME TimesKept == \A t \in Times : Time!TimeKept(t) /\ Time!TimeFits(t)
=============================================================================

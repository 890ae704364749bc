------------------------------- MODULE MCAbi -------------------------------
(* Declarations and parameters of the ABI codec for TLC.                   *)
EXTENDS AbiContract

D(type) == NamedType("", type, FALSE, <<>>)
N(name, type) == NamedType(name, type, FALSE, <<>>)
T(type, components) == NamedType("t", type, FALSE, components)

List(t) == <<t, "[", "]">>
Array(t) == <<t, "[", "2", "]">>

\* The parameters a method is declared with: every kind of type, alone and in
\* front of something that is found by an offset.
mcStatic == {D(<<"int">>), D(<<"uint8">>), D(<<"bool">>), D(<<"bytes1">>),
             D(<<"address">>), D(Array("int")),
             T(<<"tuple">>, <<N("a", <<"int">>), N("b", <<"bool">>)>>)}
mcDynamic == {D(<<"string">>), D(<<"bytes">>), D(List("int")), D(List("string")),
              D(Array("string")), D(<<"int", "[", "2", "]", "[", "]">>),
              T(<<"tuple">>, <<N("a", <<"int">>), N("b", <<"string">>)>>),
              T(<<"tuple">>, <<N("a", Array("int")), N("b", <<"string">>)>>),
              T(List("tuple"), <<N("a", <<"bool">>), N("", <<"bytes1">>)>>)}

Params == {<<t>> : t \in mcStatic \cup mcDynamic}
          \cup {<<t, u>> : t \in mcStatic \cup mcDynamic, u \in {D(<<"string">>)}}
          \cup {<<N("a", <<"bytes1">>), N("b", <<"string">>)>>, <<>>}

Function(name, in, out) == [name |-> name, type |-> "function", inputs |-> in, outputs |-> out]
Event(name, in) == [name |-> name, type |-> "event", inputs |-> in, outputs |-> <<>>]
Indexed(t) == NamedType("i", t, TRUE, <<>>)

\* One method; overloads of a method and of an event; a constructor.
mcContracts ==
    {<<Function("f", ps, <<>>)>> : ps \in Params}
    \cup {<<Function("f", <<D(<<"int">>)>>, <<D(<<"string">>), D(<<"int">>)>>),
            Function("f", <<D(<<"string">>)>>, <<>>),
            Function("f", <<D(<<"uint8">>)>>, <<D(<<"bytes1">>)>>),
            [Function("", <<D(<<"bool">>)>>, <<>>) EXCEPT !.type = "constructor"],
            Event("e", <<Indexed(<<"string">>), D(List("string")), Indexed(<<"int">>), D(<<"int">>)>>)>>,
          <<Event("e", <<D(<<"string">>)>>), Event("e", <<D(<<"int">>)>>)>>}

\* Arrays of arrays and of lists.
mcNested ==
    {<<Function("f", <<D(t)>>, <<>>)>> :
        t \in {<<"int", "[", "2", "]", "[", "2", "]">>, <<"int", "[", "]", "[", "2", "]">>}}

Seqs(S, n) == UNION {[1..k -> S] : k \in 0..n}

\* The JSON values of a declared type.
RECURSIVE JsonFor(_)
JsonFor(o) ==
    CASE o.kind = "BOOL" -> {Json("boolean", 0), Json("int", 3)}
      [] o.kind = "UINT" -> {Json("int", 7), Json("int", MaxUInt + 1)}
      [] o.kind = "INT" -> {Json("int", 100), JsonText("raw", <<-(WordMod \div 2)>>),
                             JsonText("raw", <<-(WordMod \div 4)>>)}
      [] o.kind = "FIXED_BYTES" -> {JsonText("hex://", [i \in 1..o.n |-> 9])}
      [] o.kind = "ADDRESS" -> {JsonText("raw", [i \in 1..AddrLen |-> 5])}
      [] o.kind = "STRING" -> {JsonText("raw", <<>>), JsonText("raw", <<1, 2, 3>>)}
      [] o.kind = "DYNAMIC_BYTES" -> {JsonText("base64://", s) : s \in {<<>>, <<4, 4>>}}
      [] o.kind = "DYNAMIC_LIST" -> {JsonArray(s) : s \in Seqs(JsonFor(o.members[1]), 2)}
      [] o.kind = "FIXED_LIST" -> {JsonArray(s) : s \in [1..o.n -> JsonFor(o.members[1])]}
      [] o.kind = "STRUCT" ->
            {JsonArray(s) : s \in {t \in Seqs(UNION {JsonFor(o.members[i]) : i \in DOMAIN o.members},
                                              Len(o.members)) :
                                  Len(t) = Len(o.members)
                                  /\ \A i \in DOMAIN t : t[i] \in JsonFor(o.members[i])}}

\* By position, and by name where every parameter has one.
mcParamsFor(nts) ==
    LET arrays == JsonFor(Struct(DeclaredAll(nts)))
        names == {nts[i].name : i \in DOMAIN nts}
    IN  IF "" \in names \/ nts = <<>> THEN arrays
        ELSE arrays \cup
             {[json |-> "object",
               fields |-> [name \in names |->
                            j.elems[SelectInSeq(nts, LAMBDA nt : nt.name = name)]]] : j \in arrays}
=============================================================================

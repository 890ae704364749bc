------------------------------- MODULE MCWire -------------------------------
(* Small values of every type of the formats, chosen at the limits of the  *)
(* encodings: a byte has 3 bits, so that 7 is the longest short string and *)
(* 2, 16 and 1024 begin the categories of compact integers.                *)
EXTENDS Wire

Case(format, type, value, have) ==
    [format |-> format, type |-> type, value |-> value, have |-> have]

\* The elements of a large set in some order.
Ordered(set) == FoldSet(LAMBDA x, acc : Append(acc, x), <<>>, set)

Values(type, set) == LET vs == Ordered(set) IN [i \in DOMAIN vs |-> [type |-> type, value |-> vs[i]]]

-----------------------------------------------------------------------------
(* SCALE. *)

TBool == [t |-> "bool"]
TInt(size, signed) == [t |-> "int", size |-> size, signed |-> signed]
TCompact == [t |-> "compact"]
TU256 == [t |-> "u256"]
TOf(t, of) == [t |-> t, of |-> of]
TPair(first, second) == [t |-> "pair", first |-> first, second |-> second]
TEmpty == [t |-> "empty"]
TMap(key, of) == [t |-> "map", key |-> key, of |-> of]

ScaleValues ==
    Values(TBool, {0, 1})
    \o Values(TInt(1, FALSE), {0, 7})
    \o Values(TInt(1, TRUE), {-4, 3})
    \o Values(TInt(2, TRUE), {-32, -1, 31})
    \o Values(TInt(8, FALSE), {0, 8 ^ 8 - 1})
    \o Values(TCompact, {0, 1, 2, 15, 16, 17, 1023, 1024, 4095, 4096, 8 ^ 5 - 1, 8 ^ 5, -1})
    \o Values(TU256, {0, 511})
    \o Values([t |-> "s256"], {-256, -1, 255})
    \o Values(TOf("optional", TBool), {<<>>, <<0>>, <<1>>})
    \o Values(TOf("optional", TCompact), {<<>>, <<0>>, <<16>>})
    \o Values(TOf("vector", TInt(1, FALSE)), {<<>>, <<7, 0>>, [i \in 1..16 |-> i % 8]})
    \o Values(TOf("vector", TInt(1, TRUE)), {<<-4, 3>>})
    \o Values(TOf("vector", TCompact), {<<>>, <<7, 0>>, [i \in 1..16 |-> i]})
    \o Values(TOf("vector", TOf("vector", TBool)), {<< <<>>, <<1, 0>> >>})
    \o Values([t |-> "array", n |-> 2, of |-> TInt(2, TRUE)], {<<-1, 5>>})
    \o Values(TPair(TBool, TPair(TCompact, TPair(TOf("vector", TBool), TEmpty))),
              {<<1, <<16, << <<>>, <<>> >> >> >>, <<0, <<1024, << <<1>>, <<>> >> >> >>})
    \o Values(TMap(TCompact, TBool), {{}, {<<3, 1>>, <<20, 0>>}})
    \o Values(TMap(TInt(1, TRUE), TOf("vector", TCompact)),
              {{<<3, <<>> >>, <<-2, <<5>> >>, <<0, <<16, 1>> >>}})
    \o Values(TOf("variant", <<TBool, TCompact>>), {<<0, 1>>, <<1, 16>>})
    \o Values(TOf("vector", TOf("variant", <<TU256, TOf("pointer", TCompact)>>)),
              {<< <<1, <<17>> >>, <<0, 9>> >>})
    \o Values(TOf("pointer", TCompact), {<<17>>, <<>>})

-----------------------------------------------------------------------------
(* Tars. *)

Long == [i \in 1..8 |-> 97]

TxData == {[TransactionData.default EXCEPT ![4] = 600, ![5] = <<97>>]}
          \cup {<<v, <<99>>, <<103>>, limit, Long, to, input, abi>> :
                    v \in {0, -1}, limit \in {5, 2048}, to \in {<<>>, <<98>>},
                    input \in {<<>>, <<5, 7>>}, abi \in {<<>>, <<92>>}}
OneTxData == <<1, <<99>>, <<103>>, 600, <<97>>, <<98>>, <<5>>, <<>> >>

Txs == {<<OneTxData, hash, sig, time, attr, sender, extra>> :
            hash \in {<<1, 2>>}, sig \in {<<>>, <<3>>}, time \in {0, 8}, attr \in {0, 2},
            sender \in {<<>>, <<6>>}, extra \in {<<>>, <<34>>}}

Log1 == << <<98>>, << <<1, 2>>, <<3, 4>> >>, <<5>> >>
Log2 == << <<>>, << >>, << >> >>
Receipts ==
    {<<0, gas, addr, status, output, logs, n>> :
        gas \in {<<>>, <<50>>}, addr \in {<<97>>}, status \in {0, 16}, output \in {<<>>, <<7>>},
        logs \in {<<>>, <<Log2>>, <<Log1, Log2>>}, n \in {0, 4}}

\* A struct with a member of every kind the streams have.
Num1(k) == Unless(1, k, NumberType(k))
Kinds == <<"Bool", "Char", "Short", "Int32", "Int64", "UInt8", "UInt16", "UInt32", "Enum">>
KindStruct(k) == StructOf("Kind", <<Num1(k), [Unless(2, "next", StringType) EXCEPT !.always = TRUE]>>)

Containers ==
    StructOf("Containers",
        <<Unless(1, "map", [k |-> "Map", key |-> NumberType("Int32"), of |-> StringType, default |-> <<>>]),
          Unless(3, "set", [k |-> "Set", of |-> NumberType("Short"), default |-> {}]),
          Unless(4, "buffer", [k |-> "CharBuffer", n |-> 2, default |-> <<>>]),
          Unless(16, "array", [k |-> "Array", n |-> 2, of |-> LogEntry, default |-> <<>>]),
          Unless(17, "real", [k |-> "Double", default |-> 0])>>)

TarsValues ==
    Values(TransactionData, TxData) \o Values(Transaction, Txs)
    \o Values(TransactionReceiptData, Receipts)
    \o Values(TransactionReceipt, {<<r, <<1>>, m>> : r \in Receipts, m \in {<<>>, <<97>>}})
    \o FlattenSeq([i \in DOMAIN Kinds |-> Values(KindStruct(Kinds[i]), {<<v, <<97>> >> : v \in {0, 1}})])
    \o Values(KindStruct("UInt8"), {<<7, <<97>> >>})
    \o Values(KindStruct("Short"), {<<-32, <<97>> >>, <<31, <<97>> >>})
    \o Values(KindStruct("Int64"), {<<v, <<97>> >> : v \in {-5, -4, 3, 4, -33, 32, -2049, 2048}})
    \o Values(Containers,
              {Containers.default,
               <<3 :> <<97>> @@ 4 :> <<>>, {1, 5}, <<6, 7>>, <<Log1, Log2>>, 9>>})

Extra(tag, type, value) == [tag |-> tag, type |-> type, value |-> value]
ExtraMap(tag) ==
    Extra(tag, [k |-> "Map", key |-> NumberType("Short"), of |-> StringType, default |-> <<>>],
          1 :> <<2, 3>>)
ExtrasAt(tag) ==
    <<Extra(tag, NumberType("Int64"), 0), Extra(tag, NumberType("Int64"), 300),
      Extra(tag, StringType, Long), Extra(tag, [k |-> "Double", default |-> 0], 5),
      Extra(tag, [k |-> "Float", default |-> 0], 5), Extra(tag, BytesType, <<1, 2, 3>>),
      Extra(tag, VectorOf(StringType), << <<1>>, <<2>> >>), Extra(tag, LogEntry, Log1),
      ExtraMap(tag)>>
\* In front of all members the items of a map can be taken for the first ones.
MCExtras == ExtrasAt(6) \o ExtrasAt(20) \o <<ExtraMap(0)>>

-----------------------------------------------------------------------------
(* JSON. *)

JsonValues ==
    Values(TransactionData, TxData) \o Values(Transaction, Txs)
    \o Values(TransactionReceiptData, Receipts)

Texts == {<<>>, <<97>>, <<34, 92>>, <<47, 8, 12, 10, 13, 9>>, <<1, 31>>, <<200>>}
TextValues ==
    Values("", {Js("string", s) : s \in Texts}) \o Values("", {Js("num", n) : n \in {0, 7, -1, 1050}})
    \o Values("", {Js("boolean", b) : b \in {0, 1}})
    \o Values("", {Js("array", <<>>)})
    \o Values("", {Js("array", <<Js("num", -20), Js("array", <<>>)>>)})
    \o Values("", {Js("obj", <<>>)})
    \o Values("", {Js("obj", <<34>> :> Js("string", <<92>>) @@ <<>> :> Js("num", 3))})

-----------------------------------------------------------------------------
(* Messages. *)

SomeParams ==
    {[fromBlock |-> f, toBlock |-> 9, addresses |-> a, topics |-> t] :
        f \in {-1, 3}, a \in {{}, {"a", "b"}}, t \in {<<>>, <<{"t"}>>, <<{"t", "u"}, {}, {"v"}>>}}

\* Parameters that subscribeEvent refuses.
NotVerified ==
    {[NewParams EXCEPT !.topics = <<{"t"}, {}, {}, {}, {"u"}>>],
     [NewParams EXCEPT !.topics = <<{"short"}>>],
     [NewParams EXCEPT !.addresses = {""}],
     [NewParams EXCEPT !.fromBlock = 9, !.toBlock = 3]}

Node(name, wasm) ==
    [name |-> name, type |-> 1, iniConfig |-> IniConfig(wasm, TRUE), wasm |-> wasm, sm |-> TRUE,
     services |-> 1 :> "s" @@ 2 :> "u", nodeID |-> "", microService |-> FALSE,
     min |-> 1, max |-> 2, compatibility |-> 3]
Group(nodes, wasm, sm) ==
    [chainID |-> "c", groupID |-> "g", genesisConfig |-> "x", iniConfig |-> "y",
     wasm |-> wasm, sm |-> sm, nodes |-> nodes]
Groups == {Group(<<>>, FALSE, FALSE), Group("n" :> Node("n", TRUE), TRUE, TRUE),
           Group("n" :> Node("n", TRUE) @@ "o" :> Node("o", TRUE), TRUE, TRUE)}

CasesOf(format, type, values, have) ==
    LET vs == Ordered(values) IN [i \in DOMAIN vs |-> Case(format, type, vs[i], have)]

BlockInfoCases(type) ==
    CasesOf("message", type, {[blockNumber |-> 11, group |-> "g", node |-> "n"]},
            [blockNumber |-> -1, group |-> "", node |-> ""])

HandshakeCases(type) ==
    CasesOf("message", type,
            {[version |-> 1, groups |-> <<g>>, numbers |-> n] :
                g \in Groups, n \in {<<>>, "g" :> 5 @@ "h" :> 6}},
            [version |-> 0, groups |-> <<>>, numbers |-> <<>>])

MessageCases ==
    CasesOf("message", "params", SomeParams, NewParams)
    \o CasesOf("message", "subscribe",
            [id : {"i"}, group : {"g"}, params : SomeParams \cup NotVerified, current : {-1, 0, 6}],
            [id |-> "", group |-> "", params |-> NewParams, current |-> -1])
    \o CasesOf("message", "unsubscribe", {[id |-> "i", group |-> "g"]}, [id |-> "", group |-> ""])
    \o CasesOf("message", "response", {[id |-> "i", status |-> 2]}, [id |-> "", status |-> 0])
    \o BlockInfoCases("blockNumber") \o BlockInfoCases("nodeBlockNumber")
    \o CasesOf("message", "request",
            {[jsonrpc |-> "2.0", method |-> "m", id |-> 5, params |-> Arr(<<Str("g")>>)]},
            [jsonrpc |-> "2.0", method |-> "", id |-> 1, params |-> Null])
    \o CasesOf("message", "group", Groups, Group(<<>>, FALSE, FALSE))
    \o HandshakeCases("handshake") \o HandshakeCases("nodeHandshake")

AmopCases ==
    CasesOf("amop", "amop",
         [version : {9}, topic : {<<>>, <<97>>, <<97, 98>>, [i \in 1..9 |-> 97]},
          data : {<<>>, <<1, 2>>}],
         [version |-> 0, topic |-> <<>>, data |-> <<>>])

As(format, values, have(_)) ==
    [i \in DOMAIN values |-> Case(format, values[i].type, values[i].value, have(values[i]))]

MCCases ==
    As("scale", ScaleValues, LAMBDA c : NIL) \o As("text", TextValues, LAMBDA c : NIL)
    \o As("tars", TarsValues, LAMBDA c : c.type.default)
    \o As("json", JsonValues, LAMBDA c : c.type.default)
    \o MessageCases \o AmopCases
=============================================================================

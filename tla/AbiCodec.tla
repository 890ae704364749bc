------------------------------ MODULE AbiCodec ------------------------------
(***************************************************************************)
(* ContractABICodec (bcos-cpp-sdk/utilities/abi): parameters in JSON are   *)
(* read into the object built from the declaration, and the object is      *)
(* serialized by a type codec, for Solidity or for Liquid; answers take    *)
(* the way back.                                                           *)
(*                                                                         *)
(* A JSON value is [json |-> kind, ...]; a text is a sequence of symbols,  *)
(* and a text of one symbol is the numeral of that number.                 *)
(***************************************************************************)
EXTENDS AbiType

CONSTANTS
    MaxUInt,      \* largest value of a 32-bit unsigned int
    SelectorLen   \* bytes of a method ID in front of the parameters

-----------------------------------------------------------------------------
(* External: conversions of a JSON value.                                  *)

JsonNull == [json |-> "null"]

IsConvertibleTo(j, kind) ==
    CASE kind = "boolean" -> j.json \in {"int", "boolean", "null"}
      [] kind = "uint" -> \/ j.json \in {"boolean", "null"}
                          \/ j.json = "int" /\ j.val \in 0..MaxUInt
      [] kind = "int" -> \/ j.json \in {"boolean", "null"}
                         \/ /\ j.json = "int"
                            /\ j.val \in -((MaxUInt + 1) \div 2)..(MaxUInt \div 2)
      [] kind = "string" -> j.json \in {"int", "boolean", "string", "null"}
      [] kind = "array" -> j.json \in {"array", "null"}
      [] kind = "object" -> j.json \in {"object", "null"}

AsNumber(j) == IF j.json = "null" THEN 0 ELSE j.val

\* "true" and "false" are texts of more than one symbol: no numerals.
AsString(j) ==
    CASE j.json = "null" -> <<>>
      [] j.json = "int" -> <<j.val>>
      [] j.json = "boolean" -> <<0, j.val>>
      [] OTHER -> j.val

Elements(j) == IF j.json = "null" THEN <<>> ELSE j.elems

IsSigned(text) == Len(text) = 1
IsUnsigned(text) == Len(text) = 1 /\ text[1] >= 0

-----------------------------------------------------------------------------
(* initAbstractTypeWithJsonParams.                                         *)

\* decodeBytesFromString: "hex://..." or "base64://...", anything else throws.
DecodeBytesFromString(j) ==
    IF j.json = "string" /\ j.form \in {"hex://", "base64://"} THEN j.val ELSE THROW

\* Mutation: a number too large for an unsigned int is refused.
SetSmallUint(o, j) ==
    IF IsConvertibleTo(j, "uint") THEN [o EXCEPT !.val = <<AsNumber(j)>>] ELSE THROW

\* setValue for a uint: by asUInt when it fits, else by its decimal text.
SetUint(o, j) ==
    IF IsConvertibleTo(j, "uint") THEN [o EXCEPT !.val = <<AsNumber(j)>>]
    ELSE IF IsConvertibleTo(j, "string") /\ IsUnsigned(AsString(j))
    THEN [o EXCEPT !.val = <<AsString(j)[1] % WordMod>>]
    ELSE THROW

SetInt(o, j) ==
    IF IsConvertibleTo(j, "int") THEN [o EXCEPT !.val = <<AsNumber(j)>>]
    ELSE IF IsConvertibleTo(j, "string") /\ IsSigned(AsString(j))
    THEN [o EXCEPT !.val = <<AsString(j)[1]>>]
    ELSE THROW

SetBytes(o, j) ==
    LET bs == DecodeBytesFromString(j)
    IN  IF bs = THROW \/ (o.kind = "FIXED_BYTES" /\ Len(bs) # o.n) THEN THROW
        ELSE [o EXCEPT !.val = bs]

SetText(o, j) ==
    IF IsConvertibleTo(j, "string") THEN [o EXCEPT !.val = AsString(j)] ELSE THROW

WithMembers(o, ms) == IF Throws(ms) THEN THROW ELSE [o EXCEPT !.members = ms]

\* kvValue: the member each name stands for, the last one with that name.
KvValue(ms) ==
    [name \in {ms[i].name : i \in DOMAIN ms} \ {""} |->
        SelectLastInSeq(ms, LAMBDA m : m.name = name)]

RECURSIVE InitWithJson(_, _)

InitList(o, j) ==
    LET base == Clone(o.members[1])
    IN  IF ~IsConvertibleTo(j, "array") THEN THROW
        ELSE IF base = THROW /\ Elements(j) # <<>> THEN THROW
        ELSE WithMembers(o, [i \in DOMAIN Elements(j) |-> InitWithJson(base, Elements(j)[i])])

InitArray(o, j) ==
    IF ~IsConvertibleTo(j, "array") \/ Len(Elements(j)) # o.n THEN THROW
    ELSE WithMembers(o, [i \in 1..o.n |-> InitWithJson(o.members[i], j.elems[i])])

\* A struct takes an array, by position, or an object, by name; a member
\* without a name is left as it was built when the parameters are an object.
InitStruct(o, j) ==
    CASE j.json = "array" ->
            IF Len(j.elems) # Len(o.members) THEN THROW
            ELSE WithMembers(o, [i \in DOMAIN o.members |->
                                    InitWithJson(o.members[i], j.elems[i])])
      [] j.json = "object" ->
            LET kv == KvValue(o.members)
            IN  IF ~(DOMAIN kv \subseteq DOMAIN j.fields) THEN THROW
                ELSE WithMembers(o, [i \in DOMAIN o.members |->
                        IF \E name \in DOMAIN kv : kv[name] = i
                        THEN InitWithJson(o.members[i], j.fields[o.members[i].name])
                        ELSE o.members[i]])
      [] j.json = "null" -> o
      [] OTHER -> THROW

InitWithJson(o, j) ==
    CASE o.kind = "BOOL" ->
            IF IsConvertibleTo(j, "boolean")
            THEN [o EXCEPT !.val = <<IF AsNumber(j) # 0 THEN 1 ELSE 0>>] ELSE THROW
      [] o.kind = "UINT" -> SetUint(o, j)
      [] o.kind = "INT" -> SetInt(o, j)
      [] o.kind \in {"FIXED_BYTES", "DYNAMIC_BYTES"} -> SetBytes(o, j)
      [] o.kind \in {"ADDRESS", "STRING"} -> SetText(o, j)
      [] o.kind = "DYNAMIC_LIST" -> InitList(o, j)
      [] o.kind = "FIXED_LIST" -> InitArray(o, j)
      [] o.kind = "STRUCT" -> InitStruct(o, j)

-----------------------------------------------------------------------------
(* ContractABITypeCodecSolImpl::serialize.                                 *)

Zeros(n) == [i \in 1..n |-> 0]

\* A number as a word, the most significant byte first; a negative one in
\* two's complement.
Word(u) == [i \in 1..WordLen |-> ((u % WordMod) \div ByteSize ^ (WordLen - i)) % ByteSize]

\* bytesN: the content, filled up with zeros behind it.
SerializeBytesN(bs) == bs \o Zeros(WordLen - Len(bs))

\* bytes and string: the length, and the content filled up to whole words.
SerializeBytes(bs) ==
    Word(Len(bs)) \o bs \o
    Zeros(((Len(bs) + WordLen - 1) \div WordLen) * WordLen - Len(bs))

SerializeAddress(a) == IF Len(a) # AddrLen THEN THROW ELSE Zeros(WordLen - AddrLen) \o a

\* The bytes the dynamic members before the i-th take.
DynamicBefore(ms, out, i) ==
    FoldLeft(LAMBDA n, k : IF DynamicType(ms[k]) THEN n + Len(out[k]) ELSE n,
             0, [k \in 1..(i - 1) |-> k])

\* Mutation: every offset is that of the first dynamic member.
ListOffsetsNotAdvanced(ms, out) ==
    FlattenSeq([i \in DOMAIN ms |->
                IF DynamicType(ms[i]) THEN Word(Len(ms) * WordLen) ELSE <<>>])
    \o FlattenSeq(out)

\* T[] after its length, and T[N]: the offsets of dynamic members, relative to
\* the first offset, then the contents.
SerializeList(ms, out) ==
    FlattenSeq([i \in DOMAIN ms |->
                IF DynamicType(ms[i])
                THEN Word(Len(ms) * WordLen + DynamicBefore(ms, out, i)) ELSE <<>>])
    \o FlattenSeq(out)

\* Mutation: the head is taken to have one word for every member.
StructHeadOneWordEach(ms, out) ==
    FlattenSeq([i \in DOMAIN ms |->
                IF DynamicType(ms[i])
                THEN Word(Len(ms) * WordLen + DynamicBefore(ms, out, i)) ELSE out[i]])
    \o FlattenSeq([i \in DOMAIN ms |-> IF DynamicType(ms[i]) THEN out[i] ELSE <<>>])

\* A struct: a head with static members in place and offsets of the dynamic
\* ones, which follow the head.
SerializeStruct(ms, out) ==
    LET head == FoldLeft(LAMBDA n, m : n + OffsetAsBytes(m), 0, ms)
    IN  FlattenSeq([i \in DOMAIN ms |->
                    IF DynamicType(ms[i])
                    THEN Word(head + DynamicBefore(ms, out, i)) ELSE out[i]])
        \o FlattenSeq([i \in DOMAIN ms |-> IF DynamicType(ms[i]) THEN out[i] ELSE <<>>])

RECURSIVE Serialize(_)
Serialize(o) ==
    IF IsLeaf(o)
    THEN CASE o.kind \in {"UINT", "INT", "BOOL"} -> Word(o.val[1])
           [] o.kind = "FIXED_BYTES" -> SerializeBytesN(o.val)
           [] o.kind = "ADDRESS" -> SerializeAddress(o.val)
           [] o.kind \in {"STRING", "DYNAMIC_BYTES"} -> SerializeBytes(o.val)
    ELSE LET out == [i \in DOMAIN o.members |-> Serialize(o.members[i])]
         IN  IF Throws(out) THEN THROW
             ELSE CASE o.kind = "DYNAMIC_LIST" ->
                            Word(Len(out)) \o SerializeList(o.members, out)
                    [] o.kind = "FIXED_LIST" -> SerializeList(o.members, out)
                    [] o.kind = "STRUCT" -> SerializeStruct(o.members, out)

-----------------------------------------------------------------------------
(* ContractABITypeCodecSolImpl::deserialize.  Offsets count from 0.        *)

\* External, bytesConstRef::getCroppedData: n bytes from an offset on, nothing
\* when there are fewer.
CroppedData(buf, offset, n) ==
    IF offset + n <= Len(buf) THEN SubSeq(buf, offset + 1, offset + n) ELSE <<>>

\* Mutation: the last byte of the buffer is taken for one past its end.
OffsetWithinMore(buf, offset) == offset <= Len(buf)

\* verifyBufferOffset.
VerifyBufferOffset(buf, offset) == offset < Len(buf)

NumberOf(bs) == FoldLeft(LAMBDA n, b : n * ByteSize + b, 0, bs)

ReadWord(buf, offset) ==
    IF VerifyBufferOffset(buf, offset + WordLen - 1)
    THEN NumberOf(CroppedData(buf, offset, WordLen)) ELSE THROW

\* u2s: the upper half of the words is negative.
U2S(u) == IF u >= WordMod \div 2 THEN u - WordMod ELSE u

ReadBytes(buf, offset) ==
    LET len == ReadWord(buf, offset)
    IN  IF len = THROW THEN THROW
        ELSE IF VerifyBufferOffset(buf, offset + WordLen + len - 1)
        THEN CroppedData(buf, offset + WordLen, len) ELSE THROW

LeafContent(o, buf, offset) ==
    LET u == ReadWord(buf, offset)
    IN  IF u = THROW THEN THROW
        ELSE CASE o.kind = "UINT" -> <<u>>
               [] o.kind = "INT" -> <<U2S(u)>>
               [] o.kind = "BOOL" -> <<IF u > 0 THEN 1 ELSE 0>>
               [] o.kind = "FIXED_BYTES" -> CroppedData(buf, offset, o.n)
               [] o.kind = "ADDRESS" -> CroppedData(buf, offset + WordLen - AddrLen, AddrLen)
               [] OTHER -> ReadBytes(buf, offset)

RECURSIVE Deserialize(_, _, _)

\* Members that stand one after another from `offset`; an offset of a dynamic
\* member is relative to it.
DeserializeMembers(ms, buf, offset) ==
    [i \in DOMAIN ms |->
        LET current == FoldLeft(LAMBDA n, m : n + OffsetAsBytes(m), offset, SubSeq(ms, 1, i - 1))
            value == ReadWord(buf, current)
        IN  IF ~DynamicType(ms[i]) THEN Deserialize(ms[i], buf, current)
            ELSE IF value = THROW THEN THROW
            ELSE Deserialize(ms[i], buf, offset + value)]

\* The first member of a list is the template of all; a list built without one
\* stays empty.
DeserializeList(o, buf, offset) ==
    LET size == ReadWord(buf, offset)
        base == Clone(o.members[1])
    IN  IF size = THROW THEN THROW
        ELSE IF o.members = <<>> THEN o
        ELSE IF base = THROW THEN IF size = 0 THEN WithMembers(o, <<>>) ELSE THROW
        ELSE WithMembers(o, DeserializeMembers([i \in 1..size |-> base], buf, offset + WordLen))

Deserialize(o, buf, offset) ==
    IF IsLeaf(o)
    THEN LET v == LeafContent(o, buf, offset)
         IN  IF v = THROW THEN THROW ELSE [o EXCEPT !.val = v]
    ELSE IF o.kind = "DYNAMIC_LIST" THEN DeserializeList(o, buf, offset)
    ELSE WithMembers(o, DeserializeMembers(o.members, buf, offset))

-----------------------------------------------------------------------------
(* ContractABITypeCodecLiquidImpl.  Numbers are not written (the code has a*)
(* TODO there), nor are the lengths of lists, strings and bytes, which are *)
(* numbers; decoding is written for bool and bytesN only.                  *)

RECURSIVE LiquidSerialize(_)
LiquidSerialize(o) ==
    CASE o.kind \in {"UINT", "INT"} -> <<>>
      [] IsLeaf(o) -> o.val
      [] OTHER -> FlattenSeq([i \in DOMAIN o.members |-> LiquidSerialize(o.members[i])])

LiquidReadBytesN(buf, offset, n) ==
    IF VerifyBufferOffset(buf, offset + n - 1) THEN CroppedData(buf, offset, n) ELSE THROW

LiquidDeserialize(o, buf, offset) ==
    CASE o.kind = "BOOL" ->
            IF VerifyBufferOffset(buf, offset)
            THEN [o EXCEPT !.val = <<IF CroppedData(buf, offset, 1) = <<0>> THEN 0 ELSE 1>>] ELSE THROW
      [] o.kind = "FIXED_BYTES" ->
            LET bs == LiquidReadBytesN(buf, offset, o.n)
            IN  IF bs = THROW \/ Len(bs) # o.n THEN THROW ELSE [o EXCEPT !.val = bs]
      [] o.kind \in {"UINT", "INT"} -> [o EXCEPT !.val = <<0>>]
      [] o.kind \in {"STRING", "DYNAMIC_BYTES"} -> [o EXCEPT !.val = <<>>]
      [] o.kind = "ADDRESS" -> THROW
      [] o.kind = "DYNAMIC_LIST" -> [o EXCEPT !.members = <<>>]
      [] o.kind \in {"FIXED_LIST", "STRUCT"} -> o
=============================================================================

----------------------------- MODULE AbiTemplate -----------------------------
(***************************************************************************)
(* The second implementation of the Solidity ABI in the repository,        *)
(* bcos-cpp-sdk/utilities/abi/solidity: a codec written with C++ templates *)
(* over std::array, std::vector and std::tuple, and its own parser of type *)
(* names.  An object of AbiType stands for the C++ value: "FIXED_LIST" for *)
(* std::array, "DYNAMIC_LIST" for std::vector (its first member is the     *)
(* element type), "STRUCT" for std::tuple.                                 *)
(***************************************************************************)
EXTENDS AbiCodec

-----------------------------------------------------------------------------
(* Traits.                                                                 *)

\* ABIDynamicType: strings, vectors and every tuple, and arrays of those.
RECURSIVE ABIDynamicType(_)
ABIDynamicType(o) ==
    \/ o.kind \in {"STRING", "DYNAMIC_BYTES", "DYNAMIC_LIST", "STRUCT"}
    \/ o.kind = "FIXED_LIST" /\ ABIDynamicType(o.members[1])

\* Length: the words of a type where it stands.
RECURSIVE WordLength(_)
WordLength(o) ==
    IF o.kind = "FIXED_LIST" /\ ~ABIDynamicType(o)
    THEN o.n * WordLength(o.members[1]) ELSE 1

\* Offset<T...>: the words of several types.
WordOffset(ms) == FoldLeft(LAMBDA n, m : n + WordLength(m), 0, ms)

-----------------------------------------------------------------------------
(* serialise.                                                              *)

ABIDynamicBefore(ms, out, i) ==
    FoldLeft(LAMBDA n, k : IF ABIDynamicType(ms[k]) THEN n + Len(out[k]) ELSE n,
             0, [k \in 1..(i - 1) |-> k])

\* Mutation: the offsets of a vector count from its length, as if that stood
\* among the elements.
VectorOffsetsShifted(ms, out) ==
    FlattenSeq([i \in DOMAIN ms |->
                IF ABIDynamicType(ms[i])
                THEN Word((Len(ms) + 1) * WordLen + ABIDynamicBefore(ms, out, i)) ELSE <<>>])
    \o FlattenSeq(out)

\* serialise(std::array) and serialise(std::vector), the latter after its size.
SerialiseElements(ms, out) ==
    FlattenSeq([i \in DOMAIN ms |->
                IF ABIDynamicType(ms[i])
                THEN Word(Len(ms) * WordLen + ABIDynamicBefore(ms, out, i)) ELSE <<>>])
    \o FlattenSeq(out)

\* Heads in place, offsets from `length` on for what is dynamic: the body of
\* serialise(std::tuple) and of abiInAux.
SerialiseHeads(ms, out, length) ==
    FlattenSeq([i \in DOMAIN ms |->
                IF ABIDynamicType(ms[i])
                THEN Word(length + ABIDynamicBefore(ms, out, i)) ELSE out[i]])
    \o FlattenSeq([i \in DOMAIN ms |-> IF ABIDynamicType(ms[i]) THEN out[i] ELSE <<>>])

\* serialise, of a value of one of the types that have one of their own: a UINT is
\* a u256.  (The generic serialise(T) writes nothing for uint8_t and uint32_t.)
RECURSIVE Serialise(_)
Serialise(o) ==
    IF IsLeaf(o) THEN Serialize(o)
    ELSE LET out == [i \in DOMAIN o.members |-> Serialise(o.members[i])]
         IN  CASE o.kind = "DYNAMIC_LIST" ->
                        Word(Len(out)) \o SerialiseElements(o.members, out)
               [] o.kind = "FIXED_LIST" -> SerialiseElements(o.members, out)
               \* One word is counted for every element of a tuple.
               [] o.kind = "STRUCT" ->
                        SerialiseHeads(o.members, out, Len(out) * WordLen)

\* abiIn without a signature: the arguments one after another.
AbiIn(args) ==
    SerialiseHeads(args, [i \in DOMAIN args |-> Serialise(args[i])],
                   WordOffset(args) * WordLen)

-----------------------------------------------------------------------------
(* deserialize.                                                            *)

\* The largest word that deserialize(s256&) takes for a positive number,
\* 0x8fff...f.
MaxPositive == (WordMod \div 16) * 9 - 1

ABILeaf(o, buf, offset) ==
    LET v == LeafContent(o, buf, offset)
        u == ReadWord(buf, offset)
    IN  IF v = THROW THEN THROW
        ELSE [o EXCEPT !.val =
                IF o.kind # "INT" THEN v ELSE <<IF u > MaxPositive THEN u - WordMod ELSE u>>]

RECURSIVE ABIDeserialize(_, _, _)

\* The i-th of several elements from `start` on: in place, or by an offset
\* that counts from `base`.
ABIElement(o, buf, start, base) ==
    LET value == ReadWord(buf, start)
    IN  IF ~ABIDynamicType(o) THEN ABIDeserialize(o, buf, start)
        ELSE IF value = THROW THEN THROW
        ELSE ABIDeserialize(o, buf, base + value)

ABIElements(ms, buf, offset) ==
    [i \in DOMAIN ms |->
        ABIElement(ms[i], buf, offset + WordOffset(SubSeq(ms, 1, i - 1)) * WordLen, offset)]

ABIDeserialize(o, buf, offset) ==
    IF IsLeaf(o) THEN ABILeaf(o, buf, offset)
    ELSE IF o.kind # "DYNAMIC_LIST" THEN WithMembers(o, ABIElements(o.members, buf, offset))
    ELSE LET size == ReadWord(buf, offset)
         IN  IF size = THROW THEN THROW
             ELSE WithMembers(o, ABIElements([i \in 1..size |-> o.members[1]],
                                             buf, offset + WordLen))

\* abiOut: FALSE in the code when something was thrown; otherwise the values.
AbiOut(args, buf) ==
    LET out == ABIElements(args, buf, 0)
    IN  IF Throws(out) THEN THROW ELSE out

\* abiOutByFuncSelector: by names of types, for four of them only ("int256" and
\* "uint256" are other names of the first two), one word each; false for any
\* other, also for integers of less bits, and an exception leaves it.
AbiOutByFuncSelector(types, buf) ==
    IF \E i \in DOMAIN types : types[i] \notin {<<"int">>, <<"uint">>, <<"address">>, <<"string">>}
    THEN THROW
    ELSE LET out == [i \in DOMAIN types |->
                        ABIElement(BuildBase(types[i]), buf, (i - 1) * WordLen, 0)]
         IN  IF Throws(out) THEN THROW ELSE out

-----------------------------------------------------------------------------
(* ABIInType.                                                              *)

\* getEnumType: the whole name has to be that of a type.
ValidEnumType(base) ==
    base \in {<<t>> : t \in {"bool", "address", "string", "bytes", "uint", "uint8",
                             "int", "bytes1", "bytes2"}}

AllDigits(ts) == \A i \in DOMAIN ts : ts[i] \in DOMAIN Digit

\* The loop of ABIInType::reset.
RECURSIVE InTypeExtents(_)
InTypeExtents(ts) ==
    IF ts = <<>> THEN <<>>
    ELSE LET l == FirstIndex(ts, "[")
             r == FirstIndex(ts, "]")
             digit == SubSeq(ts, l + 1, r - 1)
             rest == InTypeExtents(SubSeq(ts, r + 1, Len(ts)))
         IN  IF l = 0 \/ r = 0 \/ l >= r \/ ~AllDigits(digit) \/ rest = THROW THEN THROW
             ELSE <<IF digit = <<>> THEN 0 ELSE StoI(digit)>> \o rest

\* reset: FALSE in the code when the name is refused.
InTypeReset(type) ==
    LET l == FirstIndex(type, "[")
        n == IF l = 0 THEN Len(type) ELSE l - 1
        base == SubSeq(type, 1, n)
        extents == InTypeExtents(SubSeq(type, n + 1, Len(type)))
    IN  IF ~ValidEnumType(base) \/ extents = THROW THEN THROW
        ELSE [base |-> base, extents |-> extents]

\* dynamic(): a string, bytes, or an open dimension.
InTypeDynamic(h) ==
    h.base \in {<<"string">>, <<"bytes">>} \/ 0 \in ToSet(h.extents)

-----------------------------------------------------------------------------
(* Signatures.                                                             *)

\* boost::split at the commas.
RECURSIVE Split(_)
Split(ts) ==
    LET c == FirstIndex(ts, ",")
    IN  IF c = 0 THEN <<ts>>
        ELSE <<SubSeq(ts, 1, c - 1)>> \o Split(SubSeq(ts, c + 1, Len(ts)))

\* The names of types between the first left and the first right bracket, the
\* empty ones dropped; THROW when a bracket is missing or they are out of order.
ParamsOf(sig) ==
    LET l == FirstIndex(sig, "(")
        r == FirstIndex(sig, ")")
    IN  IF l = 0 \/ r = 0 \/ l >= r THEN THROW
        ELSE SelectSeq(Split(SubSeq(sig, l + 1, r - 1)), LAMBDA ts : ts # <<>>)

NameOf(sig) == SubSeq(sig, 1, FirstIndex(sig, "(") - 1)

\* ABIFunc::parser: FALSE in the code when a type is refused.
FuncParser(sig) ==
    LET types == ParamsOf(sig)
    IN  IF types = THROW THEN THROW
        ELSE IF \E i \in DOMAIN types : InTypeReset(types[i]) = THROW THEN THROW
        ELSE [name |-> NameOf(sig), types |-> types]

\* ContractABIDefinitionFactory::buildMethod(signature): a name is needed, and
\* tuples are refused; the types are not looked at.
BuildMethodBySignature(sig) ==
    LET types == ParamsOf(sig)
    IN  IF types = THROW THEN THROW
        ELSE IF NameOf(sig) = <<>> \/ "tuple" \in ToSet(FlattenSeq(types)) THEN THROW
        ELSE [name |-> NameOf(sig)[1], type |-> "function", outputs |-> <<>>,
              inputs |-> [i \in DOMAIN types |-> NamedType("", types[i], FALSE, <<>>)]]
=============================================================================

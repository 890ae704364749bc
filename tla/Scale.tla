------------------------------- MODULE Scale -------------------------------
(***************************************************************************)
(* The SCALE codec of bcos-cpp-sdk/utilities/abi/scale: an encoder stream, *)
(* to which values are appended, and a decoder stream over a span.  The    *)
(* operators << and >> of a C++ type are a record: the values of the type, *)
(* what << appends for each of them (or THROW) and what >> makes of each   *)
(* state of the stream.  Those of a template are made from those of its    *)
(* arguments, and Codec has them for every type up to a depth.             *)
(***************************************************************************)
EXTENDS ByteStream, FiniteSets

CONSTANTS
    WordBytes,    \* bytes of a u256 (32 in the code)
    MaxDepth      \* how deep templates are nested

ASSUME ScaleAssumption == WordBytes \in Nat \ {0} /\ MaxDepth \in Nat

-----------------------------------------------------------------------------
(* EncodingCategoryLimits, countBytes, compactLen.                         *)

kMinUint16 == 2 ^ (ByteBits - 2)
kMinUint32 == 2 ^ (2 * ByteBits - 2)
kMinBigInteger == 2 ^ (4 * ByteBits - 2)

\* The six upper bits of the header hold the number of bytes less four.
MaxBigBytes == 4 + kMinUint16 - 1

countBytes(v) == CHOOSE n \in 1..MaxBigBytes : v < Bytes(n) /\ (n = 1 \/ v >= Bytes(n - 1))

compactLen(v) ==
    IF v < kMinUint16 THEN 1
    ELSE IF v < kMinUint32 THEN 2
    ELSE IF v < kMinBigInteger THEN 4
    ELSE countBytes(v)

\* What the proofs need to know of powers, up to the longest number; the header
\* of a compact integer takes two bits of it.
ASSUME ScalePowersAssumption ==
    /\ \A n \in (0..7) \cup (0..WordBytes) \cup (0..MaxBigBytes) :
            Bytes(n) \in Nat \ {0} /\ Bytes(n + 1) = Bytes(n) * Bytes(1)
    /\ kMinUint16 \in Nat /\ 4 * kMinUint16 = Bytes(1)
    /\ kMinUint32 \in Nat /\ 4 * kMinUint32 = Bytes(2)
    /\ kMinBigInteger \in Nat /\ 4 * kMinBigInteger = Bytes(4)

-----------------------------------------------------------------------------
(* ScaleEncoderStream.                                                     *)

\* Mutation: the third category begins one too late.
EncodeCompactOffByOne(v) ==
    IF v < 0 \/ v >= Bytes(MaxBigBytes) THEN THROW
    ELSE IF v < kMinUint16 THEN LittleEndian(v * 4, 1)
    ELSE IF v <= kMinUint32 THEN LittleEndian(v * 4 + 1, 2)
    ELSE IF v < kMinBigInteger THEN LittleEndian(v * 4 + 2, 4)
    ELSE <<(countBytes(v) - 4) * 4 + 3>> \o LittleEndian(v, countBytes(v))

\* encodeCompactInteger: the two lowest bits name the category; a number that is
\* negative or has more than MaxBigBytes bytes is refused.
encodeCompactInteger(v) ==
    IF v < 0 \/ v >= Bytes(MaxBigBytes) THEN THROW
    ELSE IF v < kMinUint16 THEN LittleEndian(v * 4, 1)
    ELSE IF v < kMinUint32 THEN LittleEndian(v * 4 + 1, 2)
    ELSE IF v < kMinBigInteger THEN LittleEndian(v * 4 + 2, 4)
    ELSE <<(countBytes(v) - 4) * 4 + 3>> \o LittleEndian(v, countBytes(v))

\* OptionalBool: NoneValue 0, TrueValue 1, FalseValue 2.
encodeOptionalBool(v) == <<IF v = <<>> THEN 0 ELSE IF v[1] = 0 THEN 2 ELSE 1>>

\* Two values one after the other, unless writing one of them threw.
Written(a, b) == IF Fails(a) THEN a ELSE IF Fails(b) THEN b ELSE a \o b

EncodeEach(c, vs) ==
    LET upTo[k \in 0..Len(vs)] == IF k = 0 THEN <<>> ELSE Written(upTo[k - 1], c.enc[vs[k]])
    IN  upTo[Len(vs)]

\* encodeCollection: the number of items, then the items.
encodeCollection(c, items) == Written(encodeCompactInteger(Len(items)), EncodeEach(c, items))

\* A std::map is a set of pairs <<key, value>>, which is walked in the order of
\* the keys.
ByKey(m) ==
    LET Place(p) == Cardinality({q \in m : q[1] <= p[1]})
    IN  [i \in 1..Cardinality(m) |-> CHOOSE p \in m : Place(p) = i]

-----------------------------------------------------------------------------
(* ScaleDecoderStream: at bytes of the span have been read.                *)

Streams == [span : Seq(Nat), at : Nat]

\* Reading ended with an exception, or outside of the span.
Stopped(o) == Got(o, o)

\* One step of reading after another, unless the first did not end well.
AndThen(r, F(_)) == IF Fails(r.next) THEN r ELSE F(r)

\* The stream after reading up to i.
Behind(s, i) == [s EXCEPT !.at = i]

hasMore(s, n) == s.at + n <= Len(s.span)

nextByte(s) == IF hasMore(s, 1) THEN Got(s.span[s.at + 1], s.at + 1) ELSE Stopped(THROW)

NextBytes(s, n, otherwise) ==
    IF hasMore(s, n) THEN Got(SubSeq(s.span, s.at + 1, s.at + n), s.at + n)
    ELSE Stopped(otherwise)

\* n bytes without hasMore: the iterators of the span end the program when
\* they are moved behind its end.
Unchecked(s, n) == NextBytes(s, n, ABORT)
Checked(s, n) == NextBytes(s, n, THROW)

\* A number that was read, as an integer of n bytes.
AsNumber(v, n, signed) == IF signed THEN Signed(v, n) ELSE v

decodeInteger(t, s) ==
    AndThen(Checked(s, t.size), LAMBDA r :
        Got(AsNumber(FromLittleEndian(r.val), t.size, t.signed), r.next))

decodeCompactInteger(s) ==
    AndThen(nextByte(s), LAMBDA first :
        LET flag == first.val % 4
            after == Behind(s, first.next)
            Rest(n) == AndThen(Checked(after, n), LAMBDA r :
                            Got(FromLittleEndian(<<first.val>> \o r.val) \div 4, r.next))
        IN  CASE flag = 0 -> Rest(0)
              [] flag = 1 -> Rest(1)
              [] flag = 2 -> Rest(3)
              [] flag = 3 ->
                    AndThen(Checked(after, first.val \div 4 + 4), LAMBDA r :
                            Got(FromLittleEndian(r.val), r.next)))

decodeBool(s) == AndThen(nextByte(s), LAMBDA r : IF r.val \in {0, 1} THEN r ELSE Stopped(THROW))

decodeOptionalBool(s) ==
    AndThen(nextByte(s), LAMBDA r :
        CASE r.val = 0 -> Got(<<>>, r.next)
          [] r.val = 1 -> Got(<<1>>, r.next)
          [] r.val = 2 -> Got(<<0>>, r.next)
          [] OTHER -> Stopped(THROW))

\* n items one after another.
DecodeEach(c, n, s) ==
    LET upTo[k \in 0..n] ==
            IF k = 0 THEN Got(<<>>, s.at)
            ELSE AndThen(upTo[k - 1], LAMBDA a :
                    AndThen(c.dec[Behind(s, a.next)], LAMBDA r :
                            Got(Append(a.val, r.val), r.next)))
    IN  upTo[n]

DecodeCollection(c, s) ==
    AndThen(decodeCompactInteger(s), LAMBDA size :
        DecodeEach(c, size.val, Behind(s, size.next)))

\* A vector of bytes is copied at once, any other one item after another.
IsByte(t) == t.t = "bool" \/ (t.t = "int" /\ t.size = 1)

ByteAs(t, b) == IF t.t = "bool" THEN (IF b = 0 THEN 0 ELSE 1) ELSE AsNumber(b, 1, t.signed)

DecodeBytes(t, s) ==
    AndThen(decodeCompactInteger(s), LAMBDA size :
        AndThen(Unchecked(Behind(s, size.next), size.val), LAMBDA r :
            Got([k \in DOMAIN r.val |-> ByteAs(t, r.val[k])], r.next)))

\* emplace: of two items with the same key the first is kept.
Emplaced(pairs) ==
    {pairs[i] : i \in {k \in DOMAIN pairs : \A j \in 1..(k - 1) : pairs[j][1] # pairs[k][1]}}

DecodeU256(t, s) ==
    AndThen(Unchecked(s, WordBytes), LAMBDA r :
        Got(AsNumber(FromBigEndian(r.val), WordBytes, t.t = "s256"), r.next))

-----------------------------------------------------------------------------
(* The operators of each type.                                             *)

Operators(vals, Enc(_), Dec(_)) ==
    [val |-> vals, enc |-> [v \in vals |-> Enc(v)], dec |-> [s \in Streams |-> Dec(s)]]

\* The numbers an integer of n bytes can hold.
NumbersOf(n, signed) ==
    {v \in Int : IF signed THEN -(Bytes(n) \div 2) <= v /\ v < Bytes(n) \div 2
                 ELSE 0 <= v /\ v < Bytes(n)}

BoolCodec == Operators({0, 1}, LAMBDA v : <<v>>, decodeBool)

IntCodec(t) ==
    Operators(NumbersOf(t.size, t.signed), LAMBDA v : LittleEndian(v, t.size),
              LAMBDA s : decodeInteger(t, s))

CompactCodec == Operators(Int, encodeCompactInteger, decodeCompactInteger)

WordCodec(t) ==
    Operators(NumbersOf(WordBytes, t.t = "s256"), LAMBDA v : BigEndian(v, WordBytes),
              LAMBDA s : DecodeU256(t, s))

NumberCodec(t) ==
    CASE t.t = "bool" -> BoolCodec
      [] t.t = "int" -> IntCodec(t)
      [] t.t = "compact" -> CompactCodec
      [] t.t \in {"u256", "s256"} -> WordCodec(t)

\* A std::tuple is the pair of its first element and the tuple of the others,
\* down to the one without elements.
EmptyCodec == Operators({<<>>}, LAMBDA v : <<>>, LAMBDA s : Got(<<>>, s.at))

PairCodec(c, d) ==
    Operators(c.val \X d.val, LAMBDA v : Written(c.enc[v[1]], d.enc[v[2]]),
              LAMBDA s : AndThen(c.dec[s], LAMBDA a :
                            AndThen(d.dec[Behind(s, a.next)], LAMBDA b :
                                Got(<<a.val, b.val>>, b.next))))

\* Something or nothing: a sequence of at most one value.
AtMostOne(S) == {v \in Seq(S) : Len(v) <= 1}

\* boost::optional; an optional bool takes one byte.
OptionalBoolCodec == Operators(AtMostOne({0, 1}), encodeOptionalBool, decodeOptionalBool)

OptionalCodec(c) ==
    Operators(AtMostOne(c.val),
              LAMBDA v : IF v = <<>> THEN <<0>> ELSE Written(<<1>>, c.enc[v[1]]),
              LAMBDA s : AndThen(decodeBool(s), LAMBDA has :
                            IF has.val = 0 THEN Got(<<>>, has.next)
                            ELSE AndThen(c.dec[Behind(s, has.next)], LAMBDA r :
                                    Got(<<r.val>>, r.next))))

ByteVectorCodec(t) ==
    Operators(Seq(NumberCodec(t).val), LAMBDA v : encodeCollection(NumberCodec(t), v),
              LAMBDA s : DecodeBytes(t, s))

VectorCodec(c) ==
    Operators(Seq(c.val), LAMBDA v : encodeCollection(c, v), LAMBDA s : DecodeCollection(c, s))

ArrayCodec(c, n) ==
    Operators([1..n -> c.val], LAMBDA v : EncodeEach(c, v), LAMBDA s : DecodeEach(c, n, s))

\* The std::maps from the values of c to those of d.
Maps(c, d) ==
    {m \in SUBSET (c.val \X d.val) :
        IsFiniteSet(m) /\ \A p, q \in m : p[1] = q[1] => p = q}

MapCodec(c, d) ==
    Operators(Maps(c, d), LAMBDA m : encodeCollection(PairCodec(c, d), ByKey(m)),
              LAMBDA s : AndThen(DecodeCollection(PairCodec(c, d), s), LAMBDA r :
                            Got(Emplaced(r.val), r.next)))

\* boost::variant: <<which, value>>, which counted from 0.
Alternatives(cs) ==
    LET upTo[k \in 0..Len(cs)] ==
            IF k = 0 THEN {} ELSE upTo[k - 1] \cup ({k - 1} \X cs[k].val)
    IN  upTo[Len(cs)]

VariantCodec(cs) ==
    Operators(Alternatives(cs),
              LAMBDA v : Written(<<v[1]>>, cs[v[1] + 1].enc[v[2]]),
              LAMBDA s : AndThen(nextByte(s), LAMBDA which :
                            IF which.val >= Len(cs) THEN Stopped(THROW)
                            ELSE AndThen(cs[which.val + 1].dec[Behind(s, which.next)], LAMBDA r :
                                    Got(<<which.val, r.val>>, r.next))))

\* std::shared_ptr and std::unique_ptr: a null pointer is not written.
PointerCodec(c) ==
    Operators(AtMostOne(c.val), LAMBDA v : IF v = <<>> THEN THROW ELSE c.enc[v[1]],
              LAMBDA s : AndThen(c.dec[s], LAMBDA r : Got(<<r.val>>, r.next)))

-----------------------------------------------------------------------------
(* The types, and their operators.                                         *)

NumberTypes ==
    [t : {"bool", "compact", "u256", "s256"}]
    \cup [t : {"int"}, size : {1, 2, 4, 8}, signed : BOOLEAN]

\* The types made of those of T in one step.  << finds the alternative of a variant
\* by its type, so that no two are the same.
TypesOver(T) ==
    NumberTypes \cup [t : {"empty"}]
    \cup [t : {"optional", "vector", "pointer"}, of : T]
    \cup [t : {"array"}, n : Nat, of : T]
    \cup [t : {"pair"}, first : T, second : T]
    \cup [t : {"map"}, key : NumberTypes, of : T]
    \cup [t : {"variant"}, of : {ts \in Seq(T) : Len(ts) <= Bytes(1) /\ IsInjective(ts)}]

\* The templates, given the operators of the types they may be made of.
Templates(codec) ==
    [t \in TypesOver(DOMAIN codec) |->
        CASE t \in NumberTypes -> NumberCodec(t)
          [] t.t = "empty" -> EmptyCodec
          [] t.t = "optional" ->
                IF t.of.t = "bool" THEN OptionalBoolCodec ELSE OptionalCodec(codec[t.of])
          [] t.t = "vector" ->
                IF IsByte(t.of) THEN ByteVectorCodec(t.of) ELSE VectorCodec(codec[t.of])
          [] t.t = "pointer" -> PointerCodec(codec[t.of])
          [] t.t = "array" -> ArrayCodec(codec[t.of], t.n)
          [] t.t = "pair" -> PairCodec(codec[t.first], codec[t.second])
          [] t.t = "map" -> MapCodec(NumberCodec(t.key), codec[t.of])
          [] t.t = "variant" -> VariantCodec([i \in DOMAIN t.of |-> codec[t.of[i]]])]

Codec[depth \in 0..MaxDepth] == Templates(IF depth = 0 THEN <<>> ELSE Codec[depth - 1])

ScaleEncode(t, v) == Codec[MaxDepth][t].enc[v]
ScaleDecode(t, span) == Codec[MaxDepth][t].dec[[span |-> span, at |-> 0]]
=============================================================================

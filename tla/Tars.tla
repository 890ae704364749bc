-------------------------------- MODULE Tars --------------------------------
(***************************************************************************)
(* The Tars encoding of transactions and receipts, tars/tup/Tars.h: every  *)
(* field carries a head with its type and its tag, tags ascend, and fields *)
(* a reader does not know are skipped.                                     *)
(*                                                                         *)
(* A head takes one cell of the buffer, of 4 bits for the type and 4 for   *)
(* the tag; every other byte has ByteBits bits.                            *)
(***************************************************************************)
EXTENDS ByteStream

CONSTANT MaxStringLength    \* TARS_MAX_STRING_LENGTH

TarsHeadeChar == 0
TarsHeadeShort == 1
TarsHeadeInt32 == 2
TarsHeadeInt64 == 3
TarsHeadeFloat == 4
TarsHeadeDouble == 5
TarsHeadeString1 == 6
TarsHeadeString4 == 7
TarsHeadeMap == 8
TarsHeadeList == 9
TarsHeadeStructBegin == 10
TarsHeadeStructEnd == 11
TarsHeadeZeroTag == 12
TarsHeadeSimpleList == 13

\* The number types that are written as they are, and the head of their own
\* width; the others are written as the next wider one.
NumberHead == [Char |-> 0, Short |-> 1, Int32 |-> 2, Int64 |-> 3]
WrittenAs ==
    [Bool |-> "Char", UInt8 |-> "Short", UInt16 |-> "Int32", UInt32 |-> "Int64", Enum |-> "Int32"]

Width(head) == 2 ^ head     \* bytes of a Char, Short, Int32 and Int64

\* What a number read as the wider type becomes.
Narrow(k, n) ==
    CASE k = "Bool" -> IF n = 0 THEN 0 ELSE 1
      [] k = "UInt8" -> n % Bytes(1)
      [] k = "UInt16" -> n % Bytes(2)
      [] k = "UInt32" -> n % Bytes(4)
      [] k = "Enum" -> n

-----------------------------------------------------------------------------
(* TarsOutputStream.                                                       *)

\* TarsWriteToHead.
WriteHead(type, tag) == IF tag < 15 THEN <<type + 16 * tag>> ELSE <<type + 240, tag>>

\* write(Int64), write(Int32), write(Short), write(Char): the narrowest that
\* holds the number, and nothing but a head for zero.
WriteNumber(k, n, tag) ==
    LET fits == {h \in 0..NumberHead[k] :
                    /\ n >= -(Bytes(Width(h)) \div 2)
                    /\ n <= Bytes(Width(h)) \div 2 - 1}
        h == CHOOSE x \in fits : \A y \in fits : x <= y
    IN  IF n = 0 THEN WriteHead(TarsHeadeZeroTag, tag)
        ELSE WriteHead(h, tag) \o BigEndian(n, Width(h))

WriteString(s, tag) ==
    IF Len(s) <= Bytes(1) - 1
    THEN WriteHead(TarsHeadeString1, tag) \o <<Len(s)>> \o s
    ELSE IF Len(s) > MaxStringLength THEN THROW
    ELSE WriteHead(TarsHeadeString4, tag) \o BigEndian(Len(s), 4) \o s

\* A vector<Char>, and a char* of a given length.
WriteBytes(bs, tag) ==
    WriteHead(TarsHeadeSimpleList, tag) \o WriteHead(TarsHeadeChar, 0)
    \o WriteNumber("Int32", Len(bs), 0) \o bs

RECURSIVE WriteField(_, _, _)

\* A vector, a set in its order, and an array of structs.
WriteList(t, items, tag) ==
    Joined(<<WriteHead(TarsHeadeList, tag), WriteNumber("Int32", Len(items), 0)>>
           \o [i \in DOMAIN items |-> WriteField(t.of, items[i], 0)])

WriteMap(t, m, tag) ==
    LET items == InOrder(m)
    IN  Joined(<<WriteHead(TarsHeadeMap, tag), WriteNumber("Int32", Len(items), 0)>>
               \o [i \in DOMAIN items |->
                    Joined(<<WriteField(t.key, items[i][1], 0),
                             WriteField(t.of, items[i][2], 1)>>)])

\* writeTo of a struct: a member with always = FALSE is left out when it has
\* its default value.
WriteMembers(t, v) ==
    Joined([i \in DOMAIN t.members |->
        IF ~t.members[i].always /\ v[i] = t.members[i].type.default THEN <<>>
        ELSE WriteField(t.members[i].type, v[i], t.members[i].tag)])

WriteStruct(t, v, tag) ==
    Joined(<<WriteHead(TarsHeadeStructBegin, tag), WriteMembers(t, v),
             WriteHead(TarsHeadeStructEnd, 0)>>)

WriteField(t, v, tag) ==
    CASE t.k \in DOMAIN NumberHead -> WriteNumber(t.k, v, tag)
      [] t.k \in DOMAIN WrittenAs -> WriteNumber(WrittenAs[t.k], v, tag)
      [] t.k = "Float" -> WriteHead(TarsHeadeFloat, tag) \o BigEndian(v, 4)
      [] t.k = "Double" -> WriteHead(TarsHeadeDouble, tag) \o BigEndian(v, 8)
      [] t.k = "String" -> WriteString(v, tag)
      [] t.k \in {"Bytes", "CharBuffer"} -> WriteBytes(v, tag)
      [] t.k \in {"Vector", "Array"} -> WriteList(t, v, tag)
      [] t.k = "Set" -> WriteList(t, SetToSortSeq(v, LAMBDA a, b : a < b), tag)
      [] t.k = "Map" -> WriteMap(t, v, tag)
      [] t.k = "Struct" -> WriteStruct(t, v, tag)

-----------------------------------------------------------------------------
(* BufferReader.  A stream is its buffer, _cur, which may lie behind the   *)
(* end, what was read last, and whether an exception is on its way: then   *)
(* every operation leaves the stream where it was thrown.                  *)

Stream(buf) == [buf |-> buf, cur |-> 0, ok |-> TRUE, val |-> <<>>]

Gives(s, v) == [s EXCEPT !.val = v]
Throws(s) == [s EXCEPT !.ok = FALSE, !.val = THROW]
Skips(s, n) == [s EXCEPT !.cur = @ + n]

\* Mutation: what is left of the buffer is taken.
ReadWhatIsLeft(s, n) ==
    IF ~s.ok THEN s
    ELSE [s EXCEPT !.cur = IF @ + n > Len(s.buf) THEN Len(s.buf) ELSE @ + n,
                   !.val = SubSeq(s.buf, s.cur + 1,
                                  IF s.cur + n > Len(s.buf) THEN Len(s.buf) ELSE s.cur + n)]

\* TarsReadTypeBuf, TarsReadStringBuf and readBuf: n bytes that have to be there.
ReadBuf(s, n) ==
    IF ~s.ok THEN s
    ELSE IF s.cur + n > Len(s.buf) THEN Throws(s)
    ELSE Gives(Skips(s, n), SubSeq(s.buf, s.cur + 1, s.cur + n))

\* The head in a cell, with the tag in the next one if it does not fit.
HeadIn(cell, next) ==
    [type |-> cell % 16, tag |-> IF cell \div 16 = 15 THEN next ELSE cell \div 16]

\* TarsPeekFromHead and readFromHead.
ReadHead(s) ==
    IF ~s.ok THEN s
    ELSE IF s.cur + 1 > Len(s.buf) THEN Throws(s)
    ELSE IF s.buf[s.cur + 1] \div 16 # 15 THEN Gives(Skips(s, 1), HeadIn(s.buf[s.cur + 1], 0))
    ELSE IF s.cur + 2 > Len(s.buf) THEN Throws(s)
    ELSE Gives(Skips(s, 2), HeadIn(s.buf[s.cur + 1], s.buf[s.cur + 2]))

-----------------------------------------------------------------------------
(* skipField: what is skipped is only looked at where it has a length, and *)
(* the position is moved without asking whether the buffer is that long.   *)

RECURSIVE ReadSize(_), SkipFields(_, _), SkipField(_, _), SkipToStructEnd(_)

\* The value read is a number of bytes, or of fields, to pass over.
SkipBytes(r) == IF r.ok THEN Skips(r, r.val) ELSE r
SkipString(r) == IF r.ok THEN Skips(r, FromBigEndian(r.val)) ELSE r
SkipItems(k, r) == IF r.ok THEN SkipFields((k * r.val) % Bytes(4), r) ELSE r

\* A simple list has Chars.
OfChars(h) == IF h.ok /\ h.val.type # TarsHeadeChar THEN Throws(h) ELSE h

SkipHeaded(h) == IF h.ok THEN SkipField(h.val.type, h) ELSE h

\* n fields with their heads.
SkipFields(n, s) == IF n = 0 \/ ~s.ok THEN s ELSE SkipFields(n - 1, SkipHeaded(ReadHead(s)))

SkipMember(h) ==
    IF ~h.ok \/ h.val.type = TarsHeadeStructEnd THEN h ELSE SkipToStructEnd(SkipField(h.val.type, h))

SkipToStructEnd(s) == SkipMember(ReadHead(s))

\* Mutation: of a map as many fields are skipped as it has keys.
OneFieldEach(type) == 1

\* The fields of an item: a key and a value in a map.
FieldsPerItem(type) == IF type = TarsHeadeMap THEN 2 ELSE 1

SkipField(type, s) ==
    CASE type \in 0..3 -> Skips(s, Width(type))
      [] type = TarsHeadeFloat -> Skips(s, 4)
      [] type = TarsHeadeDouble -> Skips(s, 8)
      [] type = TarsHeadeString1 -> SkipString(ReadBuf(s, 1))
      [] type = TarsHeadeString4 -> SkipString(ReadBuf(s, 4))
      [] type \in {TarsHeadeMap, TarsHeadeList} ->
            SkipItems(FieldsPerItem(type), ReadSize(s))
      [] type = TarsHeadeSimpleList -> SkipBytes(ReadSize(OfChars(ReadHead(s))))
      [] type = TarsHeadeStructBegin -> SkipToStructEnd(s)
      [] type \in {TarsHeadeStructEnd, TarsHeadeZeroTag} -> s
      [] OTHER -> Throws(s)

-----------------------------------------------------------------------------
(* TarsSkipToTag: the type of the field with that tag, or -1.  An exception *)
(* on the way there is taken for a field that is not there.                *)

RECURSIVE SkipToTag(_, _)

NotThere(s) == [s EXCEPT !.ok = TRUE, !.val = -1]

PastField(tag, r) == IF r.ok THEN SkipToTag(tag, r) ELSE NotThere(r)

\* At s a field with the head h.
AtField(tag, s, h) ==
    IF ~h.ok THEN NotThere(s)
    ELSE IF h.val.type = TarsHeadeStructEnd \/ tag < h.val.tag THEN NotThere(s)
    ELSE IF tag = h.val.tag THEN Gives(h, h.val.type)
    ELSE PastField(tag, SkipField(h.val.type, h))

SkipToTag(tag, s) ==
    IF ~s.ok THEN s
    ELSE IF s.cur >= Len(s.buf) THEN NotThere(s)
    ELSE AtField(tag, s, ReadHead(s))

-----------------------------------------------------------------------------
(* TarsInputStream::read, of a field whose head has been read: r gives its *)
(* type.                                                                   *)

\* Big endian numbers are signed ones.
SignedOf(r) == IF r.ok THEN Gives(r, Signed(FromBigEndian(r.val), Len(r.val))) ELSE r

\* A number of the head's width, no wider than the type.
ReadNumber(k, r) ==
    IF r.val = TarsHeadeZeroTag THEN Gives(r, 0)
    ELSE IF r.val \notin 0..NumberHead[k] THEN Throws(r)
    ELSE SignedOf(ReadBuf(r, Width(r.val)))

Narrowed(k, r) == IF r.ok THEN Gives(r, Narrow(k, r.val)) ELSE r

ReadReal(widths, r) ==
    IF r.val = TarsHeadeZeroTag THEN Gives(r, 0)
    ELSE IF r.val \notin DOMAIN widths THEN Throws(r)
    ELSE SignedOf(ReadBuf(r, widths[r.val]))

\* A size in front of the items: read(UInt32, 0), required.
SizeFound(r) ==
    IF ~r.ok THEN r ELSE IF r.val = -1 THEN Throws(r) ELSE Narrowed("UInt32", ReadNumber("Int64", r))
ReadSize(s) == SizeFound(SkipToTag(0, s))

StringOf(n) ==
    IF ~n.ok THEN n
    ELSE IF Len(n.val) = 4 /\ FromBigEndian(n.val) > MaxStringLength THEN Throws(n)
    ELSE ReadBuf(n, FromBigEndian(n.val))

ReadString(r) ==
    IF r.val \notin {TarsHeadeString1, TarsHeadeString4} THEN Throws(r)
    ELSE StringOf(ReadBuf(r, IF r.val = TarsHeadeString1 THEN 1 ELSE 4))

\* The bytes of a simple list, no more than max.
BytesOf(max, n) == IF n.ok /\ n.val > max THEN Throws(n) ELSE ReadBuf(n, n.val)
ReadSimpleList(max, s) == BytesOf(max, ReadSize(OfChars(ReadHead(s))))

-----------------------------------------------------------------------------

RECURSIVE ReadField(_, _, _, _), ReadMembers(_, _, _)

\* readFrom of a struct: every member in turn, from its default.
NextMember(ms, done, r) == IF r.ok THEN ReadMembers(ms, Append(done, r.val), r) ELSE r
ReadMembers(ms, done, s) ==
    IF ms = <<>> THEN Gives(s, done)
    ELSE NextMember(Tail(ms), done, ReadField(Head(ms).type, Head(ms).tag, Head(ms).require, s))

\* The items of a container, all of them required: of a map a key with the tag
\* 0 and a value with the tag 1 in turn.
Item(t, tag) == [type |-> t, tag |-> tag, require |-> TRUE]
ItemsOf(t, n) ==
    IF t.k = "Map" THEN [i \in 1..(2 * n) |-> IF i % 2 = 1 THEN Item(t.key, 0) ELSE Item(t.of, 1)]
    ELSE [i \in 1..n |-> Item(t.of, 0)]

\* A size that the whole buffer could not hold is refused before the items.
ReadItems(t, n) ==
    IF ~n.ok THEN n
    ELSE IF n.val > Len(n.buf) THEN Throws(n)
    ELSE ReadMembers(ItemsOf(t, n.val), <<>>, n)

ReadVector(t, r) == IF r.val # TarsHeadeList THEN Throws(r) ELSE ReadItems(t, ReadSize(r))

\* A vector<Char> is read from a simple list or from a list of Chars.
ReadBytes(r) ==
    IF r.val = TarsHeadeSimpleList THEN ReadSimpleList(Len(r.buf), r)
    ELSE ReadVector([k |-> "Vector", of |-> [k |-> "Char", default |-> 0]], r)

\* A map takes the first item of a key.
AsPairs(r) ==
    IF ~r.ok THEN r
    ELSE Gives(r, AsMap([i \in 1..(Len(r.val) \div 2) |-> <<r.val[2 * i - 1], r.val[2 * i]>>]))
ReadMap(t, r) == IF r.val # TarsHeadeMap THEN Throws(r) ELSE AsPairs(ReadItems(t, ReadSize(r)))

\* What is read is added to the set.
AddedTo(set, r) == IF r.ok THEN Gives(r, set \cup ToSet(r.val)) ELSE r
ReadSet(t, r) == AddedTo(t.default, ReadVector(t, r))

\* To an array of n structs as many are written as were sent.
WithinArray(n, r) == IF r.ok /\ Len(r.val) > n THEN [Throws(r) EXCEPT !.val = ABORT] ELSE r
ReadArray(t, r) == WithinArray(t.n, ReadVector(t, r))

\* A char* of t.n bytes.
ReadCharBuffer(t, r) ==
    IF r.val # TarsHeadeSimpleList THEN Throws(r) ELSE ReadSimpleList(t.n, r)

Ended(v, e) == IF e.ok THEN Gives(e, v) ELSE e
ToItsEnd(r) == IF r.ok THEN Ended(r.val, SkipToStructEnd(r)) ELSE r
ReadStruct(t, r) ==
    IF r.val # TarsHeadeStructBegin THEN Throws(r) ELSE ToItsEnd(ReadMembers(t.members, <<>>, r))

ReadFound(t, r) ==
    CASE t.k \in DOMAIN NumberHead -> ReadNumber(t.k, r)
      [] t.k \in DOMAIN WrittenAs -> Narrowed(t.k, ReadNumber(WrittenAs[t.k], r))
      [] t.k = "Float" -> ReadReal(4 :> 4, r)
      [] t.k = "Double" -> ReadReal(4 :> 4 @@ 5 :> 8, r)
      [] t.k = "String" -> ReadString(r)
      [] t.k = "CharBuffer" -> ReadCharBuffer(t, r)
      [] t.k = "Bytes" -> ReadBytes(r)
      [] t.k = "Vector" -> ReadVector(t, r)
      [] t.k = "Array" -> ReadArray(t, r)
      [] t.k = "Set" -> ReadSet(t, r)
      [] t.k = "Map" -> ReadMap(t, r)
      [] t.k = "Struct" -> ReadStruct(t, r)

\* A field that is not there keeps its default (an enum becomes 0), or throws
\* when it is required.
ReadIfThere(t, require, r) ==
    IF r.val # -1 THEN ReadFound(t, r)
    ELSE IF require THEN Throws(r)
    ELSE Gives(r, IF t.k = "Enum" THEN 0 ELSE t.default)

ReadField(t, tag, require, s) == ReadIfThere(t, require, SkipToTag(tag, s))

\* A struct alone in a buffer, as the builders read and write it.
TarsEncode(t, v) == WriteMembers(t, v)
TarsDecode(t, buf) == ReadMembers(t.members, <<>>, Stream(buf)).val
=============================================================================

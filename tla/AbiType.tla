------------------------------ MODULE AbiType ------------------------------
(***************************************************************************)
(* Typed values of a contract's ABI (bcos-cpp-sdk/utilities/abi):          *)
(* AbstractType and its classes, the parser of type names (NamedTypeHelper)*)
(* and the factory that builds a value from a declaration.                 *)
(*                                                                         *)
(* A value is a record that carries its type, as an object of the code     *)
(* does: a leaf has a content `val`, a sequence of numbers; a list, array  *)
(* or struct has `members`.  A word of the ABI has WordLen bytes and a     *)
(* byte ByteSize values (32 and 256 in the code); an address has one byte  *)
(* less than a word, so that it is padded.  A C++ exception is the value   *)
(* THROW.  A type name is a sequence of tokens: <<"int", "[", "2", "]">>.  *)
(***************************************************************************)
EXTENDS Integers, Sequences, SequencesExt

CONSTANTS
    WordLen,     \* bytes of a word, MAX_BYTE_LENGTH
    ByteSize,    \* values of a byte
    THROW        \* an exception was thrown

WordMod == ByteSize ^ WordLen
AddrLen == WordLen - 1

Throws(s) == \E i \in DOMAIN s : s[i] = THROW

-----------------------------------------------------------------------------
(* The classes of ContractABIType.h.  A fresh object has no name.          *)

Leaf(kind, n, v) == [kind |-> kind, n |-> n, val |-> v, name |-> ""]
Node(kind, n, ms) == [kind |-> kind, n |-> n, members |-> ms, name |-> ""]

IsLeaf(o) == o.kind \notin {"FIXED_LIST", "DYNAMIC_LIST", "STRUCT"}

VerifyExtent(n) == n >= 1 /\ n <= 8 * WordLen /\ n % 8 = 0

Uint(n, u) == IF VerifyExtent(n) THEN Leaf("UINT", n, <<u>>) ELSE THROW
Sint(n, i) == IF VerifyExtent(n) THEN Leaf("INT", n, <<i>>) ELSE THROW
Boolean(b) == Leaf("BOOL", 0, <<b>>)
DynamicBytes(bs) == Leaf("DYNAMIC_BYTES", 0, bs)
Addr(a) == Leaf("ADDRESS", 0, a)
String(s) == Leaf("STRING", 0, s)

\* FixedBytes::verify: `checked` is FALSE for an object without content.
FixedBytes(n, bs, checked) ==
    IF n = 0 \/ n > WordLen \/ (checked /\ Len(bs) # n)
    THEN THROW ELSE Leaf("FIXED_BYTES", n, bs)

FixedList(n, ms) == Node("FIXED_LIST", n, ms)
DynamicList(ms) == Node("DYNAMIC_LIST", 0, ms)
Struct(ms) == Node("STRUCT", 0, ms)

RECURSIVE DynamicType(_)
DynamicType(o) ==
    \/ o.kind \in {"STRING", "DYNAMIC_BYTES", "DYNAMIC_LIST"}
    \/ o.kind = "FIXED_LIST" /\ DynamicType(o.members[1])
    \/ o.kind = "STRUCT" /\ \E i \in DOMAIN o.members : DynamicType(o.members[i])

\* The bytes a value takes where it stands: its content, or an offset.
RECURSIVE OffsetAsBytes(_)
OffsetAsBytes(o) ==
    IF IsLeaf(o) \/ DynamicType(o) THEN WordLen
    ELSE IF o.kind = "FIXED_LIST" THEN Len(o.members) * OffsetAsBytes(o.members[1])
    ELSE FoldLeft(LAMBDA n, m : n + OffsetAsBytes(m), 0, o.members)

\* clone() builds a new object from the content: a FixedBytes is verified, and
\* one that has no content yet cannot be cloned.
RECURSIVE Clone(_)
Clone(o) ==
    IF o.kind = "FIXED_BYTES" /\ FixedBytes(o.n, o.val, TRUE) = THROW THEN THROW
    ELSE IF IsLeaf(o) THEN o
    ELSE LET ms == [i \in DOMAIN o.members |-> Clone(o.members[i])]
         IN  IF Throws(ms) THEN THROW ELSE [o EXCEPT !.members = ms]

\* isEqual compares class, content and, for an array, the dimension; it looks
\* neither at names nor at the extent of an integer.
RECURSIVE IsEqual(_, _)
IsEqual(o, p) ==
    /\ o.kind = p.kind
    /\ IF IsLeaf(o) THEN o.val = p.val
       ELSE /\ o.kind = "FIXED_LIST" => o.n = p.n
            /\ Len(o.members) = Len(p.members)
            /\ \A i \in DOMAIN o.members : IsEqual(o.members[i], p.members[i])

\* toJson: a number is written in decimal (a text of one symbol), bytes in
\* hexadecimal with the prefix "hex://", and a struct as an array.
Json(kind, v) == [json |-> kind, val |-> v]
JsonText(form, v) == [json |-> "string", form |-> form, val |-> v]
JsonArray(es) == [json |-> "array", elems |-> es]

\* Mutation: bytes are written without their prefix.
BareBytes(bs) == JsonText("raw", bs)

PrefixedBytes(bs) == JsonText("hex://", bs)

RECURSIVE ToJson(_)
ToJson(o) ==
    CASE o.kind = "BOOL" -> Json("boolean", o.val[1])
      [] o.kind \in {"UINT", "INT", "STRING"} -> JsonText("raw", o.val)
      [] o.kind = "ADDRESS" -> JsonText("raw", o.val)
      [] o.kind \in {"FIXED_BYTES", "DYNAMIC_BYTES"} -> PrefixedBytes(o.val)
      [] OTHER -> JsonArray([i \in DOMAIN o.members |-> ToJson(o.members[i])])

\* clear(): the content goes, the shape stays; a list keeps its members.
RECURSIVE Clear(_)
Clear(o) ==
    CASE o.kind \in {"UINT", "INT", "BOOL"} -> [o EXCEPT !.val = <<0>>]
      [] IsLeaf(o) -> [o EXCEPT !.val = <<>>]
      [] OTHER -> [o EXCEPT !.members = [i \in DOMAIN o.members |-> Clear(o.members[i])]]

-----------------------------------------------------------------------------
(* NamedType and NamedTypeHelper.                                          *)

\* A declaration: `components` are the members of a tuple.
NamedType(name, type, indexed, components) ==
    [name |-> name, type |-> type, indexed |-> indexed, components |-> components]

Digit == [d \in {"0", "1", "2", "3"} |->
            CASE d = "0" -> 0 [] d = "1" -> 1 [] d = "2" -> 2 [] OTHER -> 3]

FirstIndex(s, x) == SelectInSeq(s, LAMBDA y : y = x)

\* std::stoi: the digits in front, whatever follows; none is an exception.
StoI(ts) ==
    LET digits == {n \in 0..Len(ts) : \A i \in 1..n : ts[i] \in DOMAIN Digit}
        n == CHOOSE m \in digits : \A k \in digits : k <= m
    IN  IF n = 0 THEN THROW
        ELSE FoldLeft(LAMBDA a, d : 10 * a + Digit[d], 0, SubSeq(ts, 1, n))

\* The loop of NamedTypeHelper::reset over what follows the base type: what
\* stands between a right and the next left bracket is skipped.
RECURSIVE ResetExtents(_)
ResetExtents(ts) ==
    IF ts = <<>> THEN <<>>
    ELSE LET l == FirstIndex(ts, "[")
             r == FirstIndex(ts, "]")
             digit == SubSeq(ts, l + 1, r - 1)
             extent == IF digit = <<>> THEN 0 ELSE StoI(digit)
             rest == ResetExtents(SubSeq(ts, r + 1, Len(ts)))
         IN  IF l = 0 \/ r = 0 \/ l >= r \/ extent = THROW \/ rest = THROW
             THEN THROW ELSE <<extent>> \o rest

\* reset: the base type (everything before the first bracket) and the extents,
\* 0 for an open dimension.
Reset(type) ==
    LET l == FirstIndex(type, "[")
        n == IF l = 0 THEN Len(type) ELSE l - 1
        extents == ResetExtents(SubSeq(type, n + 1, Len(type)))
    IN  IF type = <<>> \/ extents = THROW THEN THROW
        ELSE [base |-> SubSeq(type, 1, n), extents |-> extents]

IsFixedList(h) == h.extents # <<>> /\ Last(h.extents) > 0
IsDynamicList(h) == h.extents # <<>> /\ Last(h.extents) = 0
IsTuple(h) == "tuple" \in ToSet(h.base)
RemoveExtent(h) == [h EXCEPT !.extents = IF @ = <<>> THEN @ ELSE Front(@)]

-----------------------------------------------------------------------------
(* ContractABIDefinitionFactory: from a declaration to an object.  The     *)
(* helper is shared by all the members built from one declaration, and     *)
(* each removal of an extent stays: every builder returns it too.          *)

SetName(o, name) == IF o = THROW THEN THROW ELSE [o EXCEPT !.name = name]

\* buildBaseAbstractType.  The number after the name of the type is part of
\* its token: "uint8" is an extent in range, "uint7" is not.
BuildBase(base) ==
    CASE base = <<"uint">> -> Uint(8 * WordLen, 0)
      [] base = <<"uint8">> -> Uint(8, 0)
      [] base = <<"uint7">> -> Uint(7, 0)
      [] base = <<"int">> -> Sint(8 * WordLen, 0)
      [] base = <<"bool">> -> Boolean(0)
      [] base = <<"string">> -> String(<<>>)
      [] base = <<"bytes">> -> DynamicBytes(<<>>)
      [] base = <<"bytes1">> -> FixedBytes(1, <<>>, FALSE)
      [] base = <<"bytes2">> -> FixedBytes(2, <<>>, FALSE)
      [] base = <<"bytes99">> -> FixedBytes(99, <<>>, FALSE)
      [] base = <<"address">> -> Addr(<<>>)
      [] OTHER -> THROW

RECURSIVE BuildAbstractType(_, _), BuildMembers(_, _, _)

\* The n members of an array, one after another; the next member is built with
\* the helper the last one left.
NextMember(acc, b) == [members |-> Append(acc.members, b.object), helper |-> b.helper]
BuildMembers(n, nt, acc) ==
    IF n = 0 THEN acc
    ELSE BuildMembers(n - 1, nt, NextMember(acc, BuildAbstractType(nt, acc.helper)))

FixedListOf(acc) ==
    [object |-> IF Throws(acc.members) THEN THROW ELSE FixedList(Len(acc.members), acc.members),
     helper |-> acc.helper]
BuildFixedList(nt, h) ==
    FixedListOf(BuildMembers(Last(h.extents), nt, [members |-> <<>>, helper |-> RemoveExtent(h)]))

DynamicListOf(b) ==
    [b EXCEPT !.object = IF @ = THROW THEN THROW ELSE DynamicList(<<@>>)]
BuildDynamicList(nt, h) == DynamicListOf(BuildAbstractType(nt, RemoveExtent(h)))

\* The object of a declaration, with a helper of its own.
BuildWith(nt, h) == IF h = THROW THEN THROW ELSE BuildAbstractType(nt, h).object
BuildMember(nt) == BuildWith(nt, Reset(nt.type))

\* buildInput, buildOutput, buildTuple: a struct of the declarations.
StructOf(ms) == IF Throws(ms) THEN THROW ELSE Struct(ms)
BuildTuple(nts) == StructOf([i \in DOMAIN nts |-> BuildMember(nts[i])])

WithName(b, name) == [b EXCEPT !.object = SetName(@, name)]
BuildAbstractType(nt, h) ==
    WithName(IF IsFixedList(h) THEN BuildFixedList(nt, h)
             ELSE IF IsDynamicList(h) THEN BuildDynamicList(nt, h)
             ELSE [object |-> IF IsTuple(h) THEN BuildTuple(nt.components)
                              ELSE BuildBase(h.base),
                   helper |-> h],
             nt.name)

\* buildEvent: the indexed parameters are in the topics, not in the data.
BuildEvent(m) == BuildTuple(SelectSeq(m.inputs, LAMBDA nt : ~nt.indexed))
BuildInput(m) == BuildTuple(m.inputs)
BuildOutput(m) == BuildTuple(m.outputs)
=============================================================================

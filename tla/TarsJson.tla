------------------------------ MODULE TarsJson ------------------------------
(***************************************************************************)
(* The JSON form of the Tars structs: JsonOutput and JsonInput of          *)
(* tars/tup/TarsJson.h, which turn values into JSON values and back, and   *)
(* writeToJson and readFromJson of the structs.  The types are those of    *)
(* module Tars; a member whose JSON form is that of another type names it. *)
(***************************************************************************)
EXTENDS Tars, JsonText

JsonType(m) == IF "json" \in DOMAIN m THEN m.json ELSE m.type

\* bcos::toHex and fromHexString: two digits to a byte.  The prefix 0x is
\* accepted by the reader and says nothing, so it is left out.
ToHex(bs) == FlattenSeq([i \in DOMAIN bs |-> <<bs[i] \div 16, bs[i] % 16>>])
FromHex(hs) ==
    IF Len(hs) % 2 = 1 THEN THROW
    ELSE [i \in 1..(Len(hs) \div 2) |-> hs[2 * i - 1] * 16 + hs[2 * i]]

\* (T)lvalue: the lowest bytes of an integer.
Cast(k, n) ==
    IF k \in DOMAIN NumberHead THEN Signed(n % Bytes(Width(NumberHead[k])), Width(NumberHead[k]))
    ELSE IF k = "Enum" THEN Signed(n % Bytes(4), 4)
    ELSE Narrow(k, n)

-----------------------------------------------------------------------------
(* JsonOutput::writeJson and writeToJson of a struct.                      *)

RECURSIVE WriteJson(_, _)

\* Mutation: a member that has its default value is left out.
MembersToJsonSparse(t, v) ==
    [name \in {t.members[i].name : i \in {k \in DOMAIN v : v[k] # t.members[k].type.default}} |->
        LET i == CHOOSE k \in DOMAIN t.members : t.members[k].name = name
        IN  WriteJson(JsonType(t.members[i]), v[i])]

MembersToJson(t, v) ==
    [name \in {t.members[i].name : i \in DOMAIN t.members} |->
        LET i == CHOOSE k \in DOMAIN t.members : t.members[k].name = name
        IN  WriteJson(JsonType(t.members[i]), v[i])]

ArrayToJson(t, items) == [i \in DOMAIN items |-> WriteJson(t, items[i])]

\* A number that is the key of a map becomes its digits (TC_Common::tostr), but
\* a Char becomes the character, which the reader does not take for digits.
KeyToJson(t, key) ==
    CASE t.k = "String" -> key
      [] t.k = "Char" -> <<key>>
      [] OTHER -> <<"digits", key>>
KeyFromJson(t, key) ==
    CASE t.k = "String" -> key
      [] t.k = "Char" -> IF key[1] = "digits" THEN Cast("Char", key[2]) ELSE 0
      [] OTHER -> Cast(t.k, key[2])

WriteJson(t, v) ==
    CASE t.k = "Bool" -> Js("boolean", v)
      [] t.k \in (DOMAIN NumberHead \cup DOMAIN WrittenAs) \ {"Bool"} -> Js("num", v)
      [] t.k \in {"String", "CharBuffer"} -> Js("string", v)
      [] t.k = "Hex" -> Js("string", ToHex(v))
      [] t.k = "Topics" ->
            \* resize before push_back: as many empty strings come first
            Js("array", [i \in 1..Len(v) |-> Js("string", <<>>)]
                        \o [i \in 1..Len(v) |-> Js("string", ToHex(v[i]))])
      [] t.k = "Bytes" -> Js("array", ArrayToJson([k |-> "Char"], v))
      [] t.k \in {"Vector", "Array"} -> Js("array", ArrayToJson(t.of, v))
      [] t.k = "Set" -> Js("array", ArrayToJson(t.of, SetToSortSeq(v, LAMBDA a, b : a < b)))
      [] t.k = "Map" ->
            Js("obj", [key \in {KeyToJson(t.key, x) : x \in DOMAIN v} |->
                        WriteJson(t.of, v[CHOOSE x \in DOMAIN v : KeyToJson(t.key, x) = key])])
      [] t.k = "Struct" -> Js("obj", MembersToJson(t, v))

-----------------------------------------------------------------------------
(* JsonInput::readJson and readFromJson of a struct: the value, or THROW.  *)
(* A missing member that is required is a null pointer that is asked for   *)
(* its type, which throws.                                                 *)

RECURSIVE ReadJson(_, _, _)

OfType(type, p, require, default, F(_)) ==
    IF p # NIL /\ p.j = type THEN F(p.v) ELSE IF require THEN THROW ELSE default

MembersFromJson(t, p) ==
    IF p = NIL \/ p.j # "obj" THEN THROW
    ELSE Whole([i \in DOMAIN t.members |->
            ReadJson(JsonType(t.members[i]), Member(p, t.members[i].name), t.members[i].jsonRequire)])

ArrayFromJson(t, items) == Whole([i \in DOMAIN items |-> ReadJson(t, items[i], TRUE)])

MapFromJson(t, obj) ==
    LET keys == SetToSeq(DOMAIN obj)
        vals == ArrayFromJson(t.of, [i \in DOMAIN keys |-> obj[keys[i]]])
    IN  IF vals = THROW THEN THROW
        ELSE AsMap([i \in DOMAIN keys |-> <<KeyFromJson(t.key, keys[i]), vals[i]>>])

ReadJson(t, p, require) ==
    CASE t.k = "Bool" -> OfType("boolean", p, require, t.default, LAMBDA v : v)
      [] t.k \in (DOMAIN NumberHead \cup DOMAIN WrittenAs) \ {"Bool"} ->
            OfType("num", p, require, t.default, LAMBDA v : Cast(t.k, v))
      [] t.k = "String" -> OfType("string", p, require, t.default, LAMBDA v : v)
      [] t.k = "CharBuffer" ->
            OfType("string", p, require, t.default, LAMBDA v : IF Len(v) > t.n THEN THROW ELSE v)
      [] t.k = "Hex" -> OfType("string", p, require, t.default, LAMBDA v : FromHex(v))
      [] t.k = "Topics" ->
            OfType("array", p, require, t.default, LAMBDA items :
                Whole([i \in DOMAIN items |->
                    OfType("string", items[i], TRUE, <<>>, LAMBDA v : FromHex(v))]))
      [] t.k = "Bytes" ->
            OfType("array", p, require, t.default, LAMBDA v : ArrayFromJson([k |-> "Char"], v))
      [] t.k = "Vector" ->
            OfType("array", p, require, t.default, LAMBDA v : ArrayFromJson(t.of, v))
      [] t.k = "Array" ->
            OfType("array", p, require, t.default, LAMBDA v :
                IF Len(v) > t.n THEN THROW ELSE ArrayFromJson(t.of, v))
      [] t.k = "Set" ->
            OfType("array", p, require, t.default, LAMBDA v :
                LET items == ArrayFromJson(t.of, v)
                IN  IF items = THROW THEN THROW ELSE t.default \cup ToSet(items))
      [] t.k = "Map" -> OfType("obj", p, require, t.default, LAMBDA v : MapFromJson(t, v))
      [] t.k = "Struct" ->
            OfType("obj", p, require, t.default, LAMBDA v : MembersFromJson(t, p))
=============================================================================

------------------------------ MODULE JsonText ------------------------------
(***************************************************************************)
(* TC_Json, tars/util/tc_json.cpp: JSON values as text and back.  A text   *)
(* is a sequence of ASCII codes.  A number is an integer: of one with a    *)
(* fraction or an exponent the reader gives lvalue, its whole part.        *)
(***************************************************************************)
EXTENDS JsonValue

Quote == 34
Backslash == 92
Spaces == {32, 9, 13, 10}
Digits == 48..57

\* The characters with an escape of two characters, and the second of them.
Escapes == 34 :> 34 @@ 92 :> 92 @@ 47 :> 47 @@ 8 :> 98 @@ 12 :> 102 @@ 10 :> 110 @@ 13 :> 114 @@ 9 :> 116
Unescapes == [e \in {Escapes[c] : c \in DOMAIN Escapes} |-> CHOOSE c \in DOMAIN Escapes : Escapes[c] = e]

HexDigit(n) == IF n < 10 THEN 48 + n ELSE 87 + n
HexValue ==
    [c \in 48..57 |-> c - 48] @@ [c \in 65..70 |-> c - 55] @@ [c \in 97..102 |-> c - 87]

Words == [true |-> <<116, 114, 117, 101>>, false |-> <<102, 97, 108, 115, 101>>,
          null |-> <<110, 117, 108, 108>>]

-----------------------------------------------------------------------------
(* writeValue.                                                             *)

\* Mutation: a backslash is written as it is.
WriteCharBackslash(c) ==
    IF c \in DOMAIN Escapes \ {Backslash} THEN <<Backslash, Escapes[c]>>
    ELSE IF c < 32 THEN <<Backslash, 117, 48, 48, HexDigit(c \div 16), HexDigit(c % 16)>>
    ELSE <<c>>

WriteChar(c) ==
    IF c \in DOMAIN Escapes THEN <<Backslash, Escapes[c]>>
    ELSE IF c < 32 THEN <<Backslash, 117, 48, 48, HexDigit(c \div 16), HexDigit(c % 16)>>
    ELSE <<c>>

writeString(s) == <<Quote>> \o FlattenSeq([i \in DOMAIN s |-> WriteChar(s[i])]) \o <<Quote>>

DigitsOf[n \in Nat] == IF n < 10 THEN <<48 + n>> ELSE DigitsOf[n \div 10] \o <<48 + (n % 10)>>

writeNum(n) == IF n < 0 THEN <<45>> \o DigitsOf[-n] ELSE DigitsOf[n]

\* The items of an object or array between its brackets, with commas.
Bracketed(open, items, close) ==
    <<open>> \o FlattenSeq([i \in DOMAIN items |->
                    IF i = Len(items) THEN items[i] ELSE items[i] \o <<44>>]) \o <<close>>

\* A null pointer is written as null; a JsonValueNull is not foreseen.
RECURSIVE writeValue(_)
writeValue(p) ==
    IF p = NIL THEN Words["null"]
    ELSE CASE p.j = "string" -> writeString(p.v)
           [] p.j = "num" -> writeNum(p.v)
           [] p.j = "boolean" -> IF p.v = 1 THEN Words["true"] ELSE Words["false"]
           [] p.j = "array" -> Bracketed(91, [i \in DOMAIN p.v |-> writeValue(p.v[i])], 93)
           [] p.j = "obj" ->
                LET names == SetToSeq(DOMAIN p.v)
                IN  Bracketed(123, [i \in DOMAIN names |->
                        writeString(names[i]) \o <<58>> \o writeValue(p.v[names[i]])], 125)
           [] p.j = "null" -> ABORT

-----------------------------------------------------------------------------
(* getValue: i characters of the text have been read.                      *)

\* reader.read(), and the next character that is no space.
ReadChar(text, i) == IF i < Len(text) THEN Got(text[i + 1], i + 1) ELSE THROW

RECURSIVE ReadVisible(_, _)
ReadVisible(text, i) ==
    Then(ReadChar(text, i), LAMBDA c : IF c.val \in Spaces THEN ReadVisible(text, c.next) ELSE c)

\* Four hexadecimal digits.
getHex(text, i) ==
    IF i + 4 > Len(text) \/ \E k \in 1..4 : text[i + k] \notin DOMAIN HexValue THEN THROW
    ELSE Got(FoldLeft(LAMBDA v, k : v * 16 + HexValue[text[i + k]], 0, <<1, 2, 3, 4>>), i + 4)

\* The UTF-8 bytes of a code below 2^16.
Utf8(code) ==
    IF code < 128 THEN <<code>>
    ELSE IF code < 2048 THEN <<192 + code \div 64, 128 + (code % 64)>>
    ELSE <<224 + code \div 4096, 128 + ((code \div 64) % 64), 128 + (code % 64)>>

\* Behind an opening quote: s has been read.  An escape that is not known is
\* left out of the string.
RECURSIVE StringFrom(_, _, _)
StringFrom(s, text, i) ==
    Then(ReadChar(text, i), LAMBDA c :
        IF c.val = Quote THEN Got(s, c.next)
        ELSE IF c.val # Backslash THEN StringFrom(Append(s, c.val), text, c.next)
        ELSE Then(ReadChar(text, c.next), LAMBDA e :
                IF e.val \in DOMAIN Unescapes
                THEN StringFrom(Append(s, Unescapes[e.val]), text, e.next)
                ELSE IF e.val = 117
                THEN Then(getHex(text, e.next), LAMBDA h :
                          StringFrom(s \o Utf8(h.val), text, h.next))
                ELSE StringFrom(s, text, e.next)))

getString(text, i) == StringFrom(<<>>, text, i)

\* lvalue of the digits m with an exponent e.
Scaled(m, e) == IF e >= 0 THEN m * 10 ^ e ELSE m \div 10 ^ (-e)

\* The digits behind the head; n holds what getNum has in its variables.  The
\* first digit of an exponent without a sign only says whether there is one.
RECURSIVE NumFrom(_, _, _)
NumFrom(n, text, i) ==
    LET c == text[i + 1]
        d == c - 48
    IN  IF i >= Len(text) THEN Got(n, i)
        ELSE IF c \in Digits
        THEN NumFrom(IF n.exponential THEN [n EXCEPT !.ok = TRUE, !.exp = @ * 10 + d]
                     ELSE IF n.float THEN [n EXCEPT !.ok = TRUE, !.m = @ * 10 + d, !.frac = @ + 1]
                     ELSE [n EXCEPT !.ok = TRUE, !.m = @ * 10 + d], text, i + 1)
        ELSE IF c = 46 /\ ~n.float /\ ~n.exponential /\ n.ok
        THEN NumFrom([n EXCEPT !.ok = FALSE, !.float = TRUE], text, i + 1)
        ELSE IF c \in {69, 101} /\ ~n.exponential /\ n.ok
        THEN LET f == [n EXCEPT !.ok = FALSE, !.exponential = TRUE, !.exp = 0]
                 s == text[i + 2]
             IN  IF i + 1 >= Len(text) THEN Got(f, i + 1)
                 ELSE IF s \in {43, 45} THEN NumFrom([f EXCEPT !.minus = (s = 45)], text, i + 2)
                 ELSE IF s \in Digits
                 THEN NumFrom([f EXCEPT !.ok = TRUE, !.exponential = (s # 48)], text, i + 2)
                 ELSE Got(f, i + 1)
        ELSE Got(n, i)

getNum(head, text, i) ==
    LET start == [ok |-> head # 45, float |-> FALSE, exponential |-> FALSE, minus |-> FALSE,
                  m |-> IF head = 45 THEN 0 ELSE head - 48, frac |-> 0, exp |-> 0]
    IN  Then(NumFrom(start, text, i), LAMBDA r :
            LET n == r.val
                exp == IF n.minus THEN -n.exp ELSE n.exp
                v == IF n.float THEN Scaled(n.m, exp - n.frac) ELSE n.m
            IN  IF ~n.ok THEN THROW
                ELSE Got(Js("num", IF head = 45 THEN -v ELSE v), r.next))

\* getBoolean and getNull: a word in any case.
Lower(c) == IF c \in 65..90 THEN c + 32 ELSE c
GetWord(word, result, text, i) ==
    IF i + Len(word) - 1 > Len(text)
       \/ \E k \in 2..Len(word) : Lower(text[i + k - 1]) # word[k]
    THEN THROW ELSE Got(result, i + Len(word) - 1)

RECURSIVE getValue(_, _), getArray(_, _, _), getObj(_, _, _)

\* Behind the opening bracket or a comma, with the items read so far.
getArray(items, text, i) ==
    Then(ReadVisible(text, i), LAMBDA c :
        IF c.val = 93 /\ items = <<>> THEN Got(Js("array", <<>>), c.next)
        ELSE Then(getValue(text, IF items = <<>> THEN c.next - 1 ELSE i), LAMBDA p :
                Then(ReadVisible(text, p.next), LAMBDA d :
                    IF d.val = 44 THEN getArray(Append(items, p.val), text, d.next)
                    ELSE IF d.val = 93 THEN Got(Js("array", Append(items, p.val)), d.next)
                    ELSE THROW)))

\* A name that comes again replaces the value.
getObj(members, text, i) ==
    Then(ReadVisible(text, i), LAMBDA c :
        IF c.val = 125 /\ members = <<>> THEN Got(Js("obj", <<>>), c.next)
        ELSE IF c.val # Quote THEN THROW
        ELSE Then(getString(text, c.next), LAMBDA name :
                Then(ReadVisible(text, name.next), LAMBDA colon :
                    IF colon.val # 58 THEN THROW
                    ELSE Then(getValue(text, colon.next), LAMBDA p :
                            LET more == (name.val :> p.val) @@ members
                            IN  Then(ReadVisible(text, p.next), LAMBDA d :
                                    IF d.val = 44 THEN getObj(more, text, d.next)
                                    ELSE IF d.val = 125 THEN Got(Js("obj", more), d.next)
                                    ELSE THROW)))))

getValue(text, i) ==
    Then(ReadVisible(text, i), LAMBDA c :
        CASE c.val = 123 -> getObj(<<>>, text, c.next)
          [] c.val = 91 -> getArray(<<>>, text, c.next)
          [] c.val = Quote ->
                Then(getString(text, c.next), LAMBDA s : Got(Js("string", s.val), s.next))
          [] c.val \in {84, 116} -> GetWord(Words["true"], Js("boolean", 1), text, c.next)
          [] c.val \in {70, 102} -> GetWord(Words["false"], Js("boolean", 0), text, c.next)
          [] c.val \in Digits \cup {45} -> getNum(c.val, text, c.next)
          [] c.val \in {78, 110} -> GetWord(Words["null"], Null, text, c.next)
          [] OTHER -> THROW)

\* The value at the start of a text; what stands behind it is not looked at.
FromText(text) == Then(getValue(text, 0), LAMBDA r : r.val)
=============================================================================

----------------------------- MODULE ByteStream -----------------------------
(***************************************************************************)
(* What the binary codecs share: numbers as bytes, and the outcome of      *)
(* reading.  A byte has ByteBits bits, so that TLC's numbers hold an       *)
(* integer of eight bytes; every limit of the codecs is a number of bytes  *)
(* and scales with it.                                                     *)
(***************************************************************************)
EXTENDS Integers, SequencesExt

CONSTANTS
    ByteBits,    \* bits of a byte (8 in the code)
    THROW,       \* the operation threw an exception
    ABORT        \* the operation read or wrote outside its buffer

ASSUME BytesAssumption == ByteBits \in Nat /\ ByteBits >= 3 /\ THROW # ABORT

\* An exception is no number, string, truth value or empty function.
ASSUME OutcomesAssumption ==
    \A o \in {THROW, ABORT} :
        o \notin Int /\ o \notin STRING /\ o \notin BOOLEAN /\ o # <<>>

Bytes(n) == (2 ^ ByteBits) ^ n     \* the numbers n bytes can hold

\* What the proofs need to know of powers, up to those of four bytes.
ASSUME PowersAssumption ==
    /\ Bytes(0) = 1
    /\ Bytes(1) \in Nat \ {0}
    /\ \A n \in 1..3 : Bytes(n + 1) = Bytes(n) * Bytes(1)

LittleEndian(v, n) == [i \in 1..n |-> ((v % Bytes(n)) \div Bytes(i - 1)) % Bytes(1)]
BigEndian(v, n) == Reverse(LittleEndian(v, n))

FromLittleEndian(bs) ==
    LET upTo[k \in 0..Len(bs)] == IF k = 0 THEN 0 ELSE upTo[k - 1] + bs[k] * Bytes(k - 1)
    IN  upTo[Len(bs)]
FromBigEndian(bs) == FromLittleEndian(Reverse(bs))

\* A number of n bytes taken as a signed one.
Signed(v, n) == IF v < Bytes(n) \div 2 THEN v ELSE v - Bytes(n)

\* A std::map is written in the order of its keys.
InOrder(m) ==
    LET keys == SetToSortSeq(DOMAIN m, LAMBDA a, b : a < b)
    IN  [i \in DOMAIN keys |-> <<keys[i], m[keys[i]]>>]

\* insert and emplace: of two items with the same key the first is kept.
AsMap(pairs) ==
    [key \in {pairs[i][1] : i \in DOMAIN pairs} |->
        pairs[SelectInSeq(pairs, LAMBDA p : p[1] = key)][2]]

-----------------------------------------------------------------------------
\* A value read, and the position behind it.
Got(v, i) == [val |-> v, next |-> i]

Fails(r) == r \in {THROW, ABORT}

\* One step of reading after another; the first that fails is the outcome.
Then(r, F(_)) == IF Fails(r) THEN r ELSE F(r)

\* The parts of an encoding put together, unless one of them threw.
Joined(parts) ==
    IF \E i \in DOMAIN parts : Fails(parts[i])
    THEN parts[CHOOSE i \in DOMAIN parts : Fails(parts[i])] ELSE FlattenSeq(parts)
=============================================================================

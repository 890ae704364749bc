---------------------------- MODULE ScaleProofs ----------------------------
(***************************************************************************)
(* What a SCALE encoder stream wrote is read back by the decoder stream,   *)
(* and its beginning is not, for every type, value and place where it is   *)
(* cut.  Each operator << and >> of the codec is a lemma: if the pairs of  *)
(* operators it is made of fit each other, so do the ones it makes.  That  *)
(* reading ends with an exception and not outside of the span, for types   *)
(* that are read with hasMore, is an argument of its own about >> alone.   *)
(***************************************************************************)
EXTENDS ScaleWire, MessageWireProofs

Byte == 0..(Bytes(1) - 1)

\* The stream has all of bs in front of it.
Holds(s, bs) ==
    /\ s.at + Len(bs) <= Len(s.span)
    /\ \A k \in 1..Len(bs) : s.span[s.at + k] = bs[k]

\* The span ends inside of bs.
Breaks(s, bs) ==
    /\ s.at <= Len(s.span) /\ Len(s.span) < s.at + Len(bs)
    /\ \A k \in 1..(Len(s.span) - s.at) : s.span[s.at + k] = bs[k]

\* r is the outcome of reading v, which was written as bs, from s.
Yields(r, v, bs, s) ==
    /\ Holds(s, bs) => r = Got(v, s.at + Len(bs))
    /\ Breaks(s, bs) => Fails(r.next)

\* r is the outcome of reading on after r1, which read v1 up to i, when r2 is the
\* outcome of the second step, which reads v2, and v is made of both.
Continues(r, v, r1, v1, i, r2, v2) ==
    /\ Fails(r1.next) => Fails(r.next)
    /\ r1 = Got(v1, i) =>
            /\ Fails(r2.next) => Fails(r.next)
            /\ \A j \in Nat : r2 = Got(v2, j) => r = Got(v, j)

\* The operators << and >> of a type fit each other.
Sound(c) ==
    \A v \in c.val :
        \/ Fails(c.enc[v])
        \/ c.enc[v] \in Seq(Byte) /\ \A s \in Streams : Yields(c.dec[s], v, c.enc[v], s)

-----------------------------------------------------------------------------

\* A byte is a number.
LEMMA ByteIsNat == Bytes(1) \in Nat \ {0} /\ Byte \subseteq Nat
  BY PowersAssumption DEF Byte

\* A position is no exception.
LEMMA NotFailed == \A n \in Int : ~Fails(n)
  BY OutcomesAssumption, Zenon DEF Fails

\* A function from 1..n is a sequence of n items.
LEMMA IsSeqOf ==
    ASSUME NEW S, NEW n \in Nat, NEW f \in [1..n -> S]
    PROVE  f \in Seq(S) /\ Len(f) = n
  OBVIOUS

\* Bytes are numbers.
LEMMA BytesAreNats ==
    ASSUME NEW bs \in Seq(Byte)
    PROVE  bs \in Seq(Nat)
  <1>1. bs = [k \in 1..Len(bs) |-> bs[k]] /\ Len(bs) \in Nat /\ \A k \in 1..Len(bs) : bs[k] \in Byte
    OBVIOUS
  <1>2. bs \in [1..Len(bs) -> Nat]
    BY <1>1, ByteIsNat
  <1> QED
    BY <1>1, <1>2, IsSeqOf

\* The stream after some bytes is a stream over the same span.
LEMMA BehindIs ==
    ASSUME NEW s \in Streams, NEW i \in Nat
    PROVE  Behind(s, i) \in Streams /\ Behind(s, i).span = s.span /\ Behind(s, i).at = i
  BY DEF Behind, Streams

\* nextByte reads one byte.
LEMMA NextByte ==
    ASSUME NEW s \in Streams, NEW b
    PROVE  Yields(nextByte(s), b, <<b>>, s)
  <1>1. s.at \in Nat /\ Len(s.span) \in Nat
    BY DEF Streams
  <1>2. ASSUME Holds(s, <<b>>) PROVE nextByte(s) = Got(b, s.at + 1)
    BY <1>1, <1>2 DEF Holds, nextByte, hasMore
  <1>3. ASSUME Breaks(s, <<b>>) PROVE nextByte(s) = Stopped(THROW)
    BY <1>1, <1>3 DEF Breaks, nextByte, hasMore
  <1> QED
    BY <1>2, <1>3 DEF Yields, Stopped, Got, Fails

\* The next n items of a sequence.
LEMMA StretchIs ==
    ASSUME NEW S, NEW q \in Seq(S), NEW i \in Nat, NEW n \in Nat
    PROVE  SubSeq(q, i + 1, i + n) = [k \in 1..n |-> q[i + k]]
  <1>1. (i + n) - (i + 1) + 1 = n /\ \A k \in 1..n : (i + 1) + k - 1 = i + k
    OBVIOUS
  <1> QED
    BY <1>1

\* Several bytes read at once, with or without hasMore.
LEMMA SomeBytes ==
    ASSUME NEW s \in Streams, NEW bs \in Seq(Nat), NEW o, Fails(o)
    PROVE  Yields(NextBytes(s, Len(bs), o), bs, bs, s)
  <1> DEFINE n == Len(bs)
             i == s.at
             sub == SubSeq(s.span, i + 1, i + n)
  <1>1. i \in Nat /\ Len(s.span) \in Nat /\ n \in Nat /\ s.span \in Seq(Nat)
    BY DEF Streams
  <1>2. ASSUME Holds(s, bs) PROVE NextBytes(s, n, o) = Got(bs, s.at + n)
    <2>1. s.at + n <= Len(s.span)
      BY <1>2 DEF Holds
    <2>2. sub = [k \in 1..n |-> s.span[i + k]]
      <3> HIDE DEF i, n
      <3> QED
        BY <1>1, StretchIs
    <2>3. bs = [k \in 1..n |-> bs[k]]
      OBVIOUS
    <2>4. sub = bs
      BY <1>2, <2>2, <2>3 DEF Holds
    <2> QED
      BY <2>1, <2>4 DEF NextBytes, hasMore
  <1>3. ASSUME Breaks(s, bs) PROVE NextBytes(s, n, o) = Stopped(o)
    BY <1>1, <1>3 DEF Breaks, NextBytes, hasMore
  <1> QED
    BY <1>2, <1>3 DEF Yields, Stopped, Got

\* The value that was read is taken for another one.
LEMMA Taken ==
    ASSUME NEW s, NEW bs, NEW r1, NEW v1, Yields(r1, v1, bs, s), NEW r, NEW v,
           Fails(r1.next) => Fails(r.next),
           r1 = Got(v1, s.at + Len(bs)) => r = Got(v, s.at + Len(bs))
    PROVE  Yields(r, v, bs, s)
  BY DEF Yields

\* Two values are read one after the other.
LEMMA InTurn ==
    ASSUME NEW s \in Streams, NEW a \in Seq(Byte), NEW b \in Seq(Byte),
           NEW r1, NEW v1, Yields(r1, v1, a, s),
           NEW r2, NEW v2, Yields(r2, v2, b, Behind(s, s.at + Len(a))),
           NEW r, NEW v, Continues(r, v, r1, v1, s.at + Len(a), r2, v2)
    PROVE  a \o b \in Seq(Byte) /\ Yields(r, v, a \o b, s)
  <1> DEFINE p == Behind(s, s.at + Len(a))
             m == Len(a)
             n == Len(b)
             i == s.at
             l == Len(s.span)
  <1>1. i \in Nat /\ l \in Nat /\ m \in Nat /\ n \in Nat
    BY DEF Streams
  <1>2. p.span = s.span /\ p.at = i + m
    <2>1. s.at + Len(a) \in Nat
      BY <1>1
    <2> QED
      BY <2>1, BehindIs, Zenon
  <1>3. /\ a \o b \in Seq(Byte) /\ Len(a \o b) = m + n
        /\ \A k \in 1..m : (a \o b)[k] = a[k]
        /\ \A k \in 1..n : (a \o b)[m + k] = b[k]
    OBVIOUS
  <1> DEFINE ab == a \o b
  <1> HIDE DEF p, m, n, i, l, ab
  <1>4. ASSUME Holds(s, ab) PROVE Holds(s, a) /\ Holds(p, b)
    <2>1. i + (m + n) <= l /\ \A k \in 1..(m + n) : s.span[i + k] = ab[k]
      BY <1>3, <1>4 DEF Holds, ab, i, l
    <2>2. Holds(s, a)
      <3>1. \A k \in 1..m : k \in 1..(m + n)
        BY <1>1
      <3> QED
        BY <1>1, <1>3, <2>1, <3>1 DEF Holds, ab, m, i, l
    <2>3. Holds(p, b)
      <3>1. \A k \in 1..n : m + k \in 1..(m + n) /\ i + (m + k) = (i + m) + k
        BY <1>1
      <3>2. (i + m) + n <= l
        BY <1>1, <2>1
      <3>3. \A k \in 1..n : s.span[(i + m) + k] = b[k]
        BY <1>3, <2>1, <3>1 DEF ab
      <3> QED
        BY <1>2, <3>2, <3>3, Zenon DEF Holds, n, l
    <2> QED
      BY <2>2, <2>3
  <1>5. ASSUME Breaks(s, ab) PROVE Breaks(s, a) \/ (Holds(s, a) /\ Breaks(p, b))
    <2>1. /\ i <= l /\ l < i + (m + n)
          /\ \A k \in 1..(l - i) : s.span[i + k] = ab[k]
      BY <1>3, <1>5 DEF Breaks, ab, i, l
    <2>2. CASE l < i + m
      <3>1. \A k \in 1..(l - i) : k \in 1..m
        BY <1>1, <2>2
      <3> QED
        BY <1>3, <2>1, <2>2, <3>1 DEF Breaks, ab, m, i, l
    <2>3. CASE i + m <= l
      <3>1. Holds(s, a)
        <4>1. \A k \in 1..m : k \in 1..(l - i)
          BY <1>1, <2>3
        <4> QED
          BY <1>1, <1>3, <2>1, <2>3, <4>1 DEF Holds, ab, m, i, l
      <3>2. Breaks(p, b)
        <4>1. \A k \in 1..(l - (i + m)) :
                /\ k \in 1..n /\ m + k \in 1..(l - i)
                /\ i + (m + k) = (i + m) + k
          BY <1>1, <2>1, <2>3
        <4>2. l < (i + m) + n
          BY <1>1, <2>1
        <4>3. \A k \in 1..(l - (i + m)) : s.span[(i + m) + k] = b[k]
          BY <1>3, <2>1, <4>1 DEF ab
        <4> QED
          BY <1>2, <2>3, <4>2, <4>3, Zenon DEF Breaks, n, l
      <3> QED
        BY <3>1, <3>2
    <2> QED
      BY <1>1, <2>2, <2>3
  <1>6. Holds(s, a) => r1 = Got(v1, i + m)
    BY DEF Yields, m, i
  <1>7. /\ Holds(p, b) => r2 = Got(v2, (i + m) + n)
        /\ Breaks(p, b) => Fails(r2.next)
    BY <1>2 DEF Yields, n, m, p, i
  <1>8. (i + m) + n \in Nat /\ (i + m) + n = i + (m + n)
    BY <1>1
  <1>9. Holds(s, ab) => r = Got(v, i + (m + n))
    BY <1>4, <1>6, <1>7, <1>8 DEF m, i, Continues
  <1>10. Breaks(s, ab) => Fails(r.next)
    <2>1. Breaks(s, a) => Fails(r.next)
      BY DEF Yields, Continues
    <2>2. Holds(s, a) /\ Breaks(p, b) => Fails(r.next)
      BY <1>6, <1>7 DEF m, i, Continues
    <2> QED
      BY <1>5, <2>1, <2>2
  <1>11. Yields(r, v, ab, s)
    BY <1>3, <1>9, <1>10 DEF Yields, ab, i
  <1> QED
    BY <1>3, <1>11 DEF ab

\* A value is read after a byte.
LEMMA AfterByte ==
    ASSUME NEW s \in Streams, NEW b \in Byte, NEW rest \in Seq(Byte),
           NEW r1, NEW v1, Yields(r1, v1, <<b>>, s),
           NEW r2, NEW v2, Yields(r2, v2, rest, Behind(s, s.at + 1)),
           NEW r, NEW v, Continues(r, v, r1, v1, s.at + 1, r2, v2)
    PROVE  <<b>> \o rest \in Seq(Byte) /\ Yields(r, v, <<b>> \o rest, s)
  <1> DEFINE a == <<b>>
  <1>1. a \in Seq(Byte) /\ Len(a) = 1 /\ Yields(r1, v1, a, s)
    OBVIOUS
  <1> HIDE DEF a
  <1>2. Yields(r2, v2, rest, Behind(s, s.at + Len(a)))
    BY <1>1
  <1>3. Continues(r, v, r1, v1, s.at + Len(a), r2, v2)
    BY <1>1
  <1>4. a \o rest \in Seq(Byte) /\ Yields(r, v, a \o rest, s)
    BY <1>1, <1>2, <1>3, InTurn
  <1> QED
    BY <1>4 DEF a

-----------------------------------------------------------------------------
(* Numbers as bytes.                                                       *)

\* The powers up to that of n bytes are powers.
Fits(n) ==
    /\ n \in Nat /\ Bytes(0) = 1
    /\ \A k \in 0..n : Bytes(k) \in Nat \ {0}
    /\ \A k \in 0..(n - 1) : Bytes(k + 1) = Bytes(k) * Bytes(1)

\* A number of bytes that the streams write.
LEMMA Lengths ==
    /\ \A n \in {1, 2, 4, 8} : Fits(n)
    /\ Fits(WordBytes)
    /\ MaxBigBytes \in Nat /\ MaxBigBytes >= 4 /\ \A n \in 0..MaxBigBytes : Fits(n)
  <1> DEFINE P(n) == Bytes(n) \in Nat \ {0} /\ Bytes(n + 1) = Bytes(n) * Bytes(1)
  <1>1. Bytes(0) = 1 /\ Bytes(1) \in Nat \ {0} /\ WordBytes \in Nat \ {0}
    BY PowersAssumption, ScaleAssumption
  <1>2. kMinUint16 \in Nat \ {0}
    BY <1>1, ScalePowersAssumption
  <1>3. MaxBigBytes \in Nat /\ MaxBigBytes >= 4
    BY <1>2 DEF MaxBigBytes
  <1>4. /\ \A n \in 0..7 : P(n)
        /\ \A n \in 0..WordBytes : P(n)
        /\ \A n \in 0..MaxBigBytes : P(n)
    BY ScalePowersAssumption, Zenon
  <1>5. Bytes(8) \in Nat \ {0}
    <2>1. P(7) /\ 7 + 1 = 8
      BY <1>4
    <2> QED
      BY <1>1, <2>1
  <1>6. \A n \in {1, 2, 4, 8} : \A k \in 0..(n - 1) : P(k)
    <2>1. \A n \in {1, 2, 4, 8} : \A k \in 0..(n - 1) : k \in 0..7
      OBVIOUS
    <2> QED
      BY <1>4, <2>1, Zenon
  <1>7. \A n \in {1, 2, 4, 8} : \A k \in 0..n : Bytes(k) \in Nat \ {0}
    <2>1. \A n \in {1, 2, 4, 8} : \A k \in 0..n : k \in 0..7 \/ k = 8
      OBVIOUS
    <2> QED
      BY <1>4, <1>5, <2>1, Zenon
  <1>8. \A n \in {1, 2, 4, 8} : Fits(n)
    <2>1. \A n \in {1, 2, 4, 8} : n \in Nat
      OBVIOUS
    <2> QED
      BY <1>1, <1>6, <1>7, <2>1, Zenon DEF Fits
  <1>9. Fits(WordBytes)
    <2>1. \A k \in 0..(WordBytes - 1) : k \in 0..WordBytes
      BY <1>1
    <2> QED
      BY <1>1, <1>4, <2>1, Zenon DEF Fits
  <1>10. \A n \in 0..MaxBigBytes : Fits(n)
    <2>1. \A n \in 0..MaxBigBytes : /\ n \in Nat /\ \A k \in 0..n : k \in 0..MaxBigBytes
                                    /\ \A k \in 0..(n - 1) : k \in 0..MaxBigBytes
      BY <1>3
    <2> QED
      BY <1>1, <1>4, <2>1, Zenon DEF Fits
  <1> QED
    BY <1>3, <1>8, <1>9, <1>10

\* The remainder is the only number with that property.
LEMMA Remainder ==
    ASSUME NEW d \in Nat \ {0}, NEW q \in Nat, NEW r \in Nat, r < d
    PROVE  (q * d + r) % d = r
  <1> DEFINE v == q * d + r
  <1>1. v \in Nat /\ v \div d = q
    BY Quotient
  <1> HIDE DEF v
  <1>2. v = q * d + (v % d) /\ (v % d) \in Nat
    BY <1>1, Divided
  <1> QED
    BY <1>1, <1>2 DEF v

\* The bytes up to one: those before it, and it at its place.
LEMMA RemainderTwice ==
    ASSUME NEW x \in Nat, NEW c \in Nat \ {0}, NEW d \in Nat \ {0}
    PROVE  x % (c * d) = (x % c) + ((x \div c) % d) * c
  <1> DEFINE a == x \div c
             r == x % c
             b == a \div d
             s == a % d
             e == c * d
             z == s * c + r
  <1>1. a \in Nat /\ r \in Nat /\ r < c /\ x = a * c + r
    BY Divided
  <1> HIDE DEF a, r
  <1>2. b \in Nat /\ s \in Nat /\ s < d /\ a = b * d + s
    BY <1>1, Divided
  <1> HIDE DEF b, s
  <1>3. x = b * e + z
    <2>1. a * c = (b * d) * c + s * c
      BY <1>1, <1>2
    <2>2. (b * d) * c = b * (c * d)
      BY <1>2
    <2> QED
      BY <1>1, <1>2, <2>1, <2>2
  <1>4. z \in Nat /\ z < e
    <2>1. s * c <= (d - 1) * c
      BY <1>2
    <2>2. (d - 1) * c = c * d - c
      OBVIOUS
    <2> QED
      BY <1>1, <1>2, <2>1, <2>2
  <1>5. e \in Nat \ {0}
    OBVIOUS
  <1> HIDE DEF e, z
  <1>6. x % e = z
    BY <1>2, <1>3, <1>4, <1>5, Remainder
  <1>7. z = r + s * c
    BY <1>1, <1>2 DEF z
  <1> QED
    BY <1>6, <1>7 DEF e, r, s, a

\* FromLittleEndian adds up the bytes, each at its place.
LEMMA SumIs ==
    ASSUME NEW bs \in Seq(Nat), NEW G \in [0..Len(bs) -> Nat], G[0] = 0,
           \A k \in 1..Len(bs) : G[k] = G[k - 1] + bs[k] * Bytes(k - 1)
    PROVE  FromLittleEndian(bs) = G[Len(bs)]
  <1> DEFINE n == Len(bs)
             Step(f) == [k \in 0..n |-> IF k = 0 THEN 0 ELSE f[k - 1] + bs[k] * Bytes(k - 1)]
             F == CHOOSE f : f = Step(f)
  <1>1. n \in Nat
    OBVIOUS
  <1>2. G = Step(G)
    <2>1. \A k \in 0..n : k = 0 \/ k \in 1..n
      BY <1>1
    <2>2. \A k \in 0..n : G[k] = IF k = 0 THEN 0 ELSE G[k - 1] + bs[k] * Bytes(k - 1)
      BY <2>1, Zenon
    <2> QED
      BY <2>2
  <1>3. F = Step(F)
    <2> HIDE DEF Step
    <2> QED
      BY <1>2
  <1>4. FromLittleEndian(bs) = F[n]
    BY DEF FromLittleEndian
  <1> HIDE DEF F, n
  <1> DEFINE S == {k \in Nat : k <= n => F[k] = G[k]}
  <1>5. 0 \in S
    BY <1>1, <1>2, <1>3
  <1>6. ASSUME NEW k \in Nat, k \in S
        PROVE  k + 1 \in S
    <2> SUFFICES ASSUME k + 1 <= n PROVE F[k + 1] = G[k + 1]
      OBVIOUS
    <2>1. k + 1 \in 0..n /\ k + 1 # 0 /\ (k + 1) - 1 = k /\ F[k] = G[k]
      BY <1>1, <1>6
    <2>2. F[k + 1] = F[k] + bs[k + 1] * Bytes(k) /\ G[k + 1] = G[k] + bs[k + 1] * Bytes(k)
      <3>1. \A f : f = Step(f) => f[k + 1] = f[(k + 1) - 1] + bs[k + 1] * Bytes((k + 1) - 1)
        BY <2>1
      <3> HIDE DEF Step
      <3> QED
        BY <1>2, <1>3, <2>1, <3>1
    <2> QED
      BY <2>1, <2>2
  <1> HIDE DEF S
  <1>7. Nat \subseteq S
    BY <1>5, <1>6, Inductive
  <1>8. F[n] = G[n]
    BY <1>1, <1>7 DEF S
  <1> QED
    BY <1>4, <1>8 DEF n

\* A number is read from its bytes as it was written, up to what does not fit.
LEMMA Digits ==
    ASSUME NEW v \in Int, NEW n, Fits(n)
    PROVE  /\ LittleEndian(v, n) \in Seq(Byte) /\ Len(LittleEndian(v, n)) = n
           /\ FromLittleEndian(LittleEndian(v, n)) = v % Bytes(n)
  <1> DEFINE x == v % Bytes(n)
             B == Bytes(1)
             l == LittleEndian(v, n)
             G == [k \in 0..n |-> x % Bytes(k)]
  <1>1. n \in Nat /\ Bytes(n) \in Nat \ {0} /\ B \in Nat \ {0} /\ Bytes(0) = 1
    BY ByteIsNat DEF Fits
  <1>2. x \in Nat /\ x < Bytes(n)
    BY <1>1
  <1> HIDE DEF x
  <1>3. l = [k \in 1..n |-> (x \div Bytes(k - 1)) % B]
    BY DEF LittleEndian, x
  <1>4. \A k \in 1..n : k - 1 \in 0..(n - 1) /\ k - 1 \in 0..n /\ (k - 1) + 1 = k
    BY <1>1
  <1>5. ASSUME NEW k \in 1..n
        PROVE  /\ Bytes(k - 1) \in Nat \ {0} /\ Bytes(k) = Bytes(k - 1) * B
               /\ (x \div Bytes(k - 1)) % B \in Byte
               /\ x % Bytes(k) = (x % Bytes(k - 1)) + ((x \div Bytes(k - 1)) % B) * Bytes(k - 1)
    <2>1. Bytes(k - 1) \in Nat \ {0} /\ Bytes((k - 1) + 1) = Bytes(k - 1) * B
      BY <1>4, Zenon DEF Fits
    <2>2. Bytes(k) = Bytes(k - 1) * B
      BY <1>4, <2>1
    <2> HIDE DEF B
    <2>3. x % (Bytes(k - 1) * B) = (x % Bytes(k - 1)) + ((x \div Bytes(k - 1)) % B) * Bytes(k - 1)
      BY <1>1, <1>2, <2>1, RemainderTwice
    <2>4. x \div Bytes(k - 1) \in Nat
      BY <1>2, <2>1, Divided
    <2>5. (x \div Bytes(k - 1)) % B \in 0..(B - 1)
      <3> DEFINE q == x \div Bytes(k - 1)
      <3> HIDE DEF q
      <3>1. q \in Nat => q % B \in 0..(B - 1)
        BY <1>1
      <3> QED
        BY <2>4, <3>1 DEF q
    <2> QED
      BY <2>1, <2>2, <2>3, <2>5, Zenon DEF B, Byte
  <1> HIDE DEF l
  <1>6. l \in [1..n -> Byte]
    BY <1>3, <1>5
  <1>7. l \in Seq(Byte) /\ l \in Seq(Nat) /\ Len(l) = n
    <2>1. l \in [1..n -> Nat]
      BY <1>6, ByteIsNat
    <2> QED
      BY <1>1, <1>6, <2>1, IsSeqOf
  <1>8. G \in [0..n -> Nat]
    <2>1. \A k \in 0..n : x % Bytes(k) \in Nat
      <3> SUFFICES ASSUME NEW k \in 0..n PROVE x % Bytes(k) \in Nat
        OBVIOUS
      <3>1. Bytes(k) \in Nat \ {0}
        BY DEF Fits
      <3> QED
        BY <1>2, <3>1, Divided
    <2> QED
      BY <2>1
  <1>9. G[0] = 0
    <2>1. x % 1 = 0
      BY <1>2
    <2> QED
      BY <1>1, <2>1
  <1>10. \A k \in 1..n : G[k] = G[k - 1] + l[k] * Bytes(k - 1)
    <2> SUFFICES ASSUME NEW k \in 1..n PROVE G[k] = G[k - 1] + l[k] * Bytes(k - 1)
      OBVIOUS
    <2>1. G[k] = x % Bytes(k) /\ G[k - 1] = x % Bytes(k - 1) /\ l[k] = (x \div Bytes(k - 1)) % B
      BY <1>1, <1>3, <1>4
    <2> HIDE DEF G
    <2> QED
      BY <1>5, <2>1, Zenon
  <1>11. FromLittleEndian(l) = G[n]
    <2> HIDE DEF G
    <2> QED
      BY <1>7, <1>8, <1>9, <1>10, SumIs
  <1>12. G[n] = x
    <2>1. G[n] = x % Bytes(n)
      BY <1>1
    <2> QED
      BY <1>1, <1>2, <2>1
  <1> QED
    BY <1>7, <1>11, <1>12 DEF l, x

-----------------------------------------------------------------------------
(* The operators of numbers.                                               *)

\* A number of n bytes is what its bytes are, signed or not.
LEMMA SignedBack ==
    ASSUME NEW n, Fits(n), NEW signed \in BOOLEAN, NEW v \in NumbersOf(n, signed)
    PROVE  v \in Int /\ AsNumber(v % Bytes(n), n, signed) = v
  <1> DEFINE B == Bytes(n)
             h == B \div 2
  <1>1. n \in Nat /\ B \in Nat \ {0}
    BY DEF Fits
  <1>2. v \in Int
    BY DEF NumbersOf
  <1>3. h \in Nat /\ 2 * h <= B /\ h < B
    <2> HIDE DEF B
    <2> QED
      BY <1>1
  <1>4. CASE ~signed
    <2>1. 0 <= v /\ v < B
      BY <1>4 DEF NumbersOf
    <2> HIDE DEF B
    <2>2. v % B = v
      BY <1>1, <1>2, <2>1
    <2> QED
      BY <1>2, <1>4, <2>2 DEF AsNumber, B
  <1>5. CASE signed
    <2>1. -h <= v /\ v < h
      BY <1>5 DEF NumbersOf
    <2>2. AsNumber(v % B, n, signed) = IF v % B < h THEN v % B ELSE (v % B) - B
      BY <1>5 DEF AsNumber, Signed
    <2> HIDE DEF B, h
    <2>3. CASE v >= 0
      <3>1. v % B = v
        BY <1>1, <1>2, <1>3, <2>1, <2>3
      <3> QED
        BY <1>2, <2>1, <2>2, <3>1 DEF B
    <2>4. CASE v < 0
      <3>1. v + B \in Nat /\ v + B < B /\ ~(v + B < h)
        BY <1>1, <1>2, <1>3, <2>1, <2>4
      <3>2. v % B = v + B
        BY <1>1, <1>2, <3>1
      <3>3. (v + B) - B = v
        BY <1>1, <1>2
      <3> QED
        BY <1>2, <2>2, <3>1, <3>2, <3>3 DEF B
    <2> QED
      BY <1>2, <2>3, <2>4
  <1> QED
    BY <1>4, <1>5

\* A reversed sequence is reversed back.
LEMMA ReversedTwice ==
    ASSUME NEW S, NEW q \in Seq(S)
    PROVE  Reverse(q) \in Seq(S) /\ Len(Reverse(q)) = Len(q) /\ Reverse(Reverse(q)) = q
  <1> DEFINE n == Len(q)
             r == Reverse(q)
  <1>1. n \in Nat /\ q = [i \in 1..n |-> q[i]] /\ \A i \in 1..n : q[i] \in S
    OBVIOUS
  <1>2. r = [i \in 1..n |-> q[(n - i) + 1]]
    BY DEF Reverse
  <1> HIDE DEF r, n
  <1>3. \A i \in 1..n : (n - i) + 1 \in 1..n /\ (n - ((n - i) + 1)) + 1 = i
    BY <1>1
  <1>4. r \in [1..n -> S]
    BY <1>1, <1>2, <1>3
  <1>5. r \in Seq(S) /\ Len(r) = n
    BY <1>1, <1>4, IsSeqOf
  <1>6. Reverse(r) = [i \in 1..n |-> r[(n - i) + 1]]
    BY <1>5 DEF Reverse
  <1>7. \A i \in 1..n : r[(n - i) + 1] = q[i]
    BY <1>2, <1>3
  <1>8. Reverse(r) = q
    BY <1>1, <1>6, <1>7
  <1> QED
    BY <1>5, <1>8 DEF r, n

\* bool: one byte, 0 or 1.
LEMMA BoolSound == Sound(BoolCodec)
  <1> DEFINE c == BoolCodec
  <1>1. /\ c.val = {0, 1} /\ \A v \in {0, 1} : c.enc[v] = <<v>>
        /\ \A s \in Streams : c.dec[s] = decodeBool(s)
    BY DEF BoolCodec, Operators
  <1> HIDE DEF c
  <1> SUFFICES ASSUME NEW v \in {0, 1}
               PROVE  <<v>> \in Seq(Byte) /\ \A s \in Streams : Yields(decodeBool(s), v, <<v>>, s)
    BY <1>1 DEF Sound, c
  <1>2. <<v>> \in Seq(Byte)
    <2>1. 4 * kMinUint16 = Bytes(1) /\ kMinUint16 \in Nat /\ Bytes(1) # 0
      BY ScalePowersAssumption, ByteIsNat
    <2>2. v \in Byte
      BY <2>1 DEF Byte
    <2> QED
      BY <2>2
  <1>3. ASSUME NEW s \in Streams PROVE Yields(decodeBool(s), v, <<v>>, s)
    <2> DEFINE r1 == nextByte(s)
               r == decodeBool(s)
    <2>1. Yields(r1, v, <<v>>, s)
      BY NextByte
    <2>2. r = IF Fails(r1.next) THEN r1 ELSE IF r1.val \in {0, 1} THEN r1 ELSE Stopped(THROW)
      BY DEF decodeBool, AndThen
    <2> HIDE DEF r1, r
    <2>3. r1 = Got(v, s.at + Len(<<v>>)) => r = r1
      BY <2>2 DEF Got
    <2>4. Yields(r, v, <<v>>, s)
      BY <2>1, <2>2, <2>3, Taken
    <2> QED
      BY <2>4 DEF r
  <1> QED
    BY <1>2, <1>3

\* Integers of a fixed width: little endian.
LEMMA IntSound ==
    ASSUME NEW t, t.t = "int", t.size \in {1, 2, 4, 8}, t.signed \in BOOLEAN
    PROVE  Sound(IntCodec(t))
  <1> DEFINE c == IntCodec(t)
             n == t.size
             V == NumbersOf(n, t.signed)
  <1>1. /\ c.val = V /\ \A v \in V : c.enc[v] = LittleEndian(v, n)
        /\ \A s \in Streams : c.dec[s] = decodeInteger(t, s)
    BY DEF IntCodec, Operators
  <1>2. Fits(n)
    BY Lengths
  <1> SUFFICES ASSUME NEW v \in V
               PROVE  /\ LittleEndian(v, n) \in Seq(Byte)
                      /\ \A s \in Streams : Yields(decodeInteger(t, s), v, LittleEndian(v, n), s)
    <2> HIDE DEF c, V
    <2> QED
      BY <1>1 DEF Sound, c
  <1> DEFINE bs == LittleEndian(v, n)
  <1>3. v \in Int /\ AsNumber(v % Bytes(n), n, t.signed) = v
    BY <1>2, SignedBack
  <1>4. bs \in Seq(Byte) /\ Len(bs) = n /\ FromLittleEndian(bs) = v % Bytes(n)
    BY <1>2, <1>3, Digits
  <1>5. bs \in Seq(Nat)
    BY <1>4, BytesAreNats
  <1> HIDE DEF bs
  <1>6. ASSUME NEW s \in Streams PROVE Yields(decodeInteger(t, s), v, bs, s)
    <2> DEFINE r1 == NextBytes(s, n, THROW)
               r == decodeInteger(t, s)
    <2>1. Yields(r1, bs, bs, s)
      BY <1>4, <1>5, SomeBytes DEF Fails
    <2>2. r = IF Fails(r1.next) THEN r1
              ELSE Got(AsNumber(FromLittleEndian(r1.val), n, t.signed), r1.next)
      BY DEF decodeInteger, AndThen, Checked
    <2> HIDE DEF r1, r
    <2>3. r1 = Got(bs, s.at + n) => r = Got(v, s.at + n)
      <3>1. s.at + n \in Int
        BY DEF Streams
      <3> QED
        BY <1>3, <1>4, <2>2, <3>1, NotFailed DEF Got
    <2>4. Yields(r, v, bs, s)
      BY <1>4, <2>1, <2>2, <2>3, Taken
    <2> QED
      BY <2>4 DEF r
  <1> QED
    BY <1>4, <1>6 DEF bs

\* u256 and s256: big endian.
LEMMA WordSound ==
    ASSUME NEW t
    PROVE  Sound(WordCodec(t))
  <1> DEFINE c == WordCodec(t)
             n == WordBytes
             signed == (t.t = "s256")
             V == NumbersOf(n, signed)
  <1>1. /\ c.val = V /\ \A v \in V : c.enc[v] = BigEndian(v, n)
        /\ \A s \in Streams : c.dec[s] = DecodeU256(t, s)
    BY DEF WordCodec, Operators
  <1>2. Fits(n) /\ signed \in BOOLEAN
    BY Lengths
  <1> SUFFICES ASSUME NEW v \in V
               PROVE  /\ BigEndian(v, n) \in Seq(Byte)
                      /\ \A s \in Streams : Yields(DecodeU256(t, s), v, BigEndian(v, n), s)
    <2> HIDE DEF c, V
    <2> QED
      BY <1>1 DEF Sound, c
  <1> DEFINE bs == BigEndian(v, n)
             l == LittleEndian(v, n)
  <1>3. v \in Int /\ AsNumber(v % Bytes(n), n, signed) = v
    <2> HIDE DEF signed
    <2> QED
      BY <1>2, SignedBack
  <1>4. l \in Seq(Byte) /\ Len(l) = n /\ FromLittleEndian(l) = v % Bytes(n)
    BY <1>2, <1>3, Digits
  <1>5. bs \in Seq(Byte) /\ Len(bs) = n /\ FromBigEndian(bs) = v % Bytes(n)
    <2> HIDE DEF l
    <2>1. bs = Reverse(l)
      BY DEF BigEndian, l
    <2>2. Reverse(l) \in Seq(Byte) /\ Len(Reverse(l)) = n /\ Reverse(Reverse(l)) = l
      BY <1>4, ReversedTwice
    <2> QED
      BY <1>4, <2>1, <2>2 DEF FromBigEndian
  <1>6. bs \in Seq(Nat) /\ n \in Nat
    BY <1>5, BytesAreNats, ScaleAssumption
  <1> HIDE DEF bs
  <1>7. ASSUME NEW s \in Streams PROVE Yields(DecodeU256(t, s), v, bs, s)
    <2> DEFINE r1 == NextBytes(s, n, ABORT)
               r == DecodeU256(t, s)
    <2>1. Yields(r1, bs, bs, s)
      BY <1>5, <1>6, SomeBytes DEF Fails
    <2>2. r = IF Fails(r1.next) THEN r1
              ELSE Got(AsNumber(FromBigEndian(r1.val), n, signed), r1.next)
      BY DEF DecodeU256, AndThen, Unchecked
    <2> HIDE DEF r1, r, signed
    <2>3. r1 = Got(bs, s.at + n) => r = Got(v, s.at + n)
      <3>1. s.at + n \in Int
        BY <1>6 DEF Streams
      <3> QED
        BY <1>3, <1>5, <2>2, <3>1, NotFailed DEF Got
    <2>4. Yields(r, v, bs, s)
      BY <1>5, <2>1, <2>2, <2>3, Taken
    <2> QED
      BY <2>4 DEF r
  <1> QED
    BY <1>5, <1>7 DEF bs

\* The first three categories: f is the category, m bytes follow the first.
Short(f, m) == (f = 0 /\ m = 0) \/ (f = 1 /\ m = 1) \/ (f = 2 /\ m = 3)

\* The last category: b is the first byte, which says that m bytes follow it.
Announces(b, m) == b % 4 = 3 /\ m = b \div 4 + 4

\* What decodeCompactInteger does after the first byte b.
LEMMA CompactRest ==
    ASSUME NEW s \in Streams, NEW b \in Nat, NEW i \in Nat, nextByte(s) = Got(b, i),
           NEW m, NEW r2, r2 = NextBytes(Behind(s, i), m, THROW), Short(b % 4, m)
    PROVE  decodeCompactInteger(s) =
                IF Fails(r2.next) THEN r2
                ELSE Got(FromLittleEndian(<<b>> \o r2.val) \div 4, r2.next)
  <1> DEFINE f == b % 4
             After(k) == NextBytes(Behind(s, i), k, THROW)
             Rest(k) == IF Fails(After(k).next) THEN After(k)
                        ELSE Got(FromLittleEndian(<<b>> \o After(k).val) \div 4, After(k).next)
             Long(k) == IF Fails(After(k).next) THEN After(k)
                        ELSE Got(FromLittleEndian(After(k).val), After(k).next)
  <1>1. nextByte(s).val = b /\ nextByte(s).next = i /\ ~Fails(i)
    BY NotFailed DEF Got
  <1>2. decodeCompactInteger(s) =
            CASE f = 0 -> Rest(0) [] f = 1 -> Rest(1) [] f = 2 -> Rest(3)
              [] f = 3 -> Long(b \div 4 + 4)
    BY <1>1 DEF decodeCompactInteger, AndThen, Checked
  <1> HIDE DEF f, Rest, Long
  <1>3. decodeCompactInteger(s) = Rest(m)
    BY <1>2 DEF Short, f
  <1> QED
    BY <1>3 DEF Rest

\* The same, when the first byte says how many follow.
LEMMA CompactLong ==
    ASSUME NEW s \in Streams, NEW b \in Nat, NEW i \in Nat, nextByte(s) = Got(b, i),
           NEW m, NEW r2, r2 = NextBytes(Behind(s, i), m, THROW), Announces(b, m)
    PROVE  decodeCompactInteger(s) =
                IF Fails(r2.next) THEN r2 ELSE Got(FromLittleEndian(r2.val), r2.next)
  <1> DEFINE f == b % 4
             After(k) == NextBytes(Behind(s, i), k, THROW)
             Rest(k) == IF Fails(After(k).next) THEN After(k)
                        ELSE Got(FromLittleEndian(<<b>> \o After(k).val) \div 4, After(k).next)
             Long(k) == IF Fails(After(k).next) THEN After(k)
                        ELSE Got(FromLittleEndian(After(k).val), After(k).next)
  <1>1. nextByte(s).val = b /\ nextByte(s).next = i /\ ~Fails(i)
    BY NotFailed DEF Got
  <1>2. decodeCompactInteger(s) =
            CASE f = 0 -> Rest(0) [] f = 1 -> Rest(1) [] f = 2 -> Rest(3)
              [] f = 3 -> Long(b \div 4 + 4)
    BY <1>1 DEF decodeCompactInteger, AndThen, Checked
  <1> HIDE DEF f, Rest, Long
  <1>3. decodeCompactInteger(s) = Long(m)
    <2>1. f = 3 /\ m = b \div 4 + 4
      BY DEF Announces, f
    <2>2. decodeCompactInteger(s) = Long(b \div 4 + 4)
      BY <1>2, <2>1
    <2> QED
      BY <2>1, <2>2
  <1> QED
    BY <1>3 DEF Long

\* The first byte of a number that ends in a category has the category, since a
\* byte holds more than two bits.
LEMMA FlagKept ==
    ASSUME NEW v \in Nat, NEW f \in 0..2
    PROVE  (v * 4 + f) % Bytes(1) \in Nat /\ ((v * 4 + f) % Bytes(1)) % 4 = f
  <1> DEFINE w == v * 4 + f
             B == Bytes(1)
             K == kMinUint16
             q == w \div B
             r == w % B
             P == q * K
  <1>1. B \in Nat \ {0} /\ K \in Nat /\ B = 4 * K
    BY ScalePowersAssumption, ByteIsNat
  <1>2. w \in Nat
    OBVIOUS
  <1> HIDE DEF B, K, w
  <1>3. q \in Nat /\ r \in Nat /\ w = q * B + r
    BY <1>1, <1>2, Divided
  <1> HIDE DEF q, r
  <1>4. P \in Nat /\ q * B = 4 * P
    BY <1>1, <1>3
  <1> HIDE DEF P
  <1>5. r = (v - P) * 4 + f
    BY <1>3, <1>4 DEF w
  <1>6. v - P \in Nat
    BY <1>3, <1>4, <1>5
  <1>7. f \in Nat /\ f < 4 /\ 4 \in Nat \ {0}
    OBVIOUS
  <1>8. ((v - P) * 4 + f) % 4 = f
    BY <1>6, <1>7, Remainder
  <1> QED
    BY <1>3, <1>5, <1>8 DEF r, w, B

\* A compact integer of the first three categories is read as it was written.
LEMMA CompactShort ==
    ASSUME NEW v \in Nat, NEW n \in Nat, NEW f \in Nat, Short(f, n - 1),
           v * 4 + f < Bytes(n)
    PROVE  /\ LittleEndian(v * 4 + f, n) \in Seq(Byte) /\ Len(LittleEndian(v * 4 + f, n)) = n
           /\ \A s \in Streams : Yields(decodeCompactInteger(s), v, LittleEndian(v * 4 + f, n), s)
  <1> DEFINE w == v * 4 + f
             bs == LittleEndian(w, n)
             b == bs[1]
             m == n - 1
             rest == [k \in 1..m |-> bs[k + 1]]
  <1>1. /\ f \in 0..2 /\ n \in {1, 2, 4, 8} /\ n \in Nat /\ m \in Nat /\ m + 1 = n
        /\ Short(f, m)
    BY DEF Short
  <1>2. Fits(n) /\ Bytes(n) \in Nat \ {0} /\ Bytes(0) = 1
    BY <1>1, Lengths DEF Fits
  <1>3. w \in Nat /\ w % Bytes(n) = w
    <2>1. w \in Nat
      BY <1>1
    <2> HIDE DEF w
    <2> QED
      BY <1>2, <2>1 DEF w
  <1>4. bs \in Seq(Byte) /\ Len(bs) = n /\ FromLittleEndian(bs) = w
    <2> HIDE DEF w
    <2> QED
      BY SMTT(30), <1>2, <1>3, Digits
  <1>5. b = w % Bytes(1)
    <2> HIDE DEF w
    <2>1. bs[1] = ((w % Bytes(n)) \div Bytes(1 - 1)) % Bytes(1)
      BY <1>1 DEF LittleEndian
    <2>2. w \div 1 = w /\ 1 - 1 = 0
      BY <1>3
    <2> QED
      BY <1>2, <1>3, <2>1, <2>2
  <1>6. b \in Nat /\ b % 4 = f
    BY <1>1, <1>5, FlagKept
  <1>7. w \div 4 = v
    <2>1. f \in Nat /\ f < 4
      BY <1>1
    <2> QED
      BY <2>1, Quotient
  <1> HIDE DEF bs, w
  <1>8. /\ rest \in Seq(Byte) /\ rest \in Seq(Nat) /\ Len(rest) = m /\ b \in Byte
        /\ <<b>> \o rest = bs
    <2>1. \A k \in 1..m : k + 1 \in 1..n
      BY <1>1
    <2>2. bs = [k \in 1..n |-> bs[k]] /\ \A k \in 1..n : bs[k] \in Byte
      BY <1>4
    <2>3. rest \in [1..m -> Byte]
      BY <2>1, <2>2
    <2>4. rest \in Seq(Byte) /\ Len(rest) = m
      BY <1>1, <2>3, IsSeqOf
    <2>5. rest \in Seq(Nat)
      BY <2>4, BytesAreNats
    <2>6. b \in Byte
      BY <1>1, <2>2
    <2>7. <<b>> \o rest = bs
      <3> DEFINE cat == <<b>> \o rest
      <3>1. cat \in Seq(Byte) /\ Len(cat) = n
        BY <1>1, <2>4, <2>6
      <3>2. \A k \in 1..n : cat[k] = bs[k]
        BY <1>1, <2>4, <2>6
      <3> HIDE DEF cat, rest, b
      <3>3. cat = [k \in 1..n |-> cat[k]]
        BY <3>1
      <3> QED
        BY <2>2, <3>2, <3>3 DEF cat
    <2> QED
      BY <2>4, <2>5, <2>6, <2>7
  <1> HIDE DEF rest, b
  <1>9. ASSUME NEW s \in Streams PROVE Yields(decodeCompactInteger(s), v, bs, s)
    <2> DEFINE r1 == nextByte(s)
               r2 == NextBytes(Behind(s, s.at + 1), m, THROW)
               r == decodeCompactInteger(s)
    <2>1. Yields(r1, b, <<b>>, s)
      BY NextByte
    <2>2. s.at + 1 \in Nat /\ Behind(s, s.at + 1) \in Streams
      <3>1. s.at + 1 \in Nat
        BY DEF Streams
      <3> QED
        BY <3>1, BehindIs
    <2>3. Yields(r2, rest, rest, Behind(s, s.at + 1))
      BY <1>8, <2>2, SomeBytes DEF Fails
    <2>4. r1 = Got(b, s.at + 1) =>
              r = IF Fails(r2.next) THEN r2
                  ELSE Got(FromLittleEndian(<<b>> \o r2.val) \div 4, r2.next)
      BY <1>1, <1>6, <2>2, CompactRest
    <2>5. Fails(r1.next) => Fails(r.next)
      BY DEF decodeCompactInteger, AndThen
    <2> HIDE DEF r1, r2, r, m
    <2>6. r1 = Got(b, s.at + 1) =>
              /\ Fails(r2.next) => Fails(r.next)
              /\ \A j \in Nat : r2 = Got(rest, j) => r = Got(v, j)
      <3> SUFFICES ASSUME r1 = Got(b, s.at + 1)
                   PROVE  /\ Fails(r2.next) => Fails(r.next)
                          /\ \A j \in Nat : r2 = Got(rest, j) => r = Got(v, j)
        OBVIOUS
      <3>1. Fails(r2.next) => r = r2
        BY <2>4
      <3>2. ASSUME NEW j \in Nat, r2 = Got(rest, j) PROVE r = Got(v, j)
        <4>1. r2.next = j /\ r2.val = rest
          BY <3>2 DEF Got
        <4>2. ~Fails(r2.next)
          BY <4>1, NotFailed
        <4>3. r = Got(FromLittleEndian(<<b>> \o rest) \div 4, j)
          BY <2>4, <4>1, <4>2
        <4> QED
          BY <1>4, <1>7, <1>8, <4>3
      <3> QED
        BY <3>1, <3>2
    <2>7. Yields(r, v, <<b>> \o rest, s)
      <3>1. Continues(r, v, r1, b, s.at + 1, r2, rest)
        BY <2>5, <2>6 DEF Continues
      <3> QED
        BY <1>8, <2>1, <2>3, <3>1, AfterByte
    <2> QED
      BY <1>8, <2>7 DEF r
  <1> QED
    BY <1>4, <1>9 DEF bs, w

\* countBytes is the number of bytes of a number that a header can announce, and it
\* is at least four.
LEMMA BigBytes ==
    ASSUME NEW v \in Nat, v < Bytes(MaxBigBytes), v >= kMinBigInteger
    PROVE  countBytes(v) \in 4..MaxBigBytes /\ v < Bytes(countBytes(v))
  <1> DEFINE N == MaxBigBytes
             T == {k \in 1..N : v < Bytes(k)}
             P(k) == v < Bytes(k) /\ (k = 1 \/ v >= Bytes(k - 1))
  <1>1. N \in Nat /\ N >= 4 /\ \A k \in 0..N : Bytes(k) \in Nat
    BY Lengths DEF Fits
  <1> HIDE DEF N
  <1>2. PICK x \in T : \A y \in T : x <= y
    <2>1. N \in T
      BY <1>1 DEF N
    <2>2. T \in SUBSET Nat
      BY <1>1
    <2> HIDE DEF T
    <2> QED
      BY <2>1, <2>2, Least
  <1>3. x \in 1..N /\ P(x)
    <2>1. x = 1 \/ x - 1 \in 1..N
      BY <1>1, <1>2
    <2>2. x - 1 \in 1..N => ~(v < Bytes(x - 1))
      BY <1>1, <1>2
    <2>3. x - 1 \in 0..N => Bytes(x - 1) \in Nat
      BY <1>1
    <2> QED
      BY <1>1, <1>2, <2>1, <2>2, <2>3
  <1>4. countBytes(v) \in 1..N /\ P(countBytes(v))
    BY <1>3 DEF countBytes, N
  <1>5. Bytes(3) <= v /\ Bytes(2) <= v /\ Bytes(1) <= v
    <2> DEFINE B == Bytes(1)
               C == Bytes(2)
               D == Bytes(3)
               K == kMinUint16
               M == kMinBigInteger
               X == D * K
    <2>1. /\ B \in Nat \ {0} /\ C = B * B /\ D = C * B /\ 4 * M = D * B /\ 4 * K = B
          /\ K \in Nat /\ M \in Nat
      BY PowersAssumption, ScalePowersAssumption
    <2>2. v >= M
      OBVIOUS
    <2> HIDE DEF B, C, D, K, M
    <2>3. C \in Nat /\ B <= C /\ D \in Nat /\ C <= D
      BY <2>1
    <2>4. K >= 1
      BY <2>1
    <2>5. X \in Nat /\ X >= D
      BY <2>1, <2>3, <2>4
    <2>6. D * B = 4 * X
      BY <2>1, <2>3
    <2> HIDE DEF X
    <2>7. M = X
      BY <2>1, <2>5, <2>6
    <2> QED
      BY <2>1, <2>2, <2>3, <2>5, <2>7 DEF B, C, D
  <1>6. countBytes(v) # 1 /\ countBytes(v) # 2 /\ countBytes(v) # 3
    <2>1. Bytes(1) \in Nat /\ Bytes(2) \in Nat /\ Bytes(3) \in Nat
      BY <1>1
    <2> QED
      BY <1>4, <1>5, <2>1
  <1> QED
    BY <1>1, <1>4, <1>6 DEF N

\* Compact integers: of every category what was written is read back, and what is
\* negative or too long is not written.
LEMMA CompactSound ==
    /\ Sound(CompactCodec)
    /\ \A v \in Int : v < kMinBigInteger /\ ~Fails(encodeCompactInteger(v)) =>
            Len(encodeCompactInteger(v)) = compactLen(v)
  <1> DEFINE Enc(v) == encodeCompactInteger(v)
             Fine(v) == Enc(v) \in Seq(Byte) /\ \A s \in Streams : Yields(decodeCompactInteger(s), v, Enc(v), s)
             c == CompactCodec
  <1>1. /\ c.val = Int /\ \A v \in Int : c.enc[v] = Enc(v)
        /\ \A s \in Streams : c.dec[s] = decodeCompactInteger(s)
    BY DEF CompactCodec, Operators
  <1>2. /\ kMinUint16 \in Nat /\ 4 * kMinUint16 = Bytes(1)
        /\ kMinUint32 \in Nat /\ 4 * kMinUint32 = Bytes(2)
        /\ kMinBigInteger \in Nat /\ 4 * kMinBigInteger = Bytes(4)
    BY ScalePowersAssumption
  <1>3. ASSUME NEW v \in Int, v < 0 \/ v >= Bytes(MaxBigBytes)
        PROVE  Fails(Enc(v))
    BY <1>3 DEF encodeCompactInteger, Fails
  <1>4. ASSUME NEW v \in Int, ~(v < 0 \/ v >= Bytes(MaxBigBytes))
        PROVE  Fine(v) /\ (v < kMinBigInteger => Len(Enc(v)) = compactLen(v))
    <2>1. v \in Nat /\ v < Bytes(MaxBigBytes)
      <3>1. Bytes(MaxBigBytes) \in Nat
        BY Lengths DEF Fits
      <3> QED
        BY <1>4, <3>1
    <2> DEFINE Read(n, f) ==
                  LET bs == LittleEndian(v * 4 + f, n)
                  IN  /\ bs \in Seq(Byte) /\ Len(bs) = n
                      /\ \A s \in Streams : Yields(decodeCompactInteger(s), v, bs, s)
    <2>6. \A n, f \in Nat : Short(f, n - 1) /\ v * 4 + f < Bytes(n) => Read(n, f)
      BY <2>1, CompactShort
    <2>2. CASE v < kMinUint16
      <3>1. Enc(v) = LittleEndian(v * 4 + 0, 1) /\ compactLen(v) = 1
        <4>1. v * 4 = v * 4 + 0
          BY <2>1
        <4> QED
          BY <1>4, <2>2, <4>1 DEF encodeCompactInteger, compactLen
      <3>2. v * 4 + 0 < Bytes(1) /\ Short(0, 1 - 1)
        BY <1>2, <2>1, <2>2 DEF Short
      <3>3. Read(1, 0)
        <4> HIDE DEF Read
        <4>1. 1 \in Nat /\ 0 \in Nat
          OBVIOUS
        <4> QED
          BY <2>6, <3>2, <4>1, Zenon
      <3> QED
        BY <3>1, <3>3, Zenon
    <2>3. CASE v >= kMinUint16 /\ v < kMinUint32
      <3>1. Enc(v) = LittleEndian(v * 4 + 1, 2) /\ compactLen(v) = 2
        BY <1>2, <1>4, <2>1, <2>3 DEF encodeCompactInteger, compactLen
      <3>2. v * 4 + 1 < Bytes(2) /\ Short(1, 2 - 1)
        BY <1>2, <2>1, <2>3 DEF Short
      <3>3. Read(2, 1)
        <4> HIDE DEF Read
        <4>1. 2 \in Nat /\ 1 \in Nat
          OBVIOUS
        <4> QED
          BY <2>6, <3>2, <4>1, Zenon
      <3> QED
        BY <3>1, <3>3, Zenon
    <2>4. CASE v >= kMinUint16 /\ v >= kMinUint32 /\ v < kMinBigInteger
      <3>1. Enc(v) = LittleEndian(v * 4 + 2, 4) /\ compactLen(v) = 4
        BY <1>2, <1>4, <2>1, <2>4 DEF encodeCompactInteger, compactLen
      <3>2. v * 4 + 2 < Bytes(4) /\ Short(2, 4 - 1)
        BY <1>2, <2>1, <2>4 DEF Short
      <3>3. Read(4, 2)
        <4> HIDE DEF Read
        <4>1. 4 \in Nat /\ 2 \in Nat
          OBVIOUS
        <4> QED
          BY <2>6, <3>2, <4>1, Zenon
      <3> QED
        BY <3>1, <3>3, Zenon
    <2>5. CASE v >= kMinUint16 /\ v >= kMinUint32 /\ v >= kMinBigInteger
      <3> DEFINE n == countBytes(v)
                 h == (n - 4) * 4 + 3
                 bs == LittleEndian(v, n)
      <3>1. Enc(v) = <<h>> \o bs
        BY <1>2, <1>4, <2>1, <2>5 DEF encodeCompactInteger
      <3>2. n \in 4..MaxBigBytes /\ v < Bytes(n)
        BY <2>1, <2>5, BigBytes
      <3>3. MaxBigBytes \in Nat /\ Fits(n) /\ n \in Nat /\ Bytes(n) \in Nat \ {0}
        <4>1. MaxBigBytes \in Nat /\ \A k \in 0..MaxBigBytes : Fits(k)
          BY Lengths
        <4>2. n \in 0..MaxBigBytes
          BY <3>2, <4>1
        <4> QED
          BY <4>1, <4>2 DEF Fits
      <3> HIDE DEF n
      <3>4. bs \in Seq(Byte) /\ Len(bs) = n /\ FromLittleEndian(bs) = v
        <4>1. v % Bytes(n) = v
          BY <2>1, <3>2, <3>3
        <4> QED
          BY <2>1, <3>3, <4>1, Digits
      <3>5. bs \in Seq(Nat)
        BY <3>4, BytesAreNats
      <3>6. h \in Byte /\ h \in Nat /\ h % 4 = 3 /\ h \div 4 + 4 = n
        <4>1. n - 4 \in Nat /\ n - 4 <= kMinUint16 - 1
          BY <1>2, <3>2, <3>3 DEF MaxBigBytes
        <4>2. h % 4 = 3 /\ h \div 4 = n - 4
          BY <4>1
        <4>3. h \in 0..(4 * kMinUint16 - 1)
          BY <1>2, <4>1
        <4> QED
          BY <1>2, <3>3, <4>2, <4>3 DEF Byte
      <3> HIDE DEF bs, h
      <3>7. ASSUME NEW s \in Streams
            PROVE  <<h>> \o bs \in Seq(Byte) /\ Yields(decodeCompactInteger(s), v, <<h>> \o bs, s)
        <4> DEFINE r1 == nextByte(s)
                   r2 == NextBytes(Behind(s, s.at + 1), n, THROW)
                   r == decodeCompactInteger(s)
        <4>1. Yields(r1, h, <<h>>, s)
          BY NextByte
        <4>2. s.at + 1 \in Nat /\ Behind(s, s.at + 1) \in Streams
          <5>1. s.at + 1 \in Nat
            BY DEF Streams
          <5> QED
            BY <5>1, BehindIs
        <4>3. Yields(r2, bs, bs, Behind(s, s.at + 1))
          BY <3>4, <3>5, <4>2, SomeBytes DEF Fails
        <4>4. r1 = Got(h, s.at + 1) =>
                r = IF Fails(r2.next) THEN r2 ELSE Got(FromLittleEndian(r2.val), r2.next)
          <5> SUFFICES ASSUME r1 = Got(h, s.at + 1)
                       PROVE  r = IF Fails(r2.next) THEN r2
                                  ELSE Got(FromLittleEndian(r2.val), r2.next)
            OBVIOUS
          <5>1. Announces(h, n)
            BY <3>6 DEF Announces
          <5>2. nextByte(s) = Got(h, s.at + 1)
            OBVIOUS
          <5>3. r2 = NextBytes(Behind(s, s.at + 1), n, THROW)
            OBVIOUS
          <5> HIDE DEF r1, r2
          <5>4. decodeCompactInteger(s) =
                    IF Fails(r2.next) THEN r2 ELSE Got(FromLittleEndian(r2.val), r2.next)
            BY <3>6, <4>2, <5>1, <5>2, <5>3, CompactLong
          <5> QED
            BY <5>4
        <4>5. Fails(r1.next) => Fails(r.next)
          BY DEF decodeCompactInteger, AndThen
        <4> HIDE DEF r1, r2, r
        <4>6. Continues(r, v, r1, h, s.at + 1, r2, bs)
          <5>1. ASSUME NEW j \in Nat, r2 = Got(bs, j) PROVE ~Fails(r2.next) /\ r2.next = j /\ r2.val = bs
            <6>1. r2.next = j /\ r2.val = bs
              BY <5>1 DEF Got
            <6> QED
              BY <6>1, NotFailed
          <5> QED
            BY <3>4, <4>4, <4>5, <5>1 DEF Continues
        <4> QED
          BY <3>4, <3>6, <4>1, <4>3, <4>6, AfterByte DEF r
      <3>8. \E s : s \in Streams
        <4>1. [span |-> <<>>, at |-> 0] \in Streams
          BY DEF Streams
        <4> QED
          BY <4>1
      <3>9. Fine(v)
        BY <3>1, <3>7, <3>8
      <3> QED
        BY <1>2, <2>1, <2>5, <3>9
    <2> QED
      BY <1>2, <2>1, <2>2, <2>3, <2>4, <2>5
  <1> HIDE DEF Enc, c
  <1>5. Sound(c)
    BY <1>1, <1>3, <1>4 DEF Sound
  <1> QED
    BY <1>3, <1>4, <1>5 DEF Enc, c

-----------------------------------------------------------------------------
(* One value after another.                                                *)

\* Either writing failed, or r is the outcome of reading v, written as e, from s.
Fitting(e, v, r, s) == Fails(e) \/ (e \in Seq(Byte) /\ Yields(r, v, e, s))

\* The operators fit each other if they do for each value and stream.
LEMMA SoundIf ==
    ASSUME NEW c, \A v \in c.val : \A s \in Streams : Fitting(c.enc[v], v, c.dec[s], s)
    PROVE  Sound(c)
  <1>1. [span |-> <<>>, at |-> 0] \in Streams
    BY DEF Streams
  <1> QED
    BY <1>1, Zenon DEF Sound, Fitting

LEMMA SoundThen ==
    ASSUME NEW c, Sound(c), NEW v \in c.val, NEW s \in Streams
    PROVE  Fitting(c.enc[v], v, c.dec[s], s)
  BY Zenon DEF Sound, Fitting

\* What is written after each other is read after each other.
LEMMA WrittenFits ==
    ASSUME NEW s \in Streams, NEW a, NEW b,
           NEW r1, NEW v1, Fitting(a, v1, r1, s), NEW r2, NEW v2, NEW r, NEW v,
           a \in Seq(Byte) => /\ Fitting(b, v2, r2, Behind(s, s.at + Len(a)))
                              /\ Continues(r, v, r1, v1, s.at + Len(a), r2, v2)
    PROVE  Fitting(Written(a, b), v, r, s)
  <1>1. CASE Fails(a)
    BY <1>1 DEF Written, Fitting
  <1>2. CASE ~Fails(a) /\ Fails(b)
    BY <1>2 DEF Written, Fitting
  <1>3. CASE ~Fails(a) /\ ~Fails(b)
    <2>1. a \in Seq(Byte) /\ Yields(r1, v1, a, s)
      BY <1>3 DEF Fitting
    <2>2. b \in Seq(Byte) /\ Yields(r2, v2, b, Behind(s, s.at + Len(a)))
      BY <1>3, <2>1 DEF Fitting
    <2>3. Continues(r, v, r1, v1, s.at + Len(a), r2, v2)
      BY <2>1
    <2>4. a \o b \in Seq(Byte) /\ Yields(r, v, a \o b, s)
      BY <2>1, <2>2, <2>3, InTurn
    <2>5. Written(a, b) = a \o b
      BY <1>3 DEF Written
    <2> QED
      BY <2>4, <2>5 DEF Fitting
  <1> QED
    BY <1>1, <1>2, <1>3

\* EncodeEach writes the items from the first to the last.
LEMMA EachWritten ==
    ASSUME NEW c, NEW vs, Len(vs) \in Nat
    PROVE  \E E : /\ EncodeEach(c, vs) = E[Len(vs)] /\ E[0] = <<>>
                  /\ \A k \in 1..Len(vs) : E[k] = Written(E[k - 1], c.enc[vs[k]])
  <1> DEFINE n == Len(vs)
             Op(x, k) == Written(x, c.enc[vs[k]])
             Step(f, m) == [k \in 0..m |-> IF k = 0 THEN <<>> ELSE Op(f[k - 1], k)]
             S == {m \in Nat : \E f : f = Step(f, m)}
             F == CHOOSE f : f = Step(f, n)
  <1>1. EncodeEach(c, vs) = F[n]
    BY DEF EncodeEach
  <1> HIDE DEF Op, n
  <1>2. 0 \in S
    <2> DEFINE g == [k \in 0..0 |-> <<>>]
    <2>1. g = Step(g, 0)
      OBVIOUS
    <2> HIDE DEF g
    <2> QED
      BY <2>1
  <1>3. ASSUME NEW m \in Nat, m \in S PROVE m + 1 \in S
    <2>1. PICK f : f = Step(f, m)
      BY <1>3
    <2> DEFINE g == [k \in 0..(m + 1) |-> IF k <= m THEN f[k] ELSE Op(f[m], m + 1)]
    <2>2. g = Step(g, m + 1)
      <3>1. g[0] = <<>>
        BY <2>1
      <3>2. ASSUME NEW k \in 1..m PROVE g[k] = Op(g[k - 1], k)
        BY <2>1, <3>2
      <3>3. g[m + 1] = Op(g[m], m + 1)
        OBVIOUS
      <3>4. \A k \in 0..(m + 1) : k = 0 \/ k \in 1..m \/ k = m + 1
        OBVIOUS
      <3>5. (m + 1) - 1 = m
        OBVIOUS
      <3>6. \A k \in 0..(m + 1) : g[k] = IF k = 0 THEN <<>> ELSE Op(g[k - 1], k)
        <4> HIDE DEF g
        <4> QED
          BY <3>1, <3>2, <3>3, <3>4, <3>5
      <3>7. g = [k \in 0..(m + 1) |-> g[k]]
        OBVIOUS
      <3> HIDE DEF g
      <3> QED
        BY <3>6, <3>7
    <2> HIDE DEF g
    <2> QED
      BY <2>2
  <1> HIDE DEF S
  <1>4. Nat \subseteq S
    BY <1>2, <1>3, Inductive
  <1>5. n \in Nat
    BY DEF n
  <1>6. F = Step(F, n)
    <2>1. \E f : f = Step(f, n)
      BY <1>4, <1>5 DEF S
    <2> HIDE DEF Step
    <2> QED
      BY <2>1
  <1> HIDE DEF F
  <1>7. F[0] = <<>> /\ \A k \in 1..n : F[k] = Op(F[k - 1], k)
    BY <1>5, <1>6
  <1> QED
    BY <1>1, <1>7 DEF n, Op

\* One item more is read after x, what was read of those before it.
OneMore(c, s, x) ==
    LET r == c.dec[Behind(s, x.next)]
    IN  IF Fails(x.next) THEN x
        ELSE IF Fails(r.next) THEN r
        ELSE Got(Append(x.val, r.val), r.next)

\* DecodeEach reads them in that order.
LEMMA EachRead ==
    ASSUME NEW c, NEW n \in Nat, NEW s
    PROVE  \E D : /\ DecodeEach(c, n, s) = D[n] /\ D[0] = Got(<<>>, s.at)
                  /\ \A k \in 1..n : D[k] = OneMore(c, s, D[k - 1])
  <1> DEFINE Op(x) == OneMore(c, s, x)
             z == Got(<<>>, s.at)
             Step(f, m) == [k \in 0..m |-> IF k = 0 THEN z ELSE Op(f[k - 1])]
             S == {m \in Nat : \E f : f = Step(f, m)}
             F == CHOOSE f : f = Step(f, n)
  <1>1. DecodeEach(c, n, s) = F[n]
    BY DEF DecodeEach, AndThen, OneMore
  <1> HIDE DEF Op, z
  <1>2. 0 \in S
    <2> DEFINE g == [k \in 0..0 |-> z]
    <2>1. g = Step(g, 0)
      OBVIOUS
    <2> HIDE DEF g
    <2> QED
      BY <2>1
  <1>3. ASSUME NEW m \in Nat, m \in S PROVE m + 1 \in S
    <2>1. PICK f : f = Step(f, m)
      BY <1>3
    <2> DEFINE g == [k \in 0..(m + 1) |-> IF k <= m THEN f[k] ELSE Op(f[m])]
    <2>2. g = Step(g, m + 1)
      <3>1. g[0] = z
        BY <2>1
      <3>2. ASSUME NEW k \in 1..m PROVE g[k] = Op(g[k - 1])
        BY <2>1, <3>2
      <3>3. g[m + 1] = Op(g[m])
        OBVIOUS
      <3>4. \A k \in 0..(m + 1) : k = 0 \/ k \in 1..m \/ k = m + 1
        OBVIOUS
      <3>5. (m + 1) - 1 = m
        OBVIOUS
      <3>6. \A k \in 0..(m + 1) : g[k] = IF k = 0 THEN z ELSE Op(g[k - 1])
        <4> HIDE DEF g
        <4> QED
          BY <3>1, <3>2, <3>3, <3>4, <3>5
      <3>7. g = [k \in 0..(m + 1) |-> g[k]]
        OBVIOUS
      <3> HIDE DEF g
      <3> QED
        BY <3>6, <3>7
    <2> HIDE DEF g
    <2> QED
      BY <2>2
  <1> HIDE DEF S
  <1>4. Nat \subseteq S
    BY <1>2, <1>3, Inductive
  <1>5. F = Step(F, n)
    <2>1. \E f : f = Step(f, n)
      BY <1>4 DEF S
    <2> HIDE DEF Step
    <2> QED
      BY <2>1
  <1> HIDE DEF F
  <1>6. F[0] = z /\ \A k \in 1..n : F[k] = Op(F[k - 1])
    BY <1>5
  <1> QED
    BY <1>1, <1>6 DEF z, Op

\* The items of a sequence are read as they were written.
LEMMA EachFits ==
    ASSUME NEW c, Sound(c), NEW vs \in Seq(c.val), NEW s \in Streams
    PROVE  Fitting(EncodeEach(c, vs), vs, DecodeEach(c, Len(vs), s), s)
  <1> DEFINE n == Len(vs)
             First(k) == [j \in 1..k |-> vs[j]]
  <1>1. n \in Nat /\ vs = First(n) /\ \A k \in 1..n : vs[k] \in c.val
    OBVIOUS
  <1>2. PICK E : /\ EncodeEach(c, vs) = E[n] /\ E[0] = <<>>
                 /\ \A k \in 1..n : E[k] = Written(E[k - 1], c.enc[vs[k]])
    BY <1>1, EachWritten
  <1>3. PICK D : /\ DecodeEach(c, n, s) = D[n] /\ D[0] = Got(<<>>, s.at)
                 /\ \A k \in 1..n : D[k] = OneMore(c, s, D[k - 1])
    BY <1>1, EachRead
  <1>4. s.at \in Nat /\ Len(s.span) \in Nat
    BY DEF Streams
  <1> HIDE DEF n
  <1> DEFINE S == {k \in Nat : k <= n => Fitting(E[k], First(k), D[k], s)}
  <1>5. 0 \in S
    <2>1. First(0) = <<>>
      OBVIOUS
    <2>2. Yields(Got(<<>>, s.at), <<>>, <<>>, s)
      BY <1>4 DEF Yields, Holds, Breaks
    <2>3. Fitting(E[0], First(0), D[0], s)
      <3>1. <<>> \in Seq(Byte)
        OBVIOUS
      <3> HIDE DEF First
      <3> QED
        BY <1>2, <1>3, <2>1, <2>2, <3>1 DEF Fitting
    <2> QED
      BY <2>3
  <1>6. ASSUME NEW k \in Nat, k \in S PROVE k + 1 \in S
    <2> SUFFICES ASSUME k + 1 <= n PROVE Fitting(E[k + 1], First(k + 1), D[k + 1], s)
      OBVIOUS
    <2> DEFINE a == E[k]
               v2 == vs[k + 1]
               b == c.enc[v2]
               r1 == D[k]
               i == s.at + Len(a)
               r2 == c.dec[Behind(s, i)]
               r == D[k + 1]
    <2>1. Fitting(a, First(k), r1, s)
      BY <1>1, <1>6
    <2>2. E[k + 1] = Written(a, b)
      <3>1. k + 1 \in 1..n /\ (k + 1) - 1 = k
        BY <1>1
      <3> QED
        BY <1>2, <3>1
    <2>3. v2 \in c.val
      BY <1>1
    <2>4. D[k + 1] = OneMore(c, s, r1)
      <3>1. k + 1 \in 1..n /\ (k + 1) - 1 = k
        BY <1>1
      <3> QED
        BY <1>3, <3>1
    <2>5. Append(First(k), v2) = First(k + 1)
      <3> DEFINE p == First(k)
      <3>1. p \in Seq(c.val) /\ Len(p) = k
        <4>1. p \in [1..k -> c.val]
          BY <1>1
        <4> QED
          BY <4>1, IsSeqOf
      <3>2. Append(p, v2) = [j \in 1..(k + 1) |-> IF j = k + 1 THEN v2 ELSE p[j]]
        <4> HIDE DEF p, v2
        <4> DEFINE q == Append(p, v2)
        <4>1. q \in Seq(c.val) /\ Len(q) = k + 1
          BY <2>3, <3>1
        <4>2. \A j \in 1..(k + 1) : q[j] = IF j = k + 1 THEN v2 ELSE p[j]
          BY <2>3, <3>1
        <4> HIDE DEF q
        <4>3. q = [j \in 1..(k + 1) |-> q[j]]
          BY <4>1
        <4> QED
          BY <4>2, <4>3 DEF q
      <3>3. \A j \in 1..(k + 1) : (IF j = k + 1 THEN v2 ELSE p[j]) = vs[j]
        OBVIOUS
      <3> HIDE DEF p
      <3> QED
        BY <3>2, <3>3 DEF p
    <2> HIDE DEF First, S, a, b, v2, r1, r
    <2>6. ASSUME a \in Seq(Byte)
          PROVE  Fitting(b, v2, r2, Behind(s, i)) /\ Continues(r, First(k + 1), r1, First(k), i, r2, v2)
      <3>1. i \in Nat
        BY <1>4, <2>6
      <3>2. Behind(s, i) \in Streams
        BY <3>1, BehindIs
      <3>3. Fitting(b, v2, r2, Behind(s, i))
        BY <2>3, <3>2, SoundThen DEF b
      <3>4. r1 = Got(First(k), i) =>
                r = IF Fails(r2.next) THEN r2 ELSE Got(Append(First(k), r2.val), r2.next)
        <4> SUFFICES ASSUME r1 = Got(First(k), i)
                     PROVE  r = IF Fails(r2.next) THEN r2 ELSE Got(Append(First(k), r2.val), r2.next)
          OBVIOUS
        <4>1. r1.next = i /\ r1.val = First(k) /\ ~Fails(r1.next)
          <5> HIDE DEF i
          <5>1. r1.next = i /\ r1.val = First(k)
            BY DEF Got
          <5> QED
            BY <3>1, <5>1, NotFailed
        <4> HIDE DEF i
        <4> QED
          BY <2>4, <4>1 DEF r, OneMore
      <3>5. Fails(r1.next) => Fails(r.next)
        BY <2>4 DEF r, OneMore
      <3> HIDE DEF i, r2
      <3>6. ASSUME NEW j \in Nat, r2 = Got(v2, j) PROVE ~Fails(r2.next) /\ r2.next = j /\ r2.val = v2
        <4>1. r2.next = j /\ r2.val = v2
          BY <3>6 DEF Got
        <4> QED
          BY <4>1, NotFailed
      <3>7. Continues(r, First(k + 1), r1, First(k), i, r2, v2)
        BY <2>5, <3>4, <3>5, <3>6 DEF Continues
      <3> QED
        BY <3>3, <3>7
    <2>7. Fitting(Written(a, b), First(k + 1), r, s)
      <3> HIDE DEF r2
      <3> QED
        BY <2>1, <2>6, WrittenFits
    <2> QED
      BY <2>2, <2>7 DEF r
  <1> HIDE DEF S, First
  <1>7. Nat \subseteq S
    BY <1>5, <1>6, Inductive
  <1>8. Fitting(E[n], First(n), D[n], s)
    BY <1>1, <1>7 DEF S
  <1> QED
    BY <1>1, <1>2, <1>3, <1>8 DEF n

\* std::array.
LEMMA ArraySound ==
    ASSUME NEW c, Sound(c), NEW n \in Nat
    PROVE  Sound(ArrayCodec(c, n))
  <1> DEFINE d == ArrayCodec(c, n)
  <1>1. /\ d.val = [1..n -> c.val] /\ \A v \in d.val : d.enc[v] = EncodeEach(c, v)
        /\ \A s \in Streams : d.dec[s] = DecodeEach(c, n, s)
    BY DEF ArrayCodec, Operators
  <1> HIDE DEF d
  <1>2. ASSUME NEW v \in d.val, NEW s \in Streams PROVE Fitting(d.enc[v], v, d.dec[s], s)
    <2>1. v \in Seq(c.val) /\ Len(v) = n
      BY <1>1, IsSeqOf
    <2>2. Fitting(EncodeEach(c, v), v, DecodeEach(c, n, s), s)
      BY <2>1, EachFits
    <2> QED
      BY <1>1, <2>2
  <1>3. Sound(d)
    BY <1>2, SoundIf
  <1> QED
    BY <1>3 DEF d

\* A collection: the number of items is read, then the items.
LEMMA CollectionFits ==
    ASSUME NEW c, Sound(c), NEW vs \in Seq(c.val), NEW s \in Streams
    PROVE  Fitting(encodeCollection(c, vs), vs, DecodeCollection(c, s), s)
  <1> DEFINE n == Len(vs)
             a == encodeCompactInteger(n)
             b == EncodeEach(c, vs)
             r1 == decodeCompactInteger(s)
             i == s.at + Len(a)
             p == Behind(s, i)
             r2 == DecodeEach(c, n, p)
             r == DecodeCollection(c, s)
  <1>1. Fitting(a, n, r1, s)
    <2> DEFINE d == CompactCodec
    <2>1. /\ d.val = Int /\ \A v \in Int : d.enc[v] = encodeCompactInteger(v)
          /\ \A x \in Streams : d.dec[x] = decodeCompactInteger(x)
      BY DEF CompactCodec, Operators
    <2>2. Sound(d)
      BY CompactSound
    <2>3. n \in Int
      OBVIOUS
    <2> HIDE DEF d, n
    <2>4. Fitting(d.enc[n], n, d.dec[s], s)
      BY <2>1, <2>2, <2>3, SoundThen
    <2> QED
      BY <2>1, <2>3, <2>4
  <1>2. ASSUME a \in Seq(Byte)
        PROVE  Fitting(b, vs, r2, p) /\ Continues(r, vs, r1, n, i, r2, vs)
    <2>1. i \in Nat
      BY <1>2 DEF Streams
    <2>2. p \in Streams
      BY <2>1, BehindIs
    <2>3. Fitting(b, vs, r2, p)
      <3> HIDE DEF p
      <3> QED
        BY <2>2, EachFits
    <2>4. Fails(r1.next) => Fails(r.next)
      BY DEF DecodeCollection, AndThen
    <2>5. r1 = Got(n, i) => r = r2
      <3> HIDE DEF n, i
      <3> SUFFICES ASSUME r1 = Got(n, i) PROVE r = r2
        OBVIOUS
      <3>1. r1.next = i /\ r1.val = n /\ ~Fails(r1.next)
        <4> HIDE DEF r1
        <4>1. r1.next = i /\ r1.val = n
          BY DEF Got
        <4> QED
          BY <2>1, <4>1, NotFailed
      <3>2. r = DecodeEach(c, r1.val, Behind(s, r1.next))
        BY <3>1 DEF DecodeCollection, AndThen
      <3> HIDE DEF r1
      <3> QED
        BY <3>1, <3>2
    <2> HIDE DEF r, r1, r2, n, i
    <2>6. Continues(r, vs, r1, n, i, r2, vs)
      BY <2>4, <2>5 DEF Continues
    <2> QED
      BY <2>3, <2>6
  <1> HIDE DEF r, r1, r2, n, a, b
  <1>3. Fitting(Written(a, b), vs, r, s)
    BY <1>1, <1>2, WrittenFits
  <1> QED
    BY <1>3 DEF encodeCollection, a, b, n, r

\* std::vector.
LEMMA VectorSound ==
    ASSUME NEW c, Sound(c)
    PROVE  Sound(VectorCodec(c))
  <1> DEFINE d == VectorCodec(c)
  <1>1. /\ d.val = Seq(c.val) /\ \A v \in d.val : d.enc[v] = encodeCollection(c, v)
        /\ \A s \in Streams : d.dec[s] = DecodeCollection(c, s)
    BY DEF VectorCodec, Operators
  <1> HIDE DEF d
  <1>2. \A v \in d.val : \A s \in Streams : Fitting(d.enc[v], v, d.dec[s], s)
    BY <1>1, CollectionFits
  <1>3. Sound(d)
    BY <1>2, SoundIf
  <1> QED
    BY <1>3 DEF d

-----------------------------------------------------------------------------
(* The other types.                                                        *)

\* Numbers.
LEMMA NumberSound ==
    ASSUME NEW t \in NumberTypes
    PROVE  Sound(NumberCodec(t)) /\ NumberCodec(t).val \subseteq Int
  <1>1. CASE t.t = "bool"
    <2>1. NumberCodec(t) = BoolCodec
      BY <1>1 DEF NumberCodec
    <2>2. BoolCodec.val \subseteq Int
      BY DEF BoolCodec, Operators
    <2> QED
      BY <2>1, <2>2, BoolSound
  <1>2. CASE t.t = "compact"
    <2>1. NumberCodec(t) = CompactCodec
      BY <1>2 DEF NumberCodec
    <2>2. CompactCodec.val \subseteq Int
      BY DEF CompactCodec, Operators
    <2> QED
      BY <2>1, <2>2, CompactSound
  <1>3. CASE t.t \in {"u256", "s256"}
    <2>1. NumberCodec(t) = WordCodec(t)
      BY <1>3 DEF NumberCodec
    <2>2. WordCodec(t).val \subseteq Int
      BY DEF WordCodec, Operators, NumbersOf
    <2> QED
      BY <2>1, <2>2, WordSound
  <1>4. CASE t.t = "int"
    <2>1. NumberCodec(t) = IntCodec(t)
      BY <1>4 DEF NumberCodec
    <2>2. IntCodec(t).val \subseteq Int
      BY DEF IntCodec, Operators, NumbersOf
    <2>3. t.size \in {1, 2, 4, 8} /\ t.signed \in BOOLEAN
      BY <1>4 DEF NumberTypes
    <2> QED
      BY <1>4, <2>1, <2>2, <2>3, IntSound
  <1> QED
    BY <1>1, <1>2, <1>3, <1>4 DEF NumberTypes

\* The tuple without elements.
LEMMA EmptySound == Sound(EmptyCodec)
  <1> DEFINE d == EmptyCodec
  <1>1. /\ d.val = {<<>>} /\ d.enc[<<>>] = <<>>
        /\ \A s \in Streams : d.dec[s] = Got(<<>>, s.at)
    BY DEF EmptyCodec, Operators
  <1> HIDE DEF d
  <1>2. ASSUME NEW s \in Streams PROVE Yields(Got(<<>>, s.at), <<>>, <<>>, s)
    BY DEF Yields, Holds, Breaks, Streams
  <1>3. <<>> \in Seq(Byte)
    OBVIOUS
  <1>4. \A v \in d.val : \A s \in Streams : Fitting(d.enc[v], v, d.dec[s], s)
    BY <1>1, <1>2, <1>3 DEF Fitting
  <1>5. Sound(d)
    BY <1>4, SoundIf
  <1> QED
    BY <1>5 DEF d

\* std::pair, and a tuple with an element more.
LEMMA PairSound ==
    ASSUME NEW c, Sound(c), NEW d, Sound(d)
    PROVE  Sound(PairCodec(c, d))
  <1> DEFINE o == PairCodec(c, d)
             Dec(s) == LET a == c.dec[s]
                           b == d.dec[Behind(s, a.next)]
                       IN  IF Fails(a.next) THEN a
                           ELSE IF Fails(b.next) THEN b ELSE Got(<<a.val, b.val>>, b.next)
  <1>1. /\ o.val = c.val \X d.val
        /\ \A v \in c.val \X d.val : o.enc[v] = Written(c.enc[v[1]], d.enc[v[2]])
        /\ \A s \in Streams : o.dec[s] = Dec(s)
    BY DEF PairCodec, Operators, AndThen
  <1> HIDE DEF o
  <1>2. ASSUME NEW v \in o.val, NEW s \in Streams PROVE Fitting(o.enc[v], v, o.dec[s], s)
    <2> DEFINE v1 == v[1]
               v2 == v[2]
               a == c.enc[v1]
               b == d.enc[v2]
               i == s.at + Len(a)
               p == Behind(s, i)
               r1 == c.dec[s]
               r2 == d.dec[p]
               r == o.dec[s]
    <2>1. v1 \in c.val /\ v2 \in d.val /\ v = <<v1, v2>> /\ o.enc[v] = Written(a, b)
      BY <1>1
    <2>2. Fitting(a, v1, r1, s)
      BY <2>1, SoundThen
    <2>3. r = Dec(s)
      BY <1>1
    <2> HIDE DEF v1, v2, r1, a, b, r
    <2>4. ASSUME a \in Seq(Byte)
          PROVE  Fitting(b, v2, r2, p) /\ Continues(r, v, r1, v1, i, r2, v2)
      <3>1. i \in Nat
        BY <2>4 DEF Streams
      <3>2. p \in Streams
        BY <3>1, BehindIs
      <3>3. Fitting(b, v2, r2, p)
        <4> HIDE DEF p
        <4> QED
          BY <2>1, <3>2, SoundThen DEF b
      <3>4. Fails(r1.next) => Fails(r.next)
        BY <2>3 DEF r1
      <3> HIDE DEF i
      <3>5. r1 = Got(v1, i) =>
                r = IF Fails(r2.next) THEN r2 ELSE Got(<<v1, r2.val>>, r2.next)
        <4> SUFFICES ASSUME r1 = Got(v1, i)
                     PROVE  r = IF Fails(r2.next) THEN r2 ELSE Got(<<v1, r2.val>>, r2.next)
          OBVIOUS
        <4>1. r1.next = i /\ r1.val = v1
          BY DEF Got
        <4>2. ~Fails(r1.next)
          BY <3>1, <4>1, NotFailed
        <4> QED
          BY <2>3, <4>1, <4>2 DEF r1
      <3> HIDE DEF r2
      <3>6. ASSUME NEW j \in Nat, r2 = Got(v2, j) PROVE ~Fails(r2.next) /\ r2.next = j /\ r2.val = v2
        <4>1. r2.next = j /\ r2.val = v2
          BY <3>6 DEF Got
        <4> QED
          BY <4>1, NotFailed
      <3>7. Continues(r, v, r1, v1, i, r2, v2)
        BY <2>1, <3>4, <3>5, <3>6 DEF Continues
      <3> QED
        BY <3>3, <3>7
    <2> HIDE DEF r2
    <2>5. Fitting(Written(a, b), v, r, s)
      BY <2>2, <2>4, WrittenFits
    <2> QED
      BY <2>1, <2>5 DEF r
  <1>3. Sound(o)
    BY <1>2, SoundIf
  <1> QED
    BY <1>3 DEF o

\* A sequence of at most one item.
LEMMA OneOrNone ==
    ASSUME NEW S, NEW v \in AtMostOne(S)
    PROVE  v = <<>> \/ (v = <<v[1]>> /\ v[1] \in S /\ v # <<>>)
  <1>1. v \in Seq(S) /\ Len(v) \in {0, 1}
    <2>1. v \in Seq(S) /\ Len(v) <= 1
      BY DEF AtMostOne
    <2> DEFINE n == Len(v)
    <2>2. n \in Nat /\ n <= 1
      BY <2>1
    <2> HIDE DEF n
    <2>3. n \in {0, 1}
      BY <2>2
    <2> QED
      BY <2>1, <2>3 DEF n
  <1>2. CASE Len(v) = 0
    BY <1>1, <1>2
  <1>3. CASE Len(v) = 1
    <2>1. v = [k \in 1..1 |-> v[k]] /\ v[1] \in S
      BY <1>1, <1>3
    <2>2. <<v[1]>> = [k \in 1..1 |-> v[1]]
      OBVIOUS
    <2>3. v # <<>>
      BY <1>3
    <2> QED
      BY <2>1, <2>2, <2>3
  <1> QED
    BY <1>1, <1>2, <1>3

\* An optional bool.
LEMMA OptionalBoolSound == Sound(OptionalBoolCodec)
  <1> DEFINE d == OptionalBoolCodec
  <1>1. /\ d.val = AtMostOne({0, 1}) /\ \A v \in d.val : d.enc[v] = encodeOptionalBool(v)
        /\ \A s \in Streams : d.dec[s] = decodeOptionalBool(s)
    BY DEF OptionalBoolCodec, Operators
  <1> HIDE DEF d
  <1>2. ASSUME NEW v \in d.val, NEW s \in Streams PROVE Fitting(d.enc[v], v, d.dec[s], s)
    <2> DEFINE b == IF v = <<>> THEN 0 ELSE IF v[1] = 0 THEN 2 ELSE 1
               r1 == nextByte(s)
               r == decodeOptionalBool(s)
    <2>1. d.enc[v] = <<b>> /\ d.dec[s] = r
      BY <1>1 DEF encodeOptionalBool
    <2>2. b \in {0, 1, 2} /\ v = (IF b = 0 THEN <<>> ELSE IF b = 1 THEN <<1>> ELSE <<0>>)
      <3>1. v \in AtMostOne({0, 1})
        BY <1>1
      <3>2. v = <<>> \/ (v = <<v[1]>> /\ v[1] \in {0, 1} /\ v # <<>>)
        BY <3>1, OneOrNone
      <3> QED
        BY <3>2
    <2>3. {0, 1, 2} \subseteq Byte
      <3>1. Bytes(1) = 4 * kMinUint16 /\ kMinUint16 \in Nat /\ Bytes(1) \in Nat \ {0}
        BY PowersAssumption, ScalePowersAssumption
      <3> QED
        BY <3>1 DEF Byte
    <2>4. Yields(r1, b, <<b>>, s)
      BY NextByte
    <2> HIDE DEF b
    <2>5. Fails(r1.next) => Fails(r.next)
      BY DEF decodeOptionalBool, AndThen
    <2>6. s.at + Len(<<b>>) \in Nat
      BY DEF Streams
    <2>7. r1 = Got(b, s.at + Len(<<b>>)) => r = Got(v, s.at + Len(<<b>>))
      <3> DEFINE i == s.at + Len(<<b>>)
      <3> HIDE DEF i
      <3> SUFFICES ASSUME r1 = Got(b, i) PROVE r = Got(v, i)
        BY DEF i
      <3>1. r1.next = i /\ r1.val = b /\ ~Fails(r1.next)
        <4> HIDE DEF r1
        <4>1. r1.next = i /\ r1.val = b
          BY DEF Got
        <4> QED
          BY <2>6, <4>1, NotFailed DEF i
      <3>2. r = CASE r1.val = 0 -> Got(<<>>, r1.next)
                  [] r1.val = 1 -> Got(<<1>>, r1.next)
                  [] r1.val = 2 -> Got(<<0>>, r1.next)
                  [] OTHER -> Stopped(THROW)
        BY <3>1 DEF decodeOptionalBool, AndThen
      <3> HIDE DEF r1, r
      <3> QED
        BY <2>2, <3>1, <3>2
    <2> HIDE DEF r1, r
    <2>8. Yields(r, v, <<b>>, s)
      BY <2>4, <2>5, <2>7, Taken
    <2>9. <<b>> \in Seq(Byte)
      BY <2>2, <2>3
    <2> QED
      BY <2>1, <2>8, <2>9 DEF Fitting
  <1>3. Sound(d)
    BY <1>2, SoundIf
  <1> QED
    BY <1>3 DEF d

\* std::shared_ptr and std::unique_ptr.
LEMMA PointerSound ==
    ASSUME NEW c, Sound(c)
    PROVE  Sound(PointerCodec(c))
  <1> DEFINE d == PointerCodec(c)
             Dec(s) == IF Fails(c.dec[s].next) THEN c.dec[s]
                       ELSE Got(<<c.dec[s].val>>, c.dec[s].next)
  <1>1. /\ d.val = AtMostOne(c.val)
        /\ \A v \in d.val : d.enc[v] = IF v = <<>> THEN THROW ELSE c.enc[v[1]]
        /\ \A s \in Streams : d.dec[s] = Dec(s)
    BY DEF PointerCodec, Operators, AndThen
  <1> HIDE DEF d
  <1>2. ASSUME NEW v \in d.val, NEW s \in Streams PROVE Fitting(d.enc[v], v, d.dec[s], s)
    <2>1. v = <<>> \/ (v = <<v[1]>> /\ v[1] \in c.val /\ v # <<>>)
      BY <1>1, OneOrNone
    <2>2. CASE v = <<>>
      BY <1>1, <2>2 DEF Fitting, Fails
    <2>3. CASE v = <<v[1]>> /\ v[1] \in c.val /\ v # <<>>
      <3> DEFINE x == v[1]
                 e == c.enc[x]
                 r1 == c.dec[s]
                 r == d.dec[s]
      <3>1. v = <<x>> /\ d.enc[v] = e /\ r = Dec(s)
        BY <1>1, <2>3
      <3>2. Fitting(e, x, r1, s)
        BY <2>3, SoundThen
      <3> HIDE DEF x, e, r
      <3>3. Fails(e) => Fitting(e, v, r, s)
        BY DEF Fitting
      <3>4. ASSUME ~Fails(e) PROVE Fitting(e, v, r, s)
        <4>1. e \in Seq(Byte) /\ Yields(r1, x, e, s)
          BY <3>2, <3>4 DEF Fitting
        <4> DEFINE i == s.at + Len(e)
        <4>2. i \in Nat
          BY <4>1 DEF Streams
        <4>3. Fails(r1.next) => Fails(r.next)
          BY <3>1
        <4>4. r1 = Got(x, i) => r = Got(v, i)
          <5> HIDE DEF i
          <5> SUFFICES ASSUME r1 = Got(x, i) PROVE r = Got(v, i)
            OBVIOUS
          <5>1. r1.next = i /\ r1.val = x
            BY DEF Got
          <5>2. ~Fails(r1.next)
            BY <4>2, <5>1, NotFailed
          <5> QED
            BY <3>1, <5>1, <5>2
        <4> HIDE DEF r1
        <4>5. Yields(r, v, e, s)
          BY <4>1, <4>3, <4>4, Taken
        <4> QED
          BY <4>1, <4>5 DEF Fitting
      <3> QED
        BY <3>1, <3>3, <3>4 DEF r
    <2> QED
      BY <2>1, <2>2, <2>3
  <1>3. Sound(d)
    BY <1>2, SoundIf
  <1> QED
    BY <1>3 DEF d

\* boost::optional.
LEMMA OptionalSound ==
    ASSUME NEW c, Sound(c)
    PROVE  Sound(OptionalCodec(c))
  <1> DEFINE d == OptionalCodec(c)
             Dec(s) == LET has == decodeBool(s)
                           r == c.dec[Behind(s, has.next)]
                       IN  IF Fails(has.next) THEN has
                           ELSE IF has.val = 0 THEN Got(<<>>, has.next)
                           ELSE IF Fails(r.next) THEN r ELSE Got(<<r.val>>, r.next)
  <1>1. /\ d.val = AtMostOne(c.val)
        /\ \A v \in d.val : d.enc[v] = IF v = <<>> THEN <<0>> ELSE Written(<<1>>, c.enc[v[1]])
        /\ \A s \in Streams : d.dec[s] = Dec(s)
    BY DEF OptionalCodec, Operators, AndThen
  <1>2. ASSUME NEW b \in {0, 1}, NEW s \in Streams
        PROVE  <<b>> \in Seq(Byte) /\ Len(<<b>>) = 1 /\ Fitting(<<b>>, b, decodeBool(s), s)
    <2> DEFINE o == BoolCodec
    <2>1. o.val = {0, 1} /\ o.enc[b] = <<b>> /\ o.dec[s] = decodeBool(s)
      BY DEF BoolCodec, Operators
    <2>2. <<b>> \in Seq(Byte)
      <3>1. Bytes(1) = 4 * kMinUint16 /\ kMinUint16 \in Nat /\ Bytes(1) \in Nat \ {0}
        BY PowersAssumption, ScalePowersAssumption
      <3>2. b \in Byte
        BY <3>1 DEF Byte
      <3> QED
        BY <3>2
    <2>3. Sound(o)
      BY BoolSound
    <2> HIDE DEF o
    <2>4. Fitting(o.enc[b], b, o.dec[s], s)
      BY <2>1, <2>3, SoundThen
    <2> QED
      BY <2>1, <2>2, <2>4
  <1> HIDE DEF d
  <1>3. ASSUME NEW v \in d.val, NEW s \in Streams PROVE Fitting(d.enc[v], v, d.dec[s], s)
    <2> DEFINE r1 == decodeBool(s)
               r == d.dec[s]
               i == s.at + 1
    <2>1. v = <<>> \/ (v = <<v[1]>> /\ v[1] \in c.val /\ v # <<>>)
      BY <1>1, OneOrNone
    <2>2. r = Dec(s) /\ i \in Nat
      BY <1>1 DEF Streams
    <2>3. Fails(r1.next) => Fails(r.next)
      BY <2>2
    <2>4. ASSUME NEW b, r1 = Got(b, i) PROVE r1.next = i /\ r1.val = b /\ ~Fails(r1.next)
      <3> HIDE DEF r1, i
      <3>1. r1.next = i /\ r1.val = b
        BY <2>4 DEF Got
      <3> QED
        BY <2>2, <3>1, NotFailed
    <2>5. CASE v = <<>>
      <3> DEFINE e == <<0>>
      <3>1. e \in Seq(Byte) /\ Len(e) = 1 /\ Fitting(e, 0, r1, s)
        BY <1>2
      <3>2. r1 = Got(0, i) => r = Got(v, i)
        BY <2>2, <2>4, <2>5
      <3>3. d.enc[v] = e
        BY <1>1, <2>5
      <3> HIDE DEF r1, r, e
      <3>4. Fitting(e, v, r, s)
        <4>1. CASE Fails(e)
          BY <4>1 DEF Fitting
        <4>2. CASE ~Fails(e)
          <5>1. Yields(r1, 0, e, s)
            BY <3>1, <4>2 DEF Fitting
          <5>2. r1 = Got(0, s.at + Len(e)) => r = Got(v, s.at + Len(e))
            BY <3>1, <3>2
          <5>3. Yields(r, v, e, s)
            BY <2>3, <5>1, <5>2, Taken
          <5> QED
            BY <3>1, <5>3 DEF Fitting
        <4> QED
          BY <4>1, <4>2
      <3> QED
        BY <3>3, <3>4 DEF r
    <2>6. CASE v = <<v[1]>> /\ v[1] \in c.val /\ v # <<>>
      <3> DEFINE a == <<1>>
                 x == v[1]
                 b == c.enc[x]
                 p == Behind(s, i)
                 r2 == c.dec[p]
      <3>1. a \in Seq(Byte) /\ Len(a) = 1 /\ Fitting(a, 1, r1, s)
        BY <1>2
      <3>2. d.enc[v] = Written(a, b) /\ v = <<x>> /\ x \in c.val
        BY <1>1, <2>6
      <3>3. p \in Streams
        BY <2>2, BehindIs
      <3>4. Fitting(b, x, r2, p)
        <4> HIDE DEF p, x
        <4> QED
          BY <3>2, <3>3, SoundThen
      <3>5. r1 = Got(1, i) => r = IF Fails(r2.next) THEN r2 ELSE Got(<<r2.val>>, r2.next)
        <4> SUFFICES ASSUME r1 = Got(1, i)
                     PROVE  r = IF Fails(r2.next) THEN r2 ELSE Got(<<r2.val>>, r2.next)
          OBVIOUS
        <4>1. r1.next = i /\ r1.val = 1 /\ ~Fails(r1.next)
          BY <2>4
        <4> QED
          BY <2>2, <4>1
      <3> HIDE DEF r1, r2, r, a, b, x
      <3>6. ASSUME NEW j \in Nat, r2 = Got(x, j) PROVE ~Fails(r2.next) /\ r2.next = j /\ r2.val = x
        <4>1. r2.next = j /\ r2.val = x
          BY <3>6 DEF Got
        <4> QED
          BY <4>1, NotFailed
      <3>7. Continues(r, v, r1, 1, i, r2, x)
        BY <2>3, <3>2, <3>5, <3>6 DEF Continues
      <3>8. Fitting(Written(a, b), v, r, s)
        BY <3>1, <3>4, <3>7, WrittenFits
      <3> QED
        BY <3>2, <3>8 DEF r
    <2> QED
      BY <2>1, <2>5, <2>6
  <1>4. Sound(d)
    BY <1>3, SoundIf
  <1> QED
    BY <1>4 DEF d

\* The alternatives of a variant.
LEMMA AlternativesAre ==
    ASSUME NEW cs, Len(cs) \in Nat, NEW v \in Alternatives(cs)
    PROVE  \E k \in 1..Len(cs) : \E x \in cs[k].val : v = <<k - 1, x>>
  <1> DEFINE n == Len(cs)
             Step(f) == [k \in 0..n |-> IF k = 0 THEN {} ELSE f[k - 1] \cup ({k - 1} \X cs[k].val)]
             G == [k \in 0..n |-> UNION {{j - 1} \X cs[j].val : j \in 1..k}]
             F == CHOOSE f : f = Step(f)
  <1>1. n \in Nat /\ Alternatives(cs) = F[n]
    BY DEF Alternatives
  <1> HIDE DEF n
  <1>2. G = Step(G)
    <2>1. G[0] = {}
      BY <1>1
    <2>2. ASSUME NEW k \in 1..n PROVE G[k] = G[k - 1] \cup ({k - 1} \X cs[k].val)
      <3> DEFINE A(j) == {j - 1} \X cs[j].val
      <3>1. k \in 0..n /\ k - 1 \in 0..n
        BY <1>1
      <3>2. 1..k = (1..(k - 1)) \cup {k}
        BY <1>1
      <3>3. G[k] = UNION {A(j) : j \in 1..k} /\ G[k - 1] = UNION {A(j) : j \in 1..(k - 1)}
        BY <3>1
      <3> HIDE DEF A
      <3>4. ASSUME NEW J
            PROVE  UNION {A(j) : j \in J \cup {k}} = (UNION {A(j) : j \in J}) \cup A(k)
        <4> DEFINE U == {A(j) : j \in J}
        <4>1. {A(j) : j \in J \cup {k}} = U \cup {A(k)}
          OBVIOUS
        <4> HIDE DEF U
        <4>2. UNION (U \cup {A(k)}) = (UNION U) \cup A(k)
          OBVIOUS
        <4> QED
          BY <4>1, <4>2 DEF U
      <3> HIDE DEF G
      <3> QED
        BY <3>2, <3>3, <3>4 DEF A
    <2>3. \A k \in 0..n : k = 0 \/ k \in 1..n
      BY <1>1
    <2>4. G = [k \in 0..n |-> G[k]]
      OBVIOUS
    <2> HIDE DEF G
    <2> QED
      BY <2>1, <2>2, <2>3, <2>4
  <1>3. F = Step(F)
    <2> HIDE DEF Step, G
    <2> QED
      BY <1>2
  <1> HIDE DEF F
  <1> DEFINE S == {k \in Nat : k <= n => F[k] = G[k]}
  <1>4. 0 \in S
    BY <1>1, <1>2, <1>3
  <1>5. ASSUME NEW k \in Nat, k \in S PROVE k + 1 \in S
    <2> SUFFICES ASSUME k + 1 <= n PROVE F[k + 1] = G[k + 1]
      OBVIOUS
    <2>1. k + 1 \in 0..n /\ k + 1 # 0 /\ (k + 1) - 1 = k /\ F[k] = G[k]
      <3> HIDE DEF G
      <3> QED
        BY <1>1, <1>5
    <2>2. \A f : f = Step(f) => f[k + 1] = f[k] \cup ({k} \X cs[k + 1].val)
      BY <2>1
    <2> HIDE DEF Step, G
    <2> QED
      BY <1>2, <1>3, <2>1, <2>2
  <1> HIDE DEF S
  <1>6. Nat \subseteq S
    BY <1>4, <1>5, Inductive
  <1>7. v \in G[n]
    <2> HIDE DEF G
    <2>1. n \in S
      BY <1>1, <1>6
    <2>2. F[n] = G[n]
      BY <1>1, <2>1 DEF S
    <2> QED
      BY <1>1, <2>2
  <1>8. G[n] = UNION {{j - 1} \X cs[j].val : j \in 1..n}
    BY <1>1
  <1> HIDE DEF G
  <1>9. PICK k \in 1..n : v \in {k - 1} \X cs[k].val
    BY <1>7, <1>8
  <1>10. PICK x \in cs[k].val : v = <<k - 1, x>>
    BY <1>9
  <1> QED
    BY <1>10 DEF n

\* boost::variant: the byte in front of the value can name every alternative.
LEMMA VariantSound ==
    ASSUME NEW cs, NEW n \in Nat, Len(cs) = n, n <= Bytes(1), \A k \in 1..n : Sound(cs[k])
    PROVE  Sound(VariantCodec(cs))
  <1> DEFINE d == VariantCodec(cs)
             Dec(s) == LET which == nextByte(s)
                           r == cs[which.val + 1].dec[Behind(s, which.next)]
                       IN  IF Fails(which.next) THEN which
                           ELSE IF which.val >= n THEN Stopped(THROW)
                           ELSE IF Fails(r.next) THEN r ELSE Got(<<which.val, r.val>>, r.next)
  <1>1. /\ d.val = Alternatives(cs)
        /\ \A v \in d.val : d.enc[v] = Written(<<v[1]>>, cs[v[1] + 1].enc[v[2]])
        /\ \A s \in Streams : d.dec[s] = Dec(s)
    BY DEF VariantCodec, Operators, AndThen
  <1> HIDE DEF d
  <1>2. ASSUME NEW v \in d.val, NEW s \in Streams PROVE Fitting(d.enc[v], v, d.dec[s], s)
    <2>1. PICK k \in 1..n : \E x \in cs[k].val : v = <<k - 1, x>>
      BY <1>1, AlternativesAre
    <2>2. PICK x \in cs[k].val : v = <<k - 1, x>>
      BY <2>1
    <2> DEFINE w == k - 1
               a == <<w>>
               b == cs[k].enc[x]
               i == s.at + 1
               p == Behind(s, i)
               r1 == nextByte(s)
               r2 == cs[k].dec[p]
               r == d.dec[s]
    <2>3. w \in Byte /\ w + 1 = k /\ ~(w >= n) /\ i \in Nat
      BY ByteIsNat DEF Byte, Streams
    <2>4. a \in Seq(Byte) /\ Len(a) = 1
      <3> HIDE DEF w
      <3> QED
        BY <2>3
    <2>5. v = <<w, x>> /\ d.enc[v] = Written(a, b)
      <3>1. v[1] = w /\ v[2] = x
        BY <2>2
      <3> HIDE DEF w
      <3> QED
        BY <1>1, <2>2, <2>3, <3>1 DEF w
    <2>6. Fitting(a, w, r1, s)
      BY <2>4, NextByte DEF Fitting
    <2>7. p \in Streams
      BY <2>3, BehindIs
    <2>8. Fitting(b, x, r2, p)
      <3> HIDE DEF p
      <3> QED
        BY <2>7, SoundThen
    <2>9. r = Dec(s)
      BY <1>1
    <2>10. Fails(r1.next) => Fails(r.next)
      BY <2>9
    <2> HIDE DEF w, r, i
    <2>11. r1 = Got(w, i) => r = IF Fails(r2.next) THEN r2 ELSE Got(<<w, r2.val>>, r2.next)
      <3> SUFFICES ASSUME r1 = Got(w, i)
                   PROVE  r = IF Fails(r2.next) THEN r2 ELSE Got(<<w, r2.val>>, r2.next)
        OBVIOUS
      <3>1. r1.next = i /\ r1.val = w /\ ~Fails(r1.next)
        <4> HIDE DEF r1
        <4>1. r1.next = i /\ r1.val = w
          BY DEF Got
        <4> QED
          BY <2>3, <4>1, NotFailed
      <3> QED
        BY <2>3, <2>9, <3>1
    <2> HIDE DEF r1, r2, a, b
    <2>12. ASSUME NEW j \in Nat, r2 = Got(x, j) PROVE ~Fails(r2.next) /\ r2.next = j /\ r2.val = x
      <3>1. r2.next = j /\ r2.val = x
        BY <2>12 DEF Got
      <3> QED
        BY <3>1, NotFailed
    <2>13. Continues(r, v, r1, w, i, r2, x)
      BY <2>5, <2>10, <2>11, <2>12 DEF Continues
    <2>14. Fitting(Written(a, b), v, r, s)
      BY <2>4, <2>6, <2>8, <2>13, WrittenFits DEF i
    <2> QED
      BY <2>5, <2>14 DEF r
  <1>3. Sound(d)
    BY <1>2, SoundIf
  <1> QED
    BY <1>3 DEF d

\* A number of one byte is written as the byte that ByteAs reads it from.
LEMMA AsByte ==
    ASSUME NEW t \in NumberTypes, IsByte(t), NEW v \in NumberCodec(t).val
    PROVE  \E b \in Byte : NumberCodec(t).enc[v] = <<b>> /\ ByteAs(t, b) = v
  <1>1. CASE t.t = "bool"
    <2>1. NumberCodec(t) = BoolCodec
      BY <1>1 DEF NumberCodec
    <2>2. v \in {0, 1} /\ NumberCodec(t).enc[v] = <<v>>
      BY <2>1 DEF BoolCodec, Operators
    <2>3. v \in Byte
      <3>1. Bytes(1) = 4 * kMinUint16 /\ kMinUint16 \in Nat /\ Bytes(1) \in Nat \ {0}
        BY PowersAssumption, ScalePowersAssumption
      <3> QED
        BY <2>2, <3>1 DEF Byte
    <2>4. ByteAs(t, v) = v
      BY <1>1, <2>2 DEF ByteAs
    <2> QED
      BY <2>2, <2>3, <2>4
  <1>2. CASE t.t = "int" /\ t.size = 1
    <2> DEFINE b == v % Bytes(1)
    <2>1. NumberCodec(t) = IntCodec(t)
      BY <1>2 DEF NumberCodec
    <2>2. v \in NumbersOf(1, t.signed) /\ NumberCodec(t).enc[v] = LittleEndian(v, 1)
      BY <1>2, <2>1 DEF IntCodec, Operators
    <2>3. t.signed \in BOOLEAN /\ Fits(1)
      BY <1>2, Lengths DEF NumberTypes
    <2>4. v \in Int /\ AsNumber(b, 1, t.signed) = v
      BY <2>2, <2>3, SignedBack
    <2>5. Bytes(1) \in Nat \ {0} /\ Bytes(0) = 1 /\ b \in Byte
      BY <2>4, PowersAssumption DEF Byte
    <2>6. LittleEndian(v, 1) = <<b>>
      <3>1. LittleEndian(v, 1) = [i \in 1..1 |-> (b \div Bytes(i - 1)) % Bytes(1)]
        BY DEF LittleEndian
      <3> HIDE DEF b
      <3>2. \A i \in 1..1 : (b \div Bytes(i - 1)) % Bytes(1) = b
        <4>1. b \in Nat /\ b < Bytes(1)
          BY <2>5 DEF Byte
        <4>2. (b \div 1) % Bytes(1) = b
          BY <2>5, <4>1
        <4>3. \A i \in 1..1 : i - 1 = 0
          OBVIOUS
        <4> QED
          BY <2>5, <4>2, <4>3
      <3>3. <<b>> = [i \in 1..1 |-> b]
        OBVIOUS
      <3> QED
        BY <3>1, <3>2, <3>3
    <2>7. ByteAs(t, b) = v
      BY <1>2, <2>4 DEF ByteAs
    <2> QED
      BY <2>2, <2>5, <2>6, <2>7
  <1> QED
    BY <1>1, <1>2 DEF IsByte

\* A sequence of them is written as their bytes.
LEMMA AsBytes ==
    ASSUME NEW t \in NumberTypes, IsByte(t), NEW vs \in Seq(NumberCodec(t).val)
    PROVE  \/ Fails(EncodeEach(NumberCodec(t), vs))
           \/ /\ EncodeEach(NumberCodec(t), vs) \in Seq(Byte)
              /\ Len(EncodeEach(NumberCodec(t), vs)) = Len(vs)
              /\ \A k \in 1..Len(vs) : ByteAs(t, EncodeEach(NumberCodec(t), vs)[k]) = vs[k]
  <1> DEFINE c == NumberCodec(t)
             n == Len(vs)
             Is(e, k) == /\ e \in Seq(Byte) /\ Len(e) = k
                         /\ \A j \in 1..k : ByteAs(t, e[j]) = vs[j]
  <1>1. n \in Nat /\ \A k \in 1..n : vs[k] \in c.val
    OBVIOUS
  <1>2. PICK E : /\ EncodeEach(c, vs) = E[n] /\ E[0] = <<>>
                 /\ \A k \in 1..n : E[k] = Written(E[k - 1], c.enc[vs[k]])
    BY <1>1, EachWritten
  <1> HIDE DEF n, c
  <1> DEFINE S == {k \in Nat : k <= n => Fails(E[k]) \/ Is(E[k], k)}
  <1>3. 0 \in S
    <2>1. Is(<<>>, 0)
      OBVIOUS
    <2> HIDE DEF Is
    <2> QED
      BY <1>2, <2>1
  <1>4. ASSUME NEW k \in Nat, k \in S PROVE k + 1 \in S
    <2> SUFFICES ASSUME k + 1 <= n PROVE Fails(E[k + 1]) \/ Is(E[k + 1], k + 1)
      OBVIOUS
    <2>1. k + 1 \in 1..n /\ (k + 1) - 1 = k
      BY <1>1
    <2>2. PICK b \in Byte : c.enc[vs[k + 1]] = <<b>> /\ ByteAs(t, b) = vs[k + 1]
      BY <1>1, <2>1, AsByte DEF c
    <2>3. E[k + 1] = Written(E[k], <<b>>)
      BY <1>2, <2>1, <2>2
    <2>4. Fails(E[k]) \/ Is(E[k], k)
      BY <1>1, <1>4
    <2>5. CASE Fails(E[k]) \/ Fails(<<b>>)
      BY <2>3, <2>5 DEF Written
    <2>6. CASE ~Fails(E[k]) /\ ~Fails(<<b>>)
      <3> DEFINE e == E[k]
                 g == e \o <<b>>
      <3>1. E[k + 1] = g /\ Is(e, k)
        BY <2>3, <2>4, <2>6 DEF Written
      <3> HIDE DEF e
      <3>2. g \in Seq(Byte) /\ Len(g) = k + 1 /\ g[k + 1] = b /\ \A j \in 1..k : g[j] = e[j]
        BY <3>1
      <3>3. \A j \in 1..(k + 1) : j \in 1..k \/ j = k + 1
        OBVIOUS
      <3> HIDE DEF g
      <3>4. \A j \in 1..(k + 1) : ByteAs(t, g[j]) = vs[j]
        BY <2>2, <3>1, <3>2, <3>3
      <3> QED
        BY <3>1, <3>2, <3>4
    <2> QED
      BY <2>5, <2>6
  <1> HIDE DEF S
  <1>5. Nat \subseteq S
    BY <1>3, <1>4, Inductive
  <1>6. Fails(E[n]) \/ Is(E[n], n)
    BY <1>1, <1>5 DEF S
  <1> QED
    BY <1>2, <1>6 DEF n, c

\* A vector of bytes, which is copied at once.
LEMMA ByteVectorSound ==
    ASSUME NEW t \in NumberTypes, IsByte(t)
    PROVE  Sound(ByteVectorCodec(t))
  <1> DEFINE c == NumberCodec(t)
             d == ByteVectorCodec(t)
             Dec(s) == LET size == decodeCompactInteger(s)
                           r == NextBytes(Behind(s, size.next), size.val, ABORT)
                       IN  IF Fails(size.next) THEN size
                           ELSE IF Fails(r.next) THEN r
                           ELSE Got([k \in DOMAIN r.val |-> ByteAs(t, r.val[k])], r.next)
  <1>1. /\ d.val = Seq(c.val) /\ \A v \in d.val : d.enc[v] = encodeCollection(c, v)
        /\ \A s \in Streams : d.dec[s] = Dec(s)
    BY DEF ByteVectorCodec, Operators, DecodeBytes, Unchecked, AndThen
  <1> HIDE DEF d
  <1>2. ASSUME NEW vs \in d.val, NEW s \in Streams PROVE Fitting(d.enc[vs], vs, d.dec[s], s)
    <2> DEFINE n == Len(vs)
               a == encodeCompactInteger(n)
               b == EncodeEach(c, vs)
               r1 == decodeCompactInteger(s)
               i == s.at + Len(a)
               p == Behind(s, i)
               r2 == NextBytes(p, n, ABORT)
               r == d.dec[s]
    <2>1. vs \in Seq(c.val) /\ n \in Nat /\ vs = [k \in 1..n |-> vs[k]]
      BY <1>1
    <2>2. \/ Fails(b)
          \/ b \in Seq(Byte) /\ Len(b) = n /\ \A k \in 1..n : ByteAs(t, b[k]) = vs[k]
      BY <2>1, AsBytes
    <2>3. d.enc[vs] = Written(a, b)
      BY <1>1 DEF encodeCollection
    <2>4. Fitting(a, n, r1, s)
      <3> DEFINE o == CompactCodec
      <3>1. /\ o.val = Int /\ \A v \in Int : o.enc[v] = encodeCompactInteger(v)
            /\ \A x \in Streams : o.dec[x] = decodeCompactInteger(x)
        BY DEF CompactCodec, Operators
      <3>2. Sound(o)
        BY CompactSound
      <3>3. n \in Int
        BY <2>1
      <3> HIDE DEF o, n
      <3>4. Fitting(o.enc[n], n, o.dec[s], s)
        BY <3>1, <3>2, <3>3, SoundThen
      <3> QED
        BY <3>1, <3>3, <3>4
    <2>5. r = Dec(s)
      BY <1>1
    <2> HIDE DEF a, b, n, r
    <2>6. CASE Fails(b)
      BY <2>3, <2>6 DEF Written, Fitting
    <2>7. CASE ~Fails(b)
      <3>1. b \in Seq(Byte) /\ Len(b) = n /\ \A k \in 1..n : ByteAs(t, b[k]) = vs[k]
        BY <2>2, <2>7
      <3>2. b \in Seq(Nat)
        BY <3>1, BytesAreNats
      <3>3. [k \in DOMAIN b |-> ByteAs(t, b[k])] = vs
        <4>1. DOMAIN b = 1..n
          BY <3>1
        <4> QED
          BY <2>1, <3>1, <4>1
      <3>4. ASSUME a \in Seq(Byte)
            PROVE  Fitting(b, b, r2, p) /\ Continues(r, vs, r1, n, i, r2, b)
        <4>1. i \in Nat
          BY <3>4 DEF Streams
        <4>2. p \in Streams
          BY <4>1, BehindIs
        <4>3. Yields(r2, b, b, p)
          <5> HIDE DEF p
          <5> QED
            BY <3>1, <3>2, <4>2, SomeBytes DEF Fails
        <4>4. Fails(r1.next) => Fails(r.next)
          BY <2>5
        <4> HIDE DEF i
        <4>5. r1 = Got(n, i) =>
                r = IF Fails(r2.next) THEN r2
                    ELSE Got([k \in DOMAIN r2.val |-> ByteAs(t, r2.val[k])], r2.next)
          <5> SUFFICES ASSUME r1 = Got(n, i)
                       PROVE  r = IF Fails(r2.next) THEN r2
                                  ELSE Got([k \in DOMAIN r2.val |-> ByteAs(t, r2.val[k])], r2.next)
            OBVIOUS
          <5>1. r1.next = i /\ r1.val = n /\ ~Fails(r1.next)
            <6> HIDE DEF r1
            <6>1. r1.next = i /\ r1.val = n
              BY DEF Got
            <6> QED
              BY <4>1, <6>1, NotFailed
          <5> QED
            BY <2>5, <5>1, Zenon
        <4> HIDE DEF r1, r2
        <4>6. ASSUME NEW j \in Nat, r2 = Got(b, j)
              PROVE  ~Fails(r2.next) /\ r2.next = j /\ r2.val = b
          <5>1. r2.next = j /\ r2.val = b
            BY <4>6 DEF Got
          <5> QED
            BY <5>1, NotFailed
        <4>7. ASSUME NEW j \in Nat, r1 = Got(n, i), r2 = Got(b, j) PROVE r = Got(vs, j)
          <5>1. ~Fails(r2.next) /\ r2.next = j /\ r2.val = b
            BY <4>6, <4>7
          <5>2. r = Got([k \in DOMAIN b |-> ByteAs(t, b[k])], j)
            BY <4>5, <4>7, <5>1
          <5> QED
            BY <3>3, <5>2
        <4>8. Continues(r, vs, r1, n, i, r2, b)
          BY <4>4, <4>5, <4>7 DEF Continues
        <4> QED
          BY <3>1, <4>3, <4>8 DEF Fitting
      <3> HIDE DEF r1, r2
      <3>5. Fitting(Written(a, b), vs, r, s)
        BY <2>4, <3>4, WrittenFits
      <3> QED
        BY <2>3, <3>5 DEF r
    <2> QED
      BY <2>6, <2>7
  <1>3. Sound(d)
    BY <1>2, SoundIf
  <1> QED
    BY <1>3 DEF d

\* ByKey lists each pair of a map once.
LEMMA ByKeyLists ==
    ASSUME NEW m, IsFiniteSet(m), \A p \in m : p[1] \in Int,
           \A p, q \in m : p[1] = q[1] => p = q
    PROVE  /\ Cardinality(m) \in Nat /\ ByKey(m) \in [1..Cardinality(m) -> m]
           /\ \A p \in m : \E i \in 1..Cardinality(m) : ByKey(m)[i] = p
           /\ \A i, j \in 1..Cardinality(m) : ByKey(m)[i] = ByKey(m)[j] => i = j
  <1> DEFINE n == Cardinality(m)
             UpTo(p) == {q \in m : q[1] <= p[1]}
             Place(p) == Cardinality(UpTo(p))
             f == [p \in m |-> Place(p)]
             g == ByKey(m)
  <1>1. n \in Nat
    BY FS_CardinalityType
  <1>2. g = [i \in 1..n |-> CHOOSE p \in m : Place(p) = i]
    BY DEF ByKey
  <1>3. ASSUME NEW p \in m PROVE IsFiniteSet(UpTo(p)) /\ Place(p) \in Nat /\ Place(p) <= n
    <2>1. UpTo(p) \in SUBSET m
      OBVIOUS
    <2> HIDE DEF UpTo
    <2> QED
      BY <2>1, FS_Subset, FS_CardinalityType
  <1>4. ASSUME NEW p \in m PROVE Place(p) # 0
    <2>1. p \in UpTo(p)
      OBVIOUS
    <2> HIDE DEF UpTo
    <2> QED
      BY <1>3, <2>1, FS_EmptySet
  <1>5. ASSUME NEW p \in m, NEW q \in m, p[1] < q[1] PROVE Place(p) # Place(q)
    <2>1. UpTo(p) \in SUBSET UpTo(q)
      BY <1>5
    <2>2. q \in UpTo(q) /\ q \notin UpTo(p)
      BY <1>5
    <2> HIDE DEF UpTo
    <2>3. IsFiniteSet(UpTo(q))
      BY <1>3
    <2> QED
      BY <2>1, <2>2, <2>3, FS_Subset
  <1>6. ASSUME NEW p \in m, NEW q \in m, Place(p) = Place(q) PROVE p = q
    <2>1. p[1] < q[1] \/ q[1] < p[1] \/ p[1] = q[1]
      OBVIOUS
    <2> HIDE DEF Place
    <2> QED
      BY <1>5, <1>6, <2>1
  <1> HIDE DEF n, Place
  <1>7. ASSUME NEW p \in m PROVE Place(p) \in 1..n
    <2>1. Place(p) \in Nat /\ Place(p) <= n
      BY <1>3
    <2>2. Place(p) # 0
      BY <1>4
    <2> QED
      BY <1>1, <2>1, <2>2
  <1>8. f \in Surjection(m, 1..n)
    <2>1. f \in Injection(m, 1..n)
      BY <1>6, <1>7 DEF Injection, IsInjective
    <2>2. IsFiniteSet(1..n) /\ Cardinality(1..n) = n
      BY <1>1, FS_Interval
    <2> HIDE DEF f
    <2> QED
      BY <2>1, <2>2, FS_Injection DEF n
  <1>9. \A i \in 1..n : \E p \in m : Place(p) = i
    BY <1>8 DEF Surjection
  <1>10. \A i \in 1..n : g[i] \in m /\ Place(g[i]) = i
    <2> HIDE DEF g
    <2>1. \A i \in 1..n : g[i] = CHOOSE p \in m : Place(p) = i
      BY <1>2
    <2> QED
      BY <1>9, <2>1
  <1> HIDE DEF g
  <1>11. g \in [1..n -> m]
    BY <1>2, <1>10
  <1>12. \A p \in m : g[Place(p)] = p
    BY <1>6, <1>7, <1>10
  <1> QED
    BY <1>1, <1>7, <1>10, <1>11, <1>12 DEF n, g

\* std::map.
LEMMA MapSound ==
    ASSUME NEW c, Sound(c), c.val \subseteq Int, NEW d, Sound(d)
    PROVE  Sound(MapCodec(c, d))
  <1> DEFINE o == MapCodec(c, d)
             e == PairCodec(c, d)
             Dec(s) == LET r == DecodeCollection(e, s)
                       IN  IF Fails(r.next) THEN r ELSE Got(Emplaced(r.val), r.next)
  <1>1. /\ o.val = Maps(c, d)
        /\ \A m \in o.val : o.enc[m] = encodeCollection(e, ByKey(m))
        /\ \A s \in Streams : o.dec[s] = Dec(s)
    BY DEF MapCodec, Operators, AndThen
  <1>2. Sound(e) /\ e.val = c.val \X d.val
    BY PairSound DEF PairCodec, Operators
  <1> HIDE DEF o, e
  <1>3. ASSUME NEW m \in o.val, NEW s \in Streams PROVE Fitting(o.enc[m], m, o.dec[s], s)
    <2> DEFINE n == Cardinality(m)
               g == ByKey(m)
               w == encodeCollection(e, g)
               r1 == DecodeCollection(e, s)
               r == o.dec[s]
    <2>1. /\ m \in SUBSET (c.val \X d.val) /\ IsFiniteSet(m)
          /\ \A p, q \in m : p[1] = q[1] => p = q
      BY <1>1 DEF Maps
    <2>2. \A p \in m : p[1] \in Int
      BY <2>1
    <2>3. /\ n \in Nat /\ g \in [1..n -> m]
          /\ \A p \in m : \E i \in 1..n : g[i] = p
          /\ \A i, j \in 1..n : g[i] = g[j] => i = j
      BY <2>1, <2>2, ByKeyLists
    <2> HIDE DEF n, g
    <2>4. g \in Seq(e.val)
      <3>1. g \in [1..n -> e.val]
        BY <1>2, <2>1, <2>3
      <3> QED
        BY <2>3, <3>1, IsSeqOf
    <2>5. Emplaced(g) = m
      <3> DEFINE K == {k \in DOMAIN g : \A j \in 1..(k - 1) : g[j][1] # g[k][1]}
      <3>1. DOMAIN g = 1..n
        BY <2>3
      <3>2. ASSUME NEW k \in 1..n, NEW j \in 1..(k - 1) PROVE g[j][1] # g[k][1]
        <4>1. j \in 1..n /\ j # k
          BY <2>3
        <4> QED
          BY <2>1, <2>3, <4>1
      <3>3. K = 1..n
        BY <3>1, <3>2
      <3>4. Emplaced(g) = {g[i] : i \in K}
        BY DEF Emplaced
      <3> HIDE DEF K
      <3>5. {g[i] : i \in 1..n} = m
        BY <2>3
      <3> QED
        BY <3>3, <3>4, <3>5
    <2>6. Fitting(w, g, r1, s)
      BY <1>2, <2>4, CollectionFits
    <2>7. o.enc[m] = w /\ r = IF Fails(r1.next) THEN r1 ELSE Got(Emplaced(r1.val), r1.next)
      BY <1>1 DEF g
    <2> HIDE DEF w, r, r1
    <2>8. CASE Fails(w)
      BY <2>7, <2>8 DEF Fitting
    <2>9. CASE ~Fails(w)
      <3> DEFINE i == s.at + Len(w)
      <3>1. w \in Seq(Byte) /\ Yields(r1, g, w, s)
        BY <2>6, <2>9 DEF Fitting
      <3>2. i \in Nat
        BY <3>1 DEF Streams
      <3>3. r1 = Got(g, i) => r = Got(m, i)
        <4> HIDE DEF i
        <4> SUFFICES ASSUME r1 = Got(g, i) PROVE r = Got(m, i)
          OBVIOUS
        <4>1. r1.next = i /\ r1.val = g
          BY DEF Got
        <4>2. ~Fails(r1.next)
          BY <3>2, <4>1, NotFailed
        <4> QED
          BY <2>5, <2>7, <4>1, <4>2
      <3>4. Fails(r1.next) => Fails(r.next)
        BY <2>7
      <3>5. Yields(r, m, w, s)
        BY <3>1, <3>3, <3>4, Taken
      <3> QED
        BY <2>7, <3>1, <3>5 DEF Fitting, r
    <2> QED
      BY <2>8, <2>9
  <1>4. Sound(o)
    BY <1>3, SoundIf
  <1> QED
    BY <1>4 DEF o

-----------------------------------------------------------------------------
(* Every type.                                                             *)

\* Only the types of numbers are named as they are.
Named(T) == \A t \in T : t.t \in {"bool", "int", "compact"} => t \in NumberTypes

\* The operators of every type in the table fit each other.
AllSound(codec) == Named(DOMAIN codec) /\ \A t \in DOMAIN codec : Sound(codec[t])

\* The forms a type can have.
LEMMA Forms ==
    ASSUME NEW T, NEW t \in TypesOver(T)
    PROVE  \/ t \in NumberTypes /\ t.t \in {"bool", "compact", "u256", "s256", "int"}
           \/ t.t = "empty"
           \/ t.t \in {"optional", "vector", "pointer"} /\ t.of \in T
           \/ t.t = "array" /\ t.n \in Nat /\ t.of \in T
           \/ t.t = "pair" /\ t.first \in T /\ t.second \in T
           \/ t.t = "map" /\ t.key \in NumberTypes /\ t.of \in T
           \/ t.t = "variant" /\ t.of \in Seq(T) /\ Len(t.of) <= Bytes(1)
  <1>1. CASE t \in NumberTypes
    BY <1>1 DEF NumberTypes
  <1>2. CASE t \in [t : {"empty"}]
    BY <1>2
  <1>3. CASE t \in [t : {"optional", "vector", "pointer"}, of : T]
    BY <1>3
  <1>4. CASE t \in [t : {"array"}, n : Nat, of : T]
    BY <1>4
  <1>5. CASE t \in [t : {"pair"}, first : T, second : T]
    BY <1>5
  <1>6. CASE t \in [t : {"map"}, key : NumberTypes, of : T]
    BY <1>6
  <1>7. CASE t \in [t : {"variant"}, of : {ts \in Seq(T) : Len(ts) <= Bytes(1) /\ IsInjective(ts)}]
    BY <1>7
  <1> QED
    BY <1>1, <1>2, <1>3, <1>4, <1>5, <1>6, <1>7 DEF TypesOver

LEMMA NumberNames ==
    ASSUME NEW t \in NumberTypes
    PROVE  t.t \in {"bool", "compact", "u256", "s256", "int"}
  BY DEF NumberTypes

\* The operators of a template fit each other if those of its arguments do.
LEMMA TemplatesSound ==
    ASSUME NEW codec, AllSound(codec)
    PROVE  AllSound(Templates(codec)) /\ \A t \in NumberTypes :
                t \in DOMAIN Templates(codec) /\ Templates(codec)[t] = NumberCodec(t)
  <1> DEFINE T == DOMAIN codec
             X == Templates(codec)
             U == TypesOver(T)
  <1>1. DOMAIN X = U /\ NumberTypes \subseteq U
    BY DEF Templates, TypesOver
  <1>2. Named(U)
    <2> HIDE DEF T
    <2> QED
      BY Forms DEF Named
  <1>3. ASSUME NEW t \in NumberTypes PROVE X[t] = NumberCodec(t)
    <2>1. t \in U /\ t.t \in {"bool", "compact", "u256", "s256", "int"}
      BY <1>1, NumberNames
    <2> HIDE DEF T
    <2> QED
      BY <2>1 DEF Templates, T
  <1>4. ASSUME NEW t \in U PROVE Sound(X[t])
    <2>1. Named(T) /\ \A u \in T : Sound(codec[u])
      BY DEF AllSound
    <2>2. X[t] =
            CASE t \in NumberTypes -> NumberCodec(t)
              [] t.t = "empty" -> EmptyCodec
              [] t.t = "optional" ->
                    IF t.of.t = "bool" THEN OptionalBoolCodec ELSE OptionalCodec(codec[t.of])
              [] t.t = "vector" ->
                    IF IsByte(t.of) THEN ByteVectorCodec(t.of) ELSE VectorCodec(codec[t.of])
              [] t.t = "pointer" -> PointerCodec(codec[t.of])
              [] t.t = "array" -> ArrayCodec(codec[t.of], t.n)
              [] t.t = "pair" -> PairCodec(codec[t.first], codec[t.second])
              [] t.t = "map" -> MapCodec(NumberCodec(t.key), codec[t.of])
              [] t.t = "variant" -> VariantCodec([i \in DOMAIN t.of |-> codec[t.of[i]]])
      BY <1>4 DEF Templates
    <2>3. t \in NumberTypes => t.t \in {"bool", "compact", "u256", "s256", "int"}
      BY NumberNames
    <2> HIDE DEF X, T
    <2>4. CASE t \in NumberTypes
      BY <1>3, <2>4, NumberSound
    <2>5. CASE t.t = "empty"
      <3>1. X[t] = EmptyCodec
        BY <2>2, <2>3, <2>5
      <3> QED
        BY <3>1, EmptySound
    <2>6. CASE t.t = "optional" /\ t.of \in T
      <3>1. X[t] = IF t.of.t = "bool" THEN OptionalBoolCodec ELSE OptionalCodec(codec[t.of])
        BY <2>2, <2>3, <2>6
      <3>2. Sound(OptionalCodec(codec[t.of]))
        BY <2>1, <2>6, OptionalSound
      <3> QED
        BY <3>1, <3>2, OptionalBoolSound
    <2>7. CASE t.t = "vector" /\ t.of \in T
      <3>1. X[t] = IF IsByte(t.of) THEN ByteVectorCodec(t.of) ELSE VectorCodec(codec[t.of])
        BY <2>2, <2>3, <2>7
      <3>2. Sound(VectorCodec(codec[t.of]))
        BY <2>1, <2>7, VectorSound
      <3>3. IsByte(t.of) => Sound(ByteVectorCodec(t.of))
        <4>1. IsByte(t.of) => t.of \in NumberTypes
          BY <2>1, <2>7 DEF IsByte, Named
        <4> QED
          BY <4>1, ByteVectorSound
      <3> QED
        BY <3>1, <3>2, <3>3
    <2>8. CASE t.t = "pointer" /\ t.of \in T
      <3>1. X[t] = PointerCodec(codec[t.of])
        BY <2>2, <2>3, <2>8
      <3> QED
        BY <2>1, <2>8, <3>1, PointerSound
    <2>9. CASE t.t = "array" /\ t.n \in Nat /\ t.of \in T
      <3>1. X[t] = ArrayCodec(codec[t.of], t.n)
        BY <2>2, <2>3, <2>9
      <3> QED
        BY <2>1, <2>9, <3>1, ArraySound
    <2>10. CASE t.t = "pair" /\ t.first \in T /\ t.second \in T
      <3>1. X[t] = PairCodec(codec[t.first], codec[t.second])
        BY <2>2, <2>3, <2>10
      <3> QED
        BY <2>1, <2>10, <3>1, PairSound
    <2>11. CASE t.t = "map" /\ t.key \in NumberTypes /\ t.of \in T
      <3>1. X[t] = MapCodec(NumberCodec(t.key), codec[t.of])
        BY <2>2, <2>3, <2>11
      <3>2. Sound(NumberCodec(t.key)) /\ NumberCodec(t.key).val \subseteq Int
        BY <2>11, NumberSound
      <3> QED
        BY <2>1, <2>11, <3>1, <3>2, MapSound
    <2>12. CASE t.t = "variant" /\ t.of \in Seq(T) /\ Len(t.of) <= Bytes(1)
      <3> DEFINE n == Len(t.of)
                 cs == [i \in DOMAIN t.of |-> codec[t.of[i]]]
      <3>1. X[t] = VariantCodec(cs)
        BY <2>2, <2>3, <2>12
      <3>2. n \in Nat /\ DOMAIN t.of = 1..n /\ \A i \in 1..n : t.of[i] \in T
        BY <2>12
      <3>3. \A i \in 1..n : cs[i] = codec[t.of[i]]
        BY <3>2
      <3>4. Len(cs) = n
        <4>1. cs = [i \in 1..n |-> cs[i]]
          BY <3>2
        <4> HIDE DEF cs, n
        <4>2. cs \in [1..n -> {cs[i] : i \in 1..n}]
          BY <4>1
        <4> QED
          BY <3>2, <4>2, IsSeqOf
      <3>5. \A i \in 1..n : Sound(cs[i])
        BY <2>1, <3>2, <3>3
      <3>6. n <= Bytes(1)
        BY <2>12
      <3> HIDE DEF cs, n
      <3>7. Sound(VariantCodec(cs))
        BY <3>2, <3>4, <3>5, <3>6, VariantSound
      <3> QED
        BY <3>1, <3>7
    <2>13. \/ t \in NumberTypes
           \/ t.t = "empty"
           \/ t.t \in {"optional", "vector", "pointer"} /\ t.of \in T
           \/ t.t = "array" /\ t.n \in Nat /\ t.of \in T
           \/ t.t = "pair" /\ t.first \in T /\ t.second \in T
           \/ t.t = "map" /\ t.key \in NumberTypes /\ t.of \in T
           \/ t.t = "variant" /\ t.of \in Seq(T) /\ Len(t.of) <= Bytes(1)
      BY <1>4, Forms
    <2> QED
      BY <2>4, <2>5, <2>6, <2>7, <2>8, <2>9, <2>10, <2>11, <2>12, <2>13
  <1> HIDE DEF X, U
  <1>5. AllSound(X)
    BY <1>1, <1>2, <1>4 DEF AllSound
  <1> QED
    BY <1>1, <1>3, <1>5 DEF X

\* The table of operators is that of the templates over the one below it.
LEMMA CodecIs ==
    /\ Codec[0] = Templates(<<>>)
    /\ \A k \in 1..MaxDepth : Codec[k] = Templates(Codec[k - 1])
  <1> DEFINE n == MaxDepth
             Op(x) == Templates(x)
             Step(f, m) == [k \in 0..m |-> Op(IF k = 0 THEN <<>> ELSE f[k - 1])]
             S == {m \in Nat : \E f : f = Step(f, m)}
             F == CHOOSE f : f = Step(f, n)
  <1>1. Codec = F
    BY DEF Codec
  <1> HIDE DEF Op
  <1>2. 0 \in S
    <2> DEFINE g == [k \in 0..0 |-> Op(<<>>)]
    <2>1. g = Step(g, 0)
      OBVIOUS
    <2> HIDE DEF g
    <2> QED
      BY <2>1
  <1>3. ASSUME NEW m \in Nat, m \in S PROVE m + 1 \in S
    <2>1. PICK f : f = Step(f, m)
      BY <1>3
    <2> DEFINE g == [k \in 0..(m + 1) |-> IF k <= m THEN f[k] ELSE Op(f[m])]
    <2>2. g = Step(g, m + 1)
      <3>1. g[0] = Op(<<>>)
        BY <2>1
      <3>2. ASSUME NEW k \in 1..m PROVE g[k] = Op(g[k - 1])
        BY <2>1, <3>2
      <3>3. g[m + 1] = Op(g[m])
        OBVIOUS
      <3>4. \A k \in 0..(m + 1) : k = 0 \/ k \in 1..m \/ k = m + 1
        OBVIOUS
      <3>5. (m + 1) - 1 = m
        OBVIOUS
      <3>6. \A k \in 0..(m + 1) : g[k] = Op(IF k = 0 THEN <<>> ELSE g[k - 1])
        <4> HIDE DEF g
        <4> QED
          BY <3>1, <3>2, <3>3, <3>4, <3>5
      <3>7. g = [k \in 0..(m + 1) |-> g[k]]
        OBVIOUS
      <3> HIDE DEF g
      <3> QED
        BY <3>6, <3>7
    <2> HIDE DEF g
    <2> QED
      BY <2>2
  <1> HIDE DEF S
  <1>4. Nat \subseteq S
    BY <1>2, <1>3, Inductive
  <1>5. n \in Nat
    BY ScaleAssumption
  <1>6. F = Step(F, n)
    <2>1. \E f : f = Step(f, n)
      BY <1>4, <1>5 DEF S
    <2> HIDE DEF Step
    <2> QED
      BY <2>1
  <1> HIDE DEF F
  <1>7. F[0] = Op(<<>>) /\ \A k \in 1..n : F[k] = Op(F[k - 1])
    BY <1>5, <1>6
  <1> QED
    BY <1>1, <1>7 DEF Op

\* The operators << and >> of every type fit each other, however deep templates are
\* nested in it.
LEMMA CodecSound ==
    /\ AllSound(Codec[MaxDepth])
    /\ \A t \in NumberTypes : Codec[MaxDepth][t] = NumberCodec(t)
  <1> DEFINE n == MaxDepth
             Fine(x) == AllSound(x) /\ \A t \in NumberTypes : x[t] = NumberCodec(t)
             S == {k \in Nat : k <= n => Fine(Codec[k])}
  <1>1. n \in Nat
    BY ScaleAssumption
  <1>2. \A x : AllSound(x) => Fine(Templates(x))
    BY TemplatesSound
  <1>3. AllSound(<<>>)
    BY DEF AllSound, Named
  <1> HIDE DEF Fine
  <1>4. 0 \in S
    BY <1>2, <1>3, CodecIs
  <1>5. ASSUME NEW k \in Nat, k \in S PROVE k + 1 \in S
    <2> SUFFICES ASSUME k + 1 <= n PROVE Fine(Codec[k + 1])
      OBVIOUS
    <2>1. k + 1 \in 1..n /\ (k + 1) - 1 = k /\ Fine(Codec[k])
      BY <1>1, <1>5
    <2>2. Codec[k + 1] = Templates(Codec[k])
      BY <2>1, CodecIs
    <2>3. AllSound(Codec[k])
      BY <2>1 DEF Fine
    <2> QED
      BY <1>2, <2>2, <2>3
  <1> HIDE DEF S
  <1>6. Nat \subseteq S
    BY <1>4, <1>5, Inductive
  <1>7. Fine(Codec[n])
    BY <1>1, <1>6 DEF S
  <1> QED
    BY <1>7 DEF Fine

-----------------------------------------------------------------------------
(* Reading that never leaves the span.                                     *)

\* The streams over bytes.
Fed == {s \in Streams : s.span \in Seq(Byte)}

\* Where reading can end.
Ends == Nat \cup {THROW}

\* Reading a value from bytes ends behind it, or with an exception.
Guarded(c) == \A s \in Fed : c.dec[s].next \in Ends

LEMMA EndIs ==
    ASSUME NEW x \in Ends
    PROVE  IF Fails(x) THEN x = THROW ELSE x \in Nat
  BY NotFailed DEF Ends, Fails

LEMMA FedBehind ==
    ASSUME NEW s \in Fed, NEW i \in Nat
    PROVE  s \in Streams /\ Behind(s, i) \in Fed /\ Behind(s, i).at = i
  BY BehindIs DEF Fed

\* A byte, or an exception.
LEMMA ByteGuarded ==
    ASSUME NEW s \in Fed
    PROVE  /\ nextByte(s).next \in Ends
           /\ ~Fails(nextByte(s).next) => nextByte(s).val \in Byte /\ nextByte(s).next \in Nat
  <1>1. s.at \in Nat /\ s.span \in Seq(Byte) /\ Len(s.span) \in Nat
    BY DEF Fed, Streams
  <1>2. CASE s.at + 1 <= Len(s.span)
    <2>1. nextByte(s) = Got(s.span[s.at + 1], s.at + 1)
      BY <1>2 DEF nextByte, hasMore
    <2>2. s.span[s.at + 1] \in Byte
      BY <1>1, <1>2
    <2> QED
      BY <1>1, <2>1, <2>2 DEF Got, Ends
  <1>3. CASE ~(s.at + 1 <= Len(s.span))
    BY <1>3 DEF nextByte, hasMore, Stopped, Got, Ends, Fails
  <1> QED
    BY <1>2, <1>3

\* Several bytes with hasMore.
LEMMA BytesGuarded ==
    ASSUME NEW s \in Fed, NEW n \in Nat
    PROVE  /\ Checked(s, n).next \in Ends
           /\ ~Fails(Checked(s, n).next) =>
                /\ Checked(s, n).val \in Seq(Byte) /\ Len(Checked(s, n).val) = n
                /\ Checked(s, n).next \in Nat
  <1>1. s.at \in Nat /\ s.span \in Seq(Byte) /\ Len(s.span) \in Nat
    BY DEF Fed, Streams
  <1>2. CASE s.at + n <= Len(s.span)
    <2> DEFINE i == s.at
               sub == SubSeq(s.span, i + 1, i + n)
    <2>1. Checked(s, n) = Got(sub, s.at + n)
      BY <1>2 DEF Checked, NextBytes, hasMore
    <2>2. sub = [k \in 1..n |-> s.span[i + k]]
      <3>1. i \in Nat
        BY <1>1
      <3> HIDE DEF i
      <3> QED
        BY <1>1, <3>1, StretchIs
    <2>3. \A k \in 1..n : s.span[i + k] \in Byte
      <3>1. \A k \in 1..n : i + k \in 1..Len(s.span)
        BY <1>1, <1>2
      <3> QED
        BY <1>1, <3>1
    <2>4. sub \in [1..n -> Byte]
      <3> HIDE DEF i
      <3> QED
        BY <2>2, <2>3
    <2> HIDE DEF sub
    <2>5. sub \in Seq(Byte) /\ Len(sub) = n
      BY <2>4, IsSeqOf
    <2>6. s.at + n \in Nat
      BY <1>1
    <2> QED
      BY <2>1, <2>5, <2>6 DEF Got, Ends
  <1>3. CASE ~(s.at + n <= Len(s.span))
    BY <1>3 DEF Checked, NextBytes, hasMore, Stopped, Got, Ends, Fails
  <1> QED
    BY <1>2, <1>3

\* What at most MaxBigBytes bytes are is a number.
LEMMA NumberOfBytes ==
    ASSUME NEW bs \in Seq(Byte), Len(bs) <= MaxBigBytes
    PROVE  FromLittleEndian(bs) \in Nat
  <1> DEFINE n == Len(bs)
             Sums(G, m) == /\ G \in [0..m -> Nat] /\ G[0] = 0
                           /\ \A k \in 1..m : G[k] = G[k - 1] + bs[k] * Bytes(k - 1)
             S == {m \in Nat : m <= n => \E G : Sums(G, m)}
  <1>1. n \in Nat /\ n <= MaxBigBytes /\ \A k \in 1..n : bs[k] \in Nat
    <2>1. bs \in Seq(Nat)
      BY BytesAreNats
    <2> QED
      BY <2>1
  <1> HIDE DEF n
  <1>2. 0 \in S
    <2> DEFINE g == [k \in 0..0 |-> 0]
    <2>1. Sums(g, 0)
      OBVIOUS
    <2> HIDE DEF g, Sums
    <2> QED
      BY <2>1
  <1>3. ASSUME NEW m \in Nat, m \in S PROVE m + 1 \in S
    <2> SUFFICES ASSUME m + 1 <= n PROVE \E G : Sums(G, m + 1)
      OBVIOUS
    <2>1. m <= n
      BY <1>1
    <2>2. PICK G : Sums(G, m)
      BY <1>3, <2>1
    <2> DEFINE z == G[m] + bs[m + 1] * Bytes(m)
               g == [k \in 0..(m + 1) |-> IF k <= m THEN G[k] ELSE z]
    <2>3. G \in [0..m -> Nat] /\ G[0] = 0 /\ \A k \in 1..m : G[k] = G[k - 1] + bs[k] * Bytes(k - 1)
      BY <2>2
    <2>4. z \in Nat
      <3>1. m + 1 \in 1..n /\ m \in 0..MaxBigBytes
        BY <1>1, Lengths
      <3>2. bs[m + 1] \in Nat /\ Bytes(m) \in Nat
        <4>1. Fits(m) /\ m \in 0..m
          BY <3>1, Lengths
        <4> QED
          BY <1>1, <3>1, <4>1 DEF Fits
      <3>3. G[m] \in Nat
        BY <2>3
      <3>4. \A x, y, w \in Nat : w + x * y \in Nat
        OBVIOUS
      <3> QED
        BY <3>2, <3>3, <3>4
    <2> HIDE DEF z
    <2>5. g \in [0..(m + 1) -> Nat] /\ g[0] = 0
      BY <2>3, <2>4
    <2>6. ASSUME NEW k \in 1..(m + 1) PROVE g[k] = g[k - 1] + bs[k] * Bytes(k - 1)
      <3>1. CASE k \in 1..m
        <4>1. g[k] = G[k] /\ g[k - 1] = G[k - 1]
          BY <3>1
        <4> HIDE DEF g
        <4> QED
          BY <2>3, <3>1, <4>1
      <3>2. CASE k = m + 1
        <4>1. g[k] = z /\ g[k - 1] = G[m] /\ k - 1 = m
          BY <3>2
        <4> HIDE DEF g
        <4> QED
          BY <3>2, <4>1 DEF z
      <3> QED
        BY <3>1, <3>2
    <2> HIDE DEF g
    <2> QED
      BY <2>5, <2>6
  <1> HIDE DEF S
  <1>4. Nat \subseteq S
    BY <1>2, <1>3, Inductive
  <1>5. \E G : Sums(G, n)
    <2> HIDE DEF Sums
    <2>1. n \in S /\ n <= n
      BY <1>1, <1>4
    <2> QED
      BY <2>1 DEF S
  <1>6. PICK G \in [0..n -> Nat] :
            G[0] = 0 /\ \A k \in 1..n : G[k] = G[k - 1] + bs[k] * Bytes(k - 1)
    BY <1>5
  <1> HIDE DEF Sums
  <1>7. FromLittleEndian(bs) = G[n]
    BY <1>6, BytesAreNats, SumIs DEF n
  <1> QED
    BY <1>1, <1>6, <1>7

\* A compact integer is a number of items.
LEMMA CompactGuarded ==
    ASSUME NEW s \in Fed
    PROVE  LET r == decodeCompactInteger(s)
           IN  r.next \in Ends /\ (~Fails(r.next) => r.next \in Nat /\ r.val \in Nat)
  <1> DEFINE first == nextByte(s)
             b == first.val
             i == first.next
             r == decodeCompactInteger(s)
  <1>1. s \in Streams
    BY DEF Fed
  <1>2. CASE Fails(i)
    <2>1. r = first
      BY <1>2 DEF decodeCompactInteger, AndThen
    <2> QED
      BY <1>2, <2>1, ByteGuarded
  <1>3. CASE ~Fails(i)
    <2>1. b \in Byte /\ i \in Nat
      BY <1>3, ByteGuarded
    <2>2. first = Got(b, i)
      BY DEF nextByte, Stopped, Got
    <2>3. b \in Nat /\ Bytes(1) = 4 * kMinUint16 /\ kMinUint16 \in Nat /\ b <= Bytes(1) - 1
      BY <2>1, ByteIsNat, ScalePowersAssumption DEF Byte
    <2>4. b % 4 \in 0..3 /\ b \div 4 + 4 \in Nat /\ b \div 4 + 4 <= MaxBigBytes
      <3> DEFINE k == kMinUint16
      <3>1. b <= 4 * k - 1 /\ k \in Nat
        BY <2>3
      <3>2. MaxBigBytes = 4 + k - 1
        BY DEF MaxBigBytes
      <3> HIDE DEF b, k
      <3>3. b \div 4 \in Nat /\ b \div 4 <= k - 1 /\ b % 4 \in 0..3
        BY <2>3, <3>1
      <3> QED
        BY <3>1, <3>2, <3>3
    <2>5. Behind(s, i) \in Fed
      BY <2>1, FedBehind
    <2> HIDE DEF b, i
    <2>6. ASSUME NEW m \in {0, 1, 3}, Short(b % 4, m)
          PROVE  r.next \in Ends /\ (~Fails(r.next) => r.next \in Nat /\ r.val \in Nat)
      <3> DEFINE r2 == Checked(Behind(s, i), m)
                 bs == <<b>> \o r2.val
      <3>1. r = IF Fails(r2.next) THEN r2 ELSE Got(FromLittleEndian(bs) \div 4, r2.next)
        BY <1>1, <2>1, <2>2, <2>3, <2>6, CompactRest DEF Checked
      <3>2. r2.next \in Ends /\ (~Fails(r2.next) => r2.val \in Seq(Byte) /\ Len(r2.val) = m /\ r2.next \in Nat)
        BY <2>5, BytesGuarded
      <3> HIDE DEF r2, r
      <3>3. ASSUME ~Fails(r2.next) PROVE FromLittleEndian(bs) \in Nat
        <4>1. bs \in Seq(Byte) /\ Len(bs) = 1 + m
          BY <2>1, <3>2, <3>3
        <4>2. Len(bs) <= MaxBigBytes
          BY <4>1, Lengths
        <4> HIDE DEF bs
        <4> QED
          BY <4>1, <4>2, NumberOfBytes
      <3> HIDE DEF bs
      <3>4. ASSUME ~Fails(r2.next) PROVE FromLittleEndian(bs) \div 4 \in Nat
        BY <3>3, <3>4
      <3> QED
        BY <3>1, <3>2, <3>4 DEF Got
    <2>7. ASSUME b % 4 = 3
          PROVE  r.next \in Ends /\ (~Fails(r.next) => r.next \in Nat /\ r.val \in Nat)
      <3> DEFINE m == b \div 4 + 4
                 r2 == Checked(Behind(s, i), m)
      <3>1. Announces(b, m)
        BY <2>7 DEF Announces
      <3>2. m \in Nat /\ m <= MaxBigBytes
        BY <2>4
      <3> HIDE DEF m
      <3>3. r = IF Fails(r2.next) THEN r2 ELSE Got(FromLittleEndian(r2.val), r2.next)
        BY <1>1, <2>1, <2>2, <2>3, <3>1, CompactLong DEF Checked
      <3>4. r2.next \in Ends /\ (~Fails(r2.next) => r2.val \in Seq(Byte) /\ Len(r2.val) = m /\ r2.next \in Nat)
        BY <2>5, <3>2, BytesGuarded
      <3> HIDE DEF r2, r
      <3>5. ~Fails(r2.next) => FromLittleEndian(r2.val) \in Nat
        BY <3>2, <3>4, NumberOfBytes
      <3> QED
        BY <3>3, <3>4, <3>5 DEF Got
    <2>8. b % 4 = 0 \/ b % 4 = 1 \/ b % 4 = 2 \/ b % 4 = 3
      BY <2>4
    <2> QED
      BY <2>6, <2>7, <2>8 DEF Short
  <1> QED
    BY <1>2, <1>3

\* Items one after another.
LEMMA EachGuarded ==
    ASSUME NEW c, Guarded(c), NEW n \in Nat, NEW s \in Fed
    PROVE  DecodeEach(c, n, s).next \in Ends
  <1>1. PICK D : /\ DecodeEach(c, n, s) = D[n] /\ D[0] = Got(<<>>, s.at)
                 /\ \A k \in 1..n : D[k] = OneMore(c, s, D[k - 1])
    BY EachRead
  <1> DEFINE S == {k \in Nat : k <= n => D[k].next \in Ends}
  <1>2. 0 \in S
    BY <1>1 DEF Got, Fed, Streams, Ends
  <1>3. ASSUME NEW k \in Nat, k \in S PROVE k + 1 \in S
    <2> SUFFICES ASSUME k + 1 <= n PROVE D[k + 1].next \in Ends
      OBVIOUS
    <2> DEFINE x == D[k]
               r == c.dec[Behind(s, x.next)]
    <2>1. k + 1 \in 1..n /\ (k + 1) - 1 = k /\ x.next \in Ends
      BY <1>3
    <2>2. D[k + 1] = OneMore(c, s, x)
      BY <1>1, <2>1
    <2>3. ASSUME ~Fails(x.next) PROVE r.next \in Ends
      <3>1. x.next \in Nat
        BY <2>1, <2>3, EndIs
      <3> QED
        BY <3>1, FedBehind DEF Guarded
    <2> HIDE DEF x
    <2>4. D[k + 1] = IF Fails(x.next) THEN x
                     ELSE IF Fails(r.next) THEN r ELSE Got(Append(x.val, r.val), r.next)
      BY <2>2 DEF OneMore
    <2> HIDE DEF r
    <2> QED
      BY <2>1, <2>3, <2>4 DEF Got, x
  <1> HIDE DEF S
  <1>4. Nat \subseteq S
    BY <1>2, <1>3, Inductive
  <1> QED
    BY <1>1, <1>4 DEF S

\* The number of items, and the items.
LEMMA CollectionGuarded ==
    ASSUME NEW c, Guarded(c), NEW s \in Fed
    PROVE  DecodeCollection(c, s).next \in Ends
  <1> DEFINE size == decodeCompactInteger(s)
             r == DecodeEach(c, size.val, Behind(s, size.next))
  <1>1. DecodeCollection(c, s) = IF Fails(size.next) THEN size ELSE r
    BY DEF DecodeCollection, AndThen
  <1>2. size.next \in Ends /\ (~Fails(size.next) => size.next \in Nat /\ size.val \in Nat)
    BY CompactGuarded
  <1> HIDE DEF size
  <1>3. ~Fails(size.next) => r.next \in Ends
    BY <1>2, EachGuarded, FedBehind
  <1> QED
    BY <1>1, <1>2, <1>3

\* bool and the integers, as items and as keys of a map.
LEMMA NumberGuarded ==
    ASSUME NEW t \in NumberTypes, t.t \notin {"u256", "s256"}
    PROVE  Guarded(NumberCodec(t))
  <1> SUFFICES ASSUME NEW s \in Fed PROVE NumberCodec(t).dec[s].next \in Ends
    BY DEF Guarded
  <1>1. s \in Streams
    BY DEF Fed
  <1>2. CASE t.t = "bool"
    <2>1. NumberCodec(t) = BoolCodec
      BY <1>2 DEF NumberCodec
    <2>2. BoolCodec.dec[s] = decodeBool(s)
      BY <1>1 DEF BoolCodec, Operators
    <2>3. decodeBool(s).next \in Ends
      BY ByteGuarded DEF decodeBool, AndThen, Stopped, Got, Ends
    <2> QED
      BY <2>1, <2>2, <2>3
  <1>3. CASE t.t = "compact"
    <2>1. NumberCodec(t) = CompactCodec
      BY <1>3 DEF NumberCodec
    <2>2. CompactCodec.dec[s] = decodeCompactInteger(s)
      BY <1>1 DEF CompactCodec, Operators
    <2> QED
      BY <2>1, <2>2, CompactGuarded
  <1>4. CASE t.t = "int"
    <2> DEFINE r == Checked(s, t.size)
    <2>1. NumberCodec(t) = IntCodec(t)
      BY <1>4 DEF NumberCodec
    <2>2. IntCodec(t).dec[s] = decodeInteger(t, s)
      BY <1>1 DEF IntCodec, Operators
    <2>3. t.size \in Nat
      BY <1>4 DEF NumberTypes
    <2>4. r.next \in Ends
      BY <2>3, BytesGuarded
    <2>5. decodeInteger(t, s).next = r.next
      BY DEF decodeInteger, AndThen, Got
    <2> QED
      BY <2>1, <2>2, <2>4, <2>5
  <1> QED
    BY <1>2, <1>3, <1>4 DEF NumberTypes

\* std::pair, and std::tuple of some elements.
LEMMA PairGuarded ==
    ASSUME NEW c, Guarded(c), NEW d, Guarded(d)
    PROVE  Guarded(PairCodec(c, d))
  <1> SUFFICES ASSUME NEW s \in Fed PROVE PairCodec(c, d).dec[s].next \in Ends
    BY DEF Guarded
  <1> DEFINE a == c.dec[s]
             b == d.dec[Behind(s, a.next)]
  <1>1. PairCodec(c, d).dec[s] =
            IF Fails(a.next) THEN a ELSE IF Fails(b.next) THEN b ELSE Got(<<a.val, b.val>>, b.next)
    BY DEF PairCodec, Operators, AndThen, Fed
  <1>2. a.next \in Ends
    BY DEF Guarded
  <1> HIDE DEF a
  <1>3. ASSUME ~Fails(a.next) PROVE b.next \in Ends
    BY <1>2, <1>3, EndIs, FedBehind DEF Guarded
  <1> HIDE DEF b
  <1> QED
    BY <1>1, <1>2, <1>3 DEF Got

\* boost::optional.
LEMMA OptionalGuarded ==
    ASSUME NEW c, Guarded(c)
    PROVE  Guarded(OptionalCodec(c)) /\ Guarded(OptionalBoolCodec)
  <1>1. ASSUME NEW s \in Fed PROVE OptionalCodec(c).dec[s].next \in Ends
    <2> DEFINE has == decodeBool(s)
               r == c.dec[Behind(s, has.next)]
    <2>1. OptionalCodec(c).dec[s] =
            IF Fails(has.next) THEN has
            ELSE IF has.val = 0 THEN Got(<<>>, has.next)
            ELSE IF Fails(r.next) THEN r ELSE Got(<<r.val>>, r.next)
      BY DEF OptionalCodec, Operators, AndThen, Fed
    <2>2. has.next \in Ends
      BY ByteGuarded DEF decodeBool, AndThen, Stopped, Got, Ends
    <2> HIDE DEF has
    <2>3. ASSUME ~Fails(has.next) PROVE r.next \in Ends
      BY <2>2, <2>3, EndIs, FedBehind DEF Guarded
    <2> HIDE DEF r
    <2> QED
      BY <2>1, <2>2, <2>3 DEF Got
  <1>2. ASSUME NEW s \in Fed PROVE OptionalBoolCodec.dec[s].next \in Ends
    <2> DEFINE r == nextByte(s)
    <2>1. OptionalBoolCodec.dec[s] = decodeOptionalBool(s)
      BY DEF OptionalBoolCodec, Operators, Fed
    <2>2. decodeOptionalBool(s) =
            IF Fails(r.next) THEN r
            ELSE CASE r.val = 0 -> Got(<<>>, r.next) [] r.val = 1 -> Got(<<1>>, r.next)
                   [] r.val = 2 -> Got(<<0>>, r.next) [] OTHER -> Stopped(THROW)
      BY DEF decodeOptionalBool, AndThen
    <2>3. r.next \in Ends
      BY ByteGuarded
    <2> HIDE DEF r
    <2>4. decodeOptionalBool(s).next \in {r.next, THROW}
      BY <2>2 DEF Got, Stopped
    <2> QED
      BY <2>1, <2>3, <2>4 DEF Ends
  <1> QED
    BY <1>1, <1>2 DEF Guarded

\* The templates with items, and the pointers.
LEMMA ItemsGuarded ==
    ASSUME NEW c, Guarded(c)
    PROVE  /\ Guarded(VectorCodec(c)) /\ Guarded(PointerCodec(c))
           /\ \A n \in Nat : Guarded(ArrayCodec(c, n))
  <1>1. ASSUME NEW s \in Fed PROVE VectorCodec(c).dec[s].next \in Ends
    <2>1. VectorCodec(c).dec[s] = DecodeCollection(c, s)
      BY DEF VectorCodec, Operators, Fed
    <2> QED
      BY <2>1, CollectionGuarded
  <1>2. ASSUME NEW s \in Fed PROVE PointerCodec(c).dec[s].next \in Ends
    <2> DEFINE r == c.dec[s]
    <2>1. PointerCodec(c).dec[s] = IF Fails(r.next) THEN r ELSE Got(<<r.val>>, r.next)
      BY DEF PointerCodec, Operators, AndThen, Fed
    <2>2. r.next \in Ends
      BY DEF Guarded
    <2> HIDE DEF r
    <2> QED
      BY <2>1, <2>2 DEF Got
  <1>3. ASSUME NEW n \in Nat, NEW s \in Fed PROVE ArrayCodec(c, n).dec[s].next \in Ends
    <2>1. ArrayCodec(c, n).dec[s] = DecodeEach(c, n, s)
      BY DEF ArrayCodec, Operators, Fed
    <2> QED
      BY <2>1, EachGuarded
  <1> QED
    BY <1>1, <1>2, <1>3 DEF Guarded

\* std::map.
LEMMA MapGuarded ==
    ASSUME NEW c, Guarded(c), NEW d, Guarded(d)
    PROVE  Guarded(MapCodec(c, d))
  <1> SUFFICES ASSUME NEW s \in Fed PROVE MapCodec(c, d).dec[s].next \in Ends
    BY DEF Guarded
  <1> DEFINE r == DecodeCollection(PairCodec(c, d), s)
  <1>1. MapCodec(c, d).dec[s] = IF Fails(r.next) THEN r ELSE Got(Emplaced(r.val), r.next)
    BY DEF MapCodec, Operators, AndThen, Fed
  <1>2. r.next \in Ends
    BY PairGuarded, CollectionGuarded
  <1> HIDE DEF r
  <1> QED
    BY <1>1, <1>2 DEF Got

\* boost::variant.
LEMMA VariantGuarded ==
    ASSUME NEW n \in Nat, NEW cs, Len(cs) = n, \A k \in 1..n : Guarded(cs[k])
    PROVE  Guarded(VariantCodec(cs))
  <1> SUFFICES ASSUME NEW s \in Fed PROVE VariantCodec(cs).dec[s].next \in Ends
    BY DEF Guarded
  <1> DEFINE which == nextByte(s)
             r == cs[which.val + 1].dec[Behind(s, which.next)]
  <1>1. VariantCodec(cs).dec[s] =
            IF Fails(which.next) THEN which
            ELSE IF which.val >= n THEN Stopped(THROW)
            ELSE IF Fails(r.next) THEN r ELSE Got(<<which.val, r.val>>, r.next)
    BY DEF VariantCodec, Operators, AndThen, Fed
  <1>2. which.next \in Ends /\ (~Fails(which.next) => which.val \in Nat /\ which.next \in Nat)
    BY ByteGuarded, ByteIsNat
  <1> HIDE DEF which
  <1>3. ASSUME ~Fails(which.next), ~(which.val >= n) PROVE r.next \in Ends
    <2>1. which.val + 1 \in 1..n
      BY <1>2, <1>3
    <2>2. Behind(s, which.next) \in Fed
      BY <1>2, <1>3, FedBehind
    <2> QED
      BY <2>1, <2>2 DEF Guarded
  <1> HIDE DEF r
  <1> QED
    BY <1>1, <1>2, <1>3 DEF Got, Stopped, Ends

-----------------------------------------------------------------------------
(* The types that are read with hasMore.                                   *)

\* The operator >> of a template is guarded if it reads with hasMore itself and those
\* of its arguments are guarded.
LEMMA TemplatesGuarded ==
    ASSUME NEW codec, Named(DOMAIN codec), NEW T, T \subseteq DOMAIN codec,
           \A t \in T : Guarded(codec[t]), NEW t \in CheckedOver(T)
    PROVE  t \in DOMAIN Templates(codec) /\ Guarded(Templates(codec)[t])
  <1> DEFINE U == DOMAIN codec
             X == Templates(codec)
  <1>1. /\ t \in TypesOver(T) /\ t.t \notin {"u256", "s256"}
        /\ t.t = "map" => t.key.t \notin {"u256", "s256"}
        /\ t.t = "vector" => ~IsByte(t.of)
    BY DEF CheckedOver
  <1>2. t \in TypesOver(U)
    <2>1. T \subseteq U
      OBVIOUS
    <2> HIDE DEF U
    <2>2. Seq(T) \subseteq Seq(U)
      BY <2>1
    <2> QED
      BY <1>1, <2>1, <2>2 DEF TypesOver
  <1>3. DOMAIN X = TypesOver(U)
    BY DEF Templates
  <1>4. X[t] =
          CASE t \in NumberTypes -> NumberCodec(t)
            [] t.t = "empty" -> EmptyCodec
            [] t.t = "optional" ->
                  IF t.of.t = "bool" THEN OptionalBoolCodec ELSE OptionalCodec(codec[t.of])
            [] t.t = "vector" ->
                  IF IsByte(t.of) THEN ByteVectorCodec(t.of) ELSE VectorCodec(codec[t.of])
            [] t.t = "pointer" -> PointerCodec(codec[t.of])
            [] t.t = "array" -> ArrayCodec(codec[t.of], t.n)
            [] t.t = "pair" -> PairCodec(codec[t.first], codec[t.second])
            [] t.t = "map" -> MapCodec(NumberCodec(t.key), codec[t.of])
            [] t.t = "variant" -> VariantCodec([i \in DOMAIN t.of |-> codec[t.of[i]]])
    BY <1>2 DEF Templates
  <1>5. t \in NumberTypes => t.t \in {"bool", "compact", "u256", "s256", "int"}
    BY NumberNames
  <1>16. \A u \in T : Guarded(codec[u])
    OBVIOUS
  <1> HIDE DEF X, U
  <1>6. ASSUME t \in NumberTypes PROVE Guarded(X[t])
    <2>1. X[t] = NumberCodec(t)
      BY <1>4, <1>5, <1>6
    <2> QED
      BY <1>1, <1>6, <2>1, NumberGuarded
  <1>7. ASSUME t.t = "empty" PROVE Guarded(X[t])
    <2>1. X[t] = EmptyCodec
      BY <1>4, <1>5, <1>7
    <2>2. \A s \in Fed : EmptyCodec.dec[s].next \in Ends
      BY DEF EmptyCodec, Operators, Got, Fed, Streams, Ends
    <2> QED
      BY <2>1, <2>2 DEF Guarded
  <1>8. ASSUME t.t = "optional", t.of \in T PROVE Guarded(X[t])
    <2>1. X[t] = IF t.of.t = "bool" THEN OptionalBoolCodec ELSE OptionalCodec(codec[t.of])
      BY <1>4, <1>5, <1>8
    <2> QED
      BY <1>8, <2>1, OptionalGuarded
  <1>9. ASSUME t.t = "vector", t.of \in T PROVE Guarded(X[t])
    <2>1. X[t] = VectorCodec(codec[t.of])
      BY <1>1, <1>4, <1>5, <1>9
    <2> QED
      BY <1>9, <2>1, ItemsGuarded
  <1>10. ASSUME t.t = "pointer", t.of \in T PROVE Guarded(X[t])
    <2>1. X[t] = PointerCodec(codec[t.of])
      BY <1>4, <1>5, <1>10
    <2> QED
      BY <1>10, <2>1, ItemsGuarded
  <1>11. ASSUME t.t = "array", t.n \in Nat, t.of \in T PROVE Guarded(X[t])
    <2>1. X[t] = ArrayCodec(codec[t.of], t.n)
      BY <1>4, <1>5, <1>11
    <2> QED
      BY <1>11, <2>1, ItemsGuarded
  <1>12. ASSUME t.t = "pair", t.first \in T, t.second \in T PROVE Guarded(X[t])
    <2>1. X[t] = PairCodec(codec[t.first], codec[t.second])
      BY <1>4, <1>5, <1>12
    <2> QED
      BY <1>12, <2>1, PairGuarded
  <1>13. ASSUME t.t = "map", t.key \in NumberTypes, t.of \in T PROVE Guarded(X[t])
    <2>1. X[t] = MapCodec(NumberCodec(t.key), codec[t.of])
      BY <1>4, <1>5, <1>13
    <2>2. Guarded(NumberCodec(t.key))
      BY <1>1, <1>13, NumberGuarded
    <2> QED
      BY <1>13, <2>1, <2>2, MapGuarded
  <1>14. ASSUME t.t = "variant", t.of \in Seq(T), Len(t.of) <= Bytes(1) PROVE Guarded(X[t])
    <2> DEFINE n == Len(t.of)
               cs == [i \in DOMAIN t.of |-> codec[t.of[i]]]
    <2>1. X[t] = VariantCodec(cs)
      BY <1>4, <1>5, <1>14
    <2>2. n \in Nat /\ DOMAIN t.of = 1..n /\ \A i \in 1..n : t.of[i] \in T
      BY <1>14
    <2>3. \A i \in 1..n : Guarded(cs[i])
      BY <2>2
    <2>4. Len(cs) = n
      <3>1. cs = [i \in 1..n |-> cs[i]]
        BY <2>2
      <3> HIDE DEF cs, n
      <3>2. cs \in [1..n -> {cs[i] : i \in 1..n}]
        BY <3>1
      <3> QED
        BY <2>2, <3>2, IsSeqOf
    <2> HIDE DEF cs, n
    <2> QED
      BY <2>1, <2>2, <2>3, <2>4, VariantGuarded
  <1>15. Guarded(X[t])
    BY <1>1, <1>6, <1>7, <1>8, <1>9, <1>10, <1>11, <1>12, <1>13, <1>14, Forms
  <1> QED
    BY <1>2, <1>3, <1>15 DEF X

\* The types of a depth are made of those of the depth below.
LEMMA CheckedIs ==
    /\ CheckedTypes[0] = CheckedOver({})
    /\ \A k \in 1..MaxDepth : CheckedTypes[k] = CheckedOver(CheckedTypes[k - 1])
  <1> DEFINE n == MaxDepth
             Op(x) == CheckedOver(x)
             Step(f, m) == [k \in 0..m |-> Op(IF k = 0 THEN {} ELSE f[k - 1])]
             S == {m \in Nat : \E f : f = Step(f, m)}
             F == CHOOSE f : f = Step(f, n)
  <1>1. CheckedTypes = F
    BY DEF CheckedTypes
  <1> HIDE DEF Op
  <1>2. 0 \in S
    <2> DEFINE g == [k \in 0..0 |-> Op({})]
    <2>1. g = Step(g, 0)
      OBVIOUS
    <2> HIDE DEF g
    <2> QED
      BY <2>1
  <1>3. ASSUME NEW m \in Nat, m \in S PROVE m + 1 \in S
    <2>1. PICK f : f = Step(f, m)
      BY <1>3
    <2> DEFINE g == [k \in 0..(m + 1) |-> IF k <= m THEN f[k] ELSE Op(f[m])]
    <2>2. g = Step(g, m + 1)
      <3>1. g[0] = Op({})
        BY <2>1
      <3>2. ASSUME NEW k \in 1..m PROVE g[k] = Op(g[k - 1])
        BY <2>1, <3>2
      <3>3. g[m + 1] = Op(g[m])
        OBVIOUS
      <3>4. \A k \in 0..(m + 1) : k = 0 \/ k \in 1..m \/ k = m + 1
        OBVIOUS
      <3>5. (m + 1) - 1 = m
        OBVIOUS
      <3>6. \A k \in 0..(m + 1) : g[k] = Op(IF k = 0 THEN {} ELSE g[k - 1])
        <4> HIDE DEF g
        <4> QED
          BY <3>1, <3>2, <3>3, <3>4, <3>5
      <3>7. g = [k \in 0..(m + 1) |-> g[k]]
        OBVIOUS
      <3> HIDE DEF g
      <3> QED
        BY <3>6, <3>7
    <2> HIDE DEF g
    <2> QED
      BY <2>2
  <1> HIDE DEF S
  <1>4. Nat \subseteq S
    BY <1>2, <1>3, Inductive
  <1>5. n \in Nat
    BY ScaleAssumption
  <1>6. F = Step(F, n)
    <2>1. \E f : f = Step(f, n)
      BY <1>4, <1>5 DEF S
    <2> HIDE DEF Step
    <2> QED
      BY <2>1
  <1> HIDE DEF F
  <1>7. F[0] = Op({}) /\ \A k \in 1..n : F[k] = Op(F[k - 1])
    BY <1>5, <1>6
  <1> QED
    BY <1>1, <1>7 DEF Op

\* Reading a value of such a type from bytes ends inside of them or with an exception.
LEMMA CheckedGuarded ==
    ASSUME NEW t \in CheckedTypes[MaxDepth]
    PROVE  t \in DOMAIN Codec[MaxDepth] /\ Guarded(Codec[MaxDepth][t])
  <1> DEFINE n == MaxDepth
             Fine(x, T) == /\ AllSound(x) /\ T \subseteq DOMAIN x
                           /\ \A u \in T : Guarded(x[u])
             S == {k \in Nat : k <= n => Fine(Codec[k], CheckedTypes[k])}
  <1>1. n \in Nat
    BY ScaleAssumption
  <1>2. ASSUME NEW x, NEW T, Fine(x, T) PROVE Fine(Templates(x), CheckedOver(T))
    <2>1. AllSound(Templates(x))
      BY <1>2, TemplatesSound
    <2>2. Named(DOMAIN x) /\ T \subseteq DOMAIN x /\ \A u \in T : Guarded(x[u])
      BY <1>2 DEF AllSound
    <2>3. \A u \in CheckedOver(T) : u \in DOMAIN Templates(x) /\ Guarded(Templates(x)[u])
      BY <2>2, TemplatesGuarded
    <2> QED
      BY <2>1, <2>3
  <1>3. Fine(<<>>, {})
    BY DEF AllSound, Named
  <1> HIDE DEF Fine
  <1>4. 0 \in S
    BY <1>2, <1>3, CodecIs, CheckedIs
  <1>5. ASSUME NEW k \in Nat, k \in S PROVE k + 1 \in S
    <2> SUFFICES ASSUME k + 1 <= n PROVE Fine(Codec[k + 1], CheckedTypes[k + 1])
      OBVIOUS
    <2>1. k + 1 \in 1..n /\ (k + 1) - 1 = k /\ Fine(Codec[k], CheckedTypes[k])
      BY <1>1, <1>5
    <2>2. Codec[k + 1] = Templates(Codec[k]) /\ CheckedTypes[k + 1] = CheckedOver(CheckedTypes[k])
      BY <2>1, CodecIs, CheckedIs
    <2> QED
      BY <1>2, <2>1, <2>2
  <1> HIDE DEF S
  <1>6. Nat \subseteq S
    BY <1>4, <1>5, Inductive
  <1>7. Fine(Codec[n], CheckedTypes[n])
    BY <1>1, <1>6 DEF S
  <1> QED
    BY <1>7 DEF Fine

-----------------------------------------------------------------------------
(* A value and the bytes of it that arrive.                                *)

\* The value that is sent, of its type.
Sends(t, v) ==
    /\ t \in DOMAIN Codec[MaxDepth] /\ v \in Codec[MaxDepth][t].val /\ ~Fails(v)

\* What travels is what was written, or the beginning of it.
OnTheWay(enc) ==
    \/ fault = <<"none">> /\ data \in {NIL, enc}
    \/ /\ ~Fails(enc) /\ Len(enc) \in Nat
       /\ \E n \in 0..(Len(enc) - 1) : fault = <<"cut", n>> /\ data = SubSeq(enc, 1, n)

\* What was received is what the decoder stream made of it.
Received(r) ==
    outcome # "waiting" =>
        /\ data # NIL /\ ~Fails(data)
        /\ IF Fails(r.next) THEN outcome = Ending(r.next)
           ELSE ~Fails(r.val) => outcome = "accepted" /\ object = r.val

ScaleInv ==
    /\ sent.format = "scale" /\ Sends(sent.type, sent.value)
    /\ OnTheWay(ScaleEncode(sent.type, sent.value))
    /\ Received(ScaleDecode(sent.type, data))

\* What was written whole is read to its end, what was cut is not read, and refused
\* with an exception if the type is one that is read with hasMore.
LEMMA ScaleRead ==
    ASSUME NEW t, NEW v, Sends(t, v), ~Fails(ScaleEncode(t, v))
    PROVE  /\ ScaleEncode(t, v) \in Seq(Byte)
           /\ ScaleDecode(t, ScaleEncode(t, v)) = Got(v, Len(ScaleEncode(t, v)))
           /\ \A n \in 0..(Len(ScaleEncode(t, v)) - 1) :
                LET r == ScaleDecode(t, SubSeq(ScaleEncode(t, v), 1, n))
                IN  Fails(r.next) /\ (t \in CheckedTypes[MaxDepth] => r.next = THROW)
           /\ t.t = "compact" /\ v < kMinBigInteger => Len(ScaleEncode(t, v)) = compactLen(v)
  <1> DEFINE c == Codec[MaxDepth][t]
             e == ScaleEncode(t, v)
             l == Len(e)
             All == [span |-> e, at |-> 0]
             Part(n) == [span |-> SubSeq(e, 1, n), at |-> 0]
  <1>1. Sound(c) /\ v \in c.val /\ e = c.enc[v]
    BY CodecSound DEF AllSound, Sends, ScaleEncode
  <1>2. ScaleDecode(t, e) = c.dec[All] /\ \A n : ScaleDecode(t, SubSeq(e, 1, n)) = c.dec[Part(n)]
    BY DEF ScaleDecode
  <1>3. t.t = "compact" /\ v < kMinBigInteger => l = compactLen(v)
    <2> SUFFICES ASSUME t.t = "compact", v < kMinBigInteger PROVE l = compactLen(v)
      OBVIOUS
    <2>1. t \in NumberTypes
      BY CodecSound DEF AllSound, Named, Sends
    <2>2. c = CompactCodec
      BY <2>1, CodecSound DEF NumberCodec
    <2>3. v \in Int /\ e = encodeCompactInteger(v)
      <3> HIDE DEF c, e
      <3> QED
        BY <1>1, <2>2 DEF CompactCodec, Operators
    <2> QED
      BY <2>3, CompactSound
  <1>8. t \in CheckedTypes[MaxDepth] => Guarded(c)
    BY CheckedGuarded
  <1> HIDE DEF c
  <1>4. e \in Seq(Byte) /\ \A s \in Streams : Yields(c.dec[s], v, e, s)
    BY <1>1 DEF Sound
  <1> HIDE DEF e
  <1>5. e \in Seq(Nat) /\ l \in Nat
    BY <1>4, BytesAreNats
  <1>6. c.dec[All] = Got(v, l)
    <2>1. All \in Streams /\ All.at = 0 /\ All.span = e
      BY <1>5 DEF Streams
    <2>2. Holds(All, e)
      <3> HIDE DEF All
      <3>1. \A k \in 1..l : 0 + k = k
        BY <1>5
      <3> QED
        BY <1>5, <2>1, <3>1 DEF Holds
    <2>3. All.at + Len(e) = l
      BY <1>5, <2>1
    <2> HIDE DEF All
    <2> QED
      BY <1>4, <2>1, <2>2, <2>3 DEF Yields
  <1>7. ASSUME NEW n \in 0..(l - 1)
        PROVE  /\ Fails(c.dec[Part(n)].next)
               /\ t \in CheckedTypes[MaxDepth] => c.dec[Part(n)].next = THROW
    <2> DEFINE p == SubSeq(e, 1, n)
    <2>1. /\ p \in Seq(Nat) /\ p \in Seq(Byte)
          /\ Len(p) = n /\ \A k \in 1..n : p[k] = e[k]
      <3>1. n \in Nat /\ n <= l
        BY <1>5
      <3>2. \A k \in 1..n : 1 + k - 1 = k /\ k \in 1..l
        BY <1>5, <3>1
      <3>3. p = [k \in 1..n |-> e[k]]
        BY <1>5, <3>1, <3>2, SubSeqProperties
      <3> HIDE DEF p
      <3>4. p \in [1..n -> Nat] /\ p \in [1..n -> Byte]
        BY <1>4, <1>5, <3>2, <3>3
      <3> QED
        BY <3>1, <3>3, <3>4, IsSeqOf
    <2> HIDE DEF p
    <2>2. Part(n) = [span |-> p, at |-> 0]
      BY DEF p
    <2>3. Part(n) \in Streams /\ Part(n) \in Fed /\ Part(n).at = 0 /\ Part(n).span = p
      BY <2>1, <2>2 DEF Streams, Fed
    <2>4. Breaks(Part(n), e)
      <3> HIDE DEF Part
      <3>1. 0 <= n /\ n < l /\ n - 0 = n /\ \A k \in 1..n : 0 + k = k
        BY <1>5
      <3> QED
        BY <1>5, <2>1, <2>3, <3>1 DEF Breaks
    <2> HIDE DEF Part
    <2>5. Fails(c.dec[Part(n)].next)
      BY <1>4, <2>3, <2>4 DEF Yields
    <2>6. ASSUME t \in CheckedTypes[MaxDepth] PROVE c.dec[Part(n)].next \in Ends
      BY <1>8, <2>3, <2>6 DEF Guarded
    <2> QED
      BY <2>5, <2>6, EndIs
  <1> QED
    BY <1>2, <1>3, <1>4, <1>6, <1>7 DEF e

LEMMA InitScale == Init /\ sent.format = "scale" => ScaleInv
  <1> SUFFICES ASSUME Init, sent.format = "scale" PROVE ScaleInv
    OBVIOUS
  <1>1. Sends(sent.type, sent.value)
    BY ScaleCasesAssumption DEF Init, Sends
  <1>2. fault = <<"none">> /\ data = NIL /\ outcome = "waiting"
    BY DEF Init
  <1> QED
    BY <1>1, <1>2 DEF ScaleInv, OnTheWay, Received

LEMMA ScaleStep == ScaleInv /\ [ScaleNext]_vars => ScaleInv'
  <1> SUFFICES ASSUME ScaleInv, [ScaleNext]_vars PROVE ScaleInv'
    OBVIOUS
  <1> DEFINE t == sent.type
             v == sent.value
             e == ScaleEncode(t, v)
  <1>1. sent.format = "scale" /\ Sends(t, v) /\ OnTheWay(e) /\ Received(ScaleDecode(t, data))
    BY DEF ScaleInv
  <1>2. CASE EncodeScale
    <2>1. sent' = sent /\ fault' = fault /\ object' = object /\ outcome' = outcome /\ data' = e
          /\ fault = <<"none">> /\ data = NIL
      BY <1>2 DEF EncodeScale
    <2>2. outcome = "waiting"
      BY <1>1, <2>1 DEF Received
    <2>3. sent'.format = "scale" /\ Sends(sent.type, sent.value)'
      BY <1>1, <2>1 DEF Sends
    <2>4. OnTheWay(ScaleEncode(sent.type, sent.value))'
      <3>1. ScaleEncode(sent.type, sent.value)' = e
        BY <2>1
      <3> HIDE DEF e
      <3> QED
        BY <2>1, <3>1 DEF OnTheWay
    <2>5. Received(ScaleDecode(sent.type, data))'
      BY <2>1, <2>2 DEF Received
    <2> QED
      BY <2>3, <2>4, <2>5 DEF ScaleInv
  <1>3. CASE Delivered /\ \E n \in 0..(Len(data) - 1) : Cut(n)
    <2>1. PICK n \in 0..(Len(data) - 1) : Cut(n)
      BY <1>3
    <2>2. sent' = sent /\ fault = <<"none">> /\ fault' = <<"cut", n>> /\ data' = SubSeq(data, 1, n)
          /\ object' = object /\ outcome' = outcome /\ outcome = "waiting"
          /\ data # NIL /\ ~Fails(data)
      BY <2>1 DEF Cut, Delivered
    <2>3. data = e
      <3> HIDE DEF e
      <3> QED
        BY <1>1, <2>2 DEF OnTheWay
    <2>4. Len(e) \in Nat
      <3>1. e \in Seq(Byte)
        BY <1>1, <2>2, <2>3, ScaleRead
      <3> HIDE DEF e
      <3> QED
        BY <3>1
    <2>5. sent'.format = "scale" /\ Sends(sent.type, sent.value)'
      BY <1>1, <2>2 DEF Sends
    <2>6. OnTheWay(ScaleEncode(sent.type, sent.value))'
      <3>1. ScaleEncode(sent.type, sent.value)' = e
        BY <2>2
      <3> HIDE DEF e
      <3> QED
        BY <2>2, <2>3, <2>4, <3>1 DEF OnTheWay
    <2>7. Received(ScaleDecode(sent.type, data))'
      BY <2>2 DEF Received
    <2> QED
      BY <2>5, <2>6, <2>7 DEF ScaleInv
  <1>4. CASE DecodeScale
    <2> DEFINE r == ScaleDecode(t, data)
               x == IF Fails(r.next) THEN r.next ELSE r.val
    <2>1. sent' = sent /\ data' = data /\ fault' = fault /\ data # NIL /\ ~Fails(data)
          /\ object' = (IF Fails(x) THEN NIL ELSE x)
          /\ outcome' = Ending(x)
      BY <1>4 DEF DecodeScale, Receive, Delivered
    <2>2. sent'.format = "scale" /\ Sends(sent.type, sent.value)'
      BY <1>1, <2>1 DEF Sends
    <2>3. OnTheWay(ScaleEncode(sent.type, sent.value))'
      <3>1. ScaleEncode(sent.type, sent.value)' = e
        BY <2>1
      <3> HIDE DEF e
      <3> QED
        BY <1>1, <2>1, <3>1 DEF OnTheWay
    <2>4. Received(ScaleDecode(sent.type, data))'
      <3>1. ScaleDecode(sent.type, data)' = r
        BY <2>1
      <3> HIDE DEF r
      <3> QED
        BY <2>1, <3>1 DEF Received, Ending, Fails
    <2> QED
      BY <2>2, <2>3, <2>4 DEF ScaleInv
  <1>5. CASE UNCHANGED vars
    BY <1>1, <1>5 DEF vars, ScaleInv, Sends, OnTheWay, Received
  <1> QED
    BY <1>2, <1>3, <1>4, <1>5 DEF ScaleNext

\* Each property is what ScaleRead says of what was received.
LEMMA InvScale == ScaleInv => ScaleRoundTrip /\ ScaleCutRefused
  <1> SUFFICES ASSUME ScaleInv PROVE ScaleRoundTrip /\ ScaleCutRefused
    OBVIOUS
  <1> DEFINE t == sent.type
             v == sent.value
             e == ScaleEncode(t, v)
             r == ScaleDecode(t, data)
  <1>1. /\ sent.format = "scale" /\ Sends(t, v) /\ OnTheWay(e)
        /\ outcome # "waiting" =>
              /\ data # NIL /\ ~Fails(data)
              /\ IF Fails(r.next) THEN outcome = Ending(r.next)
                 ELSE ~Fails(r.val) => outcome = "accepted" /\ object = r.val
    BY DEF ScaleInv, Received
  <1>2. ASSUME ~Fails(e)
        PROVE  /\ e \in Seq(Byte) /\ ScaleDecode(t, e) = Got(v, Len(e))
               /\ \A n \in 0..(Len(e) - 1) :
                    /\ Fails(ScaleDecode(t, SubSeq(e, 1, n)).next)
                    /\ t \in CheckedTypes[MaxDepth] =>
                          ScaleDecode(t, SubSeq(e, 1, n)).next = THROW
               /\ t.t = "compact" /\ v < kMinBigInteger => Len(e) = compactLen(v)
    BY <1>1, <1>2, ScaleRead
  <1> HIDE DEF t, v, e
  <1>3. ASSUME fault[1] = "cut", outcome # "waiting"
        PROVE  outcome = "refused" \/ (outcome = "aborted" /\ t \notin CheckedTypes[MaxDepth])
    <2>1. fault # <<"none">>
      BY <1>3
    <2>2. PICK n \in 0..(Len(e) - 1) : data = SubSeq(e, 1, n) /\ ~Fails(e)
      BY <1>1, <2>1 DEF OnTheWay
    <2>3. Fails(r.next) /\ (t \in CheckedTypes[MaxDepth] => r.next = THROW)
      BY <1>2, <2>2
    <2>4. outcome = Ending(r.next)
      BY <1>1, <1>3, <2>3
    <2> HIDE DEF r
    <2> QED
      BY <2>3, <2>4, BytesAssumption DEF Ending, Fails
  <1>4. ASSUME fault = <<"none">>, outcome # "waiting"
        PROVE  /\ outcome = "accepted" /\ object = v
               /\ r.next = Len(data)
               /\ \A i \in DOMAIN data : data[i] \in 0..(Bytes(1) - 1)
               /\ t.t = "compact" /\ v < kMinBigInteger => Len(data) = compactLen(v)
    <2>1. data = e
      <3>1. fault[1] # "cut"
        BY <1>4
      <3> QED
        BY <1>1, <1>4, <3>1 DEF OnTheWay
    <2>2. e \in Seq(Byte) /\ r = Got(v, Len(e))
          /\ (t.t = "compact" /\ v < kMinBigInteger => Len(e) = compactLen(v))
      BY <1>1, <1>2, <1>4, <2>1
    <2> HIDE DEF r
    <2>3. r.val = v /\ r.next = Len(e)
      BY <2>2 DEF Got
    <2>4. ~Fails(r.next)
      <3>1. Len(e) \in Int
        BY <2>2
      <3> QED
        BY <2>3, <3>1, NotFailed
    <2>5. ~Fails(r.val)
      BY <1>1, <2>3 DEF Sends
    <2>6. \A i \in DOMAIN data : data[i] \in 0..(Bytes(1) - 1)
      <3>1. \A i \in DOMAIN e : e[i] \in Byte
        BY <2>2
      <3> QED
        BY <2>1, <3>1 DEF Byte
    <2> QED
      BY <1>1, <1>4, <2>1, <2>2, <2>3, <2>4, <2>5, <2>6
  <1>5. ScaleRoundTrip
    BY <1>4 DEF ScaleRoundTrip, Untouched, t, v, r
  <1>6. ScaleCutRefused
    BY <1>3 DEF ScaleCutRefused, t
  <1> QED
    BY <1>5, <1>6

\* Every value that an encoder stream wrote and that arrives whole is read back by
\* the decoder stream, to the last byte, for values of every type that both streams
\* have an operator for, of any depth.
THEOREM ScaleKept == ScaleSpec => []ScaleRoundTrip
  BY InitScale, ScaleStep, InvScale, PTL DEF ScaleSpec

\* The beginning of such a value is never taken for a value; it is refused with an
\* exception for every type without a u256 and a vector of bytes in it, and may end
\* the program for the others, which are copied without hasMore.
THEOREM ScaleCut == ScaleSpec => []ScaleCutRefused
  BY InitScale, ScaleStep, InvScale, PTL DEF ScaleSpec
=============================================================================

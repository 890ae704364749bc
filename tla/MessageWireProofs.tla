------------------------- MODULE MessageWireProofs -------------------------
(***************************************************************************)
(* Every message is understood as it was meant, and damage stays where it  *)
(* is, for every value of every member.  The reading of each message is a  *)
(* lemma; the loops over topics and positions are recursive functions, and *)
(* what they compute is proved by induction through the least              *)
(* counterexample (WFMin).                                                 *)
(***************************************************************************)
EXTENDS MessageWire, FiniteSetTheorems, SequenceTheorems, WellFoundedInduction, TLAPS

\* A set of natural numbers that is not empty has a least one.
LEMMA Least ==
    ASSUME NEW T \in SUBSET Nat, T # {}
    PROVE  \E x \in T : \A y \in T : x <= y
  <1>1. \E x \in T : \A y \in T : ~ (<<y, x>> \in OpToRel(<, Nat))
    BY WFMin, NatLessThanWellFounded
  <1>2. \A x, y \in Nat : (<<y, x>> \in OpToRel(<, Nat)) <=> y < x
    BY DEF OpToRel
  <1>3. \A x, y \in Nat : ~(y < x) => x <= y
    OBVIOUS
  <1>4. T \subseteq Nat
    OBVIOUS
  <1> QED
    BY <1>1, <1>2, <1>3, <1>4

\* Induction over the natural numbers, with the property as a set: what the loops of
\* addTopic are reasoned about with.
LEMMA Inductive ==
    ASSUME NEW S, 0 \in S, \A n \in Nat : n \in S => n + 1 \in S
    PROVE  Nat \subseteq S
  <1> DEFINE T == Nat \ S
  <1> SUFFICES ASSUME T # {} PROVE FALSE
    OBVIOUS
  <1>1. PICK x \in T : \A y \in T : x <= y
    BY Least
  <1>2. x \in Nat /\ x # 0 /\ x - 1 \in Nat
    OBVIOUS
  <1>3. x - 1 \in S
    BY <1>1, <1>2
  <1>4. (x - 1) + 1 \in S
    BY <1>2, <1>3
  <1> QED
    BY <1>2, <1>4

\* A finite set written out as a list has every member once: what toJson and serialize
\* make of a std::set or a std::map.
LEMMA SetToSeqLists ==
    ASSUME NEW S, IsFiniteSet(S)
    PROVE  /\ SetToSeq(S) \in [1..Cardinality(S) -> S]
           /\ Cardinality(S) \in Nat
           /\ \A x \in S : \E i \in 1..Cardinality(S) : SetToSeq(S)[i] = x
           /\ \A i, k \in 1..Cardinality(S) : SetToSeq(S)[i] = SetToSeq(S)[k] => i = k
  <1> DEFINE n == Cardinality(S)
  <1>1. n \in Nat /\ Bijection(1..n, S) # {}
    BY FS_CardinalityType DEF ExistsBijection
  <1>2. \E f \in [1..n -> S] : IsInjective(f)
    BY <1>1 DEF Bijection, Injection
  <1>3. SetToSeq(S) \in [1..n -> S] /\ IsInjective(SetToSeq(S))
    BY <1>2 DEF SetToSeq
  <1>4. IsFiniteSet(1..n) /\ Cardinality(1..n) = n
    BY <1>1, FS_Interval
  <1>5. SetToSeq(S) \in Injection(1..n, S)
    BY <1>3 DEF Injection
  <1>6. SetToSeq(S) \in Surjection(1..n, S)
    BY <1>4, <1>5, FS_Injection
  <1> QED
    BY <1>1, <1>3, <1>6 DEF IsInjective, Surjection

\* addTopic for all the topics of one position: the position gets all of them, those
\* before keep theirs, and nothing is changed when there are none.
LEMMA AddTopicsIs ==
    ASSUME NEW topics \in Seq(SUBSET STRING), NEW index \in Nat, NEW names \in Seq(STRING)
    PROVE  AddTopics(topics, index, names) =
                IF Len(names) = 0 THEN topics
                ELSE [i \in 1..(index + 1) |->
                        (IF i <= Len(topics) THEN topics[i] ELSE {})
                        \cup (IF i = index + 1 THEN ToSet(names) ELSE {})]
  <1> DEFINE n == Len(names)
             Old(i) == IF i <= Len(topics) THEN topics[i] ELSE {}
             First(k) == {names[j] : j \in 1..k}
             Made(k) == [i \in 1..(index + 1) |-> Old(i) \cup (IF i = index + 1 THEN First(k) ELSE {})]
             G == [k \in 0..n |-> IF k = 0 THEN topics ELSE Made(k)]
             Step(f) == [k \in 0..n |-> IF k = 0 THEN topics ELSE AddTopic(f[k - 1], index, names[k])]
             F == CHOOSE f : f = Step(f)
  <1>1. n \in Nat
    OBVIOUS
  <1>2. ASSUME NEW k \in 1..n
        PROVE  AddTopic(G[k - 1], index, names[k]) = Made(k)
    <2>1. CASE k = 1
      BY <2>1, <1>1 DEF AddTopic
    <2>2. CASE k > 1
      <3>1. G[k - 1] = Made(k - 1)
        BY <2>2, <1>1
      <3>2. Len(Made(k - 1)) = index + 1
        OBVIOUS
      <3>3. First(k) = First(k - 1) \cup {names[k]}
        BY <2>2, <1>1
      <3> QED
        BY <3>1, <3>2, <3>3 DEF AddTopic
    <2> QED
      BY <2>1, <2>2, <1>1
  <1>3. G = Step(G)
    <2>1. \A k \in 0..n : G[k] = Step(G)[k]
      <3> SUFFICES ASSUME NEW k \in 0..n PROVE G[k] = Step(G)[k]
        OBVIOUS
      <3>1. CASE k = 0
        BY <3>1, <1>1
      <3>2. CASE k # 0
        <4>1. k \in 1..n /\ G[k] = Made(k)
          BY <3>2, <1>1
        <4>2. Step(G)[k] = AddTopic(G[k - 1], index, names[k])
          BY <3>2
        <4> HIDE DEF G, Made, Step
        <4> QED
          BY <4>1, <4>2, <1>2
      <3> QED
        BY <3>1, <3>2
    <2> QED
      BY <2>1
  <1>4. F = Step(F)
    <2> HIDE DEF G, Step
    <2> QED BY <1>3
  <1>5. AddTopics(topics, index, names) = F[n]
    BY DEF AddTopics
  <1> HIDE DEF F
  <1>6. Nat \subseteq {k \in Nat : k <= n => F[k] = G[k]}
    <2> DEFINE S == {k \in Nat : k <= n => F[k] = G[k]}
    <2>1. 0 \in S
      BY <1>1, <1>4
    <2>2. ASSUME NEW k \in Nat, k \in S
          PROVE  k + 1 \in S
      <3> SUFFICES ASSUME k + 1 <= n PROVE F[k + 1] = G[k + 1]
        OBVIOUS
      <3>1. k + 1 \in 1..n /\ F[k] = G[k]
        BY <2>2, <1>1
      <3>2. F[k + 1] = AddTopic(F[k], index, names[k + 1])
        BY <3>1, <1>4, <1>1
      <3>3. AddTopic(G[k], index, names[k + 1]) = Made(k + 1)
        <4>1. (k + 1) - 1 = k
          OBVIOUS
        <4> HIDE DEF G, Made
        <4> QED
          BY <1>2, <3>1, <4>1
      <3> QED
        BY <3>1, <3>2, <3>3, <1>1
    <2> HIDE DEF S
    <2>3. Nat \subseteq S
      BY <2>1, <2>2, Inductive
    <2> QED
      BY <2>3 DEF S
  <1>7. F[n] = G[n]
    <2> HIDE DEF G, n
    <2>1. n \in {k \in Nat : k <= n => F[k] = G[k]} /\ n <= n
      BY <1>6, <1>1
    <2> QED
      BY <2>1
  <1>8. DOMAIN names = 1..n
    OBVIOUS
  <1> QED
    BY <1>1, <1>5, <1>7, <1>8 DEF ToSet

\* fromJson for all the positions gives the topics back that they stand for, empty
\* positions included, when the last position has a topic: addTopic cuts and fills the
\* list as it goes.
LEMMA AddPositionsIs ==
    ASSUME NEW t \in Seq(SUBSET STRING), t # <<>> => t[Len(t)] # {},
           NEW pos \in Seq(Seq(STRING)), Len(pos) = Len(t),
           \A i \in 1..Len(t) : ToSet(pos[i]) = t[i] /\ (Len(pos[i]) = 0 <=> t[i] = {})
    PROVE  AddPositions(<<>>, pos) = t
  <1> DEFINE n == Len(t)
             Dom(i) == {k \in 1..i : \E j \in k..i : t[j] # {}}
             Kept(i) == [k \in Dom(i) |-> t[k]]
             G == [i \in 0..n |-> Kept(i)]
             Step(f) == [i \in 0..n |-> IF i = 0 THEN <<>> ELSE AddTopics(f[i - 1], i - 1, pos[i])]
             F == CHOOSE f : f = Step(f)
  <1>1. n \in Nat /\ Len(pos) = n
    OBVIOUS
  <1>2. ASSUME NEW i \in Nat, t[i + 1] = {}
        PROVE  Dom(i + 1) = Dom(i)
    <2>1. \A k \in 1..(i + 1) : \A j \in k..(i + 1) : t[j] # {} => k \in 1..i /\ j \in k..i
      BY <1>2
    <2>2. \A k \in 1..i : \A j \in k..i : k \in 1..(i + 1) /\ j \in k..(i + 1)
      OBVIOUS
    <2> QED
      BY <2>1, <2>2
  <1>3. ASSUME NEW i \in Nat, t[i + 1] # {}
        PROVE  Dom(i + 1) = 1..(i + 1)
    BY <1>3
  <1>4. Nat \subseteq {i \in Nat : \E m \in 0..i : Dom(i) = 1..m}
    <2> DEFINE S == {i \in Nat : \E m \in 0..i : Dom(i) = 1..m}
    <2>1. 0 \in S
      OBVIOUS
    <2>2. ASSUME NEW i \in Nat, i \in S
          PROVE  i + 1 \in S
      <3>1. PICK m \in 0..i : Dom(i) = 1..m
        BY <2>2
      <3> HIDE DEF Dom
      <3> QED
        BY <1>2, <1>3, <3>1
    <2> HIDE DEF S
    <2>3. Nat \subseteq S
      BY <2>1, <2>2, Inductive
    <2> QED
      BY <2>3 DEF S
  <1>5. ASSUME NEW i \in Nat, NEW k \in 1..i, k \notin Dom(i)
         PROVE  t[k] = {}
    <2>1. k \in k..i
      OBVIOUS
    <2> QED
      BY <1>5, <2>1
  <1>6. ASSUME NEW i \in 1..n
        PROVE  AddTopics(Kept(i - 1), i - 1, pos[i]) = Kept(i)
    <2> HIDE DEF Dom
    <2>1. i - 1 \in Nat /\ (i - 1) + 1 = i /\ pos[i] \in Seq(STRING)
      BY <1>1
    <2>2. PICK m \in 0..(i - 1) : Dom(i - 1) = 1..m
      BY <1>4, <2>1
    <2>3. Kept(i - 1) \in Seq(SUBSET STRING) /\ Len(Kept(i - 1)) = m
      <3>1. Kept(i - 1) = [k \in 1..m |-> t[k]]
        BY <2>2
      <3>2. \A k \in 1..m : t[k] \in SUBSET STRING
        BY <1>1
      <3>3. m \in Nat
        BY <2>1
      <3> HIDE DEF Kept
      <3> QED
        BY <3>1, <3>2, <3>3
    <2> DEFINE Old(k) == IF k <= m THEN Kept(i - 1)[k] ELSE {}
               Added == [k \in 1..i |-> Old(k) \cup (IF k = i THEN ToSet(pos[i]) ELSE {})]
    <2>4. AddTopics(Kept(i - 1), i - 1, pos[i]) =
             IF Len(pos[i]) = 0 THEN Kept(i - 1) ELSE Added
      <3> HIDE DEF Kept
      <3> DEFINE Fits(q, x, r) ==
                    AddTopics(q, x, r) =
                        IF Len(r) = 0 THEN q
                        ELSE [k \in 1..(x + 1) |->
                                (IF k <= Len(q) THEN q[k] ELSE {})
                                \cup (IF k = x + 1 THEN ToSet(r) ELSE {})]
      <3>1. \A q \in Seq(SUBSET STRING), x \in Nat, r \in Seq(STRING) : Fits(q, x, r)
        BY AddTopicsIs
      <3> HIDE DEF Fits
      <3>2. Fits(Kept(i - 1), i - 1, pos[i])
        BY <2>1, <2>3, <3>1
      <3> QED
        BY <2>1, <2>3, <3>2 DEF Fits
    <2>5. CASE t[i] = {}
      <3>1. Dom(i) = Dom(i - 1)
        BY <1>2, <2>1, <2>5
      <3>2. Len(pos[i]) = 0
        BY <2>5
      <3> QED
        BY <2>4, <3>1, <3>2
    <2>6. CASE t[i] # {}
      <3>1. Dom(i) = 1..i
        BY <1>3, <2>1, <2>6
      <3>2. ASSUME NEW k \in 1..i
            PROVE  Old(k) \cup (IF k = i THEN ToSet(pos[i]) ELSE {}) = t[k]
        <4>1. i \in Nat /\ m \in Nat /\ m <= i - 1 /\ k \in Nat /\ 1 <= k /\ k <= i
          BY <2>1
        <4>2. CASE k <= m
          <5>1. k \in Dom(i - 1) /\ k # i
            BY <4>1, <4>2, <2>2
          <5> QED
            BY <4>2, <5>1
        <4>3. CASE m < k /\ k < i
          <5>1. k \notin Dom(i - 1) /\ k \in 1..(i - 1)
            BY <4>1, <4>3, <2>2
          <5>2. t[k] = {}
            BY <5>1, <1>5, <2>1
          <5> QED
            BY <4>1, <4>3, <5>2
        <4>4. CASE k = i
          BY <4>1, <4>4
        <4> HIDE DEF Old
        <4> QED
          BY <4>1, <4>2, <4>3, <4>4
      <3>3. Added = Kept(i)
        <4> HIDE DEF Old
        <4> QED
          BY <3>1, <3>2
      <3>4. Len(pos[i]) # 0
        BY <2>6
      <3> HIDE DEF Added, Kept
      <3> QED
        BY <2>4, <3>3, <3>4
    <2> QED
      BY <2>5, <2>6
  <1>7. Kept(0) = <<>> /\ Kept(n) = t
    <2>1. Kept(0) = <<>>
      OBVIOUS
    <2>2. CASE n = 0
      BY <2>1, <2>2
    <2>3. CASE n # 0
      <3>1. t[n] # {} /\ n - 1 \in Nat /\ (n - 1) + 1 = n
        BY <2>3
      <3>2. Dom(n) = 1..n
        BY <3>1, <1>3
      <3>3. t = [k \in 1..n |-> t[k]]
        OBVIOUS
      <3> QED
        BY <2>1, <3>2, <3>3
    <2> QED
      BY <2>2, <2>3
  <1> HIDE DEF Kept
  <1>8. G = Step(G)
    <2>1. \A i \in 0..n : G[i] = Step(G)[i]
      <3> SUFFICES ASSUME NEW i \in 0..n PROVE G[i] = Step(G)[i]
        OBVIOUS
      <3>1. CASE i = 0
        BY <3>1, <1>1, <1>7
      <3>2. CASE i # 0
        <4>1. i \in 1..n /\ G[i] = Kept(i) /\ G[i - 1] = Kept(i - 1)
          BY <3>2, <1>1
        <4>2. Step(G)[i] = AddTopics(G[i - 1], i - 1, pos[i])
          BY <3>2
        <4> HIDE DEF G, Step
        <4> QED
          BY <4>1, <4>2, <1>6
      <3> QED
        BY <3>1, <3>2
    <2> QED
      BY <2>1
  <1>9. F = Step(F)
    <2> HIDE DEF G, Step
    <2> QED
      BY <1>8
  <1>10. AddPositions(<<>>, pos) = F[n]
    BY <1>1 DEF AddPositions
  <1> HIDE DEF F
  <1>11. Nat \subseteq {i \in Nat : i <= n => F[i] = G[i]}
    <2> DEFINE S == {i \in Nat : i <= n => F[i] = G[i]}
    <2>1. 0 \in S
      BY <1>1, <1>7, <1>9
    <2>2. ASSUME NEW i \in Nat, i \in S
          PROVE  i + 1 \in S
      <3> SUFFICES ASSUME i + 1 <= n PROVE F[i + 1] = G[i + 1]
        OBVIOUS
      <3>1. i + 1 \in 1..n /\ F[i] = Kept(i) /\ (i + 1) - 1 = i
        BY <2>2, <1>1
      <3>2. F[i + 1] = AddTopics(F[i], i, pos[i + 1])
        BY <3>1, <1>9, <1>1
      <3>3. AddTopics(Kept(i), i, pos[i + 1]) = Kept(i + 1)
        BY <1>6, <3>1
      <3> QED
        BY <3>1, <3>2, <3>3, <1>1
    <2> HIDE DEF S
    <2>3. Nat \subseteq S
      BY <2>1, <2>2, Inductive
    <2> QED
      BY <2>3 DEF S
  <1>12. F[n] = G[n]
    <2> HIDE DEF G, n
    <2>1. n \in {i \in Nat : i <= n => F[i] = G[i]} /\ n <= n
      BY <1>11, <1>1
    <2> QED
      BY <2>1
  <1> QED
    BY <1>1, <1>7, <1>10, <1>12

-----------------------------------------------------------------------------

\* q is the JSON object p, but for the member name, which is no array.
Damaged(q, p, name) ==
    /\ q.j = "obj"
    /\ \A x : x # name => (x \in DOMAIN q.v <=> x \in DOMAIN p.v)
    /\ \A x \in DOMAIN p.v : x # name => q.v[x] = p.v[x]
    /\ ~HasArray(q, name)

\* What a receiver makes of a message that means r, of which the member name is
\* damaged: nothing, or r up to that member, and r itself when none is.
Reads(x, r, name) ==
    /\ ~Fails(x) => \A f \in DOMAIN x : f # ReadInto(name) => x[f] = r[f]
    /\ name = "" => x = r

\* asString and asInt64 give what was written as a string or a number.
LEMMA AsWritten ==
    /\ \A x : AsString(Str(x)) = x
    /\ \A x : AsInt(Num(x)) = x
  BY DEF AsString, AsInt, Str, Num, Js

\* A member that holds a string is read by asString as it was written.
LEMMA StringRead ==
    ASSUME NEW q, q.j = "obj", NEW name \in DOMAIN q.v, NEW x, q.v[name] = Str(x), NEW d
    PROVE  Optional(q, name, d, AsString) = x
  BY DEF Optional, AsString, Str, Js

\* A member that holds a number is read by asInt64 as it was written.
LEMMA IntRead ==
    ASSUME NEW q, q.j = "obj", NEW name \in DOMAIN q.v, NEW x, q.v[name] = Num(x), NEW d
    PROVE  Optional(q, name, d, AsInt) = x
  BY DEF Optional, AsInt, Num, Js

\* No string, number or truth value is taken for an exception.
LEMMA NoOutcome ==
    /\ \A x \in STRING : ~Fails(x)
    /\ \A x \in Int : ~Fails(x)
    /\ \A x \in BOOLEAN : ~Fails(x)
  BY OutcomesAssumption DEF Fails

\* EventSubUnsubRequest: fromJson of what generateJson wrote, damaged or not.
LEMMA UnsubscribeRead ==
    ASSUME NEW r \in [id : STRING, group : STRING], NEW q, NEW name,
           Damaged(q, UnsubscribeToJson(r), name), NEW x, x = UnsubscribeFromJson(q)
    PROVE  Reads(x, r, name)
  <1> DEFINE id == Required(q, "id", AsString)
             group == Required(q, "group", AsString)
             R == [id |-> id, group |-> group]
  <1>1. name # "id" => id = r.id
    BY StringRead DEF Damaged, UnsubscribeToJson, Obj, Js, Required
  <1>2. name # "group" => group = r.group
    BY StringRead DEF Damaged, UnsubscribeToJson, Obj, Js, Required
  <1>3. x = IF AllRead(R) THEN R ELSE THROW
    BY DEF UnsubscribeFromJson, Whole
  <1> HIDE DEF id, group
  <1>4. ASSUME ~Fails(x), NEW f \in DOMAIN x, f # ReadInto(name)
        PROVE  x[f] = r[f]
    <2>1. x = R
      BY <1>3, <1>4 DEF Fails
    <2>2. name # f
      BY <1>4, <2>1 DEF ReadInto
    <2> QED
      BY <1>1, <1>2, <2>1, <2>2
  <1>5. ASSUME name = "" PROVE x = r
    <2>1. R = r
      BY <1>1, <1>2, <1>5
    <2>2. AllRead(R)
      BY <2>1, NoOutcome DEF AllRead
    <2> QED
      BY <1>3, <2>1, <2>2
  <1> QED
    BY <1>4, <1>5 DEF Reads

\* EventSubResponse: fromJson of what generateJson wrote, damaged or not.
LEMMA ResponseRead ==
    ASSUME NEW r \in [id : STRING, status : Int], NEW q, NEW name,
           Damaged(q, ResponseToJson(r), name), NEW x, x = ResponseFromJson(q)
    PROVE  Reads(x, r, name)
  <1> DEFINE id == Required(q, "id", AsString)
             status == Required(q, "status", AsInt)
             R == [id |-> id, status |-> status]
  <1>1. name # "id" => id = r.id
    BY StringRead DEF Damaged, ResponseToJson, Obj, Js, Required
  <1>2. name # "status" => status = r.status
    BY IntRead DEF Damaged, ResponseToJson, Obj, Js, Required
  <1>3. x = IF AllRead(R) THEN R ELSE THROW
    BY DEF ResponseFromJson, Whole
  <1> HIDE DEF id, status
  <1>4. ASSUME ~Fails(x), NEW f \in DOMAIN x, f # ReadInto(name)
        PROVE  x[f] = r[f]
    <2>1. x = R
      BY <1>3, <1>4 DEF Fails
    <2>2. name # f
      BY <1>4, <2>1 DEF ReadInto
    <2> QED
      BY <1>1, <1>2, <2>1, <2>2
  <1>5. ASSUME name = "" PROVE x = r
    <2>1. R = r
      BY <1>1, <1>2, <1>5
    <2>2. AllRead(R)
      BY <2>1, NoOutcome DEF AllRead
    <2> QED
      BY <1>3, <2>1, <2>2
  <1> QED
    BY <1>4, <1>5 DEF Reads

\* BlockNumberInfo: fromJson of what a node sends, damaged or not.
LEMMA BlockInfoRead ==
    ASSUME NEW r \in [blockNumber : Int, group : STRING, node : STRING], NEW q, NEW name,
           Damaged(q, NodeBlockInfo(r), name), NEW x, x = BlockInfoFromJson(q)
    PROVE  Reads(x, r, name)
  <1> DEFINE number == Required(q, "blockNumber", AsInt)
             group == Required(q, "group", AsString)
             node == Required(q, "nodeName", AsString)
             R == [blockNumber |-> number, group |-> group, node |-> node]
  <1>1. name # "blockNumber" => number = r.blockNumber
    BY IntRead DEF Damaged, NodeBlockInfo, Obj, Js, Required
  <1>2. name # "group" => group = r.group
    BY StringRead DEF Damaged, NodeBlockInfo, Obj, Js, Required
  <1>3. name # "nodeName" => node = r.node
    BY StringRead DEF Damaged, NodeBlockInfo, Obj, Js, Required
  <1>4. x = IF AllRead(R) THEN R ELSE THROW
    BY DEF BlockInfoFromJson, Whole
  <1> HIDE DEF number, group, node
  <1>5. ASSUME ~Fails(x), NEW f \in DOMAIN x, f # ReadInto(name)
        PROVE  x[f] = r[f]
    <2>1. x = R
      BY <1>4, <1>5 DEF Fails
    <2>2. CASE f = "blockNumber"
      BY <1>1, <1>5, <2>1, <2>2 DEF ReadInto
    <2>3. CASE f = "group"
      BY <1>2, <1>5, <2>1, <2>3 DEF ReadInto
    <2>4. CASE f = "node"
      BY <1>3, <1>5, <2>1, <2>4 DEF ReadInto
    <2> QED
      BY <2>1, <2>2, <2>3, <2>4
  <1>6. ASSUME name = "" PROVE x = r
    <2>1. R = r
      BY <1>1, <1>2, <1>3, <1>6
    <2>2. AllRead(R)
      BY <2>1, NoOutcome DEF AllRead
    <2> QED
      BY <1>4, <2>1, <2>2
  <1> QED
    BY <1>5, <1>6 DEF Reads

\* BlockNumberInfo: fromJson of what toJson wrote, damaged or not.
LEMMA OwnBlockInfoRead ==
    ASSUME NEW r \in [blockNumber : Int, group : STRING, node : STRING],
           AsString(Num(r.blockNumber)) \in STRING, NEW q, NEW name,
           Damaged(q, BlockInfoToJson(r), name), NEW x, x = BlockInfoFromJson(q)
    PROVE  Reads(x, [r EXCEPT !.node = AsString(Num(r.blockNumber))], name)
  <1> DEFINE n == AsString(Num(r.blockNumber))
             v == [r EXCEPT !.node = n]
             number == Required(q, "blockNumber", AsInt)
             group == Required(q, "group", AsString)
             node == Required(q, "nodeName", AsString)
             R == [blockNumber |-> number, group |-> group, node |-> node]
  <1>1. v = [blockNumber |-> r.blockNumber, group |-> r.group, node |-> n] /\ n \in STRING
    <2> HIDE DEF n
    <2>1. n \in STRING
      BY DEF n
    <2> QED
      BY <2>1
  <1>2. name # "blockNumber" => number = r.blockNumber
    BY IntRead DEF Damaged, BlockInfoToJson, Obj, Js, Required
  <1>3. name # "group" => group = r.group
    BY StringRead DEF Damaged, BlockInfoToJson, Obj, Js, Required
  <1>4. name # "nodeName" => node = n
    <2> SUFFICES ASSUME name # "nodeName" PROVE node = n
      OBVIOUS
    <2>1. q.j = "obj" /\ "nodeName" \in DOMAIN q.v /\ q.v["nodeName"] = Num(r.blockNumber)
      BY DEF Damaged, BlockInfoToJson, Obj, Js
    <2> QED
      BY <2>1 DEF Required, Optional
  <1>5. x = IF AllRead(R) THEN R ELSE THROW
    BY DEF BlockInfoFromJson, Whole
  <1> HIDE DEF number, group, node, n, v
  <1>6. ASSUME ~Fails(x), NEW f \in DOMAIN x, f # ReadInto(name)
        PROVE  x[f] = v[f]
    <2>1. x = R
      BY <1>5, <1>6 DEF Fails
    <2>2. CASE f = "blockNumber"
      BY <1>1, <1>2, <1>6, <2>1, <2>2 DEF ReadInto
    <2>3. CASE f = "group"
      BY <1>1, <1>3, <1>6, <2>1, <2>3 DEF ReadInto
    <2>4. CASE f = "node"
      BY <1>1, <1>4, <1>6, <2>1, <2>4 DEF ReadInto
    <2> QED
      BY <2>1, <2>2, <2>3, <2>4
  <1>7. ASSUME name = "" PROVE x = v
    <2>1. R = v
      BY <1>1, <1>2, <1>3, <1>4, <1>7
    <2>2. /\ DOMAIN R = {"blockNumber", "group", "node"}
          /\ R.blockNumber \in Int /\ R.group \in STRING /\ R.node \in STRING
      BY <1>1, <2>1
    <2> HIDE DEF R
    <2>3. AllRead(R)
      BY <2>2, NoOutcome DEF AllRead
    <2> QED
      BY <1>5, <2>1, <2>3
  <1> QED
    BY <1>6, <1>7 DEF Reads, v, n

\* JsonRpcRequest: fromJson of what toJson wrote, damaged or not.
LEMMA RequestRead ==
    ASSUME NEW r, r \in [jsonrpc : STRING, method : STRING, id : Int, params : {r.params}],
           r.params.j = "array", ~Fails(r.params), NEW q, NEW name,
           Damaged(q, RequestToJson(r), name), NEW x, x = RequestFromJson(q)
    PROVE  Reads(x, r, name)
  <1> DEFINE jsonrpc == Required(q, "jsonrpc", AsString)
             method == Required(q, "method", AsString)
             id == Optional(q, "id", 0, AsInt)
             params == Required(q, "params", LAMBDA p : IF p.j = "array" THEN p ELSE THROW)
             R == [jsonrpc |-> jsonrpc, method |-> method, id |-> id, params |-> params]
  <1>1. name # "jsonrpc" => jsonrpc = r.jsonrpc
    BY StringRead DEF Damaged, RequestToJson, Obj, Js, Required
  <1>2. name # "method" => method = r.method
    BY StringRead DEF Damaged, RequestToJson, Obj, Js, Required
  <1>3. name # "id" => id = r.id
    BY IntRead DEF Damaged, RequestToJson, Obj, Js
  <1>4. name # "params" => params = r.params
    BY DEF Damaged, RequestToJson, Obj, Js, Required, Optional
  <1>5. x = IF AllRead(R) THEN R ELSE THROW
    BY DEF RequestFromJson, Whole
  <1> HIDE DEF jsonrpc, method, id, params
  <1>6. ASSUME ~Fails(x), NEW f \in DOMAIN x, f # ReadInto(name)
        PROVE  x[f] = r[f]
    <2>1. x = R
      BY <1>5, <1>6 DEF Fails
    <2>2. name # f
      BY <1>6, <2>1 DEF ReadInto
    <2> QED
      BY <1>1, <1>2, <1>3, <1>4, <2>1, <2>2
  <1>7. ASSUME name = "" PROVE x = r
    <2>1. R = r
      BY <1>1, <1>2, <1>3, <1>4, <1>7
    <2>2. AllRead(R)
      BY <2>1, NoOutcome DEF AllRead
    <2> QED
      BY <1>5, <2>1, <2>2
  <1> QED
    BY <1>6, <1>7 DEF Reads

\* A set of strings written as an array is read as the same set.
LEMMA NamesRead ==
    ASSUME NEW S \in SUBSET STRING, IsFiniteSet(S),
           NEW p, p = Arr(LET a == SetToSeq(S) IN [i \in DOMAIN a |-> Str(a[i])])
    PROVE  /\ p.j = "array"
           /\ Strings(p.v) \in Seq(STRING)
           /\ ToSet(Strings(p.v)) = S
           /\ Len(Strings(p.v)) = 0 <=> S = {}
           /\ AllRead(Strings(p.v))
  <1> DEFINE n == Cardinality(S)
             a == SetToSeq(S)
  <1>1. n \in Nat /\ a \in [1..n -> S]
    BY SetToSeqLists
  <1>2. \A x \in S : \E i \in 1..n : a[i] = x
    BY SetToSeqLists
  <1> HIDE DEF a, n
  <1>3. p.j = "array" /\ p.v = [i \in 1..n |-> Str(a[i])]
    BY <1>1 DEF Arr, Js, a
  <1>4. Strings(p.v) = a
    <2>1. \A i \in 1..n : p.v[i] = Str(a[i])
      BY <1>3
    <2>2. \A i \in 1..n : AsString(p.v[i]) = a[i]
      BY <2>1, AsWritten
    <2>3. DOMAIN p.v = 1..n /\ DOMAIN a = 1..n
      BY <1>1, <1>3
    <2> QED
      BY <1>1, <2>2, <2>3 DEF Strings
  <1>5. a \in Seq(STRING) /\ Len(a) = n /\ DOMAIN a = 1..n
    <2>1. a \in [1..n -> STRING]
      BY <1>1
    <2> QED
      BY <1>1, <2>1
  <1>6. ToSet(a) = S
    BY <1>1, <1>2 DEF ToSet
  <1>7. n = 0 <=> S = {}
    <2>1. n # 0 => 1 \in 1..n
      BY <1>1
    <2>2. n # 0 => a[1] \in S
      BY <1>1, <2>1
    <2>3. n = 0 => 1..n = {}
      OBVIOUS
    <2> QED
      BY <1>2, <2>2, <2>3
  <1>8. AllRead(a)
    BY <1>1, NoOutcome DEF AllRead
  <1> QED
    BY <1>3, <1>4, <1>5, <1>6, <1>7, <1>8

\* The addresses of EventSubParams are read as they were written.
LEMMA AddressesRead ==
    ASSUME NEW p, ProperParams(p), NEW from
    PROVE  AddressesFromJson({}, ParamsToJson(p, from).v.addresses) = p.addresses
  <1> DEFINE q == ParamsToJson(p, from).v.addresses
  <1>1. p.addresses \in SUBSET STRING /\ IsFiniteSet(p.addresses)
    BY DEF ProperParams
  <1>2. q = Arr(LET a == SetToSeq(p.addresses) IN [i \in DOMAIN a |-> Str(a[i])])
    BY DEF ParamsToJson, Obj, Js
  <1> HIDE DEF q
  <1>3. /\ q.j = "array"
        /\ ToSet(Strings(q.v)) = p.addresses
        /\ AllRead(Strings(q.v))
    BY <1>1, <1>2, NamesRead
  <1>4. Items(q) = q.v /\ Indexable(q)
    BY <1>3 DEF Items, Indexable
  <1>5. AddressesFromJson({}, q) = p.addresses
    BY <1>3, <1>4 DEF AddressesFromJson
  <1> QED
    BY <1>5 DEF q

\* The topics of EventSubParams are read as they were written: null for an empty
\* position, an array for the others.
LEMMA TopicsRead ==
    ASSUME NEW p, ProperParams(p), NEW from
    PROVE  TopicsFromJson(<<>>, ParamsToJson(p, from).v.topics) = p.topics
  <1> DEFINE q == ParamsToJson(p, from).v.topics
             t == p.topics
             n == Len(t)
             Json(S) == Arr(LET a == SetToSeq(S) IN [k \in DOMAIN a |-> Str(a[k])])
             pos == [i \in 1..n |-> Position(q.v[i])]
  <1>1. /\ t \in Seq(SUBSET STRING) /\ n \in Nat /\ DOMAIN t = 1..n
        /\ \A i \in 1..n : t[i] \in SUBSET STRING /\ IsFiniteSet(t[i])
        /\ t # <<>> => t[n] # {}
    BY DEF ProperParams
  <1>2. q.j = "array" /\ q.v = [i \in 1..n |-> IF t[i] = {} THEN Null ELSE Json(t[i])]
    BY <1>1 DEF ParamsToJson, Obj, Js, Arr
  <1> HIDE DEF q, t, n, Json
  <1>3. ASSUME NEW i \in 1..n
        PROVE  /\ Position(q.v[i]) \in Seq(STRING)
               /\ ToSet(Position(q.v[i])) = t[i]
               /\ Len(Position(q.v[i])) = 0 <=> t[i] = {}
               /\ AllRead(Position(q.v[i]))
    <2>1. CASE t[i] = {}
      <3>1. Position(q.v[i]) = <<>>
        BY <1>2, <2>1 DEF Position, Null, Js
      <3>2. ToSet(<<>>) = {} /\ AllRead(<<>>)
        BY DEF ToSet, AllRead
      <3> QED
        BY <2>1, <3>1, <3>2
    <2>2. CASE t[i] # {}
      <3>1. q.v[i] = Json(t[i])
        BY <1>2, <2>2
      <3>2. /\ q.v[i].j = "array"
            /\ Strings(q.v[i].v) \in Seq(STRING)
            /\ ToSet(Strings(q.v[i].v)) = t[i]
            /\ Len(Strings(q.v[i].v)) = 0 <=> t[i] = {}
            /\ AllRead(Strings(q.v[i].v))
        <4>1. ASSUME NEW S \in SUBSET STRING, IsFiniteSet(S), NEW e, e = Json(S)
              PROVE  /\ e.j = "array"
                     /\ Strings(e.v) \in Seq(STRING)
                     /\ ToSet(Strings(e.v)) = S
                     /\ Len(Strings(e.v)) = 0 <=> S = {}
                     /\ AllRead(Strings(e.v))
          BY <4>1, NamesRead DEF Json
        <4> QED
          BY <1>1, <3>1, <4>1
      <3>3. Position(q.v[i]) = Strings(q.v[i].v)
        BY <3>2 DEF Position
      <3> QED
        BY <3>2, <3>3
    <2> QED
      BY <2>1, <2>2
  <1>4. Items(q) = q.v /\ Indexable(q) /\ DOMAIN q.v = 1..n
    BY <1>1, <1>2 DEF Items, Indexable
  <1>5. pos \in Seq(Seq(STRING)) /\ Len(pos) = n /\ DOMAIN pos = 1..n
    BY <1>1, <1>3
  <1>6. AddPositions(<<>>, pos) = t
    <2>1. \A i \in 1..n : ToSet(pos[i]) = t[i] /\ (Len(pos[i]) = 0 <=> t[i] = {})
      BY <1>3
    <2> HIDE DEF pos
    <2> QED
      BY <1>1, <1>5, <2>1, AddPositionsIs DEF n
  <1>7. \A i \in DOMAIN pos : AllRead(pos[i])
    BY <1>3, <1>5
  <1>8. TopicsFromJson(<<>>, q) = AddPositions(<<>>, pos)
    <2>1. [i \in DOMAIN Items(q) |-> Position(Items(q)[i])] = pos
      BY <1>4
    <2> HIDE DEF pos
    <2> QED
      BY <1>4, <1>7, <2>1 DEF TopicsFromJson
  <1> QED
    BY <1>6, <1>8 DEF q, t

\* The parameters of a subscription that asks for the blocks from the given one on.
From(p, from) ==
    [fromBlock |-> from, toBlock |-> p.toBlock, addresses |-> p.addresses, topics |-> p.topics]

\* EventSubParams: fromJson, into new parameters, of what toJson wrote, damaged or not.
LEMMA ParamsRead ==
    ASSUME NEW p, ProperParams(p), NEW from \in Int,
           NEW q, NEW name, Damaged(q, ParamsToJson(p, from), name),
           NEW x, x = ParamsFromJson(NewParams, q)
    PROVE  Reads(x, From(p, from), name)
  <1> DEFINE fromBlock == Optional(q, "fromBlock", -1, AsInt)
             toBlock == Optional(q, "toBlock", -1, AsInt)
             addresses == Optional(q, "addresses", {}, LAMBDA a : AddressesFromJson({}, a))
             topics == Optional(q, "topics", <<>>, LAMBDA t : TopicsFromJson(<<>>, t))
             R == [fromBlock |-> fromBlock, toBlock |-> toBlock,
                   addresses |-> addresses, topics |-> topics]
             J == ParamsToJson(p, from)
             r == From(p, from)
  <1>1. /\ p \in [fromBlock : Int, toBlock : Int, addresses : SUBSET STRING, topics : Seq(SUBSET STRING)]
        /\ AllRead(p)
    BY DEF ProperParams
  <1>2. /\ DOMAIN J.v = {"fromBlock", "toBlock", "addresses", "topics"}
        /\ J.v.fromBlock = Num(from) /\ J.v.toBlock = Num(p.toBlock)
    BY DEF ParamsToJson, Obj, Js
  <1>3. name # "fromBlock" => fromBlock = from
    <2> HIDE DEF J
    <2>1. name # "fromBlock" => "fromBlock" \in DOMAIN q.v /\ q.v.fromBlock = Num(from) /\ q.j = "obj"
      BY <1>2 DEF Damaged, J
    <2> QED
      BY <2>1, IntRead
  <1>4. name # "toBlock" => toBlock = p.toBlock
    <2> HIDE DEF J
    <2>1. name # "toBlock" => "toBlock" \in DOMAIN q.v /\ q.v.toBlock = Num(p.toBlock) /\ q.j = "obj"
      BY <1>2 DEF Damaged, J
    <2> QED
      BY <2>1, IntRead
  <1>5. name # "addresses" => addresses = p.addresses
    <2>1. name # "addresses" => "addresses" \in DOMAIN q.v /\ q.v.addresses = J.v.addresses /\ q.j = "obj"
      BY DEF Damaged, ParamsToJson, Obj, Js
    <2>2. name # "addresses" => addresses = AddressesFromJson({}, J.v.addresses)
      <3> HIDE DEF J
      <3> QED
        BY <2>1 DEF Optional
    <2> QED
      BY <2>2, AddressesRead
  <1>6. name # "topics" => topics = p.topics
    <2>1. name # "topics" => "topics" \in DOMAIN q.v /\ q.v.topics = J.v.topics /\ q.j = "obj"
      BY DEF Damaged, ParamsToJson, Obj, Js
    <2>2. name # "topics" => topics = TopicsFromJson(<<>>, J.v.topics)
      <3> HIDE DEF J
      <3> QED
        BY <2>1 DEF Optional
    <2> QED
      BY <2>2, TopicsRead
  <1>7. x = IF AllRead(R) THEN R ELSE THROW
    BY DEF ParamsFromJson, Whole, NewParams
  <1> HIDE DEF fromBlock, toBlock, addresses, topics
  <1>8. ASSUME ~Fails(x), NEW f \in DOMAIN x, f # ReadInto(name)
        PROVE  x[f] = r[f]
    <2>1. x = R
      BY <1>7, <1>8 DEF Fails
    <2>2. name # f
      BY <1>8, <2>1 DEF ReadInto
    <2> HIDE DEF J
    <2>3. CASE f = "fromBlock"
      BY <1>3, <2>1, <2>2, <2>3 DEF From
    <2>4. CASE f = "toBlock"
      BY <1>4, <2>1, <2>2, <2>4 DEF From
    <2>5. CASE f = "addresses"
      BY <1>5, <2>1, <2>2, <2>5 DEF From
    <2>6. CASE f = "topics"
      BY <1>6, <2>1, <2>2, <2>6 DEF From
    <2> QED
      BY <2>1, <2>3, <2>4, <2>5, <2>6
  <1>9. ASSUME name = "" PROVE x = r
    <2>1. R = r
      BY <1>3, <1>4, <1>5, <1>6, <1>9 DEF From
    <2>2. ~Fails(from) /\ ~Fails(p.toBlock) /\ ~Fails(p.addresses) /\ ~Fails(p.topics)
      BY <1>1, NoOutcome DEF AllRead
    <2>3. AllRead(R)
      BY <2>1, <2>2 DEF AllRead, From
    <2> QED
      BY <1>7, <2>1, <2>3 DEF From
  <1> QED
    BY <1>8, <1>9 DEF Reads

\* EventSubSubRequest: fromJson of what generateJson wrote, damaged or not: a task that
\* has seen blocks asks for the next one.
LEMMA SubscribeRead ==
    ASSUME NEW s, ProperMessage(s), s.type = "subscribe",
           NEW q, NEW name, Damaged(q, SubscribeToJson(s.value), name),
           NEW x, x = SubscribeFromJson(s.have, q)
    PROVE  Reads(x, Meaning(s), name)
  <1> DEFINE r == s.value
             from == IF r.current > 0 THEN r.current + 1 ELSE r.params.fromBlock
             m == [r.params EXCEPT !.fromBlock = from]
             id == Required(q, "id", AsString)
             group == Required(q, "group", AsString)
             params == Required(q, "params", LAMBDA p : ParamsFromJson(NewParams, p))
             R == [id |-> id, group |-> group, params |-> params, current |-> s.have.current]
             J == ParamsToJson(r.params, from)
  <1>1. /\ r \in [id : STRING, group : STRING, params : {r.params}, current : Int]
        /\ ProperParams(r.params) /\ ProperParams(Meaning(s).params)
        /\ s.have.current \in Int
    BY DEF ProperMessage
  <1>2. from \in Int
    BY <1>1 DEF ProperParams
  <1>3. Meaning(s) = [id |-> r.id, group |-> r.group, params |-> m, current |-> s.have.current]
    BY <1>1 DEF Meaning
  <1>4. name # "id" => id = r.id
    BY StringRead DEF Damaged, SubscribeToJson, Obj, Js, Required
  <1>5. name # "group" => group = r.group
    BY StringRead DEF Damaged, SubscribeToJson, Obj, Js, Required
  <1>6. name # "params" => params = m
    <2>1. name # "params" => "params" \in DOMAIN q.v /\ q.v.params = J /\ q.j = "obj"
      BY DEF Damaged, SubscribeToJson, Obj, Js
    <2>2. name # "params" => params = ParamsFromJson(NewParams, J)
      <3> HIDE DEF J
      <3> QED
        BY <2>1 DEF Required, Optional
    <2>3. Damaged(J, J, "")
      BY DEF Damaged, ParamsToJson, Obj, Js, HasArray
    <2>4. ParamsFromJson(NewParams, J) = m
      <3> HIDE DEF r, from
      <3>1. Reads(ParamsFromJson(NewParams, J), From(r.params, from), "")
        BY <1>1, <1>2, <2>3, ParamsRead
      <3>2. m = From(r.params, from)
        BY <1>1, <1>2 DEF ProperParams, From
      <3> QED
        BY <3>1, <3>2 DEF Reads
    <2> QED
      BY <2>2, <2>4
  <1>7. x = IF AllRead(R) THEN R ELSE THROW
    BY DEF SubscribeFromJson, Whole
  <1> HIDE DEF id, group, params, m, from
  <1>8. ASSUME ~Fails(x), NEW f \in DOMAIN x, f # ReadInto(name)
        PROVE  x[f] = Meaning(s)[f]
    <2>1. x = R
      BY <1>7, <1>8 DEF Fails
    <2>2. name # f
      BY <1>8, <2>1 DEF ReadInto
    <2> QED
      BY <1>3, <1>4, <1>5, <1>6, <2>1, <2>2
  <1>9. ASSUME name = "" PROVE x = Meaning(s)
    <2>1. R = Meaning(s)
      BY <1>3, <1>4, <1>5, <1>6, <1>9
    <2>2. ~Fails(r.id) /\ ~Fails(r.group) /\ ~Fails(s.have.current)
      BY <1>1, NoOutcome
    <2>3. ~Fails(m)
      <3>1. Meaning(s).params = m
        BY <1>3
      <3> QED
        BY <1>1, <3>1 DEF ProperParams
    <2>4. AllRead(R)
      BY <1>3, <2>1, <2>2, <2>3 DEF AllRead
    <2> QED
      BY <1>7, <2>1, <2>4
  <1> QED
    BY <1>8, <1>9 DEF Reads

-----------------------------------------------------------------------------

\* The greatest and the least of a single number.
LEMMA OnlyOne ==
    ASSUME NEW i \in Int
    PROVE  Max({i}) = i /\ Min({i}) = i
  BY DEF Max, Min

\* ChainNodeInfo: the services of a node are read by deserialize as serialize wrote them.
LEMMA ServicesRead ==
    ASSUME NEW n, ProperNode(n)
    PROVE  ServicesFromJson(NodeToJson(n).v.serviceInfo) = n.services
  <1> DEFINE q == NodeToJson(n).v.serviceInfo
             m == n.services
             D == DOMAIN m
             k == Cardinality(D)
             t == SetToSeq(D)
             Json(i) == Obj([type |-> Num(t[i]), serviceName |-> Str(m[t[i]])])
             ss == [i \in DOMAIN q.v |-> ServiceFromJson(q.v[i])]
             LastOf(type) == SelectLastInSeq(ss, LAMBDA s : s[1] = type)
  <1>1. m \in [D -> STRING] /\ D \subseteq Int /\ IsFiniteSet(D)
    BY DEF ProperNode
  <1>2. /\ k \in Nat /\ t \in [1..k -> D]
        /\ \A x \in D : \E i \in 1..k : t[i] = x
        /\ \A i, j \in 1..k : t[i] = t[j] => i = j
    BY <1>1, SetToSeqLists
  <1> HIDE DEF t, k, D
  <1>3. q.j = "array" /\ q.v = [i \in 1..k |-> Json(i)]
    BY <1>2 DEF NodeToJson, Obj, Js, Arr, t, D
  <1> HIDE DEF q, m
  <1>4. ASSUME NEW i \in 1..k
        PROVE  /\ q.v[i].j = "obj"
               /\ ServiceFromJson(q.v[i]) = <<t[i], m[t[i]]>>
               /\ AllRead(ServiceFromJson(q.v[i]))
    <2>1. q.v[i] = Json(i)
      BY <1>3
    <2>2. /\ q.v[i].j = "obj"
          /\ "type" \in DOMAIN q.v[i].v /\ "serviceName" \in DOMAIN q.v[i].v
          /\ q.v[i].v["type"] = Num(t[i]) /\ q.v[i].v["serviceName"] = Str(m[t[i]])
      BY <2>1 DEF Obj, Js
    <2>3. ServiceFromJson(q.v[i]) = <<t[i], m[t[i]]>>
      BY <2>2, IntRead, StringRead DEF ServiceFromJson, Required
    <2>4. t[i] \in Int /\ m[t[i]] \in STRING
      BY <1>1, <1>2
    <2>5. ~Fails(t[i]) /\ ~Fails(m[t[i]])
      BY <2>4, NoOutcome
    <2> QED
      BY <2>2, <2>3, <2>5 DEF AllRead
  <1> HIDE DEF Json
  <1>5. DOMAIN q.v = 1..k /\ DOMAIN ss = 1..k /\ Len(ss) = k
    BY <1>2, <1>3
  <1>6. ServicesFromJson(q) = [type \in {ss[i][1] : i \in DOMAIN ss} |-> ss[LastOf(type)][2]]
    <2>1. ~(q.j # "array" \/ \E i \in DOMAIN q.v : q.v[i].j # "obj" \/ ~AllRead(ServiceFromJson(q.v[i])))
      BY <1>3, <1>4, <1>5
    <2> QED
      BY <2>1 DEF ServicesFromJson, SelectLastInSeq
  <1>7. \A i \in 1..k : ss[i] = <<t[i], m[t[i]]>>
    BY <1>4, <1>5
  <1> HIDE DEF ss
  <1>8. {ss[i][1] : i \in DOMAIN ss} = D
    BY <1>2, <1>5, <1>7
  <1>9. ASSUME NEW x \in D
        PROVE  ss[LastOf(x)][2] = m[x]
    <2>1. PICK i \in 1..k : t[i] = x
      BY <1>2
    <2>2. {j \in 1..k : ss[j][1] = x} = {i}
      BY <1>2, <1>7, <2>1
    <2>3. LastOf(x) = i
      BY <1>5, <2>2, OnlyOne DEF SelectLastInSeq
    <2> QED
      BY <1>7, <2>1, <2>3
  <1>10. ServicesFromJson(q) = m
    <2> HIDE DEF LastOf
    <2> QED
    BY <1>1, <1>6, <1>8, <1>9
  <1> QED
    BY <1>10 DEF q, m

\* ChainNodeInfo: deserialize of what serialize wrote, whatever stands in the memory of
\* m_compatibilityVersion before.
LEMMA NodeRead ==
    ASSUME NEW n, ProperNode(n), NEW memory
    PROVE  NodeFromJson(NodeToJson(n), memory) = n
  <1> DEFINE q == NodeToJson(n)
             R == [name |-> Required(q, "name", AsString),
                   type |-> Required(q, "type", AsInt),
                   iniConfig |-> Required(q, "iniConfig", AsString),
                   wasm |-> Required(q, "iniConfig", LAMBDA c : IniFromJson(c, "isWasm")),
                   sm |-> Required(q, "iniConfig", LAMBDA c : IniFromJson(c, "smCryptoType")),
                   services |-> Required(q, "serviceInfo", ServicesFromJson),
                   nodeID |-> Optional(q, "nodeID", "", AsString),
                   microService |-> Optional(q, "microService", FALSE, AsBool),
                   min |-> Optional(q.v.protocol, "minSupportedVersion", 0, AsInt),
                   max |-> Optional(q.v.protocol, "maxSupportedVersion", 0, AsInt),
                   compatibility |-> Optional(q.v.protocol, "compatibilityVersion", memory, AsInt)]
  <1>1. /\ q.j = "obj"
        /\ DOMAIN q.v = {"name", "type", "iniConfig", "serviceInfo", "protocol"}
        /\ q.v.name = Str(n.name) /\ q.v.type = Num(n.type) /\ q.v.iniConfig = Str(n.iniConfig)
        /\ q.v.protocol = Obj([minSupportedVersion |-> Num(n.min), maxSupportedVersion |-> Num(n.max),
                               compatibilityVersion |-> Num(n.compatibility)])
    BY DEF NodeToJson, Obj, Js
  <1>2. ServicesFromJson(q.v.serviceInfo) = n.services
    BY ServicesRead
  <1>3. NodeFromJson(q, memory) = Whole(R)
    <2> HIDE DEF q
    <2> QED
      BY <1>1 DEF NodeFromJson
  <1> HIDE DEF q
  <1>4. n = [name |-> n.name, type |-> n.type, iniConfig |-> n.iniConfig, wasm |-> n.wasm,
             sm |-> n.sm, services |-> n.services, nodeID |-> "", microService |-> FALSE,
             min |-> n.min, max |-> n.max, compatibility |-> n.compatibility]
    BY DEF ProperNode
  <1>5. /\ Required(q, "name", AsString) = n.name
        /\ Required(q, "type", AsInt) = n.type
        /\ Required(q, "iniConfig", AsString) = n.iniConfig
    BY <1>1, StringRead, IntRead DEF Required
  <1>6. n.iniConfig = [isWasm |-> n.wasm, smCryptoType |-> n.sm]
    BY DEF ProperNode, IniConfig
  <1>7. /\ Required(q, "iniConfig", LAMBDA c : IniFromJson(c, "isWasm")) = n.wasm
        /\ Required(q, "iniConfig", LAMBDA c : IniFromJson(c, "smCryptoType")) = n.sm
    BY <1>1, <1>6 DEF Required, Optional, IniFromJson, Str, Js
  <1>8. Required(q, "serviceInfo", ServicesFromJson) = n.services
    BY <1>1, <1>2 DEF Required, Optional
  <1>9. /\ Optional(q.v.protocol, "minSupportedVersion", 0, AsInt) = n.min
        /\ Optional(q.v.protocol, "maxSupportedVersion", 0, AsInt) = n.max
        /\ Optional(q.v.protocol, "compatibilityVersion", memory, AsInt) = n.compatibility
    <2> DEFINE p == q.v.protocol
    <2>1. /\ p.j = "obj"
          /\ "minSupportedVersion" \in DOMAIN p.v /\ p.v["minSupportedVersion"] = Num(n.min)
          /\ "maxSupportedVersion" \in DOMAIN p.v /\ p.v["maxSupportedVersion"] = Num(n.max)
          /\ "compatibilityVersion" \in DOMAIN p.v /\ p.v["compatibilityVersion"] = Num(n.compatibility)
      BY <1>1 DEF Obj, Js
    <2> HIDE DEF p
    <2>2. /\ Optional(p, "minSupportedVersion", 0, AsInt) = n.min
          /\ Optional(p, "maxSupportedVersion", 0, AsInt) = n.max
          /\ Optional(p, "compatibilityVersion", memory, AsInt) = n.compatibility
      BY <2>1, IntRead
    <2> QED
      BY <2>2 DEF p
  <1>10. /\ Optional(q, "nodeID", "", AsString) = ""
         /\ Optional(q, "microService", FALSE, AsBool) = FALSE
    BY <1>1 DEF Optional
  <1>11. R = n
    BY <1>4, <1>5, <1>7, <1>8, <1>9, <1>10
  <1>12. AllRead(n)
    BY DEF ProperNode
  <1> HIDE DEF R
  <1>13. NodeFromJson(q, memory) = n
    BY <1>3, <1>11, <1>12 DEF Whole
  <1> QED
    BY <1>13 DEF q

\* GroupInfo: the nodes are read as they were written, none of them is taken for
\* another, and the flags of the first one are those of the group.
LEMMA NodesRead ==
    ASSUME NEW g, ProperGroup(g), NEW memory,
           NEW ns, ns = NodesFromJson(GroupToJson(g).v.nodeList.v, memory)
    PROVE  /\ GroupToJson(g).v.nodeList.j = "array"
           /\ AllRead(ns)
           /\ GroupFlags(ns) = <<g.wasm, g.sm>>
           /\ AsMap([i \in DOMAIN ns |-> <<ns[i].name, ns[i]>>]) = g.nodes
  <1> DEFINE q == GroupToJson(g).v.nodeList
             m == g.nodes
             D == DOMAIN m
             k == Cardinality(D)
             t == SetToSeq(D)
             pairs == [i \in DOMAIN ns |-> <<ns[i].name, ns[i]>>]
  <1>1. /\ m = [x \in D |-> m[x]] /\ IsFiniteSet(D)
        /\ \A x \in D : /\ ProperNode(m[x]) /\ m[x].name = x
                        /\ m[x].wasm = g.wasm /\ m[x].sm = g.sm
        /\ D = {} => g.wasm = FALSE /\ g.sm = FALSE
    BY DEF ProperGroup
  <1>2. /\ k \in Nat /\ t \in [1..k -> D]
        /\ \A x \in D : \E i \in 1..k : t[i] = x
        /\ \A i, j \in 1..k : t[i] = t[j] => i = j
    BY <1>1, SetToSeqLists
  <1> HIDE DEF t, k, D
  <1>3. q.j = "array" /\ q.v = [i \in 1..k |-> NodeToJson(m[t[i]])]
    BY <1>2 DEF GroupToJson, Obj, Js, Arr, t, D
  <1>4. ns = [i \in DOMAIN q.v |-> NodeFromJson(q.v[i], memory)]
    BY DEF NodesFromJson
  <1> HIDE DEF q, m
  <1>5. ns = [i \in 1..k |-> m[t[i]]]
    <2>1. ASSUME NEW i \in 1..k
          PROVE  NodeFromJson(q.v[i], memory) = m[t[i]]
      <3>1. t[i] \in D /\ q.v[i] = NodeToJson(m[t[i]])
        BY <1>2, <1>3
      <3> QED
        BY <1>1, <3>1, NodeRead
    <2>2. DOMAIN q.v = 1..k
      BY <1>3
    <2> QED
      BY <1>4, <2>1, <2>2
  <1>6. DOMAIN ns = 1..k /\ \A i \in 1..k : ns[i] = m[t[i]] /\ t[i] \in D
    BY <1>2, <1>5
  <1>7. AllRead(ns)
    <2>1. ASSUME NEW n, ProperNode(n) PROVE ~Fails(n)
      BY <2>1 DEF ProperNode
    <2> QED
      BY <1>1, <1>6, <2>1 DEF AllRead
  <1>8. GroupFlags(ns) = <<g.wasm, g.sm>>
    <2>1. CASE k = 0
      <3>1. ns = <<>>
        BY <1>5, <2>1
      <3>2. D = {}
        BY <1>2, <2>1
      <3> QED
        BY <1>1, <3>1, <3>2 DEF GroupFlags
    <2>2. CASE k # 0
      <3>1. 1 \in 1..k
        BY <1>2, <2>2
      <3>2. ns \in Seq({m[x] : x \in D}) /\ ns # <<>> /\ Head(ns) = m[t[1]]
        <4>1. \A i \in 1..k : m[t[i]] \in {m[x] : x \in D}
          BY <1>6
        <4>2. ns \in Seq({m[x] : x \in D})
          BY <1>2, <1>5, <4>1
        <4> QED
          BY <1>5, <1>6, <3>1, <4>2
      <3> QED
        BY <1>1, <1>6, <3>1, <3>2 DEF GroupFlags
    <2> QED
      BY <2>1, <2>2
  <1>9. DOMAIN pairs = 1..k /\ Len(pairs) = k /\ \A i \in 1..k : pairs[i] = <<t[i], m[t[i]]>>
    <2>1. DOMAIN pairs = 1..k /\ \A i \in 1..k : pairs[i] = <<ns[i].name, ns[i]>>
      BY <1>6
    <2>2. Len(pairs) = k
      BY <1>2, <2>1
    <2>3. \A i \in 1..k : ns[i].name = t[i] /\ ns[i] = m[t[i]]
      BY <1>1, <1>6
    <2> HIDE DEF pairs
    <2> QED
      BY <2>1, <2>2, <2>3
  <1> HIDE DEF pairs
  <1>10. {pairs[i][1] : i \in DOMAIN pairs} = D
    BY <1>2, <1>9
  <1>11. ASSUME NEW x \in D
         PROVE  pairs[SelectInSeq(pairs, LAMBDA p : p[1] = x)][2] = m[x]
    <2>1. PICK i \in 1..k : t[i] = x
      BY <1>2
    <2>2. {j \in 1..k : pairs[j][1] = x} = {i}
      BY <1>2, <1>9, <2>1
    <2>3. SelectInSeq(pairs, LAMBDA p : p[1] = x) = i
      <3>1. {j \in 1..Len(pairs) : pairs[j][1] = x} = {i}
        BY <1>9, <2>2
      <3>2. {i} # {} /\ Min({i}) = i
        BY OnlyOne
      <3> QED
        BY <3>1, <3>2, Zenon DEF SelectInSeq
    <2> QED
      BY <1>9, <2>1, <2>3
  <1>12. AsMap(pairs) = m
    BY <1>1, <1>10, <1>11 DEF AsMap, SelectInSeq
  <1> QED
    BY <1>3, <1>7, <1>8, <1>12 DEF q, m, pairs

\* GroupInfo: deserialize of what serialize wrote, damaged or not.
LEMMA GroupRead ==
    ASSUME NEW g, ProperGroup(g), NEW memory, NEW q, NEW name,
           Damaged(q, GroupToJson(g), name), NEW x, x = GroupFromJson(q, memory)
    PROVE  Reads(x, g, name)
  <1> DEFINE J == GroupToJson(g)
             ns == NodesFromJson(q.v.nodeList.v, memory)
             chainID == Required(q, "chainID", AsString)
             groupID == Required(q, "groupID", AsString)
             genesisConfig == Optional(q, "genesisConfig", "", AsString)
             iniConfig == Required(q, "iniConfig", AsString)
             nodes == AsMap([i \in DOMAIN ns |-> <<ns[i].name, ns[i]>>])
             R == [chainID |-> chainID, groupID |-> groupID, genesisConfig |-> genesisConfig,
                   iniConfig |-> iniConfig, wasm |-> GroupFlags(ns)[1], sm |-> GroupFlags(ns)[2],
                   nodes |-> nodes]
  <1>1. CASE name = "nodeList"
    <2>1. x = THROW
      BY <1>1 DEF GroupFromJson, Damaged
    <2> QED
      BY <1>1, <2>1 DEF Reads, Fails
  <1>2. CASE name # "nodeList"
    <2>1. /\ DOMAIN J.v = {"chainID", "groupID", "wasm", "smCryptoType", "genesisConfig",
                           "iniConfig", "nodeList"}
          /\ J.v.chainID = Str(g.chainID) /\ J.v.groupID = Str(g.groupID)
          /\ J.v.genesisConfig = Str(g.genesisConfig) /\ J.v.iniConfig = Str(g.iniConfig)
      BY DEF GroupToJson, Obj, Js
    <2>2. Damaged(q, J, name)
      OBVIOUS
    <2> HIDE DEF J
    <2>3. HasArray(q, "nodeList") /\ q.v.nodeList = J.v.nodeList
      <3>1. J.v.nodeList.j = "array"
        BY NodesRead DEF J
      <3> QED
        BY <1>2, <2>1, <2>2, <3>1 DEF Damaged, HasArray
    <2>4. /\ AllRead(ns) /\ GroupFlags(ns) = <<g.wasm, g.sm>>
          /\ nodes = g.nodes
      <3>1. ns = NodesFromJson(J.v.nodeList.v, memory)
        BY <2>3
      <3> HIDE DEF ns
      <3> QED
        BY <3>1, NodesRead DEF J
    <2>5. x = IF AllRead(R) THEN R ELSE THROW
      BY <2>3, <2>4 DEF GroupFromJson, Whole
    <2>6. name # "chainID" => chainID = g.chainID
      <3>1. name # "chainID" => "chainID" \in DOMAIN q.v /\ q.v["chainID"] = Str(g.chainID) /\ q.j = "obj"
        BY <2>1, <2>2 DEF Damaged
      <3> QED
        BY <3>1, StringRead DEF Required
    <2>7. name # "groupID" => groupID = g.groupID
      <3>1. name # "groupID" => "groupID" \in DOMAIN q.v /\ q.v["groupID"] = Str(g.groupID) /\ q.j = "obj"
        BY <2>1, <2>2 DEF Damaged
      <3> QED
        BY <3>1, StringRead DEF Required
    <2>8. name # "genesisConfig" => genesisConfig = g.genesisConfig
      <3>1. name # "genesisConfig" => /\ "genesisConfig" \in DOMAIN q.v
                                      /\ q.v["genesisConfig"] = Str(g.genesisConfig) /\ q.j = "obj"
        BY <2>1, <2>2 DEF Damaged
      <3> QED
        BY <3>1, StringRead
    <2>9. name # "iniConfig" => iniConfig = g.iniConfig
      <3>1. name # "iniConfig" => "iniConfig" \in DOMAIN q.v /\ q.v["iniConfig"] = Str(g.iniConfig) /\ q.j = "obj"
        BY <2>1, <2>2 DEF Damaged
      <3> QED
        BY <3>1, StringRead DEF Required
    <2> HIDE DEF chainID, groupID, genesisConfig, iniConfig, nodes, ns
    <2>10. ASSUME ~Fails(x), NEW f \in DOMAIN x, f # ReadInto(name)
           PROVE  x[f] = g[f]
      <3>1. x = R
        BY <2>5, <2>10 DEF Fails
      <3>2. f \in {"chainID", "groupID", "genesisConfig", "iniConfig", "wasm", "sm", "nodes"}
        BY <2>10, <3>1
      <3>3. name # f
        BY <2>10, <3>2 DEF ReadInto
      <3>4. CASE f \in {"chainID", "groupID"}
        BY <2>6, <2>7, <3>1, <3>3, <3>4
      <3>5. CASE f \in {"genesisConfig", "iniConfig"}
        BY <2>8, <2>9, <3>1, <3>3, <3>5
      <3>6. CASE f \in {"wasm", "sm"}
        BY <2>4, <3>1, <3>6
      <3>7. CASE f = "nodes"
        BY <2>4, <3>1, <3>7
      <3> QED
        BY <3>2, <3>4, <3>5, <3>6, <3>7
    <2>11. ASSUME name = "" PROVE x = g
      <3>1. g = [chainID |-> g.chainID, groupID |-> g.groupID, genesisConfig |-> g.genesisConfig,
                 iniConfig |-> g.iniConfig, wasm |-> g.wasm, sm |-> g.sm, nodes |-> g.nodes]
        BY DEF ProperGroup
      <3>2. R = g
        <4>1. chainID = g.chainID /\ groupID = g.groupID
          BY <2>6, <2>7, <2>11
        <4>2. genesisConfig = g.genesisConfig /\ iniConfig = g.iniConfig
          BY <2>8, <2>9, <2>11
        <4>3. GroupFlags(ns)[1] = g.wasm /\ GroupFlags(ns)[2] = g.sm /\ nodes = g.nodes
          BY <2>4
        <4> QED
          BY <3>1, <4>1, <4>2, <4>3
      <3>3. AllRead(g)
        BY DEF ProperGroup
      <3> HIDE DEF R
      <3> QED
        BY <2>5, <3>2, <3>3
    <2> QED
      BY <2>10, <2>11 DEF Reads
  <1> QED
    BY <1>1, <1>2

-----------------------------------------------------------------------------

\* HandshakeResponse: the block number of every group is read as the node wrote it.
LEMMA NumbersRead ==
    ASSUME NEW h, ProperHandshake(h)
    PROVE  /\ NodeHandshake(h).v.groupBlockNumber.j = "array"
           /\ NumbersFromJson(NodeHandshake(h).v.groupBlockNumber.v) = h.numbers
  <1> DEFINE q == NodeHandshake(h).v.groupBlockNumber
             m == h.numbers
             D == DOMAIN m
             k == Cardinality(D)
             t == SetToSeq(D)
             ps == q.v
             LastOf(g) == SelectLastInSeq(ps, LAMBDA p : g \in DOMAIN p.v)
  <1>1. m \in [D -> Int] /\ IsFiniteSet(D)
    BY DEF ProperHandshake
  <1>2. /\ k \in Nat /\ t \in [1..k -> D]
        /\ \A x \in D : \E i \in 1..k : t[i] = x
        /\ \A i, j \in 1..k : t[i] = t[j] => i = j
    BY <1>1, SetToSeqLists
  <1> HIDE DEF t, k, D
  <1>3. q.j = "array" /\ ps = [i \in 1..k |-> Obj([g \in {t[i]} |-> Num(m[g])])]
    BY <1>2 DEF NodeHandshake, Obj, Js, Arr, t, D
  <1> HIDE DEF ps, m
  <1>4. DOMAIN ps = 1..k /\ Len(ps) = k
    BY <1>2, <1>3
  <1>5. \A i \in 1..k : ps[i].v = [g \in {t[i]} |-> Num(m[g])]
    BY <1>3 DEF Obj, Js
  <1>6. \A i \in 1..k : DOMAIN ps[i].v = {t[i]} /\ ps[i].v[t[i]] = Num(m[t[i]])
    BY <1>5
  <1>7. UNION {DOMAIN ps[i].v : i \in DOMAIN ps} = D
    BY <1>2, <1>4, <1>6
  <1>8. ASSUME NEW x \in D
        PROVE  AsInt(ps[LastOf(x)].v[x]) = m[x]
    <2>1. PICK i \in 1..k : t[i] = x
      BY <1>2
    <2>2. {j \in 1..Len(ps) : x \in DOMAIN ps[j].v} = {i}
      BY <1>2, <1>4, <1>6, <2>1
    <2>3. {i} # {} /\ Max({i}) = i
      BY OnlyOne
    <2>4. LastOf(x) = i
      BY <2>2, <2>3, Zenon DEF SelectLastInSeq
    <2> HIDE DEF LastOf
    <2> QED
      BY <1>6, <2>1, <2>4, AsWritten
  <1>9. NumbersFromJson(ps) = [g \in UNION {DOMAIN ps[i].v : i \in DOMAIN ps} |-> AsInt(ps[LastOf(g)].v[g])]
    BY DEF NumbersFromJson, SelectLastInSeq
  <1>10. NumbersFromJson(ps) = m
    <2> HIDE DEF LastOf
    <2> QED
      BY <1>1, <1>7, <1>8, <1>9
  <1> QED
    BY <1>3, <1>10 DEF ps, m

\* HandshakeResponse: the groups are read as the node wrote them.
LEMMA GroupsRead ==
    ASSUME NEW h, ProperHandshake(h), NEW memory,
           NEW list, list = NodeHandshake(h).v.groupInfoList
    PROVE  /\ list.j = "array"
           /\ Whole([i \in DOMAIN list.v |-> GroupFromJson(list.v[i], memory)]) = h.groups
  <1> DEFINE gs == h.groups
             n == Len(gs)
             made == [i \in DOMAIN list.v |-> GroupFromJson(list.v[i], memory)]
  <1>1. n \in Nat /\ gs = [i \in 1..n |-> gs[i]] /\ \A i \in 1..n : ProperGroup(gs[i])
    BY DEF ProperHandshake
  <1>2. DOMAIN gs = 1..n
    <2> HIDE DEF gs, n
    <2> QED
      BY <1>1
  <1>3. list.j = "array" /\ list.v = [i \in 1..n |-> GroupToJson(gs[i])]
    <2> HIDE DEF n
    <2> QED
      BY <1>2 DEF NodeHandshake, HandshakeToJson, Obj, Js, Arr
  <1> HIDE DEF gs, n
  <1>4. ASSUME NEW i \in 1..n
        PROVE  GroupFromJson(list.v[i], memory) = gs[i]
    <2>1. Damaged(GroupToJson(gs[i]), GroupToJson(gs[i]), "")
      BY DEF Damaged, GroupToJson, Obj, Js, HasArray
    <2>2. list.v[i] = GroupToJson(gs[i])
      BY <1>3
    <2>3. Reads(GroupFromJson(list.v[i], memory), gs[i], "")
      BY <1>1, <2>1, <2>2, GroupRead
    <2> QED
      BY <2>3 DEF Reads
  <1>5. made = gs
    <2>1. DOMAIN list.v = 1..n
      BY <1>3
    <2>2. made = [i \in 1..n |-> gs[i]]
      BY <1>4, <2>1
    <2> QED
      BY <1>1, <2>2
  <1>6. AllRead(gs)
    BY <1>1, <1>2 DEF AllRead, ProperGroup
  <1> HIDE DEF made
  <1>7. Whole(made) = gs
    BY <1>5, <1>6 DEF Whole
  <1> QED
    BY <1>3, <1>7 DEF made, gs

\* HandshakeResponse: decode of what a node sends, damaged or not.
LEMMA HandshakeRead ==
    ASSUME NEW h, ProperHandshake(h), NEW memory, NEW q, NEW name,
           Damaged(q, NodeHandshake(h), name), NEW x, x = HandshakeFromJson(q, memory)
    PROVE  Reads(x, h, name)
  <1> DEFINE J == NodeHandshake(h)
             list == ArrayMember(q, "groupInfoList")
             version == Required(q, "protocolVersion", AsInt)
             groups == Whole([i \in DOMAIN list |-> GroupFromJson(list[i], memory)])
             numbers == Whole(NumbersFromJson(ArrayMember(q, "groupBlockNumber")))
             R == [version |-> version, groups |-> groups, numbers |-> numbers]
  <1>1. /\ DOMAIN J.v = {"protocolVersion", "groupInfoList", "groupBlockNumber"}
        /\ J.v.protocolVersion = Num(h.version)
    BY DEF NodeHandshake, HandshakeToJson, Obj, Js
  <1>2. Damaged(q, J, name)
    OBVIOUS
  <1>3. x = IF AllRead(R) THEN R ELSE THROW
    BY DEF HandshakeFromJson, Whole
  <1> HIDE DEF J
  <1>4. name # "protocolVersion" => version = h.version
    <2>1. name # "protocolVersion" => /\ "protocolVersion" \in DOMAIN q.v
                                      /\ q.v["protocolVersion"] = Num(h.version) /\ q.j = "obj"
      BY <1>1, <1>2 DEF Damaged
    <2> QED
      BY <2>1, IntRead DEF Required
  <1>5. name # "groupInfoList" => groups = h.groups
    <2> SUFFICES ASSUME name # "groupInfoList" PROVE groups = h.groups
      OBVIOUS
    <2>1. J.v.groupInfoList.j = "array"
      BY GroupsRead DEF J
    <2>2. list = J.v.groupInfoList.v
      BY <1>1, <1>2, <2>1 DEF Damaged, ArrayMember, HasArray
    <2>3. groups = Whole([i \in DOMAIN J.v.groupInfoList.v |->
                            GroupFromJson(J.v.groupInfoList.v[i], memory)])
      <3> HIDE DEF list
      <3> QED
        BY <2>2
    <2> QED
      BY <2>3, GroupsRead DEF J
  <1>6. name # "groupBlockNumber" => numbers = h.numbers
    <2> SUFFICES ASSUME name # "groupBlockNumber" PROVE numbers = h.numbers
      OBVIOUS
    <2>1. J.v.groupBlockNumber.j = "array" /\ NumbersFromJson(J.v.groupBlockNumber.v) = h.numbers
      BY NumbersRead DEF J
    <2>2. ArrayMember(q, "groupBlockNumber") = J.v.groupBlockNumber.v
      BY <1>1, <1>2, <2>1 DEF Damaged, ArrayMember, HasArray
    <2>3. AllRead(h.numbers)
      BY NoOutcome DEF ProperHandshake, AllRead
    <2> QED
      BY <2>1, <2>2, <2>3 DEF Whole
  <1> HIDE DEF version, groups, numbers
  <1>7. ASSUME ~Fails(x), NEW f \in DOMAIN x, f # ReadInto(name)
        PROVE  x[f] = h[f]
    <2>1. x = R
      BY <1>3, <1>7 DEF Fails
    <2>2. CASE f = "version"
      BY <1>4, <1>7, <2>1, <2>2 DEF ReadInto
    <2>3. CASE f = "groups"
      BY <1>5, <1>7, <2>1, <2>3 DEF ReadInto
    <2>4. CASE f = "numbers"
      BY <1>6, <1>7, <2>1, <2>4 DEF ReadInto
    <2> QED
      BY <2>1, <2>2, <2>3, <2>4
  <1>8. ASSUME name = "" PROVE x = h
    <2>1. h = [version |-> h.version, groups |-> h.groups, numbers |-> h.numbers]
      BY DEF ProperHandshake
    <2>2. R = h
      BY <1>4, <1>5, <1>6, <1>8, <2>1
    <2>3. AllRead(h)
      BY DEF ProperHandshake
    <2> HIDE DEF R
    <2> QED
      BY <1>3, <2>2, <2>3
  <1> QED
    BY <1>7, <1>8 DEF Reads

\* HandshakeResponse: decode of what encode wrote, damaged or not.
LEMMA OwnHandshakeRead ==
    ASSUME NEW h, ProperHandshake(h), NEW memory, NEW q, NEW name,
           Damaged(q, HandshakeToJson(h), name), NEW x, x = HandshakeFromJson(q, memory)
    PROVE  Reads(x, [h EXCEPT !.numbers = <<>>], name)
  <1> DEFINE J == HandshakeToJson(h)
             v == [h EXCEPT !.numbers = <<>>]
             list == ArrayMember(q, "groupInfoList")
             version == Required(q, "protocolVersion", AsInt)
             groups == Whole([i \in DOMAIN list |-> GroupFromJson(list[i], memory)])
             numbers == Whole(NumbersFromJson(ArrayMember(q, "groupBlockNumber")))
             R == [version |-> version, groups |-> groups, numbers |-> numbers]
  <1>1. /\ DOMAIN J.v = {"protocolVersion", "groupInfoList"}
        /\ J.v.protocolVersion = Num(h.version)
        /\ J.v.groupInfoList = NodeHandshake(h).v.groupInfoList
    BY DEF NodeHandshake, HandshakeToJson, Obj, Js
  <1>2. Damaged(q, J, name)
    OBVIOUS
  <1>3. x = IF AllRead(R) THEN R ELSE THROW
    BY DEF HandshakeFromJson, Whole
  <1>4. v = [version |-> h.version, groups |-> h.groups, numbers |-> <<>>]
    BY DEF ProperHandshake
  <1> HIDE DEF J, v
  <1>5. name # "protocolVersion" => version = h.version
    <2>1. name # "protocolVersion" => /\ "protocolVersion" \in DOMAIN q.v
                                      /\ q.v["protocolVersion"] = Num(h.version) /\ q.j = "obj"
      BY <1>1, <1>2 DEF Damaged
    <2> QED
      BY <2>1, IntRead DEF Required
  <1>6. name # "groupInfoList" => groups = h.groups
    <2> SUFFICES ASSUME name # "groupInfoList" PROVE groups = h.groups
      OBVIOUS
    <2>1. J.v.groupInfoList.j = "array"
      BY <1>1, GroupsRead
    <2>2. list = J.v.groupInfoList.v
      BY <1>1, <1>2, <2>1 DEF Damaged, ArrayMember, HasArray
    <2>3. groups = Whole([i \in DOMAIN J.v.groupInfoList.v |->
                            GroupFromJson(J.v.groupInfoList.v[i], memory)])
      <3> HIDE DEF list
      <3> QED
        BY <2>2
    <2> QED
      BY <1>1, <2>3, GroupsRead
  <1>7. numbers = <<>>
    <2>1. ArrayMember(q, "groupBlockNumber") = <<>>
      BY <1>1, <1>2 DEF Damaged, ArrayMember, HasArray
    <2>2. NumbersFromJson(<<>>) = <<>>
      BY DEF NumbersFromJson
    <2>3. AllRead(<<>>)
      BY DEF AllRead
    <2> QED
      BY <2>1, <2>2, <2>3 DEF Whole
  <1> HIDE DEF version, groups, numbers
  <1>8. ASSUME ~Fails(x), NEW f \in DOMAIN x, f # ReadInto(name)
        PROVE  x[f] = v[f]
    <2>1. x = R
      BY <1>3, <1>8 DEF Fails
    <2>2. CASE f = "version"
      BY <1>4, <1>5, <1>8, <2>1, <2>2 DEF ReadInto
    <2>3. CASE f = "groups"
      BY <1>4, <1>6, <1>8, <2>1, <2>3 DEF ReadInto
    <2>4. CASE f = "numbers"
      BY <1>4, <1>7, <1>8, <2>1, <2>4 DEF ReadInto
    <2> QED
      BY <2>1, <2>2, <2>3, <2>4
  <1>9. ASSUME name = "" PROVE x = v
    <2>1. R = v
      BY <1>4, <1>5, <1>6, <1>7, <1>9
    <2>2. \A f \in DOMAIN v : ~Fails(v[f])
      <3>1. ~Fails(h.version) /\ ~Fails(h.groups)
        BY DEF ProperHandshake, AllRead
      <3>2. ~Fails(<<>>)
        BY OutcomesAssumption DEF Fails
      <3> QED
        BY <1>4, <3>1, <3>2
    <2>3. AllRead(R)
      BY <2>1, <2>2 DEF AllRead
    <2> HIDE DEF R
    <2> QED
      BY <1>3, <2>1, <2>3
  <1> QED
    BY <1>8, <1>9 DEF Reads, v, J

-----------------------------------------------------------------------------

\* A number is its quotient times the divisor, and the remainder.
LEMMA Divided ==
    ASSUME NEW v \in Nat, NEW d \in Nat \ {0}
    PROVE  /\ v \div d \in Nat /\ (v % d) \in Nat /\ (v % d) < d
           /\ v = (v \div d) * d + (v % d)
  OBVIOUS

\* The quotient is the only number with that property.
LEMMA Quotient ==
    ASSUME NEW d \in Nat \ {0}, NEW q \in Nat, NEW r \in Nat, r < d
    PROVE  (q * d + r) \div d = q
  <1> DEFINE v == q * d + r
             p == v \div d
             s == v % d
  <1>1. v \in Nat
    OBVIOUS
  <1> HIDE DEF v
  <1>2. p \in Nat /\ s \in Nat /\ s < d /\ v = p * d + s
    BY <1>1, Divided
  <1> HIDE DEF p, s
  <1>3. p * d + s = q * d + r
    BY <1>2 DEF v
  <1>4. ASSUME p < q PROVE FALSE
    <2>1. (p + 1) * d <= q * d
      BY <1>2, <1>4
    <2>2. (p + 1) * d = p * d + d
      BY <1>2
    <2> QED
      BY <1>2, <1>3, <2>1, <2>2
  <1>5. ASSUME q < p PROVE FALSE
    <2>1. (q + 1) * d <= p * d
      BY <1>2, <1>5
    <2>2. (q + 1) * d = q * d + d
      OBVIOUS
    <2> QED
      BY <1>2, <1>3, <2>1, <2>2
  <1> QED
    BY <1>2, <1>4, <1>5 DEF p, v

\* To shift by several bytes at once or by one after the other is the same.
LEMMA DividedTwice ==
    ASSUME NEW v \in Nat, NEW c \in Nat \ {0}, NEW d \in Nat \ {0}
    PROVE  v \div (c * d) = (v \div c) \div d
  <1> DEFINE a == v \div c
             r == v % c
             b == a \div d
             s == a % d
  <1>1. a \in Nat /\ r \in Nat /\ r < c /\ v = a * c + r
    BY Divided
  <1> HIDE DEF a, r
  <1>2. b \in Nat /\ s \in Nat /\ s < d /\ a = b * d + s
    BY <1>1, Divided
  <1> HIDE DEF b, s
  <1>3. v = b * (c * d) + (s * c + r)
    <2>1. a * c = (b * d) * c + s * c
      BY <1>1, <1>2
    <2>2. (b * d) * c = b * (c * d)
      BY <1>2
    <2> QED
      BY <1>1, <1>2, <2>1, <2>2
  <1>4. s * c + r \in Nat /\ s * c + r < c * d
    <2>1. s <= d - 1
      BY <1>2
    <2>2. s * c <= (d - 1) * c
      BY <1>2, <2>1
    <2>3. (d - 1) * c = c * d - c
      OBVIOUS
    <2> QED
      BY <1>1, <1>2, <2>2, <2>3
  <1>5. c * d \in Nat \ {0}
    OBVIOUS
  <1>6. v \div (c * d) = b
    <2> DEFINE e == c * d
               z == s * c + r
    <2>1. e \in Nat \ {0} /\ z \in Nat /\ z < e /\ v = b * e + z
      BY <1>3, <1>4, <1>5
    <2> HIDE DEF e, z
    <2>2. v \div e = b
      BY <1>2, <2>1, Quotient
    <2> QED
      BY <2>2 DEF e
  <1> QED
    BY <1>6 DEF a, b

\* A function from 1..n is a sequence of n items.
LEMMA IsSeq ==
    ASSUME NEW n \in Nat, NEW f \in [1..n -> Nat]
    PROVE  f \in Seq(Nat) /\ Len(f) = n
  OBVIOUS

\* A number of two bytes in network order is read as it was written.
LEMMA ShortRead ==
    ASSUME NEW v \in Nat, v < Bytes(2)
    PROVE  /\ BigEndian(v, 2) \in Seq(Nat) /\ Len(BigEndian(v, 2)) = 2
           /\ BigEndian(v, 2)[1] * Bytes(1) + BigEndian(v, 2)[2] = v
  <1> DEFINE B == Bytes(1)
             q == v \div B
             l == LittleEndian(v, 2)
             e == BigEndian(v, 2)
  <1>1. B \in Nat \ {0} /\ Bytes(0) = 1 /\ Bytes(2) = B * B
    BY PowersAssumption
  <1> HIDE DEF B
  <1>2. q \in Nat /\ (v % B) \in Nat /\ v = q * B + (v % B)
    BY <1>1, Divided
  <1>3. v % Bytes(2) = v
    BY <1>1
  <1>4. l = [i \in 1..2 |-> ((v % Bytes(2)) \div Bytes(i - 1)) % Bytes(1)]
    BY DEF LittleEndian
  <1>5. DOMAIN l = 1..2 /\ Len(l) = 2 /\ l[1] = v % B /\ l[2] = q % B
    <2>1. DOMAIN l = 1..2 /\ Len(l) = 2
      BY <1>4
    <2>2. l[1] = ((v % Bytes(2)) \div Bytes(0)) % Bytes(1)
      BY <1>4
    <2>3. l[2] = ((v % Bytes(2)) \div Bytes(1)) % Bytes(1)
      BY <1>4
    <2>4. v \div 1 = v
      OBVIOUS
    <2> QED
      BY <1>1, <1>3, <2>1, <2>2, <2>3, <2>4 DEF B
  <1> HIDE DEF l
  <1>6. e = [i \in 1..2 |-> l[(2 - i) + 1]]
    BY <1>5 DEF BigEndian, Reverse, l
  <1> HIDE DEF e
  <1>7. e[1] = q % B /\ e[2] = v % B /\ e \in [1..2 -> Nat]
    <2>1. e[1] = q % B
      BY <1>5, <1>6
    <2>2. e[2] = v % B
      BY <1>5, <1>6
    <2>3. (q % B) \in Nat
      BY <1>1, <1>2, Divided
    <2> QED
      BY <1>2, <1>6, <2>1, <2>2, <2>3
  <1>8. q < B
    <2>1. ASSUME q >= B PROVE FALSE
      <3>1. q * B >= B * B
        BY <1>1, <1>2, <2>1
      <3> QED
        BY <1>1, <1>2, <3>1
    <2> QED
      BY <1>1, <1>2, <2>1
  <1>9. q % B = q
    BY <1>1, <1>2, <1>8
  <1>10. e \in Seq(Nat) /\ Len(e) = 2 /\ e[1] * B + e[2] = v
    <2>1. e \in Seq(Nat) /\ Len(e) = 2
      BY <1>7, IsSeq
    <2>2. e[1] = q /\ e[2] = v % B
      BY <1>7, <1>9
    <2> HIDE DEF q
    <2> QED
      BY <1>2, <2>1, <2>2, Zenon
  <1> QED
    BY <1>10 DEF e, B

\* A number of four bytes in network order is read as it was written.
LEMMA LongRead ==
    ASSUME NEW v \in Nat, v < Bytes(4)
    PROVE  /\ BigEndian(v, 4) \in Seq(Nat) /\ Len(BigEndian(v, 4)) = 4
           /\ ((BigEndian(v, 4)[1] * Bytes(1) + BigEndian(v, 4)[2]) * Bytes(1)
                + BigEndian(v, 4)[3]) * Bytes(1) + BigEndian(v, 4)[4] = v
  <1> DEFINE B == Bytes(1)
             q1 == v \div B
             q2 == q1 \div B
             q3 == q2 \div B
             l == LittleEndian(v, 4)
             e == BigEndian(v, 4)
  <1>1. /\ B \in Nat \ {0} /\ Bytes(0) = 1 /\ Bytes(2) = B * B
        /\ Bytes(3) = (B * B) * B /\ Bytes(4) = ((B * B) * B) * B
    BY PowersAssumption
  <1>2. v % Bytes(4) = v
    <2>1. Bytes(4) \in Nat \ {0}
      BY <1>1
    <2> QED
      BY <2>1
  <1>3. l = [i \in 1..4 |-> ((v % Bytes(4)) \div Bytes(i - 1)) % Bytes(1)]
    BY DEF LittleEndian
  <1> HIDE DEF l
  <1>4. /\ DOMAIN l = 1..4 /\ Len(l) = 4
        /\ l[1] = (v \div Bytes(0)) % B /\ l[2] = (v \div Bytes(1)) % B
        /\ l[3] = (v \div Bytes(2)) % B /\ l[4] = (v \div Bytes(3)) % B
    <2>1. DOMAIN l = 1..4 /\ Len(l) = 4
      BY <1>3
    <2>2. l[1] = ((v % Bytes(4)) \div Bytes(0)) % B
      BY <1>3
    <2>3. l[2] = ((v % Bytes(4)) \div Bytes(1)) % B
      BY <1>3
    <2>4. l[3] = ((v % Bytes(4)) \div Bytes(2)) % B
      BY <1>3
    <2>5. l[4] = ((v % Bytes(4)) \div Bytes(3)) % B
      BY <1>3
    <2> QED
      BY <1>2, <2>1, <2>2, <2>3, <2>4, <2>5, Zenon
  <1> HIDE DEF B
  <1>5. q1 \in Nat /\ (v % B) \in Nat /\ v = q1 * B + (v % B)
    BY <1>1, Divided
  <1>6. v \div Bytes(1) = q1 /\ v \div Bytes(2) = q2
    BY <1>1, DividedTwice DEF B
  <1> HIDE DEF q1
  <1>7. q2 \in Nat /\ (q1 % B) \in Nat /\ q1 = q2 * B + (q1 % B)
    BY <1>1, <1>5, Divided
  <1>8. v \div Bytes(3) = q3
    <2> DEFINE C == B * B
    <2>1. C \in Nat \ {0}
      BY <1>1
    <2>2. Bytes(3) = C * B /\ Bytes(2) = C
      BY <1>1
    <2> HIDE DEF C
    <2>3. v \div (C * B) = (v \div C) \div B
      BY <1>1, <2>1, DividedTwice
    <2> QED
      BY <1>6, <2>2, <2>3
  <1> HIDE DEF q2
  <1>9. q3 \in Nat /\ (q2 % B) \in Nat /\ q2 = q3 * B + (q2 % B)
    BY <1>1, <1>7, Divided
  <1> HIDE DEF q3
  <1>10. q3 < B
    <2> SUFFICES ASSUME q3 >= B PROVE FALSE
      BY <1>1, <1>9
    <2>1. q3 * B >= B * B /\ B * B \in Nat
      BY <1>1, <1>9
    <2>2. q2 >= B * B
      <3> DEFINE P == B * B
                 Q == q3 * B
                 z == q2 % B
      <3>1. P \in Nat /\ Q \in Nat /\ z \in Nat /\ Q >= P /\ q2 = Q + z
        BY <1>1, <1>9, <2>1
      <3> HIDE DEF P, Q, z
      <3>2. q2 >= P
        BY <3>1
      <3> QED
        BY <3>2 DEF P
    <2>3. q2 * B >= (B * B) * B
      BY <1>1, <1>7, <2>1, <2>2
    <2>4. q1 >= (B * B) * B /\ (B * B) * B \in Nat
      BY <1>1, <1>7, <2>3
    <2>5. q1 * B >= ((B * B) * B) * B
      BY <1>1, <1>5, <2>4
    <2> QED
      BY <1>1, <1>5, <2>5
  <1>11. q3 % B = q3
    BY <1>1, <1>9, <1>10
  <1>12. l[1] = v % B /\ l[2] = q1 % B /\ l[3] = q2 % B /\ l[4] = q3
    <2>1. v \div Bytes(0) = v
      BY <1>1
    <2> QED
      BY <1>4, <1>6, <1>8, <1>11, <2>1, Zenon
  <1>13. e = [i \in 1..4 |-> l[(4 - i) + 1]]
    BY <1>4 DEF BigEndian, Reverse, l
  <1> HIDE DEF e
  <1>14. e[1] = q3 /\ e[2] = q2 % B /\ e[3] = q1 % B /\ e[4] = v % B
    BY <1>12, <1>13
  <1>15. e \in Seq(Nat) /\ Len(e) = 4
    <2>1. \A i \in 1..4 : e[i] \in Nat
      BY <1>5, <1>7, <1>9, <1>14
    <2>2. e \in [1..4 -> Nat]
      BY <1>13, <2>1
    <2> QED
      BY <2>2, IsSeq
  <1>16. ((e[1] * B + e[2]) * B + e[3]) * B + e[4] = v
    BY <1>5, <1>7, <1>9, <1>14, Zenon
  <1> QED
    BY <1>15, <1>16 DEF e, B

\* The bytes c are the k bytes of s and those of t.
Both(c, s, k, t) ==
    /\ c \in Seq(Nat) /\ Len(c) = k + Len(t)
    /\ \A i \in 1..k : c[i] = s[i]
    /\ \A i \in 1..Len(t) : c[k + i] = t[i]

\* What stands where after append.
LEMMA Appended ==
    ASSUME NEW s \in Seq(Nat), NEW t \in Seq(Nat), NEW k \in Nat, Len(s) = k
    PROVE  Both(s \o t, s, k, t)
  <1> DEFINE c == s \o t
             m == Len(t)
  <1>1. m \in Nat
    OBVIOUS
  <1>2. /\ c \in Seq(Nat) /\ Len(c) = k + m
        /\ \A i \in 1..(k + m) : c[i] = IF i <= k THEN s[i] ELSE t[i - k]
    BY ConcatProperties
  <1> HIDE DEF c, m
  <1>3. \A i \in 1..k : i \in 1..(k + m) /\ i <= k
    BY <1>1
  <1>4. \A i \in 1..m : k + i \in 1..(k + m) /\ ~(k + i <= k) /\ (k + i) - k = i
    BY <1>1
  <1>5. \A i \in 1..m : c[k + i] = t[i]
    BY <1>2, <1>4
  <1>6. \A i \in 1..k : c[i] = s[i]
    BY <1>2, <1>3
  <1> QED
    BY <1>2, <1>5, <1>6 DEF c, m, Both

\* The bytes full are the request r: its version, the length of its topic, the
\* topic and the data.
Layout(full, r) ==
    /\ full \in Seq(Nat) /\ Len(full) = 6 + Len(r.topic) + Len(r.data)
    /\ NetworkLong(full, 1) = r.version
    /\ NetworkShort(full, 5) = Len(r.topic)
    /\ \A i \in 1..Len(r.topic) : full[6 + i] = r.topic[i]
    /\ \A i \in 1..Len(r.data) : full[6 + Len(r.topic) + i] = r.data[i]

\* AMOPRequest::encode writes the parts where decode looks for them.
LEMMA AmopLayout ==
    ASSUME NEW r, ProperRequest(r), Len(r.topic) <= TopicMaxLength
    PROVE  Layout(AmopEncode(r), r)
  <1> DEFINE full == AmopEncode(r)
             h4 == BigEndian(r.version, 4)
             h2 == BigEndian(Len(r.topic), 2)
             t == r.topic
             d == r.data
             L == Len(t)
             K == Len(d)
  <1>1. /\ r.version \in Nat /\ r.version < Bytes(4)
        /\ t \in Seq(Nat) /\ d \in Seq(Nat)
    BY PowersAssumption DEF ProperRequest
  <1>2. ~(L > TopicMaxLength)
    BY <1>1, TopicAssumption
  <1>3. L \in Nat /\ K \in Nat /\ L < Bytes(2)
    <2>1. Bytes(2) \in Int
      BY PowersAssumption
    <2> QED
      BY <1>1, <1>2, <2>1, TopicAssumption
  <1>4. /\ h4 \in Seq(Nat) /\ Len(h4) = 4
        /\ ((h4[1] * Bytes(1) + h4[2]) * Bytes(1) + h4[3]) * Bytes(1) + h4[4] = r.version
    BY <1>1, LongRead
  <1>5. h2 \in Seq(Nat) /\ Len(h2) = 2 /\ h2[1] * Bytes(1) + h2[2] = L
    BY <1>3, ShortRead
  <1>6. full = ((h4 \o h2) \o t) \o d
    BY <1>2, Zenon DEF AmopEncode
  <1> HIDE DEF full, h4, h2, t, d, L, K
  <1>7. /\ full \in Seq(Nat) /\ Len(full) = 6 + L + K
        /\ full[1] = h4[1] /\ full[2] = h4[2] /\ full[3] = h4[3] /\ full[4] = h4[4]
        /\ full[5] = h2[1] /\ full[6] = h2[2]
        /\ \A i \in 1..L : full[6 + i] = t[i]
        /\ \A i \in 1..K : full[6 + L + i] = d[i]
    <2> DEFINE a == h4 \o h2
               b == a \o t
    <2>1. Both(a, h4, 4, h2)
      BY <1>4, <1>5, Appended
    <2>2. a \in Seq(Nat) /\ Len(a) = 6
      BY <1>5, <2>1 DEF Both
    <2>3. a[1] = h4[1] /\ a[2] = h4[2] /\ a[3] = h4[3] /\ a[4] = h4[4] /\ a[5] = h2[1] /\ a[6] = h2[2]
      <3>1. (\A i \in 1..4 : a[i] = h4[i]) /\ \A i \in 1..2 : a[4 + i] = h2[i]
        BY <1>5, <2>1 DEF Both
      <3> HIDE DEF a
      <3>2. a[4 + 1] = h2[1] /\ a[4 + 2] = h2[2]
        BY <3>1
      <3> QED
        BY <3>1, <3>2
    <2> HIDE DEF a
    <2>4. /\ b \in Seq(Nat) /\ Len(b) = 6 + L
          /\ \A i \in 1..6 : b[i] = a[i]
          /\ \A i \in 1..L : b[6 + i] = t[i]
      <3>1. Both(b, a, 6, t)
        BY <1>1, <2>2, Appended
      <3> QED
        BY <3>1 DEF Both, L
    <2> HIDE DEF b
    <2>5. full = b \o d
      BY <1>6 DEF a, b
    <2>6. /\ full \in Seq(Nat) /\ Len(full) = 6 + L + K
          /\ \A i \in 1..(6 + L) : full[i] = b[i]
          /\ \A i \in 1..K : full[6 + L + i] = d[i]
      <3>1. 6 + L \in Nat
        BY <1>3
      <3>2. Both(full, b, 6 + L, d)
        BY <1>1, <2>4, <2>5, <3>1, Appended
      <3> QED
        BY <3>2 DEF Both, K
    <2>7. \A i \in 1..6 : full[i] = a[i]
      <3>1. \A i \in 1..6 : i \in 1..(6 + L)
        BY <1>3
      <3> QED
        BY <2>4, <2>6, <3>1
    <2>8. \A i \in 1..L : full[6 + i] = t[i]
      <3>1. \A i \in 1..L : 6 + i \in 1..(6 + L)
        BY <1>3
      <3> QED
        BY <2>4, <2>6, <3>1
    <2> QED
      BY <2>3, <2>6, <2>7, <2>8
  <1>8. NetworkLong(full, 1) = r.version
    BY <1>4, <1>7 DEF NetworkLong
  <1>9. NetworkShort(full, 5) = L
    BY <1>5, <1>7 DEF NetworkShort
  <1> QED
    BY <1>7, <1>8, <1>9 DEF Layout, full, t, d, L, K

\* AMOPRequest::decode of the first n bytes of what encode wrote: it throws, or gives the
\* version and the topic that were written and the beginning of the data, and the whole
\* request for all the bytes.
LEMMA AmopRead ==
    ASSUME NEW r, ProperRequest(r), Len(r.topic) <= TopicMaxLength,
           NEW full, full = AmopEncode(r), NEW n \in 0..Len(full),
           NEW x, x = AmopDecode(SubSeq(full, 1, n))
    PROVE  /\ Fails(x) \/ (x.version = r.version /\ x.topic = r.topic /\ IsPrefix(x.data, r.data))
           /\ n = Len(full) => x = r
  <1> DEFINE t == r.topic
             d == r.data
             L == Len(t)
             K == Len(d)
             buf == SubSeq(full, 1, n)
  <1>1. /\ r = [version |-> r.version, topic |-> t, data |-> d]
        /\ t \in Seq(Nat) /\ d \in Seq(Nat)
    BY DEF ProperRequest
  <1>2. L \in Nat /\ K \in Nat
    BY <1>1
  <1>3. Layout(full, r)
    BY AmopLayout
  <1>4. /\ full \in Seq(Nat) /\ Len(full) = 6 + L + K
        /\ NetworkLong(full, 1) = r.version /\ NetworkShort(full, 5) = L
        /\ \A i \in 1..L : full[6 + i] = t[i]
        /\ \A i \in 1..K : full[6 + L + i] = d[i]
    BY <1>3 DEF Layout
  <1> HIDE DEF t, d, L, K
  <1>5. n \in Nat /\ n <= 6 + L + K
    BY <1>2, <1>4
  <1>6. buf \in Seq(Nat) /\ Len(buf) = n /\ \A i \in 1..n : buf[i] = full[i]
    BY <1>4, <1>5
  <1> HIDE DEF buf
  <1>7. CASE n < 6
    <2>1. x = THROW
      BY <1>6, <1>7 DEF AmopDecode, buf
    <2>2. n # Len(full)
      BY <1>2, <1>4, <1>7
    <2> QED
      BY <2>1, <2>2 DEF Fails
  <1>8. CASE n >= 6
    <2>1. /\ buf[1] = full[1] /\ buf[2] = full[2] /\ buf[3] = full[3] /\ buf[4] = full[4]
          /\ buf[5] = full[5] /\ buf[6] = full[6]
      <3>1. 1..6 \subseteq 1..n
        BY <1>5, <1>8
      <3>2. \A i \in 1..6 : buf[i] = full[i]
        BY <1>6, <3>1, Zenon
      <3> QED
        BY <3>2
    <2>2. NetworkShort(buf, 5) = L
      BY <1>4, <2>1 DEF NetworkShort
    <2>3. NetworkLong(buf, 1) = r.version
      BY <1>4, <2>1 DEF NetworkLong
    <2>4. x = IF 6 + L > n THEN THROW
              ELSE [version |-> r.version, topic |-> SubSeq(buf, 7, 6 + L),
                    data |-> SubSeq(buf, 7 + L, n)]
      <3>1. x = AmopDecode(buf)
        BY DEF buf
      <3>2. ~(n < 6)
        BY <1>5, <1>8
      <3> QED
        BY <1>6, <2>2, <2>3, <3>1, <3>2 DEF AmopDecode
    <2>5. CASE 6 + L > n
      <3>1. x = THROW /\ n # Len(full)
        BY <1>2, <1>4, <2>4, <2>5
      <3> QED
        BY <3>1 DEF Fails
    <2>6. CASE 6 + L <= n
      <3> DEFINE u == SubSeq(buf, 7, 6 + L)
                 w == SubSeq(buf, 7 + L, n)
                 k == n - (6 + L)
      <3>1. k \in Nat /\ k <= K /\ n = 6 + L + k
        BY <1>2, <1>5, <2>6
      <3>2. u = t
        <4>1. u \in Seq(Nat) /\ Len(u) = L /\ \A i \in 1..L : u[i] = buf[6 + i]
          BY <1>2, <1>5, <1>6, <2>6
        <4>2. \A i \in 1..L : buf[6 + i] = t[i]
          <5>1. \A i \in 1..L : 6 + i \in 1..n
            BY <1>2, <1>5, <2>6
          <5> QED
            BY <1>4, <1>6, <5>1
        <4>3. t \in Seq(Nat) /\ Len(t) = L
          BY <1>1 DEF L
        <4> HIDE DEF u
        <4>4. \A i \in 1..Len(u) : u[i] = t[i]
          BY <4>1, <4>2
        <4> QED
          BY <4>1, <4>3, <4>4, SeqEqual
      <3>3. w \in Seq(Nat) /\ Len(w) = k /\ \A i \in 1..k : w[i] = buf[6 + L + i]
        <4> DEFINE m == 7 + L
        <4>1. m \in Int /\ n \in Int /\ (n - m) + 1 = k /\ (m <= n \/ (k = 0 /\ n < m))
          BY <1>2, <1>5, <3>1
        <4>2. \A i \in m..n : buf[i] \in Nat
          BY <1>2, <1>5, <1>6
        <4>3. \A i \in 1..k : (m + i) - 1 = 6 + L + i
          BY <1>2, <3>1
        <4> HIDE DEF m, k
        <4>4. /\ SubSeq(buf, m, n) \in Seq(Nat)
              /\ Len(SubSeq(buf, m, n)) = IF m <= n THEN (n - m) + 1 ELSE 0
              /\ \A i \in 1..((n - m) + 1) : SubSeq(buf, m, n)[i] = buf[(m + i) - 1]
          BY <4>1, <4>2, SubSeqProperties
        <4>5. w = SubSeq(buf, m, n)
          BY DEF m
        <4> HIDE DEF w
        <4> QED
          BY <4>1, <4>3, <4>4, <4>5
      <3>4. \A i \in 1..k : buf[6 + L + i] = d[i]
        <4>1. \A i \in 1..k : i \in 1..K /\ 6 + L + i \in 1..n
          BY <1>2, <1>5, <3>1
        <4> HIDE DEF k
        <4> QED
          BY <1>4, <1>6, <4>1
      <3>5. d \in Seq(Nat) /\ Len(d) = K
        BY <1>1 DEF K
      <3> HIDE DEF k, w, u
      <3>6. IsPrefix(w, d)
        <4>1. SubSeq(w, 1, k) = [i \in 1..k |-> w[i]] /\ SubSeq(d, 1, k) = [i \in 1..k |-> d[i]]
          BY <3>1, <3>3, <3>5, <1>2
        <4>2. [i \in 1..k |-> w[i]] = [i \in 1..k |-> d[i]]
          BY <3>3, <3>4
        <4> QED
          BY <3>1, <3>3, <3>5, <4>1, <4>2 DEF IsPrefix
      <3>7. x = [version |-> r.version, topic |-> t, data |-> w]
        <4>1. ~(6 + L > n)
          BY <1>2, <1>5, <2>6
        <4> QED
          BY <2>4, <3>2, <4>1, Zenon DEF u, w
      <3>8. n = Len(full) => w = d
        <4>1. n = Len(full) => k = K
          BY <1>2, <1>4, <3>1
        <4>2. \A i \in 1..Len(w) : w[i] = d[i]
          BY <3>3, <3>4
        <4>3. k = K => Len(w) = Len(d)
          BY <3>3, <3>5
        <4> QED
          BY <3>3, <3>5, <4>1, <4>2, <4>3, SeqEqual
      <3>9. x.version = r.version /\ x.topic = r.topic /\ IsPrefix(x.data, r.data)
        BY <3>6, <3>7 DEF t, d
      <3>10. n = Len(full) => x = r
        BY <1>1, <3>7, <3>8
      <3> QED
        BY <3>9, <3>10
    <2> QED
      BY <1>2, <1>5, <2>5, <2>6
  <1> QED
    BY <1>5, <1>7, <1>8

\* AMOPRequest::decode of all that encode wrote is the request.
LEMMA AmopWhole ==
    ASSUME NEW r, ProperRequest(r), Len(r.topic) <= TopicMaxLength
    PROVE  AmopEncode(r) \in Seq(Nat) /\ AmopDecode(AmopEncode(r)) = r
  <1> DEFINE full == AmopEncode(r)
  <1>1. full \in Seq(Nat)
    BY AmopLayout DEF Layout
  <1> HIDE DEF full
  <1>2. SubSeq(full, 1, Len(full)) = full /\ Len(full) \in 0..Len(full)
    BY <1>1
  <1>3. AmopDecode(SubSeq(full, 1, Len(full))) = r
    BY <1>2, AmopRead DEF full
  <1> QED
    BY <1>1, <1>2, <1>3 DEF full

\* Every JSON message is an object, and no member has the empty name.
LEMMA WrittenAsObject ==
    ASSUME NEW s, ProperMessage(s)
    PROVE  MessageToJson(s).j = "obj" /\ "" \notin DOMAIN MessageToJson(s).v
  <1>1. /\ \A p, from : ParamsToJson(p, from).j = "obj" /\ "" \notin DOMAIN ParamsToJson(p, from).v
        /\ \A r : SubscribeToJson(r).j = "obj" /\ "" \notin DOMAIN SubscribeToJson(r).v
        /\ \A r : UnsubscribeToJson(r).j = "obj" /\ "" \notin DOMAIN UnsubscribeToJson(r).v
    BY DEF ParamsToJson, SubscribeToJson, UnsubscribeToJson, Obj, Js
  <1>2. /\ \A r : ResponseToJson(r).j = "obj" /\ "" \notin DOMAIN ResponseToJson(r).v
        /\ \A g : GroupToJson(g).j = "obj" /\ "" \notin DOMAIN GroupToJson(g).v
        /\ \A h : NodeHandshake(h).j = "obj" /\ "" \notin DOMAIN NodeHandshake(h).v
        /\ \A h : HandshakeToJson(h).j = "obj" /\ "" \notin DOMAIN HandshakeToJson(h).v
    BY DEF ResponseToJson, GroupToJson, NodeHandshake, HandshakeToJson, Obj, Js
  <1>3. /\ \A b : NodeBlockInfo(b).j = "obj" /\ "" \notin DOMAIN NodeBlockInfo(b).v
        /\ \A b : BlockInfoToJson(b).j = "obj" /\ "" \notin DOMAIN BlockInfoToJson(b).v
        /\ \A r : RequestToJson(r).j = "obj" /\ "" \notin DOMAIN RequestToJson(r).v
    BY DEF NodeBlockInfo, BlockInfoToJson, RequestToJson, Obj, Js
  <1> QED
    BY <1>1, <1>2, <1>3 DEF MessageToJson, ProperMessage

\* All the JSON messages in one: a message of which at most one member is damaged is
\* refused, or all its other members are read as their writer lets them through.
LEMMA MessageRead ==
    ASSUME NEW s, ProperMessage(s), NEW memory, NEW q, NEW name,
           Damaged(q, MessageToJson(s), name), NEW x, x = MessageFromJson(s, q, memory)
    PROVE  Reads(x, LetThrough(s), name)
  <1>0. s.type \notin {"blockNumber", "handshake"} => LetThrough(s) = Meaning(s)
    BY DEF LetThrough
  <1>1. CASE s.type = "params"
    <2>1. ProperParams(s.value) /\ s.have = NewParams /\ Meaning(s) = s.value
      BY <1>1 DEF ProperMessage, Meaning
    <2>2. s.value.fromBlock \in Int /\ From(s.value, s.value.fromBlock) = s.value
      BY <2>1 DEF ProperParams, From
    <2>3. MessageToJson(s) = ParamsToJson(s.value, s.value.fromBlock) /\ x = ParamsFromJson(NewParams, q)
      BY <1>1, <2>1 DEF MessageToJson, MessageFromJson
    <2> QED
      BY <1>0, <1>1, <2>1, <2>2, <2>3, ParamsRead
  <1>2. CASE s.type = "subscribe"
    <2>1. MessageToJson(s) = SubscribeToJson(s.value) /\ x = SubscribeFromJson(s.have, q)
      BY <1>2 DEF MessageToJson, MessageFromJson
    <2> QED
      BY <1>0, <1>2, <2>1, SubscribeRead
  <1>3. CASE s.type = "unsubscribe"
    <2>1. MessageToJson(s) = UnsubscribeToJson(s.value) /\ x = UnsubscribeFromJson(q)
      BY <1>3 DEF MessageToJson, MessageFromJson
    <2>2. s.value \in [id : STRING, group : STRING] /\ Meaning(s) = s.value
      BY <1>3 DEF ProperMessage, Meaning
    <2> QED
      BY <1>0, <1>3, <2>1, <2>2, UnsubscribeRead
  <1>4. CASE s.type = "response"
    <2>1. MessageToJson(s) = ResponseToJson(s.value) /\ x = ResponseFromJson(q)
      BY <1>4 DEF MessageToJson, MessageFromJson
    <2>2. s.value \in [id : STRING, status : Int] /\ Meaning(s) = s.value
      BY <1>4 DEF ProperMessage, Meaning
    <2> QED
      BY <1>0, <1>4, <2>1, <2>2, ResponseRead
  <1>5. CASE s.type = "group"
    <2>1. MessageToJson(s) = GroupToJson(s.value) /\ x = GroupFromJson(q, memory)
      BY <1>5 DEF MessageToJson, MessageFromJson
    <2>2. ProperGroup(s.value) /\ Meaning(s) = s.value
      BY <1>5 DEF ProperMessage, Meaning
    <2> QED
      BY <1>0, <1>5, <2>1, <2>2, GroupRead
  <1>6. CASE s.type = "nodeHandshake"
    <2>1. MessageToJson(s) = NodeHandshake(s.value) /\ x = HandshakeFromJson(q, memory)
      BY <1>6 DEF MessageToJson, MessageFromJson
    <2>2. ProperHandshake(s.value) /\ Meaning(s) = s.value
      BY <1>6 DEF ProperMessage, Meaning
    <2> QED
      BY <1>0, <1>6, <2>1, <2>2, HandshakeRead
  <1>7. CASE s.type = "nodeBlockNumber"
    <2>1. MessageToJson(s) = NodeBlockInfo(s.value) /\ x = BlockInfoFromJson(q)
      BY <1>7 DEF MessageToJson, MessageFromJson
    <2>2. s.value \in [blockNumber : Int, group : STRING, node : STRING] /\ Meaning(s) = s.value
      BY <1>7 DEF ProperMessage, Meaning
    <2> QED
      BY <1>0, <1>7, <2>1, <2>2, BlockInfoRead
  <1>8. CASE s.type = "request"
    <2>1. MessageToJson(s) = RequestToJson(s.value) /\ x = RequestFromJson(q)
      BY <1>8 DEF MessageToJson, MessageFromJson
    <2>2. /\ s.value \in [jsonrpc : STRING, method : STRING, id : Int, params : {s.value.params}]
          /\ s.value.params.j = "array" /\ ~Fails(s.value.params) /\ Meaning(s) = s.value
      BY <1>8 DEF ProperMessage, Meaning
    <2> QED
      BY <1>0, <1>8, <2>1, <2>2, RequestRead
  <1>9. CASE s.type = "handshake"
    <2>1. MessageToJson(s) = HandshakeToJson(s.value) /\ x = HandshakeFromJson(q, memory)
      BY <1>9 DEF MessageToJson, MessageFromJson
    <2>2. ProperHandshake(s.value) /\ LetThrough(s) = [s.value EXCEPT !.numbers = <<>>]
      BY <1>9 DEF ProperMessage, LetThrough
    <2> QED
      BY <2>1, <2>2, OwnHandshakeRead
  <1>10. CASE s.type = "blockNumber"
    <2>1. MessageToJson(s) = BlockInfoToJson(s.value) /\ x = BlockInfoFromJson(q)
      BY <1>10 DEF MessageToJson, MessageFromJson
    <2>2. /\ s.value \in [blockNumber : Int, group : STRING, node : STRING]
          /\ AsString(Num(s.value.blockNumber)) \in STRING
          /\ LetThrough(s) = [s.value EXCEPT !.node = AsString(Num(s.value.blockNumber))]
      BY <1>10 DEF ProperMessage, LetThrough
    <2> QED
      BY <2>1, <2>2, OwnBlockInfoRead
  <1> QED
    BY <1>1, <1>2, <1>3, <1>4, <1>5, <1>6, <1>7, <1>8, <1>9, <1>10 DEF ProperMessage

-----------------------------------------------------------------------------

\* What travels is what was encoded, or that with the damage that fault names.
Travels ==
    \/ fault = <<"none">> /\ data = MessageEncode(sent)
    \/ /\ sent.format = "message"
       /\ \E name \in DOMAIN MessageToJson(sent).v :
            /\ fault \in {<<"dropped", name>>, <<"retyped", name>>}
            /\ Damaged(data, MessageToJson(sent), name)
    \/ /\ sent.format = "amop" /\ Len(sent.value.topic) <= TopicMaxLength
       /\ \E n \in 0..Len(AmopEncode(sent.value)) :
            fault = <<"cut", n>> /\ data = SubSeq(AmopEncode(sent.value), 1, n)

\* The receiver holds what it made of that.
Answered ==
    /\ data # NIL /\ ~Fails(data)
    /\ \E memory \in Memory :
        LET r == MessageDecode(sent, data, memory)
        IN  /\ object = IF Fails(r) THEN NIL ELSE r
            /\ outcome = Ending(r)

MessageInv ==
    /\ \E i \in DOMAIN Cases : sent = Cases[i]
    /\ sent.format \in MessageFormats
    /\ data # NIL => Travels
    /\ data = NIL => outcome = "waiting"
    /\ outcome # "waiting" => Answered

\* What encode compares are two numbers.
LEMMA TopicLength ==
    ASSUME NEW r, ProperRequest(r)
    PROVE  Len(r.topic) \in Nat /\ TopicMaxLength \in Nat
  BY TopicAssumption DEF ProperRequest

\* What is sent is one of the objects that CasesAssumption speaks of.
LEMMA CaseIsProper ==
    ASSUME \E i \in DOMAIN Cases : sent = Cases[i]
    PROVE  /\ sent.format = "message" => ProperMessage(sent)
           /\ sent.format = "amop" => sent.type = "amop" /\ ProperRequest(sent.value)
  BY CasesAssumption

\* The invariant holds before anything is sent.
LEMMA InitMessageInv ==
    ASSUME Init, sent.format \in MessageFormats
    PROVE  MessageInv
  BY DEF Init, MessageInv

\* Every step of the sender, the transport and the receiver keeps the invariant.
LEMMA MessageStep ==
    ASSUME MessageInv, [MessageNext]_vars
    PROVE  MessageInv'
  <1>1. /\ \E i \in DOMAIN Cases : sent = Cases[i]
        /\ sent.format \in MessageFormats
        /\ data # NIL => Travels
        /\ data = NIL => outcome = "waiting"
        /\ outcome # "waiting" => Answered
    BY DEF MessageInv
  <1>2. CASE EncodeMessage
    <2>1. /\ data = NIL /\ fault = <<"none">> /\ data' = MessageEncode(sent)
          /\ sent' = sent /\ fault' = fault /\ outcome' = outcome
      BY <1>2 DEF EncodeMessage
    <2>2. outcome = "waiting" /\ Travels'
      BY <1>1, <2>1 DEF Travels
    <2> QED
      BY <1>1, <2>1, <2>2 DEF MessageInv
  <1>3. ASSUME sent.format = "amop", NEW n \in 0..(Len(data) - 1), Cut(n)
        PROVE  MessageInv'
    <2>1. /\ data # NIL /\ ~Fails(data) /\ outcome = "waiting" /\ fault = <<"none">>
          /\ data' = SubSeq(data, 1, n) /\ fault' = <<"cut", n>>
          /\ sent' = sent /\ outcome' = outcome
      BY <1>3 DEF Cut, Delivered
    <2>2. data = AmopEncode(sent.value)
      BY <1>1, <1>3, <2>1 DEF Travels, MessageEncode
    <2>3. n \in 0..Len(data) /\ Len(sent.value.topic) <= TopicMaxLength
      <3>1. ProperRequest(sent.value)
        BY <1>1, <1>3, CaseIsProper
      <3>2. Len(sent.value.topic) <= TopicMaxLength
        <4>1. SUFFICES ASSUME Len(sent.value.topic) > TopicMaxLength
                       PROVE  FALSE
          BY <3>1, TopicLength
        <4>2. data = <<>>
          BY <2>2, <4>1 DEF AmopEncode
        <4> QED
          BY <1>3, <4>2
      <3>3. data \in Seq(Nat)
        BY <2>2, <3>1, <3>2, AmopWhole
      <3> QED
        BY <3>2, <3>3
    <2>4. Travels'
      BY <1>3, <2>1, <2>2, <2>3 DEF Travels
    <2> QED
      BY <1>1, <2>1, <2>4 DEF MessageInv
  <1>4. ASSUME sent.format = "message", NEW name \in DOMAIN data.v, Damage(name)
        PROVE  MessageInv'
    <2> DEFINE J == MessageToJson(sent)
    <2>1. /\ data # NIL /\ outcome = "waiting" /\ fault = <<"none">>
          /\ sent' = sent /\ outcome' = outcome
          /\ fault' \in {<<"dropped", name>>, <<"retyped", name>>}
      BY <1>4 DEF Damage, Drop, Retype, Delivered
    <2>2. data = J
      BY <1>1, <1>4, <2>1 DEF Travels, MessageEncode
    <2>3. J.j = "obj"
      BY <1>1, <1>4, CaseIsProper, WrittenAsObject
    <2> HIDE DEF J
    <2>4. Damaged(data', J, name)
      <3>1. CASE Drop(name)
        <4>1. data' = [j |-> "obj", v |-> [x \in DOMAIN J.v \ {name} |-> J.v[x]]]
          BY <3>1, <2>2, <2>3 DEF Drop, Js
        <4> QED
          BY <4>1 DEF Damaged, HasArray
      <3>2. ASSUME NEW other, other.j # "array", Retype(name, other)
            PROVE  Damaged(data', J, name)
        <4>1. data' = [j |-> "obj", v |-> [J.v EXCEPT ![name] = other]]
          BY <3>2, <2>2, <2>3 DEF Retype, Js
        <4> QED
          BY <1>4, <2>2, <3>2, <4>1 DEF Damaged, HasArray
      <3>3. Bool(TRUE).j # "array" /\ Obj([other |-> Num(1)]).j # "array"
        BY DEF Bool, Obj, Js
      <3> QED
        BY <1>4, <3>1, <3>2, <3>3 DEF Damage
    <2>5. Travels'
      BY <1>4, <2>1, <2>2, <2>4 DEF Travels, J
    <2> QED
      BY <1>1, <2>1, <2>5 DEF MessageInv
  <1>5. CASE DecodeMessage
    <2>1. PICK memory \in Memory : Receive(MessageDecode(sent, data, memory))
      BY <1>5 DEF DecodeMessage
    <2>2. data # NIL /\ ~Fails(data) /\ sent' = sent /\ data' = data /\ fault' = fault
      BY <1>5, <2>1 DEF DecodeMessage, Delivered, Receive
    <2>3. Answered'
      BY <2>1, <2>2 DEF Answered, Receive
    <2>4. Travels'
      BY <1>1, <2>2 DEF Travels
    <2> QED
      BY <1>1, <2>2, <2>3, <2>4 DEF MessageInv
  <1>6. CASE UNCHANGED vars
    <2>1. sent' = sent /\ data' = data /\ fault' = fault /\ object' = object /\ outcome' = outcome
      BY <1>6 DEF vars
    <2> QED
      BY <2>1 DEF MessageInv, Travels, Answered
  <1> QED
    BY <1>2, <1>3, <1>4, <1>5, <1>6 DEF MessageNext

\* A message that nothing happened to is understood as it was meant.
LEMMA InvRoundTrip ==
    ASSUME MessageInv
    PROVE  MessageRoundTrip
  <1> SUFFICES ASSUME fault = <<"none">>, outcome # "waiting"
               PROVE  IF TooLong(sent) THEN outcome = "refused"
                      ELSE outcome = "accepted" /\ object = LetThrough(sent)
    BY DEF MessageRoundTrip, Untouched
  <1>1. Travels /\ Answered /\ sent.format \in MessageFormats
        /\ \E i \in DOMAIN Cases : sent = Cases[i]
    BY DEF MessageInv, Answered
  <1>2. data = MessageEncode(sent)
    BY <1>1 DEF Travels
  <1>3. PICK memory \in Memory :
            LET r == MessageDecode(sent, data, memory)
            IN  /\ object = IF Fails(r) THEN NIL ELSE r
                /\ outcome = Ending(r)
    BY <1>1 DEF Answered
  <1> SUFFICES IF TooLong(sent) THEN MessageDecode(sent, data, memory) = THROW
               ELSE MessageDecode(sent, data, memory) = LetThrough(sent) /\ ~Fails(LetThrough(sent))
    BY <1>3 DEF Fails, Ending
  <1>4. CASE sent.format = "message"
    <2>1. ProperMessage(sent)
      BY <1>1, <1>4, CaseIsProper
    <2>2. data = MessageToJson(sent) /\ MessageDecode(sent, data, memory) = MessageFromJson(sent, data, memory)
      BY <1>2, <1>4 DEF MessageEncode, MessageDecode
    <2>3. Damaged(data, MessageToJson(sent), "")
      BY <2>1, <2>2, WrittenAsObject DEF Damaged, HasArray
    <2>4. Reads(MessageFromJson(sent, data, memory), LetThrough(sent), "")
      BY <2>1, <2>3, MessageRead
    <2> QED
      BY <1>4, <2>1, <2>2, <2>4 DEF Reads, ProperMessage, TooLong
  <1>5. CASE sent.format = "amop"
    <2>1. sent.type = "amop" /\ ProperRequest(sent.value)
      BY <1>1, <1>5, CaseIsProper
    <2>2. data = AmopEncode(sent.value) /\ MessageDecode(sent, data, memory) = AmopDecode(data)
      BY <1>2, <1>5 DEF MessageEncode, MessageDecode
    <2>3. CASE Len(sent.value.topic) > TopicMaxLength
      <3>1. data = <<>>
        BY <2>2, <2>3 DEF AmopEncode
      <3>2. Len(data) < 6
        BY <3>1
      <3>3. AmopDecode(data) = THROW
        BY <3>2 DEF AmopDecode
      <3> QED
        BY <1>5, <2>2, <2>3, <3>3 DEF TooLong
    <2>4. CASE Len(sent.value.topic) <= TopicMaxLength
      <3>1. AmopDecode(data) = sent.value
        BY <2>1, <2>2, <2>4, AmopWhole
      <3>2. LetThrough(sent) = sent.value /\ ~Fails(sent.value)
        BY <2>1 DEF LetThrough, Meaning, ProperRequest
      <3>3. ~TooLong(sent)
        BY <2>1, <2>4, TopicLength DEF TooLong
      <3> QED
        BY <2>2, <3>1, <3>2, <3>3
    <2> QED
      BY <2>1, <2>3, <2>4, TopicLength
  <1> QED
    BY <1>1, <1>4, <1>5 DEF MessageFormats

\* Of a message that was damaged nothing but the damage is lost.
LEMMA InvFaultStaysLocal ==
    ASSUME MessageInv
    PROVE  FaultStaysLocal
  <1> SUFFICES ASSUME outcome = "accepted"
               PROVE  /\ sent.format = "message" /\ fault[1] \in {"dropped", "retyped"} =>
                            \A f \in DOMAIN object :
                                f # ReadInto(fault[2]) => object[f] = LetThrough(sent)[f]
                      /\ sent.format = "amop" /\ fault[1] = "cut" => TopicKept
    BY DEF FaultStaysLocal
  <1>1. Travels /\ Answered /\ \E i \in DOMAIN Cases : sent = Cases[i]
    BY DEF MessageInv, Answered
  <1>2. PICK memory \in Memory :
            object = MessageDecode(sent, data, memory) /\ ~Fails(MessageDecode(sent, data, memory))
    BY <1>1, BytesAssumption DEF Answered, Ending, Fails
  <1>3. ASSUME sent.format = "message", fault[1] \in {"dropped", "retyped"}
        PROVE  \A f \in DOMAIN object : f # ReadInto(fault[2]) => object[f] = LetThrough(sent)[f]
    <2>1. ProperMessage(sent)
      BY <1>1, <1>3, CaseIsProper
    <2>2. PICK name : fault[2] = name /\ Damaged(data, MessageToJson(sent), name)
      BY <1>1, <1>3 DEF Travels
    <2>3. object = MessageFromJson(sent, data, memory) /\ ~Fails(object)
      BY <1>2, <1>3 DEF MessageDecode
    <2>4. Reads(object, LetThrough(sent), name)
      BY <2>1, <2>2, <2>3, MessageRead
    <2> QED
      BY <2>2, <2>3, <2>4 DEF Reads
  <1>4. ASSUME sent.format = "amop", fault[1] = "cut"
        PROVE  TopicKept
    <2>1. ProperRequest(sent.value)
      BY <1>1, <1>4, CaseIsProper
    <2>2. PICK n \in 0..Len(AmopEncode(sent.value)) : data = SubSeq(AmopEncode(sent.value), 1, n)
      BY <1>1, <1>4 DEF Travels
    <2>3. Len(sent.value.topic) <= TopicMaxLength
      BY <1>1, <1>4 DEF Travels
    <2>4. object = AmopDecode(SubSeq(AmopEncode(sent.value), 1, n)) /\ ~Fails(object)
      BY <1>2, <1>4, <2>2 DEF MessageDecode
    <2> QED
      BY <2>1, <2>2, <2>3, <2>4, AmopRead DEF TopicKept
  <1> QED
    BY <1>3, <1>4

\* Every message that subscribeEvent, the handshake, the block notifier, JSON-RPC and AMOP
\* send is understood as its writer lets it through, which is as it was meant but for the
\* name of the node in BlockNumberInfo::toJson and the block numbers of the groups in
\* HandshakeResponse::encode (of the nodes' own messages, for these too), for all values
\* of all its members, an AMOP message with a topic that is too long excepted, which is not
\* taken for a message; and when a member of a JSON message is missing or has another
\* type, or an AMOP message is cut, the receiver refuses it or loses only what was damaged:
\* no damage moves an address, a topic, a block number or a node to where another one was
\* (generateJson, toJson, serialize and encode; fromJson, deserialize and decode).
THEOREM MessagesKept == MessageSpec => [](MessageRoundTrip /\ FaultStaysLocal)
  <1>1. MessageInv => MessageRoundTrip /\ FaultStaysLocal
    BY InvRoundTrip, InvFaultStaysLocal
  <1> QED
    BY <1>1, InitMessageInv, MessageStep, PTL DEF MessageSpec
=============================================================================

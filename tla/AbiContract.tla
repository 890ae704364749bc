----------------------------- MODULE AbiContract -----------------------------
(***************************************************************************)
(* A call of a contract's method, from its parameters in JSON to the bytes *)
(* of the transaction and back: ContractABIDefinition (the methods of a    *)
(* contract, by name and by ID) and the encode and decode operations of    *)
(* ContractABICodec.  Between the two the bytes travel; they may be cut.   *)
(***************************************************************************)
EXTENDS AbiTemplate

CONSTANTS
    Contracts,      \* the ABIs looked at: sequences of methods and events
    ParamsFor(_)    \* the JSON parameters tried for a list of declarations

VARIABLES
    abi,         \* the contract's ABI
    method,      \* the method or event the user means
    what,        \* "input", "output" or "event": what is encoded
    params,      \* the parameters
    step,        \* "new", "encoded", "sent", "decoded", "refused"
    object,      \* the object the parameters were read into, or THROW
    data,        \* the bytes, or THROW
    decoded      \* the decoded object, or THROW

vars == <<abi, method, what, params, step, object, data, decoded>>

-----------------------------------------------------------------------------
(* ContractABIDefinition.                                                  *)

\* Names of types, with a comma behind each but the last.
JoinTypes(types) ==
    LET all == FlattenSeq([i \in DOMAIN types |-> types[i] \o <<",">>])
    IN  IF all = <<>> THEN <<>> ELSE Front(all)

\* getTypeAsString: a tuple is replaced by the types of its components.
RECURSIVE TypeAsString(_)
TypeAsString(nt) ==
    IF nt.type[1] # "tuple" THEN nt.type
    ELSE <<"(">> \o JoinTypes([i \in DOMAIN nt.components |-> TypeAsString(nt.components[i])])
         \o <<")">> \o Tail(nt.type)

\* getMethodSignatureAsString; a constructor has no name.
SignatureOf(m) ==
    (IF m.name = "" THEN <<>> ELSE <<m.name>>) \o <<"(">>
    \o JoinTypes([i \in DOMAIN m.inputs |-> TypeAsString(m.inputs[i])]) \o <<")">>

\* getMethodIDAsString: in place of the first 8 digits of its hash the signature;
\* different signatures have different IDs.  getEventByTopic compares these 8 digits
\* too, so what it takes for a topic, like getEventTopicAsString, is this ID and not
\* the whole hash that a node puts into a log, which it never finds.
MethodID(m) == SignatureOf(m)

\* buildABI: a constructor, fallback or receive is filed under its type.
FiledUnder(m) ==
    IF m.type \in {"constructor", "fallback", "receive"} THEN m.type ELSE m.name

Methods(a) == SelectSeq(a, LAMBDA m : m.type # "event")
Events(a) == SelectSeq(a, LAMBDA m : m.type = "event")

\* Mutation: of overloaded methods the first is taken.
GetFirst(ms, name) ==
    LET named == SelectSeq(ms, LAMBDA m : FiledUnder(m) = name)
    IN  IF named = <<>> THEN THROW ELSE named[1]

\* getMethod and getEvent, without overloads: the only one of that name.
GetMethod(ms, name) ==
    LET named == SelectSeq(ms, LAMBDA m : FiledUnder(m) = name)
    IN  IF Len(named) # 1 THEN THROW ELSE named[1]

\* getMethodByMethodID and getEventByTopic, of an ID of 8 digits.
GetMethodByID(ms, id) ==
    LET i == SelectInSeq(ms, LAMBDA m : MethodID(m) = id)
    IN  IF i = 0 THEN THROW ELSE ms[i]

-----------------------------------------------------------------------------
(* ContractABICodec.                                                       *)

\* The method was not found, by its name, its ID or its signature.
Refuse ==
    /\ step' = "refused"
    /\ UNCHANGED <<abi, method, what, params, object, data, decoded>>

\* The parameters are read into a fresh object, and serialized behind a prefix.
Encode(fresh, prefix) ==
    LET o == IF fresh = THROW THEN THROW ELSE InitWithJson(fresh, params)
        bs == IF o = THROW THEN THROW ELSE Serialize(o)
    IN  /\ object' = o
        /\ data' = IF bs = THROW THEN THROW ELSE prefix \o bs
        /\ step' = "encoded"
        /\ UNCHANGED <<abi, method, what, params, decoded>>

\* The ways a method is looked up.  A signature with a tuple is cut at the
\* first right bracket and does not build.
ByName == GetMethod(Methods(abi), FiledUnder(method))
ByID == GetMethodByID(Methods(abi), MethodID(method))
Buildable(m) == IF m = THROW \/ BuildInput(m) = THROW THEN THROW ELSE m
BySignature == Buildable(BuildMethodBySignature(SignatureOf(method)))

\* encodeMethod: the ID of the method, then the parameters as one struct.
EncodeFound(m) ==
    /\ step = "new" /\ what = "input"
    /\ IF m = THROW THEN Refuse ELSE Encode(BuildInput(m), Zeros(SelectorLen))

EncodeMethod == EncodeFound(ByName)
EncodeMethodByMethodID == EncodeFound(ByID)
EncodeMethodBySignature == EncodeFound(BySignature)

\* External: a node encodes the answer of a method, or the data of an event.
NodeEncodes ==
    /\ step = "new"
    /\ \/ what = "output" /\ Encode(BuildOutput(method), <<>>)
       \/ what = "event" /\ Encode(BuildEvent(method), <<>>)

\* External: the bytes arrive as they were sent, or their end is lost.
Deliver(n) ==
    /\ data' = SubSeq(data, 1, n)
    /\ step' = "sent"
    /\ UNCHANGED <<abi, method, what, params, object, decoded>>

Decode(fresh, offset) ==
    /\ decoded' = IF fresh = THROW THEN THROW ELSE Deserialize(fresh, data, offset)
    /\ step' = "decoded"
    /\ UNCHANGED <<abi, method, what, params, object, data>>

\* decodeMethodInput, by name, ByMethodID and ByMethodSig: behind the ID, which
\* is not compared.
DecodeMethodInput(m) ==
    /\ step = "sent" /\ what = "input"
    /\ IF m = THROW THEN Refuse ELSE Decode(BuildInput(m), SelectorLen)

\* decodeMethodOutput, by name and ByMethodID.
DecodeMethodOutput(m) ==
    /\ step = "sent" /\ what = "output"
    /\ IF m = THROW THEN Refuse ELSE Decode(BuildOutput(m), 0)

\* decodeEvent: by the name of the event; decodeEventByTopic: by the ID.
DecodeEvent(e) ==
    /\ step = "sent" /\ what = "event"
    /\ IF e = THROW THEN Refuse ELSE Decode(BuildEvent(e), 0)

-----------------------------------------------------------------------------
Declarations(m, w) ==
    CASE w = "input" -> m.inputs
      [] w = "output" -> m.outputs
      [] w = "event" -> SelectSeq(m.inputs, LAMBDA nt : ~nt.indexed)

Init ==
    /\ abi \in Contracts /\ method \in ToSet(abi)
    /\ what \in IF method.type = "event" THEN {"event"} ELSE {"input", "output"}
    /\ params \in ParamsFor(Declarations(method, what))
    /\ step = "new" /\ object = THROW /\ data = <<>> /\ decoded = THROW

Next ==
    \/ EncodeMethod \/ EncodeMethodByMethodID \/ EncodeMethodBySignature
    \/ NodeEncodes
    \/ /\ step = "encoded" /\ data # THROW
       /\ \E n \in 0..Len(data) : Deliver(n)
    \/ \E m \in {ByName, ByID, BySignature} : DecodeMethodInput(m)
    \/ \E m \in {ByName, ByID} : DecodeMethodOutput(m)
    \/ \E e \in {GetMethod(Events(abi), method.name),
                 GetMethodByID(Events(abi), MethodID(method))} : DecodeEvent(e)

Spec == Init /\ [][Next]_vars

-----------------------------------------------------------------------------
(* Reference: the object a declaration means, one dimension after another. *)

RECURSIVE Declared(_, _)
Declared(nt, h) ==
    IF h.extents # <<>>
    THEN LET m == Declared(nt, RemoveExtent(h))
         IN  IF IsDynamicList(h) THEN DynamicList(<<m>>)
             ELSE FixedList(Last(h.extents), [i \in 1..Last(h.extents) |-> m])
    ELSE IF IsTuple(h)
    THEN Struct([i \in DOMAIN nt.components |->
                 [Declared(nt.components[i], Reset(nt.components[i].type))
                    EXCEPT !.name = nt.components[i].name]])
    ELSE BuildBase(h.base)

DeclaredAll(nts) == [i \in DOMAIN nts |-> Declared(nts[i], Reset(nts[i].type))]

\* An object and everything in it.
RECURSIVE Parts(_)
Parts(o) ==
    <<o>> \o (IF IsLeaf(o) THEN <<>>
              ELSE FlattenSeq([i \in DOMAIN o.members |-> Parts(o.members[i])]))

Inside(o, P(_)) == \E i \in DOMAIN Parts(o) : P(Parts(o)[i])

\* What the code cannot encode: an array of lists or arrays, whose second
\* member is built with a helper that has lost its extents, and a bytesN below
\* a T[], which has to be cloned before it has a content.
IsArrayOfLists(o) ==
    o.kind = "FIXED_LIST" /\ o.n > 1 /\ o.members[1].kind \in {"FIXED_LIST", "DYNAMIC_LIST"}
IsListOfBytesN(o) ==
    o.kind = "DYNAMIC_LIST" /\ Inside(o, LAMBDA p : p.kind = "FIXED_BYTES")

Supported(o) == ~Inside(o, IsArrayOfLists) /\ ~Inside(o, IsListOfBytesN)

-----------------------------------------------------------------------------
(* Properties.                                                             *)

Meant == InitWithJson(BuildTuple(Declarations(method, what)), params)
Named(o) == \A i \in DOMAIN o.members : o.members[i].name # ""
Offset == IF what = "input" THEN SelectorLen ELSE 0
ReadsAs(back, o) == back # THROW /\ IsEqual(back, o)
Whole == object # THROW /\ Len(data) = Offset + Len(Serialize(object))

\* A list keeps the type of its members in its first member.
KeepsTemplates(o) ==
    ~Inside(o, LAMBDA p : p.kind = "DYNAMIC_LIST" /\ p.members = <<>>) /\ ~Inside(o, IsListOfBytesN)

\* What is encoded are bytes, and bytes that arrive whole are decoded, to what
\* was encoded: each offset in a head leads to its member, at any depth.  An
\* object that is used again after clear() is filled as a fresh one is (but a
\* list that has no member left has lost its type and stays empty).
RoundTrip ==
    step = "decoded" /\ Whole =>
        /\ \A i \in DOMAIN data : data[i] \in 0..(ByteSize - 1)
        /\ decoded # THROW
        /\ Serialize(decoded) = Serialize(object)
        /\ params.json = "array" =>
                /\ IsEqual(decoded, object)
                /\ KeepsTemplates(object) =>
                        ReadsAs(Deserialize(Clear(object), data, Offset), object)

\* Bytes that lost their end are refused, or nothing but padding was lost:
\* they are never decoded to another value.
CutIsNoticed ==
    step = "decoded" /\ decoded # THROW => Serialize(decoded) = Serialize(object)

\* "is an overloaded method, please use getMethodByMethodID instead": what is
\* encoded is the method that was meant, by whichever way it was looked up.
\* (A method built from its signature has parameters without names: a JSON
\* object is accepted and ignored.)
RightMethod ==
    step = "encoded" /\ object # THROW /\ (params.json = "object" => Named(object))
    => IsEqual(object, Meant)

\* A value of a declared type is encoded, however types are nested, once the
\* method was found.
EncodesSupported ==
    /\ step = "encoded"
    /\ params.json = "array"
    /\ \A i \in DOMAIN Declarations(method, what) :
            Supported(DeclaredAll(Declarations(method, what))[i])
    => data # THROW

\* "T[N] => fixed list": a value of any declared type is encoded.
EncodesDeclared == step = "encoded" => data # THROW

\* The answer of decodeMethodInput, decodeMethodOutput and decodeEvent is JSON,
\* and JSON is what the encoders take: it stands for the decoded values.
JsonReadsBack ==
    step = "decoded" /\ decoded # THROW /\ ~Inside(decoded, IsListOfBytesN) =>
        ReadsAs(InitWithJson(BuildTuple(Declarations(method, what)), ToJson(decoded)), decoded)

HasTuple(o) == Inside(o, LAMBDA p : p.kind = "STRUCT")
InGap(o) == Inside(o, LAMBDA p : p.kind = "INT" /\ p.val[1] % WordMod
                                                     \in (WordMod \div 2)..MaxPositive)
Filled(o) == ~Inside(o, LAMBDA p : p.kind = "FIXED_BYTES" /\ Len(p.val) # p.n)
ShiftedTuple(o) ==
    Inside(o, LAMBDA p : p.kind = "STRUCT" /\ \E i \in DOMAIN p.members : WordLength(p.members[i]) > 1)

\* Names of types are parsed in three places.  They agree on the signature of
\* a method, on the dimensions of each type and on whether it is found by an
\* offset.
ParsersAgree ==
    LET types == [i \in DOMAIN method.inputs |-> method.inputs[i].type]
        built == BuildMethodBySignature(SignatureOf(method))
        parsed == FuncParser(SignatureOf(method))
    IN  /\ parsed # THROW /\ parsed.types = types
        /\ built # THROW /\ [i \in DOMAIN built.inputs |-> built.inputs[i].type] = types
        /\ \A i \in DOMAIN types :
                /\ InTypeReset(types[i]) = Reset(types[i])
                /\ InTypeDynamic(Reset(types[i])) <=> DynamicType(BuildMember(method.inputs[i]))

\* The codec of solidity/ and the codec of the type objects were written apart,
\* and so were their parsers.  Without tuples they write the same bytes and
\* read the same types.
CodecsAgree ==
    /\ step = "encoded" /\ data # THROW /\ (\A i \in DOMAIN object.members : ~HasTuple(object.members[i]))
            => AbiIn(object.members) = Serialize(object)
    /\ method.type = "function"
       /\ (\A i \in DOMAIN method.inputs : "tuple" \notin ToSet(method.inputs[i].type)) => ParsersAgree

\* The Liquid codec reads back the two kinds of values it can read, and
\* notices when their end is missing.
LiquidReadsBack ==
    \A i \in DOMAIN object.members :
        LET o == object.members[i]
            bs == LiquidSerialize(o)
            back == LiquidDeserialize(Clear(o), bs, 0)
        IN  o.kind \in {"BOOL", "FIXED_BYTES"} /\ Len(bs) > 0 =>
                /\ back # THROW /\ IsEqual(back, o)
                /\ LiquidDeserialize(Clear(o), Front(bs), 0) = THROW

\* What abiIn wrote abiOut reads back.
AbiOutReadsBack ==
    LET types == [i \in DOMAIN object.members |-> Declarations(method, what)[i].type]
    IN  /\ \E out \in {AbiOut(BuildTuple(Declarations(method, what)).members, AbiIn(object.members))} :
                out # THROW /\ IsEqual(Struct(out), object)
        /\ \E named \in {AbiOutByFuncSelector(types, AbiIn(object.members))} :
                named # THROW => IsEqual(Struct(named), object)

\* The two other codecs read what they wrote: the Liquid codec, and the
\* template codec, except for a tuple with an array in its head, whose offsets
\* are a word short, and for the numbers in the gap between 0x7f... and
\* 0x8f..., whose sign is lost.
OtherCodecsRoundTrip ==
    step = "encoded" /\ object # THROW =>
        /\ LiquidReadsBack
        /\ /\ data # THROW /\ Filled(object) /\ ~InGap(object)
           /\ \A i \in DOMAIN object.members : ~ShiftedTuple(object.members[i])
           => AbiOutReadsBack
=============================================================================

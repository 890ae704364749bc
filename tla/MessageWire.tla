---------------------------- MODULE MessageWire ----------------------------
(***************************************************************************)
(* A message on its way: one side encodes it, a JSON message may lose a    *)
(* member or get one of another type, an AMOP request may be cut, and the  *)
(* other side decodes it into an object that already has a value.  Wire    *)
(* adds the other formats to the same variables.                           *)
(***************************************************************************)
EXTENDS Messages

CONSTANTS
    Cases,      \* the values sent, a sequence of records [format, type, value, have]
    Memory      \* what a variable without an initial value may hold

VARIABLES
    sent,       \* the case
    data,       \* what travels: bytes, a text or a JSON value
    fault,      \* what happened to it: <<kind, where>>
    object,     \* the receiver's object
    outcome     \* "waiting", "accepted", "refused" with an exception, or "aborted"

vars == <<sent, data, fault, object, outcome>>

-----------------------------------------------------------------------------

MessageToJson(s) ==
    CASE s.type = "params" -> ParamsToJson(s.value, s.value.fromBlock)
      [] s.type = "subscribe" -> SubscribeToJson(s.value)
      [] s.type = "unsubscribe" -> UnsubscribeToJson(s.value)
      [] s.type = "response" -> ResponseToJson(s.value)
      [] s.type = "group" -> GroupToJson(s.value)
      [] s.type = "handshake" -> HandshakeToJson(s.value)
      [] s.type = "nodeHandshake" -> NodeHandshake(s.value)
      [] s.type = "blockNumber" -> BlockInfoToJson(s.value)
      [] s.type = "nodeBlockNumber" -> NodeBlockInfo(s.value)
      [] s.type = "request" -> RequestToJson(s.value)

MessageFromJson(s, p, memory) ==
    CASE s.type = "params" -> ParamsFromJson(s.have, p)
      [] s.type = "subscribe" -> SubscribeFromJson(s.have, p)
      [] s.type = "unsubscribe" -> UnsubscribeFromJson(p)
      [] s.type = "response" -> ResponseFromJson(p)
      [] s.type = "group" -> GroupFromJson(p, memory)
      [] s.type \in {"handshake", "nodeHandshake"} -> HandshakeFromJson(p, memory)
      [] s.type \in {"blockNumber", "nodeBlockNumber"} -> BlockInfoFromJson(p)
      [] s.type = "request" -> RequestFromJson(p)

MessageEncode(s) == IF s.format = "amop" THEN AmopEncode(s.value) ELSE MessageToJson(s)
MessageDecode(s, d, memory) ==
    IF s.format = "amop" THEN AmopDecode(d) ELSE MessageFromJson(s, d, memory)

\* What a message says to the receiver: a subscription that has seen blocks asks
\* for the next one.
Meaning(s) ==
    IF s.type = "subscribe"
    THEN [s.value EXCEPT !.current = s.have.current,
            !.params.fromBlock = IF s.value.current > 0 THEN s.value.current + 1 ELSE @]
    ELSE s.value

\* What the writers of the repository let through of that: toJson writes the block
\* number where the name of the node belongs, and encode leaves the block numbers of
\* the groups out.  The nodes send both.
LetThrough(s) ==
    CASE s.type = "blockNumber" -> [s.value EXCEPT !.node = AsString(Num(s.value.blockNumber))]
      [] s.type = "handshake" -> [s.value EXCEPT !.numbers = <<>>]
      [] OTHER -> Meaning(s)

-----------------------------------------------------------------------------
(* The objects that are sent.  Sets and maps are finite, the last position *)
(* of topics is one that addTopic made, a node stands under its name and   *)
(* has no nodeID, which serialize does not write, and the flags of a group *)
(* are those of its nodes.                                                 *)

ProperParams(p) ==
    /\ p \in [fromBlock : Int, toBlock : Int, addresses : SUBSET STRING,
              topics : Seq(SUBSET STRING)]
    /\ IsFiniteSet(p.addresses)
    /\ \A i \in DOMAIN p.topics : IsFiniteSet(p.topics[i])
    /\ p.topics # <<>> => p.topics[Len(p.topics)] # {}
    /\ AllRead(p) /\ ~Fails(p)

ProperNode(n) ==
    /\ n \in [name : STRING, type : Nat, iniConfig : {IniConfig(n.wasm, n.sm)},
              wasm : BOOLEAN, sm : BOOLEAN, services : [DOMAIN n.services -> STRING],
              nodeID : {""}, microService : {FALSE}, min : Nat, max : Nat, compatibility : Nat]
    /\ DOMAIN n.services \subseteq Int /\ IsFiniteSet(DOMAIN n.services)
    /\ AllRead(n) /\ ~Fails(n)

ProperGroup(g) ==
    /\ g \in [chainID : STRING, groupID : STRING, genesisConfig : STRING, iniConfig : STRING,
              wasm : BOOLEAN, sm : BOOLEAN, nodes : {g.nodes}]
    /\ g.nodes = [name \in DOMAIN g.nodes |-> g.nodes[name]] /\ IsFiniteSet(DOMAIN g.nodes)
    /\ \A name \in DOMAIN g.nodes :
            /\ ProperNode(g.nodes[name]) /\ g.nodes[name].name = name
            /\ g.nodes[name].wasm = g.wasm /\ g.nodes[name].sm = g.sm
    /\ DOMAIN g.nodes = {} => ~g.wasm /\ ~g.sm
    /\ AllRead(g) /\ ~Fails(g)

ProperHandshake(h) ==
    /\ h \in [version : Int, groups : {h.groups}, numbers : [DOMAIN h.numbers -> Int]]
    /\ h.groups = [i \in 1..Len(h.groups) |-> h.groups[i]] /\ Len(h.groups) \in Nat
    /\ \A i \in 1..Len(h.groups) : ProperGroup(h.groups[i])
    /\ DOMAIN h.numbers \subseteq STRING /\ IsFiniteSet(DOMAIN h.numbers)
    /\ AllRead(h) /\ ~Fails(h)

ProperMessage(s) ==
    /\ ~Fails(LetThrough(s))
    /\ \/ s.type = "params" /\ ProperParams(s.value) /\ s.have = NewParams
       \/ /\ s.type = "subscribe"
          /\ s.value \in [id : STRING, group : STRING, params : {s.value.params}, current : Int]
          /\ ProperParams(s.value.params) /\ ProperParams(Meaning(s).params)
          /\ s.have.current \in Int
       \/ s.type = "unsubscribe" /\ s.value \in [id : STRING, group : STRING]
       \/ s.type = "response" /\ s.value \in [id : STRING, status : Int]
       \/ s.type = "group" /\ ProperGroup(s.value)
       \/ s.type \in {"handshake", "nodeHandshake"} /\ ProperHandshake(s.value)
       \/ /\ s.type \in {"blockNumber", "nodeBlockNumber"}
          /\ s.value \in [blockNumber : Int, group : STRING, node : STRING]
          /\ AsString(Num(s.value.blockNumber)) \in STRING
       \/ /\ s.type = "request"
          /\ s.value \in [jsonrpc : STRING, method : STRING, id : Int, params : {s.value.params}]
          /\ s.value.params.j = "array" /\ ~Fails(s.value.params)

ProperRequest(r) ==
    /\ r \in [version : 0..(Bytes(4) - 1), topic : Seq(Nat), data : Seq(Nat)]
    /\ ~Fails(r)

ASSUME CasesAssumption ==
    \A i \in DOMAIN Cases :
        /\ Cases[i].format = "message" => ProperMessage(Cases[i])
        /\ Cases[i].format = "amop" => Cases[i].type = "amop" /\ ProperRequest(Cases[i].value)

-----------------------------------------------------------------------------

Init ==
    /\ \E i \in DOMAIN Cases : sent = Cases[i]
    /\ data = NIL
    /\ fault = <<"none">>
    /\ object = sent.have
    /\ outcome = "waiting"

MessageFormats == {"message", "amop"}

\* subscribeEvent sends nothing when the parameters do not verify.
Sendable(s) ==
    s.format = "message" /\ s.type = "subscribe" => VerifyParams(s.value.params)

EncodeMessage ==
    /\ data = NIL /\ fault = <<"none">>
    /\ sent.format \in MessageFormats
    /\ Sendable(sent)
    /\ data' = MessageEncode(sent)
    /\ UNCHANGED <<sent, fault, object, outcome>>

Delivered == data # NIL /\ ~Fails(data) /\ outcome = "waiting"

\* Only the first n cells arrive.
Cut(n) ==
    /\ Delivered /\ fault = <<"none">>
    /\ data' = SubSeq(data, 1, n)
    /\ fault' = <<"cut", n>>
    /\ UNCHANGED <<sent, object, outcome>>

\* A member of a JSON object is missing.
Drop(name) ==
    /\ Delivered /\ fault = <<"none">>
    /\ data' = Js(data.j, [x \in DOMAIN data.v \ {name} |-> data.v[x]])
    /\ fault' = <<"dropped", name>>
    /\ UNCHANGED <<sent, object, outcome>>

\* A member of a JSON object has another type.
Retype(name, other) ==
    /\ Delivered /\ fault = <<"none">>
    /\ data' = Js(data.j, [data.v EXCEPT ![name] = other])
    /\ fault' = <<"retyped", name>>
    /\ UNCHANGED <<sent, object, outcome>>

Damage(name) ==
    \/ Drop(name)
    \/ Retype(name, Bool(TRUE))
    \/ Retype(name, Obj([other |-> Num(1)]))

\* How decoding ended: with an exception, outside of the data, or with an object.
Ending(r) == IF r = THROW THEN "refused" ELSE IF r = ABORT THEN "aborted" ELSE "accepted"

\* An object whose decoding failed may be half filled, and is not used.
Receive(r) ==
    /\ object' = IF Fails(r) THEN NIL ELSE r
    /\ outcome' = Ending(r)
    /\ UNCHANGED <<sent, data, fault>>

DecodeMessage ==
    /\ Delivered
    /\ sent.format \in MessageFormats
    /\ \E memory \in Memory : Receive(MessageDecode(sent, data, memory))

MessageNext ==
    \/ EncodeMessage
    \/ sent.format = "amop" /\ Delivered /\ \E n \in 0..(Len(data) - 1) : Cut(n)
    \/ sent.format = "message" /\ Delivered /\ \E name \in DOMAIN data.v : Damage(name)
    \/ DecodeMessage

MessageSpec == Init /\ sent.format \in MessageFormats /\ [][MessageNext]_vars

-----------------------------------------------------------------------------

Untouched == fault = <<"none">> /\ outcome # "waiting"

TooLong(s) == s.format = "amop" /\ Len(s.value.topic) > TopicMaxLength

\* Every message is understood as it was meant (generateJson, toJson, encode and
\* fromJson, deserialize, decode), as far as its writer lets it through, but for an AMOP
\* message whose topic is too long: publish and broadcast send an empty payload, and no
\* subscriber takes it for a message.
MessageRoundTrip ==
    sent.format \in MessageFormats /\ Untouched =>
        IF TooLong(sent) THEN outcome = "refused"
        ELSE outcome = "accepted" /\ object = LetThrough(sent)

\* A block notification that toJson wrote names the node, as the comment in toJson
\* has it: {"blockNumber": 11, "group": "group", "nodeName": "node"}.
NodeNameWritten ==
    sent.format = "message" /\ sent.type = "blockNumber" /\ Untouched =>
        object.node = sent.value.node

\* The member of the object that a member of the message is read into.
ReadInto(name) ==
    CASE name = "nodeName" -> "node"
      [] name = "protocolVersion" -> "version"
      [] name = "groupInfoList" -> "groups"
      [] name = "groupBlockNumber" -> "numbers"
      [] OTHER -> name

\* Of an AMOP message that was cut only the end of the data is missing: no
\* other topic's callback is called with it (AMOPRequest::decode, OFFSET_CHECK).
TopicKept ==
    /\ object.version = sent.value.version /\ object.topic = sent.value.topic
    /\ IsPrefix(object.data, sent.value.data)

\* A message that is damaged is refused, or only what was damaged is lost: all
\* other members of a JSON message are read as they were meant (fromJson,
\* deserialize), and an AMOP request keeps its topic and the beginning of its data.
FaultStaysLocal ==
    outcome = "accepted" =>
        /\ sent.format = "message" /\ fault[1] \in {"dropped", "retyped"} =>
                \A f \in DOMAIN object :
                    f # ReadInto(fault[2]) => object[f] = LetThrough(sent)[f]
        /\ sent.format = "amop" /\ fault[1] = "cut" => TopicKept
=============================================================================

------------------------------ MODULE Messages ------------------------------
(***************************************************************************)
(* The messages between the SDK and the nodes: the JSON requests, answers  *)
(* and pushes of event/, ws/, rpc/ and multigroup/, and the AMOP request,  *)
(* which is binary.  JSON is read and written by jsoncpp (external); a     *)
(* message is its tree, with the names of members as strings.  An object   *)
(* is the record of what its class holds.                                  *)
(***************************************************************************)
EXTENDS JsonValue

CONSTANTS
    TopicMaxLength,    \* AMOPRequest::TOPIC_MAX_LENGTH
    ValidTopics        \* the topics of the length that validEventTopic asks for

ASSUME TopicAssumption == TopicMaxLength \in Nat /\ TopicMaxLength < Bytes(2)

EventLogTopicsMaxIndex == 4    \* EVENT_LOG_TOPICS_MAX_INDEX

Str(s) == Js("string", s)
Num(n) == Js("num", n)
Bool(b) == Js("boolean", IF b THEN 1 ELSE 0)
Arr(items) == Js("array", items)
Obj(members) == Js("obj", members)

\* asString, asInt64 and asBool convert what can be converted.
AsString(p) ==
    CASE p.j = "string" -> p.v
      [] p.j = "num" -> ToString(p.v)
      [] p.j = "boolean" -> IF p.v = 1 THEN "true" ELSE "false"
      [] p.j = "null" -> ""
      [] OTHER -> THROW
AsInt(p) ==
    CASE p.j \in {"num", "boolean"} -> p.v [] p.j = "null" -> 0 [] OTHER -> THROW
AsBool(p) ==
    CASE p.j \in {"num", "boolean"} -> p.v # 0 [] p.j = "null" -> FALSE [] OTHER -> THROW

\* A member that keeps a default, and one that has to be there; isMember
\* throws for what is no object.
Optional(p, name, default, F(_)) ==
    IF p.j \notin {"obj", "null"} THEN THROW
    ELSE IF name \notin DOMAIN p.v THEN default
    ELSE F(p.v[name])
Required(p, name, F(_)) == Optional(p, name, THROW, F)

\* What size() and operator[] give: nothing but an array has items, and the
\* members of an object are not to be had by their index.
Items(p) == IF p.j = "array" THEN p.v ELSE <<>>
Indexable(p) == p.j = "obj" => DOMAIN p.v = {}

\* The names as asString gives them.
Strings(items) == [i \in DOMAIN items |-> AsString(items[i])]

-----------------------------------------------------------------------------
(* EventSubParams: fromBlock, toBlock, addresses, and a set of topics for  *)
(* each position of the log.                                               *)

NewParams == [fromBlock |-> -1, toBlock |-> -1, addresses |-> {}, topics |-> <<>>]

\* Mutation: the positions before are lost.
AddTopicAlone(topics, index, topic) ==
    [i \in 1..(index + 1) |-> IF i = index + 1 THEN {topic} ELSE {}]

\* addTopic: m_topics.resize(_index + 1), which cuts what stands behind.
AddTopic(topics, index, topic) ==
    [i \in 1..(index + 1) |->
        (IF i <= Len(topics) THEN topics[i] ELSE {}) \cup (IF i = index + 1 THEN {topic} ELSE {})]

ParamsToJson(p, from) ==
    Obj([fromBlock |-> Num(from),
         toBlock |-> Num(p.toBlock),
         addresses |-> Arr(LET a == SetToSeq(p.addresses) IN [i \in DOMAIN a |-> Str(a[i])]),
         topics |-> Arr([i \in DOMAIN p.topics |->
            IF p.topics[i] = {} THEN Null
            ELSE Arr(LET t == SetToSeq(p.topics[i]) IN [k \in DOMAIN t |-> Str(t[k])])])])

\* The topics of a position: none for null, every item of an array, or a string.
Position(p) ==
    CASE p.j = "null" -> <<>> [] p.j = "array" -> Strings(p.v) [] OTHER -> <<AsString(p)>>

\* addTopic for one topic after the other, and for one position after the other.
AddTopics(topics, index, names) ==
    LET upTo[k \in 0..Len(names)] ==
            IF k = 0 THEN topics ELSE AddTopic(upTo[k - 1], index, names[k])
    IN  upTo[Len(names)]

AddPositions(topics, positions) ==
    LET upTo[i \in 0..Len(positions)] ==
            IF i = 0 THEN topics ELSE AddTopics(upTo[i - 1], i - 1, positions[i])
    IN  upTo[Len(positions)]

\* An exception leaves an object that is not used.
TopicsFromJson(topics, p) ==
    LET positions == [i \in DOMAIN Items(p) |-> Position(Items(p)[i])]
    IN  IF Indexable(p) /\ \A i \in DOMAIN positions : AllRead(positions[i])
        THEN AddPositions(topics, positions) ELSE THROW

AddressesFromJson(addresses, p) ==
    IF Indexable(p) /\ AllRead(Strings(Items(p)))
    THEN addresses \cup ToSet(Strings(Items(p))) ELSE THROW

\* Mutation: the last block is only looked for behind the first.
ParamsFromJsonNested(have, p) ==
    Whole([fromBlock |-> Optional(p, "fromBlock", have.fromBlock, AsInt),
           toBlock |-> IF "fromBlock" \notin DOMAIN p.v THEN have.toBlock
                       ELSE Optional(p, "toBlock", have.toBlock, AsInt),
           addresses |-> Optional(p, "addresses", have.addresses,
                                  LAMBDA q : AddressesFromJson(have.addresses, q)),
           topics |-> Optional(p, "topics", have.topics,
                               LAMBDA q : TopicsFromJson(have.topics, q))])

\* fromJson: every member is optional, and kept as it was when it is not there.
ParamsFromJson(have, p) ==
    Whole([fromBlock |-> Optional(p, "fromBlock", have.fromBlock, AsInt),
           toBlock |-> Optional(p, "toBlock", have.toBlock, AsInt),
           addresses |-> Optional(p, "addresses", have.addresses,
                                  LAMBDA q : AddressesFromJson(have.addresses, q)),
           topics |-> Optional(p, "topics", have.topics,
                               LAMBDA q : TopicsFromJson(have.topics, q))])

\* verifyParams.
VerifyParams(p) ==
    /\ Len(p.topics) <= EventLogTopicsMaxIndex
    /\ \A i \in DOMAIN p.topics : p.topics[i] \subseteq ValidTopics
    /\ "" \notin p.addresses
    /\ p.fromBlock > 0 /\ p.toBlock > 0 => p.fromBlock <= p.toBlock

-----------------------------------------------------------------------------
(* EventSubSubRequest, EventSubUnsubRequest and EventSubResponse.          *)

\* generateJson: a task that has seen blocks goes on with the next one.
SubscribeToJson(r) ==
    Obj([id |-> Str(r.id), group |-> Str(r.group),
         params |-> ParamsToJson(r.params,
                        IF r.current > 0 THEN r.current + 1 ELSE r.params.fromBlock)])

SubscribeFromJson(have, p) ==
    Whole([id |-> Required(p, "id", AsString),
           group |-> Required(p, "group", AsString),
           params |-> Required(p, "params", LAMBDA q : ParamsFromJson(NewParams, q)),
           current |-> have.current])

UnsubscribeToJson(r) == Obj([id |-> Str(r.id), group |-> Str(r.group)])
UnsubscribeFromJson(p) ==
    Whole([id |-> Required(p, "id", AsString), group |-> Required(p, "group", AsString)])

ResponseToJson(r) == Obj([id |-> Str(r.id), status |-> Num(r.status)])
ResponseFromJson(p) ==
    Whole([id |-> Required(p, "id", AsString), status |-> Required(p, "status", AsInt)])

-----------------------------------------------------------------------------
(* ChainNodeInfo and GroupInfo.  The ini config of a node is JSON, of      *)
(* which isWasm and smCryptoType are read; it travels as a string.         *)

IniConfig(wasm, sm) == [isWasm |-> wasm, smCryptoType |-> sm]

\* serialize: nodeID and microService are not written.
NodeToJson(n) ==
    Obj([name |-> Str(n.name), type |-> Num(n.type), iniConfig |-> Str(n.iniConfig),
         serviceInfo |->
            Arr(LET types == SetToSeq(DOMAIN n.services)
                IN  [i \in DOMAIN types |->
                        Obj([type |-> Num(types[i]), serviceName |-> Str(n.services[types[i]])])]),
         protocol |-> Obj([minSupportedVersion |-> Num(n.min), maxSupportedVersion |-> Num(n.max),
                           compatibilityVersion |-> Num(n.compatibility)])])

ServiceFromJson(p) ==
    <<Required(p, "type", AsInt), Required(p, "serviceName", AsString)>>

\* A service of the same type replaces the one before.
ServicesFromJson(p) ==
    IF \/ p.j # "array"
       \/ \E i \in DOMAIN p.v : p.v[i].j # "obj" \/ ~AllRead(ServiceFromJson(p.v[i]))
    THEN THROW
    ELSE LET ss == [i \in DOMAIN p.v |-> ServiceFromJson(p.v[i])]
         IN  [type \in {ss[i][1] : i \in DOMAIN ss} |->
                ss[SelectLastInSeq(ss, LAMBDA s : s[1] = type)][2]]

\* iniConfig has to be a string that holds an object with both flags.
IniFromJson(p, flag) ==
    IF p.j = "string" /\ {"isWasm", "smCryptoType"} \subseteq DOMAIN p.v THEN p.v[flag] ELSE THROW

\* deserialize and deserializeIniConfig.  m_compatibilityVersion has no initial
\* value: it is what stands in its memory.
NodeFromJson(p, memory) ==
    LET protocol == IF "protocol" \in DOMAIN p.v THEN p.v.protocol ELSE Null
    IN  IF p.j # "obj" THEN THROW
        ELSE Whole([name |-> Required(p, "name", AsString),
                    type |-> Required(p, "type", AsInt),
                    iniConfig |-> Required(p, "iniConfig", AsString),
                    wasm |-> Required(p, "iniConfig", LAMBDA q : IniFromJson(q, "isWasm")),
                    sm |-> Required(p, "iniConfig", LAMBDA q : IniFromJson(q, "smCryptoType")),
                    services |-> Required(p, "serviceInfo", ServicesFromJson),
                    nodeID |-> Optional(p, "nodeID", "", AsString),
                    microService |-> Optional(p, "microService", FALSE, AsBool),
                    min |-> Optional(protocol, "minSupportedVersion", 0, AsInt),
                    max |-> Optional(protocol, "maxSupportedVersion", 0, AsInt),
                    compatibility |-> Optional(protocol, "compatibilityVersion", memory, AsInt)])

GroupToJson(g) ==
    Obj([chainID |-> Str(g.chainID), groupID |-> Str(g.groupID), wasm |-> Bool(g.wasm),
         smCryptoType |-> Bool(g.sm), genesisConfig |-> Str(g.genesisConfig),
         iniConfig |-> Str(g.iniConfig),
         nodeList |-> Arr(LET names == SetToSeq(DOMAIN g.nodes)
                          IN  [i \in DOMAIN names |-> NodeToJson(g.nodes[names[i]])])])

\* wasm and smCryptoType of a group are those of the first node of the list.
GroupFlags(ns) == IF ns = <<>> THEN <<FALSE, FALSE>> ELSE <<Head(ns).wasm, Head(ns).sm>>

HasArray(p, name) == p.j = "obj" /\ name \in DOMAIN p.v /\ p.v[name].j = "array"

NodesFromJson(list, memory) == [i \in DOMAIN list |-> NodeFromJson(list[i], memory)]

\* appendNodeInfo keeps the first node of a name.
GroupFromJson(p, memory) ==
    LET ns == NodesFromJson(p.v.nodeList.v, memory)
    IN  IF ~HasArray(p, "nodeList") \/ ~AllRead(ns) THEN THROW
        ELSE Whole([chainID |-> Required(p, "chainID", AsString),
                    groupID |-> Required(p, "groupID", AsString),
                    genesisConfig |-> Optional(p, "genesisConfig", "", AsString),
                    iniConfig |-> Required(p, "iniConfig", AsString),
                    wasm |-> GroupFlags(ns)[1],
                    sm |-> GroupFlags(ns)[2],
                    nodes |-> AsMap([i \in DOMAIN ns |-> <<ns[i].name, ns[i]>>])])

-----------------------------------------------------------------------------
(* HandshakeResponse, BlockNumberInfo and JsonRpcRequest.                  *)

\* encode leaves the block numbers out; the nodes send them.
HandshakeToJson(h) ==
    Obj([protocolVersion |-> Num(h.version),
         groupInfoList |-> Arr([i \in DOMAIN h.groups |-> GroupToJson(h.groups[i])])])

\* As the nodes send it: "groupBlockNumber": [{"group0": 1}, {"group1": 2}].
NodeHandshake(h) ==
    Obj([protocolVersion |-> HandshakeToJson(h).v.protocolVersion,
         groupInfoList |-> HandshakeToJson(h).v.groupInfoList,
         groupBlockNumber |->
            Arr(LET gs == SetToSeq(DOMAIN h.numbers)
                IN  [i \in DOMAIN gs |-> Obj([g \in {gs[i]} |-> Num(h.numbers[g])])])])

ArrayMember(p, name) == IF HasArray(p, name) THEN p.v[name].v ELSE <<>>

\* The numbers of all the objects of the array; the last one of a group counts.
NumbersFromJson(ps) ==
    [g \in UNION {DOMAIN ps[i].v : i \in DOMAIN ps} |->
        AsInt(ps[SelectLastInSeq(ps, LAMBDA p : g \in DOMAIN p.v)].v[g])]

\* decode: the object is filled as the message is read.
HandshakeFromJson(p, memory) ==
    Whole([version |-> Required(p, "protocolVersion", AsInt),
           groups |-> Whole([i \in DOMAIN ArrayMember(p, "groupInfoList") |->
                            GroupFromJson(ArrayMember(p, "groupInfoList")[i], memory)]),
           numbers |-> Whole(NumbersFromJson(ArrayMember(p, "groupBlockNumber")))])

\* toJson: the block number is written as the name of the node.
BlockInfoToJson(b) ==
    Obj([group |-> Str(b.group), blockNumber |-> Num(b.blockNumber), nodeName |-> Num(b.blockNumber)])

\* As the nodes send it.
NodeBlockInfo(b) ==
    Obj([group |-> Str(b.group), blockNumber |-> Num(b.blockNumber), nodeName |-> Str(b.node)])

BlockInfoFromJson(p) ==
    Whole([blockNumber |-> Required(p, "blockNumber", AsInt),
           group |-> Required(p, "group", AsString),
           node |-> Required(p, "nodeName", AsString)])

RequestToJson(r) ==
    Obj([jsonrpc |-> Str(r.jsonrpc), method |-> Str(r.method), id |-> Num(r.id),
         params |-> r.params])

RequestFromJson(p) ==
    Whole([jsonrpc |-> Required(p, "jsonrpc", AsString),
           method |-> Required(p, "method", AsString),
           id |-> Optional(p, "id", 0, AsInt),
           params |-> Required(p, "params", LAMBDA q : IF q.j = "array" THEN q ELSE THROW)])

-----------------------------------------------------------------------------
(* AMOPRequest: a version of four bytes, the length of the topic in two,   *)
(* the topic, and the data up to the end.                                  *)

\* publish and broadcast send the buffer whatever encode returns, and encode
\* leaves it empty when the topic is too long.
AmopEncode(r) ==
    IF Len(r.topic) > TopicMaxLength THEN <<>>
    ELSE BigEndian(r.version, 4) \o BigEndian(Len(r.topic), 2) \o r.topic \o r.data

\* network_to_host_short and network_to_host_long of the bytes from i on.
NetworkShort(buf, i) == buf[i] * Bytes(1) + buf[i + 1]
NetworkLong(buf, i) ==
    ((buf[i] * Bytes(1) + buf[i + 1]) * Bytes(1) + buf[i + 2]) * Bytes(1) + buf[i + 3]

\* decode: OFFSET_CHECK before every part.  What it throws is not what decode
\* catches, so that -1 is only returned for less than MESSAGE_MIN_LENGTH.
AmopDecode(buf) ==
    LET topicLen == NetworkShort(buf, 5)
    IN  IF Len(buf) < 6 \/ 6 + topicLen > Len(buf) THEN THROW
        ELSE [version |-> NetworkLong(buf, 1),
              topic |-> SubSeq(buf, 7, 6 + topicLen),
              data |-> SubSeq(buf, 7 + topicLen, Len(buf))]
=============================================================================

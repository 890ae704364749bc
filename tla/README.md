# TLA+ models of bcos-cpp-sdk

bcos-cpp-sdk is the C++ client of a FISCO-BCOS chain. It keeps websocket
connections to several nodes and offers JSON-RPC calls, subscriptions to contract
events, the AMOP message service and block-number notifications over them. On top of
that it builds and signs transactions and encodes the calls of contracts. Its state
is a handful of maps and flags shared by the user's threads, a pool that handles
network messages (`thread_pool_size`, 8 by default) and a timer; around it stand
codecs that must undo each other on bytes of which some may be missing. The models are
about both: what holds of the shared state when handlers overlap, connections come
and go and answers are late or never come, and what survives a codec.

## 1. Inventory

| Part | State | Operations | Talks to |
|---|---|---|---|
| `event/EventSub` | `m_workingTasks`, `m_suspendTasks`, `m_suspendTasksCount`, `m_waitRespTasks`; session and block number of each task | start, stop, subscribe, unsubscribe, push handler, answer callback, `suspendTasks`, `doLoop` | sends through Service; called by message and disconnect handlers and the timer |
| `ws/Service`, connections | `m_handshakeSucCount`, protocol version of each session | start, wait for a handshake, stop, `onConnect`, handshake callback, `onRecvMessage`, `onDisconnect` | WsService (boostssl, outside the repository); calls every registered handler |
| `ws/Service`, routing | `m_group2Node2Endpoints`, `m_endPoint2GroupId2GroupInfo` | `updateGroupInfoByEp`, `clearGroupInfoByEp`, `onNotifyGroupInfo`, queries | read by JsonRpc, EventSub and the user |
| `ws/Service`, blocks | `m_group2BlockNumber`, `m_group2LatestBlockNumberNodes`, `m_group2callbacks` | `onRecvBlockNotifier`, `updateGroupBlockNumber`, `registerBlockNumberNotifier`, `removeBlockNumberInfo`, `getBlockLimit` | fed by block notifications and handshakes; read by JsonRpc and the transaction builder |
| `amop` | `m_topics`, `m_topic2Callback`, `m_callback` | subscribe, unsubscribe, `updateTopicsToRemote`, message handlers, publish, broadcast | sends to every session; called at the end of each handshake |
| `rpc` | none but `m_sendRequestToHighestBlockNode` and a counter of ids | one method per RPC call | chooses a node from the block maps and an endpoint from the routing maps |
| `utilities/tx`, building | the builder of a service, `m_hsmCryptoSuite` of each builder and its lock | `createSignedTransaction`, `sendTransaction`, `signTransactionDataHash` | takes the block limit from Service |
| `utilities/tx`, `receipt`, format | none | `writeTo`, `readFrom`, `writeToJson`, `readFromJson`, `hash` | the Tars streams and `tc_json` |
| `utilities/abi`, type objects | the methods and events of a contract | build from a declaration or a signature, encode, decode, look up | the user's JSON |
| `utilities/abi/solidity` | none | `abiIn`, `abiOut`, parsers of signatures and type names | the user |
| `utilities/abi/scale` | position in the buffer | an operator per type | the Liquid codec |
| messages of `event`, `ws`, `rpc`, `amop`, `multigroup` | the object that is read into | write, read, check | every component above |
| `utilities/TimeWindowRateLimiter` | `m_currentPermitsSize`, `m_lastPermitsUpdateTime` | acquire, tryAcquire, rollback | its callers and the clock |
| `SdkFactory`, `Sdk`, `Config` | none of their own | wire the handlers; read the configuration file | everything |
| `utilities/crypto` | none | keys, hashes, signatures | a cryptography library |

What is hard about this code:

- **Overlap.** The handlers of one session run on several threads. Most operations
  take a lock more than once (`updateGroupInfoByEp` three times,
  `onRecvBlockNotifier` up to three times), some steps take none
  (`setCurrentBlockNumber`, `setSession`, the read in `acquire`), and the suite for
  hardware keys is made under a double-checked lock.
- **Order.** Answers, pushes, disconnects and notifications of one session are
  handled in any order once the pool has more than one thread.
- **Failure and retry.** Requests fail, sessions are lost and come back, and the
  timer sends again what is not answered.
- **Stale choices.** A node is chosen from a copy of one map, checked against
  another and used when both may have changed; a block limit is used after the
  number it came from has moved.
- **Written twice.** The Solidity ABI has two codecs and three parsers of type names;
  SCALE, Tars and JSON each have a writer and a reader that must agree on limits,
  defaults and escapes, also when the other side is newer or the bytes end early.

`PROJECT.json` lists these hazards line by line with the properties aimed at them.

## 2. Modules

A component with state has a module, an `MC` module that instantiates it for TLC, and
a module of proofs (which extends the `MC` module where the run has two parts of which
the theorem is about one). A critical section, or an access outside any lock, is one step; a
handler with several of them is a job with a program counter. Variables and operators
have the names of the source. Logging and wording are left out. Operators commented
"Mutation" are faulty variants of the operator after them; no specification uses them,
they serve to test the properties.

### Shared state

**EventSub** (`event/EventSub.cpp`, `EventSubTask.h`, the resume rule of
`EventSubRequest.cpp`). A subscribe request is a record that goes through the
phases sent, accepted, bound (`setSession`), added (`addTask`) to its callback; a
push goes through received, found (`getTask`) and store (the second half of
`setCurrentBlockNumber`). `DoLoop` is one round of the timer, `OnDisconnect` is
`suspendTasks`, `GetTaskAndRemove` is shared by `unsubscribeEvent` and pushes that
end a subscription. The node is external: it pushes the blocks of a subscription in
order, with a cursor per session and task. A request for block -1, the default, begins
at the latest block, which the node chooses (`LatestBlocks`) and the history variable
`begun` keeps; without a `toBlock` (also -1) a subscription has no end.

**Subscription** is what EventSub promises its user, without messages, sessions and
threads: a subscription is created, accepted or refused, lost and asked for again by
one request at a time, and removed. `EventSub!IsSubscription` maps its `active` to the
working tasks, `lost` to the suspended ones and `open` to the tasks with a request
that may still be answered.

**Service** (`ws/Service.cpp`: lifecycle, handshake, routing). Messages become jobs
in a queue that threads take in order. `UpdateInfo`, `UpdateClear` and
`UpdateInsert` are the three sections of `updateGroupInfoByEp`; `OnDisconnect` is
`clearGroupInfoByEp`. `Start`, `WaitSucceeds`, `WaitTimesOut` and `Stop` are
`start()` with `waitForConnectionEstablish` and `stop()`. `Spec` lets any number of
threads work; `SingleSpec` is the same system with `OneHandler`, a pool of which one
thread works at a time.

**BlockNotifier** (`ws/Service.cpp`: block numbers, for one group).
`OnRecvBlockNotifier`, `UpdateNodes` and `CallCallbacks` are the three sections of
the handler; `HandshakeBlockNumber` is the number that a handshake answer carries.

**BlockNumber** is what BlockNotifier promises: a number that only grows until it is
forgotten. It is all that the building of transactions needs to know.

**Transactions** (`utilities/tx/TransactionBuilder*.cpp`,
`rpc/JsonRpcServiceImpl.cpp`) extends BlockNotifier: threads build transactions while
notifications are handled. A call takes the block limit, looks for the suite of its
key without the lock, locks, looks again, makes the suite (or throws), unlocks and
signs. There are two builders, of `TransactionBuilderService` and of
`JsonRpcServiceImpl`; they check different things, and the model keeps the difference.

**Amop** (`amop/AMOP.cpp`, `TopicManager.cpp`). A call of subscribe or unsubscribe,
or the handler of a handshake, changes the topics, collects the sessions, and then,
for each, reads the topics (`ReadTopics`) and sends them (`SendTopics`). `SerialSpec`
is the same with `OneCall`: calls and handlers that do not overlap.

**JsonRpc** (`rpc/JsonRpcImpl.cpp`, `JsonRpcServiceImpl.cpp`, the sending half of
`ws/Service.cpp`). A call chooses a node (`ReadLatestNodes`, `CheckNode` once per
node, `ChooseNode`), is routed (`AsyncSendMessageByGroupAndNode`), sent and
answered. `sendTransaction` of `JsonRpcServiceImpl` may also throw while it signs
(`SigningThrows`): the caller gets the exception, and the callback is not called. It is composed with the maps of Service and BlockNotifier in the loosest
way: they change between any two steps, by any single section of the handlers that
the other two modules describe. So what holds here does not depend on when those
handlers run.

**RateLimiter** (`utilities/TimeWindowRateLimiter.cpp`). `tryAcquire` and `rollback`
hold the mutex and are one step; `acquire` is a loop that tries, reads the clock,
reads the time of the window without the mutex, and sleeps. Differences of times are
unsigned words, as in the code. The history variable `total` keeps, for each time, what
had been granted before it, less what was rolled back; no operation reads it.

### The ABI

A value is a record that carries its type, as an object of the code does. A word has
`WordLen` bytes of `ByteSize` values (32 and 256 in the code), a type name is a
sequence of tokens, and a C++ exception is the value `THROW`.

- **AbiType** (`ContractABIType.h`, `ContractABIDefinitionFactory.cpp`,
  `ContractABIMethodDefinition.*`): the classes of type objects, their clearing and
  cloning, the parser of type names and the factory, whose helper is consumed
  extent by extent.
- **AbiCodec** (`ContractABICodec.cpp`, `ContractABITypeCodec.cpp`): JSON into an
  object and back, the Solidity codec with its heads, tails and offsets, and the
  Liquid codec.
- **AbiTemplate** (`solidity/`): the codec written with templates, and its parsers. A
  number stands for a C++ value of the types that the codec has an overload for, `u256`
  and `s256`.
- **AbiContract** (`ContractABIDefinition.cpp`, the operations of
  `ContractABICodec.cpp`): the methods and events of a contract and the ways to look
  them up. Its actions encode parameters, cut the bytes and decode them.

### Bytes and messages

A byte has `ByteBits` bits, so that TLC's integers hold one of eight bytes; the limits
of the codecs are numbers of bytes and scale with it.

- **ByteStream**: numbers as bytes, and the outcome of reading. **JsonValue**: a JSON
  value as a tree, without its text.
- **Scale** (`abi/scale`): the operators `<<` and `>>` of a type are a record of its
  values, of what is written for each of them (or THROW) and of what is read from every
  state of the decoder stream. The operators of a template are made from those of its
  arguments, as in the code; `Codec` tabulates them for all types up to `MaxDepth`
  templates inside each other, a recursive function over the depth, so that the proof
  system can follow it.
- **Tars** (`tars/tup/Tars.h`), **JsonText** (`tars/util/tc_json.cpp`), **TarsJson**
  (`tars/tup/TarsJson.h`): each type with its writer and its reader, errors included.
- **TxFormat** (`Transaction.h`, `TransactionReceipt.h`): the members of the structs,
  which are left out at their default, which are required, and what is hashed.
- **Messages** (`EventSub*`, `HandshakeResponse`, `BlockNumberInfo`, `JsonRpcRequest`,
  the group and node infos, `AMOPRequest`): as trees of members; jsoncpp is external.
  The loops of `addTopic` and `fromJson` over positions and topics are recursive
  functions. `AMOP::publish` and `broadcast` do not look at what `encode` returns, so that
  a topic that is too long becomes an empty payload.
- **MessageWire** is the state machine of one message: it is encoded, a JSON message
  loses a member or gets one of another type, an AMOP request is cut, and it is decoded
  into an object that already has a value. `Proper...` are the objects that the code
  builds and sends: sets and maps are finite, a node stands under its own name, the last
  position of topics is not empty. `serialize` writes neither the `nodeID` nor the
  `microService` of a node, so a node that is sent has none.
  Handshakes and block notifications are written twice over: by the node (external,
  "nodeHandshake" and "nodeBlockNumber"), which is what the client receives, and by
  `encode` and `toJson` of the repository ("handshake" and "blockNumber").
  `LetThrough` is what a writer leaves of the object it is given.
- **ScaleWire** adds, over the same variables, a SCALE value that is encoded, cut and
  decoded; `ScaleSpec` has nothing else. Decoding ends "refused" (with an exception) or
  "aborted" (an iterator of the `gsl::span` was moved behind its end, which ends the
  program or, without the checks of the library, reads past the span);
  `CheckedTypes` are the types of which every byte is read after `hasMore`.
- **Wire** adds the other formats: Tars, Tars JSON and JSON text are cut, written by a
  newer version, stripped of a member or given a member of another type. `MessageNext` and
  `ScaleNext` are the parts of `Wire!Next` about messages and SCALE; they have modules of
  their own because the proof system accepts no recursive operators, and those of the
  other formats are recursive.

## 3. Runs

| Run | Instance | Distinct states | Shows |
|---|---|---|---|
| `eventsub_safe` | 1 task from the latest block (the default) to block 1, 2 successive sessions of an endpoint, blocks 0..1, 2 pushes in flight | 963,330 | tables, counter, requests, sessions and resume point stay consistent; EventSub implements Subscription |
| `eventsub_live` | the same, from block 1, 1 block, 1 push, with start and stop | 252,166 | a suspended task does not stay suspended |
| `transactions` | 2 nodes, 2 handlers, blocks 0..1, 1 removal; 2 threads, 2 hardware keys of different libraries and a software key, 2 calls | 556,595 | numbers are reported once and only grow; limits are fresh, the suite is made once, every call ends |
| `service` | 2 threads, 2 sessions of an endpoint, 2 starts; or one handler, 3 sessions of 2 endpoints, 2 nodes, of which one endpoint knows both | 1,683,446 | nothing empty or unhandshaken is routed to; with one handler idle maps are exact |
| `amop` | 2 topics, 2 sessions, 2 threads; 2 calls that overlap, or 3 that do not | 1,411,688 | every greeted node is told of every topic; without overlap it holds exactly the topics |
| `rpc` | 1 call, 2 nodes, 2 endpoints | 40,264 | one answer per call, and in the end one, or the exception of a failed signature and none; the node chosen was reachable |
| `ratelimiter` | 2 threads, 2 permits, window of 2, times 0..4, 4 calls of 1..3 permits | 472,002 | windows are not overdrawn, bursts and sleeps are bounded |
| `abi` | every kind of type alone and before a string, lists, arrays, tuples and lists of them, overloads, events, a constructor; up to 2 elements | 21,323 | the codecs keep values, notice cuts, find the right method and agree |
| `wire` | values at the limits of every encoding, every cut, 19 unknown members, every member missing or retyped | 29,620 | what is read is what the writer let through, whole members are lost, or the message is refused |
| `eventsub_unsubscribed`, `service_stale`, `abi_nested` | see section 5 | | violations |

**Properties.**

- EventSub: `SuspendCountExact` (the counter that `doLoop` tests without the lock),
  `WaitRespExact` (retries never pile up and never stop for a forgotten id),
  `SessionMatchesTable` (what `unsubscribeEvent` concludes from a null session),
  `RemovedForGood`, `NoSkippedBlock` (a request that names a block passes no block that
  was not pushed since the subscription began), `IsSubscription`, `SuspendedResumes`.
- BlockNotifier and Transactions: `NotifiedOnce`, `SomeHighestNode`, `IsBlockNumber`,
  `SuiteMadeOnce`, `LimitIsFresh` (not older than the call, and missing only where
  `sendTransaction` ignores that no number is known), `SignedForGroup`, `CallsEnd`.
- Service: `EntryMeansEndPoint`, `HandshakeFirst`, `OneHandlerMapsExact`. Amop:
  `EveryTopicTold`, `SerialTopicsExact`. JsonRpc: `AnsweredOnce` (once when the call was
  answered, never when its signing threw), `ChosenWasReachable`, `EveryCallAnswered`.
  RateLimiter: `WindowBounded`, `BurstBounded`, `NoOversleep`.
- ABI: `RoundTrip` (also into an object that is used again), `CutIsNoticed`,
  `RightMethod`, `EncodesSupported`, `JsonReadsBack`, `CodecsAgree` (bytes of the two
  codecs, dimensions of the three parsers), `OtherCodecsRoundTrip`.
- Wire: `TarsRoundTrip` (members of a newer writer are skipped), `JsonKeepsHash` (also of
  a document with a damaged member: it is refused, or that member alone gets its default),
  `TextRoundTrip`, `CutNeverMisread` (of Tars bytes and JSON text); of ScaleWire
  `ScaleRoundTrip` and `ScaleCutRefused` (bytes that were cut are never taken for a value,
  and refused with an exception if the type is one of `CheckedTypes`); of MessageWire
  `MessageRoundTrip` (what is read is what `LetThrough` says) and `FaultStaysLocal` (a
  member that is missing or of another type costs that member or the message, nothing
  else, and an AMOP request that was cut is refused or keeps its topic and the beginning
  of its data).

**Bounds and why they are enough.** `MaxPushes`, `MaxQueue`, `MaxCalls`, `MaxTxs`,
`MaxStarts`, `MaxRemovals`, `MaxBlock` (in EventSub the last block of the chain) and
`MaxTime` bound what the environment may do; no operation of the client is cut short by them. Two sessions of one endpoint
are what a reconnect needs, and a second endpoint what sharing a node needs. Two
threads are enough for an interleaving of two handlers, and each property names at
most two. Block 0 is included since the resume rule treats it apart; a subscription with
no end is covered by the theorems only. The clock of
`ratelimiter` runs over two window boundaries, and `WordSize` is larger than the
times, as 2^64 is. Tasks of EventSub share only the counter and the timer round; for
many tasks the theorems of section 4 stand in for a larger run.

Three runs are of two parts, chosen in the initial state by the variable `part` of the
MC module, because the two questions need different instances: `service` ("pool" and
"single"), `amop` ("threads" and "serial") and `transactions` ("notifier", where the
handlers run without signers, and "signing", where the block number moves in the steps
of BlockNotifier that touch it, but nothing else of the notifier does). For the last
one `TransactionsProofs` proves the safety properties of the full composition.

In `abi`, words of two bytes of 16 values still tell an offset from a length, padding
from content, and the three ranges of a signed number apart; a selector has one byte.
In `wire`, bytes of three bits keep integers of one, two, four and eight bytes, the
compact forms (which change at 2, 16 and 1024), short and long strings and heads with
extended tags, and put a value on each side of each limit; `MaxDepth = 4` is the depth of
the deepest type sent, a tuple of three. The hash is the identity on
what is hashed, so that `JsonKeepsHash` asks for equal input. These two runs enumerate
inputs of one pass through the codecs; the object that is decoded into is the only
state that is carried over.

`eventsub_*` and `service*` runs do not check deadlock, because sessions are used up
in a finite instance and the client may rest when all are closed; `ratelimiter`
rests when its clock and calls are used up, `abi` and `wire` when the value has
arrived. The other runs check deadlock.

**Fairness.** `SuspendedResumes` is asked only of behaviours in which the timer stays
armed and some session is up from some time on. It assumes that the timer keeps
firing and then finds a session for the tasks (`doLoop` restarts its timer first
thing); that the websocket layer ends every request (by an answer, the loss of the
session or the message timeout of the configuration); and that a node that is asked
over and over accepts at some time, and that its acceptance is at some time handled
(strong fairness: it may refuse any finite number of times). Nothing is assumed of the
user, of connections or of pushes. `EveryCallAnswered` assumes that a call goes on in
its thread and that a request ends: answered, failed with its session, or timed out by
the layer (`message_timeout_ms`, set at `Config.cpp:98`; the request itself is sent with
empty `Options`, `SdkFactory.cpp:145`). `CallsEnd` assumes that a thread inside a call
goes on (weak fairness of its steps) and that one that waits for `x_hsmCryptoSuite` gets
it at some time if it is free again and again (strong fairness of the lock).

## 4. Theorems

All hold for every number of tasks, sessions, nodes, threads, keys and so on; the
assumptions on constants are the named `ASSUME`s of the modules.

| Theorem | States |
|---|---|
| `EventSubProofs!TablesCorrect` | `TypeOK` and `SuspendCountExact` |
| `EventSubProofs!RequestsCorrect` | `WaitRespExact`, `OneSubscribeAtATime`, `SessionMatchesTable` |
| `EventSubProofs!RemovedStaysRemoved` | `RemovedForGood` |
| `EventSubProofs!ResumeSkipsNothing` | `NoSkippedBlock` |
| `EventSubProofs!ClientIsSubscription` | `IsSubscription`: EventSub implements Subscription |
| `TransactionsProofs!NotifierSafe` | `TypeOK`, `NotifiedOnce`, `SomeHighestNode` |
| `TransactionsProofs!BlockLimitMonotone` | `BlockLimitNeverFalls` |
| `TransactionsProofs!NotifierIsBlockNumber` | `IsBlockNumber`: BlockNotifier implements BlockNumber |
| `TransactionsProofs!LatestNodesExact` | `LatestNodesAreHighest`, if `Workers = 1` and no handshake carries a number |
| `TransactionsProofs!TransactionsSafe` | `TxTypeOK`, `LimitIsFresh`, `SignedForGroup` |
| `TransactionsProofs!SuiteIsMadeOnce` | `SuiteMadeOnce` |
| `TransactionsProofs!TransactionsKeepBlockNumber` | `IsBlockNumber` of the composition |
| `ServiceProofs!RoutingSafe` | `TypeOK`, `EntryMeansEndPoint`, `HandshakeFirst` |
| `ServiceProofs!OneHandlerExact` | `RoutesAreLive` and `MapsAgree`, of `SingleSpec` |
| `ServiceProofs!OneHandlerPartExact` | `OneHandlerMapsExact`, of the specification of run `service` |
| `AmopProofs!TopicsReachNodes` | `TypeOK`, `EveryTopicTold` |
| `AmopProofs!SerialCallsExact` | `NodesAgree` and `NothingLost`, of `SerialSpec` |
| `AmopProofs!SerialPartExact` | `SerialTopicsExact`, of the specification of run `amop` |
| `JsonRpcProofs!CallsSafe` | `TypeOK`, `AnsweredOnce`, `ChosenWasReachable` |
| `RateLimiterProofs!WindowSafe` | `TypeOK`, `WindowBounded` |
| `RateLimiterProofs!SleepsAtMostAWindow` | `NoOversleep` |
| `RateLimiterProofs!BurstsBounded` | `BurstBounded` |
| `MessageWireProofs!MessagesKept` | `MessageRoundTrip` and `FaultStaysLocal`, of `MessageSpec` |
| `ScaleProofs!ScaleKept` | `ScaleRoundTrip`, of `ScaleSpec` |
| `ScaleProofs!ScaleCut` | `ScaleCutRefused`, of `ScaleSpec` |

The inductive invariants and why they are needed:

- EventSub has three layers. `Tables` is inductive by itself. `RequestInv` adds what
  keeps requests apart: a first request belongs to a task that no table holds yet, a
  task with an open request is not working, and a request in phase "bound" agrees with
  the session of its task. Without the last part, a disconnect between `setSession`
  and `addTask` would break `SessionMatchesTable`. `RemovedInv` strengthens
  `RemovedForGood` with "and no request is open". `ArrivedInv` carries the claim about
  blocks through all places a block number lives in: the cursor of the node, pushes in
  flight, the task and open requests. It counts from `begun`, where the node last began
  the subscription, which only grows: a request for the latest block begins at one that no
  push has passed (`LatestBlocks`). The refinement rests on `RequestInv`: that a task
  has one open request at a time is what makes an answer a single `Accept`.
- BlockNotifier: `NotifyInv` says that new numbers on their way to callbacks are
  distinct, at most the number kept, and not yet delivered; `HighestInv` that a
  highest node is known or some handler is about to insert one. `SingleInv` is the
  stronger form for a single handler.
- Transactions: `LockInv` (the lock is held by exactly the thread inside its section)
  makes the second look at the suite count; `CallInv` says what a call knows of the
  suite at each step and that its key was checked; `TimeInv` carries the freshness of
  the limit from the step that took it to the signature. The notifier is used through
  `NumberStep` of the refinement only: its steps learn a higher number, forget it, or
  leave it alone.
- JsonRpc: `TypeOK`, `AnsweredOnce` and, of each call, `Sound`: while it chooses, the
  nodes it has found reachable had an endpoint at some time of the choice, and the name
  it is sent with is one of them or none. A call ends by its callback (`Answers`) or by the
  exception of the signature (`Throws`), which leaves it without one.
- Service: `JobsInv` (a job past its first check belongs to a session with a version)
  with `NoEmptyEntry` and the maps restricted to greeted endpoints. For one handler at a
  time `SingleInv` adds three things. `QueueInv` and `RunInv`: a handler of a session is
  in the queue before the disconnect of the session, never after it. `AliveInv`: an
  endpoint that is routed to has a session that is up, or a disconnect that is still to be
  handled, so when the queue is empty it is up. `ExactInv` and `UpdatingInv`: the two maps
  agree on every endpoint and group but the one whose update is under way, and of that one
  the infos are new already and, before the last section, its routes are gone. The proof
  shows where two handlers break it: with two, the disconnect may be handled while an
  update stands between its sections, which is the violation `service_stale`.
- Amop: `ToldInv` (each topic was told, or some thread will still tell it, `WillTell`).
  For calls that do not overlap `SerialInv` says that a node was told the topics as they
  are or the call that runs will tell it (`ViewInv`), that a payload on its way is the set
  of topics (`PayloadInv`: false with two threads), and that a topic without a callback is
  one the running call is about to keep a callback for, so that no node has heard of it
  yet (`CallbackInv`, `HandledInv`).
- RateLimiter: `TypeOK /\ WindowBounded` is inductive. `BurstInv` is about a stretch of
  time that may lie across the border of two windows. It splits the stretch at the
  beginning of the open window: what was taken since any time of the open window, with
  what is left of it, is at most one window (`OpenWindow`), what was taken in a stretch
  before it is at most one (`LastWindow`), and nothing is taken from a window that is over
  (`OverWindow`). Differences of `total` stand for sums, so that no induction is needed.
- MessageWire: `MessageInv` says that what travels is what was encoded, with just the
  damage that `fault` names (`Travels`), and that the receiver holds what decoding made of
  it (`Answered`). The two properties then follow from one lemma per message
  (`ParamsRead`, `SubscribeRead`, `GroupRead`, `HandshakeRead`, `AmopRead`, ...), each for
  any damaged member: the message is refused, or every member but that one is read as
  `LetThrough` says, which is what was written wherever the writer writes it. The hard ones are the loops: that `addTopic`, called for every topic of
  every position in order, rebuilds the vector although it resizes it on each call, that
  sets and maps written as arrays are read back whatever their order, and that the bytes
  of an AMOP request stand where `decode` looks for them, also when some are missing. The
  loops need induction; the proofs do it without the library's schemes, by the least
  number that fails (`Least`, `Inductive`).
- ScaleWire: `Sound` says of a pair of operators that what `<<` appends, wherever it
  stands in a span, is read by `>>` as the value it was written for, up to its last byte
  (`Holds`), and that reading fails if the span ends inside of it (`Breaks`). It is about
  every position of every span, because the operators of a template go on where those of
  an argument stopped. There is a lemma per type and per template (`IntSound`,
  `CompactSound`, `OptionalSound`, `VectorSound`, `MapSound`, `VariantSound`, ...): if the
  operators of the arguments are sound, so are those made of them. The loops over items
  go by induction over the number of items; of a map the lemma shows besides that walking
  it in the order of its keys visits each pair once, so that `emplace` drops none.
  `CodecSound` is the induction over the depth of a type. `ScaleInv` then carries one value
  through the steps: what travels is what was written or the beginning of it
  (`OnTheWay`), and the receiver holds what reading made of it (`Received`).
  `Breaks` tells that a cut value is not read, not how reading ends. For that, `ScaleCut`
  has a second line of lemmas: an operator is `Guarded` if on any bytes at all it ends with
  an exception or at a position, never outside of the span. The operators over `nextByte`
  are, the templates hand it on (`TemplatesGuarded`), and `CheckedGuarded` is the induction
  over the depth of the types that have neither `u256` nor a vector of bytes in them.

The assumptions of these proofs: `LimiterConstants` and the like give constants their
types; `BlockRange` allows a block or -1, the latest, as either end of a subscription.
`OutcomesAssumption` says that the values for failures are none of the values read, nor
the empty sequence; `PowersAssumption` states the first powers of the byte size (the
provers know nothing of `^`), which TLC evaluates for the size of the run;
`TopicAssumption` that the longest topic has a length of two bytes.
`ScalePowersAssumption` says the same of powers up to the longest number that SCALE
writes, and that the limits of a compact integer are a quarter of a power;
`ScaleAssumption` that a word has at least one byte. The messages sent are `Proper`
(`CasesAssumption`; the text that jsoncpp makes of a block number is a string), the
SCALE values have a type that both streams have operators for (`ScaleCasesAssumption`: a
variant has different alternatives, a map numbers for keys), and no value is a failure.
Both hold of every case of run `wire`. `ScaleKept` is about every depth, every type of
it and every value, not about those that the run sends.

Only model-checked: the liveness properties `SuspendedResumes`, `EveryCallAnswered` and
`CallsEnd` (fairness is out of the prover's reach), and the codecs of the ABI, Tars, Tars
JSON and JSON text. Their operators are recursive (over types, values or text), and the
proof system can neither expand such operators nor do induction over the values they take
apart. SCALE could be written as a table by depth, since its templates use nothing but
the operators of their arguments. The heads and tails of the ABI, and the members of Tars,
which are skipped by what the stream says and not by what the type says, have not been
put into such a form. For them the runs `abi` and `wire` check every value of an instance with
each type, each limit and each cut.

## 5. Where the code does not do what its text says

Three runs expect a violation, each of a statement found in the repository.

- `eventsub_unsubscribed`: a task that is unsubscribed while its subscribe request is
  open is in no table yet; the answer puts it into the working tasks afterwards
  (`EventSub.cpp:400`), against `EventSubTest.cpp:209`.
- `service_stale`: a group notification inserts its endpoint after the disconnect of
  the endpoint was handled, and the closed endpoint stays in the routing map
  (`Service.cpp:427-440`), against the comment at `Service.cpp:167`.
- `abi_nested`: the members of a fixed list are built with one helper, and building a
  member that is a list removes extents from it, so the second member has another type
  (`ContractABIDefinitionFactory.cpp:461`) than the comment at line 415 says.

The modules state further properties of this kind. TLC refutes each when it replaces
the properties of the cfg given:

| Property | Instance | Counterexample |
|---|---|---|
| `NoTaskOnClosedSession` | `EventSub_unsubscribed.cfg` | the answer of a subscribe request is handled after the disconnect of its session; the task works on a closed session and is never suspended |
| `DiscardOnlyWhenRemoved` | `EventSub_unsubscribed.cfg` | the first push is handled before `addTask`; it is thrown away and the task never sees it |
| `BlockNumberMonotone` | the same, `ToBlock = 2`, `MaxBlock = 2`, `MaxPushes = 2` | two pushes interleave in `setCurrentBlockNumber` and the number falls |
| `ContinuesAfterDisconnect` | `EventSub_safe.cfg` | as long as no block above 0 was seen, a request asks for `fromBlock` again (`EventSubRequest.cpp:137`), by default -1, the latest block (`EventSubParams.h:70`): a subscription that lost its connection before its first push begins again at a later block and the blocks in between are never pushed, against the comment at `EventSub.cpp:319` |
| `RunningHasTimer` | `EventSub_unsubscribed.cfg`, `SPECIFICATION Spec` | `start()` throws after it set `m_running` (`EventSub.cpp:52`); every later `start()` returns at once, without a timer |
| `LatestNodesAreHighest` | `Transactions.cfg` | a handshake raises the number and leaves the nodes of the lower one (`Service.cpp:269`), against `Config.cpp:88` |
| `LatestNodesAreHighest` | the same, `HandshakeNodes = {}`, `CHECK_DEADLOCK FALSE` | the handler of a lower block records its node after the handler of a higher one: number and nodes are two sections (`Service.cpp:737-751`) |
| `StartWaits` | `Service_stale.cfg`, `MaxStarts = 2` | a second `start()` returns without any handshake: `stop()` does not reset the count |
| `NodesAgree` | `Amop.cfg` | two calls send their topic lists in the other order than they read them |
| `NodeNameWritten` | `Wire.cfg` | `BlockNumberInfo::toJson` writes the block number as `nodeName` (`BlockNumberInfo.cpp:37`), against its comment at line 32; nobody in the repository reads what it wrote, notifications come from nodes |
| `BuilderIsNeverNull` | `Transactions.cfg` | a `TransactionBuilderService` made without a builder has a null one (`TransactionBuilderService.cpp:51` asks the wrong way round) |

`NoSkippedBlock` and `DiscardOnlyWhenRemoved` belong together: a resumed subscription
never asks to start after a block the node did not push, but a block that was pushed
and thrown away counts as pushed. `NoSkippedBlock` counts from where the node last began
the subscription, so what a request for the latest block passes over is no part of it;
that is `ContinuesAfterDisconnect`. The race of `BlockNumberMonotone` only lowers the
block a subscription resumes from: blocks are pushed twice, none is passed.

What the properties leave out on purpose, because the code does it differently:

- ABI. A method built from a signature has parameters without names, so a JSON object
  is accepted and ignored (`RightMethod` asks for names). `bytesN` below `T[]` cannot be
  cloned. The template codec counts every member of a tuple as one word and treats every
  tuple as dynamic, so tuples are not part of `CodecsAgree`, and a tuple with an array in
  its head is not part of `OtherCodecsRoundTrip`; it also decodes signed words from
  0x80... to 0x8f... as positive. A list that was decoded empty has lost the type of its
  members. The Liquid codec decodes only booleans and fixed bytes. `getEventByTopic`
  compares the 8 digits of a method ID (`ContractABIDefinition.cpp:167`), so
  `decodeEventByTopic` is modelled with that ID; it refuses the topic of 32 bytes that a
  node puts into a log, and `getEventTopicAsString`, which nothing calls, is cut to 8
  digits too. The generic `serialise` of the template codec
  (`solidity/ContractABICodec.h:258`) writes nothing for `uint8_t` and `uint32_t`, which
  pass its check of types; the models know its overloads only. `abiOutByFuncSelector`
  reads `int`, `int256`, `uint`, `uint256`, `address` and `string`, no other width.
- SCALE. `compactLen` leaves out the byte that says how long a number of 2^30 or more is.
  A vector of bytes (`ScaleDecoderStream.h:247`) and a `u256`
  (`ScaleDecoderStream.cpp:152`) are copied without `hasMore`: when the buffer ends inside
  of one nothing is refused, the iterators leave the span, on which GSL 2.0
  (`cmake/config.cmake:14`) ends the program unless its checks are switched off. That is
  the outcome "aborted", which `ScaleCutRefused` allows for types that have one of the two
  in them, and for no other.
- Messages. `HandshakeResponse::encode` leaves out `groupBlockNumber`, which `decode` reads
  (`HandshakeResponse.cpp:103-116`), and `BlockNumberInfo::toJson` the name of the node.
  `LetThrough` says so, and `MessageRoundTrip` asks for the rest. That a message is refused
  by -1, by `false` or by an exception out of the handler is one outcome.
- JSON-RPC. When the signature of a transaction throws (`JsonRpcServiceImpl.cpp:49`) the
  exception leaves `sendTransaction` and the callback is never called: `AnsweredOnce` asks
  for none, and `EveryCallAnswered` takes the call for ended.
- JSON of receipts. The topics of a log are read into a vector that was resized first
  (`TransactionReceipt.h:59`), so that there are twice as many, empty ones first; the hash
  does not notice, since it takes the topics one after the other. `JsonKeepsHash`, not
  equality, is therefore what is asked.
- Block limit. `sendTransaction` ignores that no block number is known
  (`JsonRpcServiceImpl.cpp:46`) and signs with limit 0; `LimitIsFresh` allows just that.
  `m_hsmCryptoSuite` keeps the library of the first key that needed it, whatever key
  is used later (`TransactionBuilder.cpp:150`).
- `EventSubParams::addTopic` drops topics of higher indexes (`EventSubParams.h:53`).
  `fromJson` adds them in the order of their positions, where none is dropped; a user who
  calls it in another order loses topics, and no property is about that.
  `AMOPRequest::decode` throws `std::runtime_error` where a `std::string` is caught.
  `publish` and `broadcast` ignore that `encode` refused a topic of more than 65535 bytes
  and send an empty payload; `MessageRoundTrip` asks that no receiver takes it for a message.

## 6. Not modelled, and why

- The websocket layer, the timer and the node are outside the repository and modelled
  from how it uses them: a request ends exactly once, the disconnect handler of a
  session runs once, an endpoint has one live session at a time.
- AMOP `publish`, `broadcast` and `sendResponse` keep no state in the client; their
  message is part of Messages.
- Tars: `MapBufferReader` and the writers over strings and vectors differ from the modelled
  ones in where bytes are kept; `readUnknown` and `writeUnknown` are called by no struct of
  the SDK; the displayer prints; `TC_JsonWriteOstream` repeats the
  writer of `tc_json` for streams. `tc_common` and the other vendored helpers of Tars
  hold nothing that the client uses.
- Floating-point numbers are opaque: their bytes are copied, which is what the streams do.
- Keys and signatures are calls into a cryptography library; a hash is an injective
  function. `RateReporter`: counters that are only printed. `Config`: file input.
- Callbacks of the user are assumed not to call back into the client. The callbacks of
  block numbers run with a lock held (`Service.cpp:761`), so one that registers another
  callback would wait for itself. `doLoop` restarts its timer before it does anything else
  (`EventSub.cpp:81`); that a round overlaps `stop()` is not modelled.

## 7. Plan

Done: the shared state (EventSub, Service, BlockNotifier, Amop, JsonRpc, RateLimiter,
Transactions), two abstract specifications with their refinements, the ABI codecs and
the formats of all messages, with the proofs of section 4: every safety property of the
shared state, of the messages and of SCALE that a run checks is also a theorem. Open:

1. The head of a Tars field and the words of the ABI (numbers, offsets, padding) need no
   recursion: split from the recursive operators, as MessageWire was from Wire, they can
   be proved to be read as they were written.
2. The violated properties of section 5 with the condition under which they hold
   (`NoTaskOnClosedSession` and `DiscardOnlyWhenRemoved` with one thread), as
   `OneHandlerExact` does for the routing maps.
3. A module that composes Service and JsonRpc, to find out which of the routing
   properties survive with the real handlers in between.

------------------------------- MODULE JsonRpc -------------------------------
(***************************************************************************)
(* rpc/JsonRpcImpl and the way of a request through ws/Service: the choice *)
(* of a node of the highest block (randomGetHighestBlockNumberNode), the   *)
(* choice of an endpoint (asyncSendMessageByGroupAndNode), and the answer. *)
(*                                                                         *)
(* Each section of a lock is a step.  The maps of the service, which its   *)
(* handlers change in between, are those of one group: module Service and  *)
(* module BlockNotifier model how, here they may change at any time.       *)
(***************************************************************************)
EXTENDS Integers

CONSTANTS Calls,       \* the calls of the user
          Nodes,       \* the nodes of the group
          EndPoints,   \* the endpoints the client connects to
          ToHighest,   \* m_sendRequestToHighestBlockNode
          None         \* the empty node name

ASSUME RpcConstants == ToHighest \in BOOLEAN /\ None \notin Nodes

VARIABLES
    m_group2Node2Endpoints,           \* of the group; {}: the node has no entry
    m_group2LatestBlockNumberNodes,   \* of the group; {}: the group has no entry
    sessions,                         \* the endpoints with a session
    call,                             \* what each call does
    answers                           \* how often its _respFunc was called

maps == <<m_group2Node2Endpoints, m_group2LatestBlockNumberNodes>>
vars == <<maps, sessions, call, answers>>

-----------------------------------------------------------------------------
\* The methods differ in what they hand to m_sender:
\*   "node"   the group and the node, chosen when the user names none;
\*   "fixed"  the group and the node the user names, or none;
\*   "any"    neither group nor node;
\*   "tx"     sendTransaction: the node is chosen, and neither is handed on.
Methods == {"node", "fixed", "any", "tx"}

\* reach is history: nodes with an endpoint at some time of the choice.
CallState ==
    [pc : {"idle", "highest", "check", "send", "routed", "waiting",
           "failing", "done", "threw"},
     method : Methods, name : Nodes \cup {None}, todo : SUBSET Nodes,
     nodes : SUBSET Nodes, reach : SUBSET Nodes,
     endPoint : EndPoints \cup {None}]

NewCall ==
    [pc |-> "idle", method |-> "any", name |-> None, todo |-> {}, nodes |-> {},
     reach |-> {}, endPoint |-> None]

Init ==
    /\ m_group2Node2Endpoints = [n \in Nodes |-> {}]
    /\ m_group2LatestBlockNumberNodes = {}
    /\ sessions = {}
    /\ call = [c \in Calls |-> NewCall]
    /\ answers = [c \in Calls |-> 0]

HasEndPoint(n) == m_group2Node2Endpoints[n] # {}

Reachable == {n \in Nodes : HasEndPoint(n)}

Become(c, state) == call' = [call EXCEPT ![c] = state]

\* The call ends with its callback.
RespFunc(c) ==
    /\ Become(c, [NewCall EXCEPT !.pc = "done"])
    /\ answers' = [answers EXCEPT ![c] = @ + 1]

-----------------------------------------------------------------------------
(* JsonRpcImpl: the calls.                                                 *)

\* A call of a method that has no node to choose.
Start(c, method, nodeName) ==
    /\ call[c].pc = "idle"
    /\ Become(c, [NewCall EXCEPT !.pc = "send", !.method = method,
                                 !.name = nodeName])
    /\ UNCHANGED <<maps, sessions, answers>>

\* A call of a method that chooses a node when the user names none.
StartChoosing(c, method, nodeName) ==
    IF ToHighest /\ nodeName = None
    THEN /\ call[c].pc = "idle"
         /\ Become(c, [NewCall EXCEPT !.pc = "highest", !.method = method,
                                      !.reach = Reachable])
         /\ UNCHANGED <<maps, sessions, answers>>
    ELSE Start(c, method, nodeName)

\* call, and the queries of transactions, blocks and code.
QueryLedger(c, nodeName) == StartChoosing(c, "node", nodeName)

\* The queries of consensus, synchronisation and system settings.
QueryConsensus(c, nodeName) == StartChoosing(c, "node", nodeName)

SendTransaction(c, nodeName) == StartChoosing(c, "tx", nodeName)

\* The three forms of genericMethod.
GenericMethod(c, nodeName) ==
    \/ Start(c, "any", None)
    \/ Start(c, "fixed", None)
    \/ StartChoosing(c, "node", nodeName)

GetGroupNodeInfo(c, nodeName) == Start(c, "fixed", nodeName)

\* getPeers, getGroupPeers, getGroupList and getGroupInfoList.
GetPeers(c) == Start(c, "any", None)

\* getGroupInfo answers from the cache of the service, at once.
GetGroupInfo(c) ==
    /\ call[c].pc = "idle"
    /\ RespFunc(c)
    /\ UNCHANGED <<maps, sessions>>

\* Mutation: the callback gets the exception, and the caller gets it too.
SigningThrowsTwice(c) ==
    /\ Become(c, [NewCall EXCEPT !.pc = "threw"])
    /\ answers' = [answers EXCEPT ![c] = @ + 1]

\* createSignedTransaction throws, for one when the crypto library cannot sign:
\* the caller gets the exception, and the callback is not called.
SigningThrows(c) ==
    /\ Become(c, [NewCall EXCEPT !.pc = "threw"])
    /\ UNCHANGED answers

\* JsonRpcServiceImpl::sendTransaction: without information on the group the
\* callback gets an error, otherwise the transaction is signed and sent.
SignAndSend(c, nodeName) ==
    \/ /\ call[c].pc = "idle"
       /\ RespFunc(c) \/ SigningThrows(c)
       /\ UNCHANGED <<maps, sessions>>
    \/ SendTransaction(c, nodeName)

\* getHighestBlockNumberNodes, first section: the nodes of the highest block.
ReadLatestNodes(c) ==
    /\ call[c].pc = "highest"
    /\ Become(c, [call[c] EXCEPT !.pc = "check", !.todo = m_group2LatestBlockNumberNodes])
    /\ UNCHANGED <<maps, sessions, answers>>

\* Mutation: nodes without endpoint are candidates too.
CandidateAnyway(n) == TRUE

\* hasEndPointOfNodeAvailable.
HasEndPointOfNodeAvailable(n) == HasEndPoint(n)

\* getHighestBlockNumberNodes: one node, in a section of the other lock.
CheckNode(c, n) ==
    /\ call[c].pc = "check" /\ n \in call[c].todo
    /\ Become(c, [call[c] EXCEPT
                     !.todo = @ \ {n},
                     !.nodes = IF HasEndPointOfNodeAvailable(n) THEN @ \cup {n} ELSE @])
    /\ UNCHANGED <<maps, sessions, answers>>

\* randomGetHighestBlockNumberNode: any candidate, or none.
ChooseNode(c, n) ==
    /\ call[c].pc = "check" /\ call[c].todo = {}
    /\ n \in IF call[c].nodes = {} THEN {None} ELSE call[c].nodes
    /\ Become(c, [call[c] EXCEPT !.pc = "send", !.name = n, !.nodes = {}])
    /\ UNCHANGED <<maps, sessions, answers>>

-----------------------------------------------------------------------------
(* Service: asyncSendMessageByGroupAndNode.                                *)

\* The endpoints a request may be sent to.
EndPointsFor(method, name) ==
    IF method \in {"any", "tx"} THEN sessions
    ELSE IF name = None THEN UNION {m_group2Node2Endpoints[n] : n \in Nodes}
    ELSE m_group2Node2Endpoints[name]

\* Mutation: a request without endpoint is dropped.
NoEndPointSilent(c) ==
    /\ EndPointsFor(call[c].method, call[c].name) = {}
    /\ Become(c, [call[c] EXCEPT !.pc = "done"])
    /\ UNCHANGED answers

\* Mutation: a request without endpoint waits for one.
NoEndPointWaits(c) ==
    /\ EndPointsFor(call[c].method, call[c].name) = {}
    /\ UNCHANGED <<call, answers>>

\* Without endpoint the callback gets an error at once.
NoEndPoint(c) ==
    /\ EndPointsFor(call[c].method, call[c].name) = {}
    /\ RespFunc(c)

AsyncSendMessageByGroupAndNode(c) ==
    /\ call[c].pc = "send"
    /\ \/ NoEndPoint(c)
       \/ \E ep \in EndPointsFor(call[c].method, call[c].name) :
             /\ Become(c, [call[c] EXCEPT !.pc = "routed", !.endPoint = ep])
             /\ UNCHANGED answers
    /\ UNCHANGED <<maps, sessions>>

\* External: asyncSendMessageByEndPoint, without session an error.
AsyncSendMessageByEndPoint(c) ==
    /\ call[c].pc = "routed"
    /\ IF call[c].endPoint \in sessions
       THEN /\ Become(c, [call[c] EXCEPT !.pc = "waiting"])
            /\ UNCHANGED answers
       ELSE RespFunc(c)
    /\ UNCHANGED <<maps, sessions>>

\* The callback that buildJsonRpc hands to the service calls _respFunc: with
\* the answer of the node, or the error of a lost session or a timeout.
Respond(c) ==
    /\ call[c].pc \in {"waiting", "failing"}
    /\ RespFunc(c)
    /\ UNCHANGED <<maps, sessions>>

-----------------------------------------------------------------------------
(* What the service's handlers and the network do in between.              *)

\* Calls that are choosing a node see which nodes have an endpoint.
Observe(calls) ==
    [c \in Calls |->
        IF calls[c].pc \in {"highest", "check"}
        THEN [calls[c] EXCEPT
                 !.reach = @ \cup {n \in Nodes : m_group2Node2Endpoints'[n] # {}}]
        ELSE calls[c]]

\* updateGroupInfoByEp, last section.
UpdateGroupInfoByEp(ep, nodes) ==
    /\ m_group2Node2Endpoints' =
          [n \in Nodes |-> m_group2Node2Endpoints[n] \cup IF n \in nodes THEN {ep} ELSE {}]
    /\ call' = Observe(call)
    /\ UNCHANGED <<m_group2LatestBlockNumberNodes, sessions, answers>>

\* clearGroupInfoByEp, of an update or of a disconnect.
ClearGroupInfoByEp(ep) ==
    /\ m_group2Node2Endpoints' = [n \in Nodes |-> m_group2Node2Endpoints[n] \ {ep}]
    /\ UNCHANGED <<m_group2LatestBlockNumberNodes, sessions, call, answers>>

\* onRecvBlockNotifier: a node of a new block, or one more of the same.
LatestNode(n, isNewBlock) ==
    /\ m_group2LatestBlockNumberNodes' =
          {n} \cup IF isNewBlock THEN {} ELSE m_group2LatestBlockNumberNodes
    /\ UNCHANGED <<m_group2Node2Endpoints, sessions, call, answers>>

\* External: a session of the endpoint is established.
Connect(ep) ==
    /\ sessions' = sessions \cup {ep}
    /\ UNCHANGED <<maps, call, answers>>

\* External: the session is lost, with it the requests that wait on it.
Disconnect(ep) ==
    /\ ep \in sessions
    /\ sessions' = sessions \ {ep}
    /\ call' = [c \in Calls |->
                   IF call[c].pc = "waiting" /\ call[c].endPoint = ep
                   THEN [call[c] EXCEPT !.pc = "failing"] ELSE call[c]]
    /\ UNCHANGED <<maps, answers>>

-----------------------------------------------------------------------------
UserCalls(c) ==
    \/ \E n \in Nodes \cup {None} :
          \/ QueryLedger(c, n) \/ QueryConsensus(c, n) \/ GenericMethod(c, n)
          \/ SendTransaction(c, n) \/ SignAndSend(c, n) \/ GetGroupNodeInfo(c, n)
    \/ GetPeers(c) \/ GetGroupInfo(c)

Step(c) ==
    \/ ReadLatestNodes(c)
    \/ \E n \in Nodes : CheckNode(c, n)
    \/ \E n \in Nodes \cup {None} : ChooseNode(c, n)
    \/ AsyncSendMessageByGroupAndNode(c) \/ AsyncSendMessageByEndPoint(c)
    \/ Respond(c)

Service ==
    \/ \E ep \in EndPoints, nodes \in SUBSET Nodes : UpdateGroupInfoByEp(ep, nodes)
    \/ \E ep \in EndPoints : ClearGroupInfoByEp(ep) \/ Connect(ep) \/ Disconnect(ep)
    \/ \E n \in Nodes, isNewBlock \in BOOLEAN : LatestNode(n, isNewBlock)

Next == Service \/ \E c \in Calls : UserCalls(c) \/ Step(c)

Spec == Init /\ [][Next]_vars

\* A thread that runs a call goes on with it, and a request ends: the node
\* answers, the session is lost, or the time for a message is over.
Fairness == \A c \in Calls : WF_vars(Step(c))

-----------------------------------------------------------------------------
(* Properties.                                                             *)

TypeOK ==
    /\ m_group2Node2Endpoints \in [Nodes -> SUBSET EndPoints]
    /\ m_group2LatestBlockNumberNodes \subseteq Nodes
    /\ sessions \subseteq EndPoints
    /\ call \in [Calls -> CallState]
    /\ answers \in [Calls -> Nat]

\* A call ends with its callback, called once whichever of the error paths of
\* the way it takes, or, when the signing of its transaction throws, with the
\* exception and without its callback: never with both, and never with neither.
AnsweredOnce ==
    \A c \in Calls : answers[c] = IF call[c].pc = "done" THEN 1 ELSE 0

\* The node that is chosen for a call had an endpoint at some time of the
\* choice, although it is chosen from nodes that were read before.
ChosenWasReachable ==
    \A c \in Calls :
        /\ call[c].nodes \subseteq call[c].reach
        /\ call[c].pc = "send" /\ call[c].reach # {} =>
              call[c].name \in call[c].reach \cup {None}

\* Every call ends, however the maps and the sessions change: it is answered,
\* or it threw before anything was sent.
EveryCallAnswered ==
    \A c \in Calls : call[c].pc # "idle" ~> call[c].pc \in {"done", "threw"}
=============================================================================

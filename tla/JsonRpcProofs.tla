---------------------------- MODULE JsonRpcProofs ----------------------------
(***************************************************************************)
(* Proofs about JsonRpc, for any number of calls, nodes and endpoints: a   *)
(* call ends with its callback, called once, or with an exception and no   *)
(* callback, and the node chosen for it was reachable.                     *)
(***************************************************************************)
EXTENDS JsonRpc, TLAPS

\* What makes the state of a call safe to go on from: while a node is chosen,
\* reach has every node that has an endpoint now, so that a candidate that
\* passed the check is in it, whatever happens to the maps afterwards.
Sound(s) ==
    /\ s \in CallState
    /\ s.nodes \subseteq s.reach
    /\ s.pc \in {"highest", "check"} => Reachable \subseteq s.reach
    /\ s.pc = "send" /\ s.reach # {} => s.name \in s.reach \cup {None}

Inv == TypeOK /\ AnsweredOnce /\ \A c \in Calls : Sound(call[c])

Answered(s) == IF s.pc = "done" THEN 1 ELSE 0

\* The step of a thread that changes its own call only.
Moves(c, s) ==
    /\ Become(c, s)
    /\ answers' = [answers EXCEPT ![c] = Answered(s)]
    /\ UNCHANGED <<maps, sessions>>

\* A new call, and a call that ended in either way, are sound.
LEMMA NewSound ==
    /\ Sound(NewCall)
    /\ Sound([NewCall EXCEPT !.pc = "done"])
    /\ Sound([NewCall EXCEPT !.pc = "threw"])
BY DEF Sound, NewCall, CallState, Methods

LEMMA InitInv == Init => Inv
<1> SUFFICES ASSUME Init PROVE Inv
  OBVIOUS
<1>1. \A c \in Calls : call[c] = NewCall
  BY DEF Init
<1>2. TypeOK
  BY NewSound DEF Init, TypeOK, Sound
<1>3. AnsweredOnce
  BY <1>1 DEF Init, AnsweredOnce, NewCall
<1> QED
  BY <1>1, <1>2, <1>3, NewSound DEF Inv

\* A call that moves to a sound state keeps the invariant.
LEMMA MovesInv ==
    ASSUME Inv, NEW c \in Calls, NEW s, Sound(s), Moves(c, s)
    PROVE  Inv'
<1>1. /\ call' = [call EXCEPT ![c] = s]
      /\ answers' = [answers EXCEPT ![c] = Answered(s)]
      /\ UNCHANGED <<m_group2Node2Endpoints, m_group2LatestBlockNumberNodes, sessions>>
  BY DEF Moves, Become, maps
<1>2. call \in [Calls -> CallState] /\ answers \in [Calls -> Nat]
  BY DEF Inv, TypeOK
<1>3. s \in CallState
  BY DEF Sound
<1>4. TypeOK'
  BY <1>1, <1>2, <1>3 DEF Inv, TypeOK, Answered
<1>5. AnsweredOnce'
  BY <1>1, <1>2 DEF Inv, AnsweredOnce, Answered
<1>6. Reachable' = Reachable
  BY <1>1 DEF Reachable, HasEndPoint
<1>7. ASSUME NEW d \in Calls PROVE Sound(call[d])'
  <2>1. Sound(call'[d])
    BY <1>1, <1>2 DEF Inv
  <2> QED
    BY <2>1, <1>6 DEF Sound
<1> QED
  BY <1>4, <1>5, <1>7 DEF Inv

\* A call that is not answered moves without an answer.
LEMMA MovesSilently ==
    ASSUME Inv, NEW c \in Calls, NEW s, call[c].pc # "done", s.pc # "done",
           Become(c, s), UNCHANGED <<maps, sessions, answers>>
    PROVE  Moves(c, s)
<1>1. answers \in [Calls -> Nat] /\ answers[c] = 0
  BY DEF Inv, TypeOK, AnsweredOnce
<1>2. answers = [answers EXCEPT ![c] = 0]
  BY <1>1
<1> QED
  BY <1>2 DEF Moves, Answered

LEMMA Answers ==
    ASSUME Inv, NEW c \in Calls, call[c].pc # "done",
           RespFunc(c), UNCHANGED <<maps, sessions>>
    PROVE  Inv'
<1> DEFINE s == [NewCall EXCEPT !.pc = "done"]
<1>1. answers[c] = 0
  BY DEF Inv, AnsweredOnce
<1>2. s.pc = "done"
  BY DEF NewCall
<1>3. Moves(c, s)
  BY <1>1, <1>2 DEF Moves, RespFunc, Answered
<1> QED
  BY <1>3, NewSound, MovesInv

LEMMA Throws ==
    ASSUME Inv, NEW c \in Calls, call[c].pc = "idle",
           SigningThrows(c), UNCHANGED <<maps, sessions>>
    PROVE  Inv'
<1> DEFINE s == [NewCall EXCEPT !.pc = "threw"]
<1>1. s.pc # "done" /\ call[c].pc # "done"
  BY DEF NewCall
<1>2. Moves(c, s)
  BY <1>1, MovesSilently DEF SigningThrows
<1> QED
  BY <1>2, NewSound, MovesInv

-----------------------------------------------------------------------------
(* The calls of the user.                                                  *)

LEMMA StartInv ==
    ASSUME Inv, NEW c \in Calls, NEW method \in Methods,
           NEW nodeName \in Nodes \cup {None}, Start(c, method, nodeName)
    PROVE  Inv'
<1> DEFINE s == [NewCall EXCEPT !.pc = "send", !.method = method, !.name = nodeName]
<1>1. Sound(s) /\ s.pc # "done"
  BY DEF Sound, NewCall, CallState, Methods
<1>2. Moves(c, s)
  BY <1>1, MovesSilently DEF Start
<1> QED
  BY <1>1, <1>2, MovesInv

LEMMA StartChoosingInv ==
    ASSUME Inv, NEW c \in Calls, NEW method \in Methods,
           NEW nodeName \in Nodes \cup {None}, StartChoosing(c, method, nodeName)
    PROVE  Inv'
<1>1. CASE ToHighest /\ nodeName = None
  <2> DEFINE s == [NewCall EXCEPT !.pc = "highest", !.method = method, !.reach = Reachable]
  <2>1. Reachable \subseteq Nodes
    BY DEF Reachable
  <2>2. Sound(s) /\ s.pc # "done"
    BY <2>1 DEF Sound, NewCall, CallState, Methods
  <2>3. Moves(c, s)
    BY <1>1, <2>2, MovesSilently DEF StartChoosing
  <2> QED
    BY <2>2, <2>3, MovesInv
<1>2. CASE ~(ToHighest /\ nodeName = None)
  BY <1>2, StartInv DEF StartChoosing
<1> QED
  BY <1>1, <1>2

LEMMA UserInv ==
    ASSUME Inv, NEW c \in Calls, UserCalls(c)
    PROVE  Inv'
<1>1. ASSUME NEW n \in Nodes \cup {None}, QueryLedger(c, n) PROVE Inv'
  BY <1>1, StartChoosingInv DEF QueryLedger, Methods
<1>2. ASSUME NEW n \in Nodes \cup {None}, QueryConsensus(c, n) PROVE Inv'
  BY <1>2, StartChoosingInv DEF QueryConsensus, Methods
<1>3. ASSUME NEW n \in Nodes \cup {None}, GenericMethod(c, n) PROVE Inv'
  BY <1>3, StartInv, StartChoosingInv DEF GenericMethod, Methods
<1>4. ASSUME NEW n \in Nodes \cup {None}, SendTransaction(c, n) PROVE Inv'
  BY <1>4, StartChoosingInv DEF SendTransaction, Methods
<1>5. ASSUME call[c].pc = "idle", RespFunc(c), UNCHANGED <<maps, sessions>> PROVE Inv'
  BY <1>5, Answers
<1>6. ASSUME NEW n \in Nodes \cup {None}, SignAndSend(c, n) PROVE Inv'
  BY <1>4, <1>5, <1>6, Throws DEF SignAndSend
<1>7. ASSUME NEW n \in Nodes \cup {None}, GetGroupNodeInfo(c, n) PROVE Inv'
  BY <1>7, StartInv DEF GetGroupNodeInfo, Methods
<1>8. CASE GetPeers(c)
  BY <1>8, StartInv DEF GetPeers, Methods
<1>9. CASE GetGroupInfo(c)
  BY <1>5, <1>9 DEF GetGroupInfo
<1> QED
  BY <1>1, <1>2, <1>3, <1>4, <1>6, <1>7, <1>8, <1>9 DEF UserCalls

-----------------------------------------------------------------------------
(* The steps of a call.                                                    *)

LEMMA ReadLatestNodesInv ==
    ASSUME Inv, NEW c \in Calls, ReadLatestNodes(c)
    PROVE  Inv'
<1> DEFINE s == [call[c] EXCEPT !.pc = "check", !.todo = m_group2LatestBlockNumberNodes]
<1>1. Sound(call[c]) /\ m_group2LatestBlockNumberNodes \subseteq Nodes /\ call[c].pc = "highest"
  BY DEF Inv, TypeOK, ReadLatestNodes
<1>2. Sound(s) /\ s.pc # "done"
  BY <1>1 DEF Sound, CallState
<1>3. Moves(c, s)
  BY <1>1, <1>2, MovesSilently DEF ReadLatestNodes
<1> QED
  BY <1>2, <1>3, MovesInv

LEMMA CheckNodeInv ==
    ASSUME Inv, NEW c \in Calls, NEW n \in Nodes, CheckNode(c, n)
    PROVE  Inv'
<1> DEFINE s == [call[c] EXCEPT
                    !.todo = @ \ {n},
                    !.nodes = IF HasEndPointOfNodeAvailable(n) THEN @ \cup {n} ELSE @]
<1>1. Sound(call[c]) /\ call[c].pc = "check"
  BY DEF Inv, CheckNode
<1>2. HasEndPointOfNodeAvailable(n) => n \in Reachable
  BY DEF HasEndPointOfNodeAvailable, Reachable
<1>3. Sound(s) /\ s.pc # "done"
  BY <1>1, <1>2 DEF Sound, CallState
<1>4. Moves(c, s)
  BY <1>1, <1>3, MovesSilently DEF CheckNode
<1> QED
  BY <1>3, <1>4, MovesInv

LEMMA ChooseNodeInv ==
    ASSUME Inv, NEW c \in Calls, NEW n \in Nodes \cup {None}, ChooseNode(c, n)
    PROVE  Inv'
<1> DEFINE s == [call[c] EXCEPT !.pc = "send", !.name = n, !.nodes = {}]
<1>1. Sound(call[c]) /\ call[c].pc = "check"
  BY DEF Inv, ChooseNode
<1>2. n \in call[c].nodes \cup {None}
  BY DEF ChooseNode
<1>3. Sound(s) /\ s.pc # "done"
  BY <1>1, <1>2 DEF Sound, CallState
<1>4. Moves(c, s)
  BY <1>1, <1>3, MovesSilently DEF ChooseNode
<1> QED
  BY <1>3, <1>4, MovesInv

\* A request is only handed to endpoints of the client.
LEMMA EndPointsForType ==
    ASSUME Inv, NEW c \in Calls
    PROVE  EndPointsFor(call[c].method, call[c].name) \subseteq EndPoints
<1>1. call[c] \in CallState
  BY DEF Inv, Sound
<1>2. call[c].name \in Nodes \cup {None}
  BY <1>1 DEF CallState
<1> QED
  BY <1>2 DEF Inv, TypeOK, EndPointsFor

LEMMA RouteInv ==
    ASSUME Inv, NEW c \in Calls, AsyncSendMessageByGroupAndNode(c)
    PROVE  Inv'
<1>1. Sound(call[c]) /\ call[c].pc = "send"
  BY DEF Inv, AsyncSendMessageByGroupAndNode
<1>2. CASE NoEndPoint(c)
  BY <1>1, <1>2, Answers DEF NoEndPoint, AsyncSendMessageByGroupAndNode
<1>3. ASSUME NEW ep \in EndPointsFor(call[c].method, call[c].name),
             Become(c, [call[c] EXCEPT !.pc = "routed", !.endPoint = ep]),
             UNCHANGED answers
      PROVE  Inv'
  <2> DEFINE s == [call[c] EXCEPT !.pc = "routed", !.endPoint = ep]
  <2>1. ep \in EndPoints
    BY EndPointsForType
  <2>2. Sound(s) /\ s.pc # "done"
    BY <1>1, <2>1 DEF Sound, CallState
  <2>3. Moves(c, s)
    BY <1>1, <1>3, <2>2, MovesSilently DEF AsyncSendMessageByGroupAndNode
  <2> QED
    BY <2>2, <2>3, MovesInv
<1> QED
  BY <1>2, <1>3 DEF AsyncSendMessageByGroupAndNode

LEMMA SendInv ==
    ASSUME Inv, NEW c \in Calls, AsyncSendMessageByEndPoint(c)
    PROVE  Inv'
<1> DEFINE s == [call[c] EXCEPT !.pc = "waiting"]
<1>1. Sound(call[c]) /\ call[c].pc = "routed"
  BY DEF Inv, AsyncSendMessageByEndPoint
<1>2. Sound(s) /\ s.pc # "done"
  BY <1>1 DEF Sound, CallState
<1>3. CASE call[c].endPoint \in sessions
  <2>1. Moves(c, s)
    BY <1>1, <1>2, <1>3, MovesSilently DEF AsyncSendMessageByEndPoint
  <2> QED
    BY <1>2, <2>1, MovesInv
<1>4. CASE call[c].endPoint \notin sessions
  BY <1>1, <1>4, Answers DEF AsyncSendMessageByEndPoint
<1> QED
  BY <1>3, <1>4

LEMMA RespondInv ==
    ASSUME Inv, NEW c \in Calls, Respond(c)
    PROVE  Inv'
BY Answers DEF Respond

-----------------------------------------------------------------------------
(* What the service and the network do in between.                         *)

LEMMA UpdateInv ==
    ASSUME Inv, NEW ep \in EndPoints, NEW nodes \in SUBSET Nodes,
           UpdateGroupInfoByEp(ep, nodes)
    PROVE  Inv'
<1> USE DEF UpdateGroupInfoByEp
<1>1. m_group2Node2Endpoints' \in [Nodes -> SUBSET EndPoints]
  BY DEF Inv, TypeOK
<1>2. Reachable' \subseteq Nodes
  BY DEF Reachable
<1>3. ASSUME NEW c \in Calls
      PROVE  /\ call'[c].pc = call[c].pc
             /\ Sound(call[c])'
  <2>1. Sound(call[c])
    BY DEF Inv
  <2>2. CASE call[c].pc \in {"highest", "check"}
    <3>1. call'[c] = [call[c] EXCEPT !.reach = @ \cup Reachable']
      BY <2>2 DEF Observe, Reachable, HasEndPoint
    <3> QED
      BY <1>2, <2>1, <2>2, <3>1 DEF Sound, CallState
  <2>3. CASE call[c].pc \notin {"highest", "check"}
    <3>1. call'[c] = call[c]
      BY <2>3 DEF Observe
    <3> QED
      BY <2>1, <2>3, <3>1 DEF Sound
  <2> QED
    BY <2>2, <2>3
<1>4. call' \in [Calls -> CallState]
  <2>1. call' = [c \in Calls |-> call'[c]]
    BY DEF Observe
  <2> QED
    BY <1>3, <2>1 DEF Sound
<1>5. TypeOK'
  BY <1>1, <1>4 DEF Inv, TypeOK
<1>6. AnsweredOnce'
  BY <1>3 DEF Inv, AnsweredOnce
<1> QED
  BY <1>3, <1>5, <1>6 DEF Inv

LEMMA ClearInv ==
    ASSUME Inv, NEW ep \in EndPoints, ClearGroupInfoByEp(ep)
    PROVE  Inv'
<1> USE DEF ClearGroupInfoByEp
<1>1. TypeOK' /\ AnsweredOnce'
  BY DEF Inv, TypeOK, AnsweredOnce
<1>2. Reachable' \subseteq Reachable
  BY DEF Reachable, HasEndPoint
<1>3. \A c \in Calls : Sound(call[c])'
  BY <1>2 DEF Inv, Sound
<1> QED
  BY <1>1, <1>3 DEF Inv

LEMMA LatestNodeInv ==
    ASSUME Inv, NEW n \in Nodes, NEW isNewBlock \in BOOLEAN, LatestNode(n, isNewBlock)
    PROVE  Inv'
<1> USE DEF LatestNode
<1>1. TypeOK' /\ AnsweredOnce'
  BY DEF Inv, TypeOK, AnsweredOnce
<1>2. Reachable' = Reachable
  BY DEF Reachable, HasEndPoint
<1>3. \A c \in Calls : Sound(call[c])'
  BY <1>2 DEF Inv, Sound
<1> QED
  BY <1>1, <1>3 DEF Inv

LEMMA ConnectInv ==
    ASSUME Inv, NEW ep \in EndPoints, Connect(ep)
    PROVE  Inv'
<1> USE DEF Connect, maps
<1>1. TypeOK' /\ AnsweredOnce'
  BY DEF Inv, TypeOK, AnsweredOnce
<1>2. Reachable' = Reachable
  BY DEF Reachable, HasEndPoint
<1>3. \A c \in Calls : Sound(call[c])'
  BY <1>2 DEF Inv, Sound
<1> QED
  BY <1>1, <1>3 DEF Inv

LEMMA DisconnectInv ==
    ASSUME Inv, NEW ep \in EndPoints, Disconnect(ep)
    PROVE  Inv'
<1> USE DEF Disconnect, maps
<1>1. Reachable' = Reachable
  BY DEF Reachable, HasEndPoint
<1>2. ASSUME NEW c \in Calls
      PROVE  /\ call'[c].pc = "done" <=> call[c].pc = "done"
             /\ Sound(call[c])'
  <2>1. Sound(call[c])
    BY DEF Inv
  <2>2. CASE call'[c] = call[c]
    BY <1>1, <2>1, <2>2 DEF Sound
  <2>3. CASE call[c].pc = "waiting" /\ call'[c] = [call[c] EXCEPT !.pc = "failing"]
    BY <1>1, <2>1, <2>3 DEF Sound, CallState
  <2> QED
    BY <2>2, <2>3
<1>3. call' \in [Calls -> CallState]
  <2>1. call' = [c \in Calls |-> call'[c]]
    OBVIOUS
  <2> QED
    BY <1>2, <2>1 DEF Sound
<1>4. TypeOK'
  BY <1>3 DEF Inv, TypeOK
<1>5. AnsweredOnce'
  BY <1>2 DEF Inv, AnsweredOnce
<1> QED
  BY <1>2, <1>4, <1>5 DEF Inv

-----------------------------------------------------------------------------

LEMMA StepInv == Inv /\ [Next]_vars => Inv'
<1> SUFFICES ASSUME Inv, [Next]_vars PROVE Inv'
  OBVIOUS
<1>1. CASE UNCHANGED vars
  <2>1. Reachable' = Reachable
    BY <1>1 DEF vars, maps, Reachable, HasEndPoint
  <2>2. TypeOK' /\ AnsweredOnce'
    BY <1>1 DEF vars, maps, Inv, TypeOK, AnsweredOnce
  <2>3. \A c \in Calls : Sound(call[c])'
    BY <1>1, <2>1 DEF vars, Inv, Sound
  <2> QED
    BY <2>2, <2>3 DEF Inv
<1>2. CASE Service
  BY <1>2, UpdateInv, ClearInv, ConnectInv, DisconnectInv, LatestNodeInv DEF Service
<1>3. ASSUME NEW c \in Calls, Step(c) PROVE Inv'
  BY <1>3, ReadLatestNodesInv, CheckNodeInv, ChooseNodeInv, RouteInv, SendInv, RespondInv
     DEF Step
<1> QED
  BY <1>1, <1>2, <1>3, UserInv DEF Next

\* The callback of a call is called once, at its end, on every path but one: a
\* call whose signing throws ends with the exception and without its callback.
\* The node chosen for a call had an endpoint at some time of the choice.  Both
\* hold however the handlers of the service change the maps meanwhile.
THEOREM CallsSafe == Spec => [](TypeOK /\ AnsweredOnce /\ ChosenWasReachable)
<1>1. Inv => TypeOK /\ AnsweredOnce /\ ChosenWasReachable
  BY DEF Inv, Sound, ChosenWasReachable
<1> QED
  BY <1>1, InitInv, StepInv, PTL DEF Spec

=============================================================================

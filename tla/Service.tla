------------------------------- MODULE Service -------------------------------
(***************************************************************************)
(* Connections, handshakes and group routing of Service (bcos-cpp-sdk/ws). *)
(*                                                                         *)
(* Every connection starts with a handshake; its answer and the group      *)
(* notifications that follow say which nodes of which groups the endpoint  *)
(* reaches, and a disconnect takes the endpoint out of the maps again.     *)
(* Handlers are jobs of a thread pool, started in the order of arrival;    *)
(* updateGroupInfoByEp is three critical sections of x_endPointLock, so a  *)
(* job is a small program with one step per section.                       *)
(*                                                                         *)
(* The websocket layer (WsService, WsSession) is external: it delivers     *)
(* what arrives on a session, in order, to the pool's queue, and queues    *)
(* the disconnect handler when the session is dropped.                     *)
(***************************************************************************)
EXTENDS Integers, Sequences, FiniteSets

CONSTANTS
    Sessions,    \* connections; a session object is one connection
    EndPointOf,  \* [Sessions -> endpoints]
    Groups, Nodes,
    Threads,     \* threads of the pool
    MaxQueue,    \* bound: jobs waiting for a thread
    MaxStarts    \* bound: calls of start()

ASSUME SessionsFinite == IsFiniteSet(Sessions)
ASSUME EndPointOfType == EndPointOf \in [Sessions -> {EndPointOf[s] : s \in Sessions}]
ASSUME BoundsAreNatural == MaxQueue \in Nat /\ MaxStarts \in Nat

VARIABLES
    state,                         \* "stopped", "waiting" and "late" (in start), "started"
    starts,                        \* calls of start() so far
    fresh,                         \* history: a handshake ended since start()
    m_handshakeSucCount,           \* handshakes that succeeded, never reset
    conn,                          \* "new", "up", "dropped" or "closed"
    asked,                         \* sessions whose handshake is not answered
    version,                       \* sessions with a protocol version set
    queue,                         \* jobs waiting for a thread
    running,                       \* the job each thread is executing
    m_group2Node2Endpoints,        \* group -> node -> endpoints, partial
    m_endPoint2GroupId2GroupInfo   \* endpoint -> group -> nodes, partial

lifecycle == <<state, starts, fresh, m_handshakeSucCount>>
sessions  == <<conn, asked, version>>
pool      == <<queue, running>>
maps      == <<m_group2Node2Endpoints, m_endPoint2GroupId2GroupInfo>>
vars      == <<lifecycle, sessions, pool, maps>>

-----------------------------------------------------------------------------
EndPoints == {EndPointOf[s] : s \in Sessions}

\* A group and the names of its nodes, as a codec delivers it.
GroupInfo == [group : Groups, nodes : SUBSET Nodes]

\* todo: group infos not applied yet; the one being applied is info.
Job ==
    [kind : {"handshake", "error", "notify", "disconnect"}, session : Sessions,
     todo : SUBSET GroupInfo, pc : {"start", "info", "clear", "insert", "end"},
     info : GroupInfo \cup {<<>>}]

NewJob(kind, s, infos) ==
    [kind |-> kind, session |-> s, todo |-> infos, pc |-> "start", info |-> <<>>]

\* What an idle thread executes.
NoJob == [kind |-> "none"]

\* Thread t executes job j, or returns to the pool.
Goto(t, j) == running' = [running EXCEPT ![t] = j]
Return(t)  == Goto(t, NoJob)

\* session->drop: the session is lost and its disconnect handler is queued.
Drop(s, q) ==
    /\ conn' = [conn EXCEPT ![s] = IF @ = "up" THEN "dropped" ELSE @]
    /\ queue' = IF conn[s] = "up" THEN Append(q, NewJob("disconnect", s, {})) ELSE q

Init ==
    /\ state = "stopped" /\ starts = 0 /\ fresh = FALSE /\ m_handshakeSucCount = 0
    /\ conn = [s \in Sessions |-> "new"] /\ asked = {} /\ version = {}
    /\ queue = <<>> /\ running = [t \in Threads |-> NoJob]
    /\ m_group2Node2Endpoints = <<>> /\ m_endPoint2GroupId2GroupInfo = <<>>

-----------------------------------------------------------------------------
(* The maps.                                                               *)

\* Mutation: a node is kept when its last endpoint is erased.
WithoutKeepsNode(mapper, ep) == [n \in DOMAIN mapper |-> mapper[n] \ {ep}]

\* node -> endpoints with the endpoint erased, and the nodes it empties.
Without(mapper, ep) ==
    [n \in {x \in DOMAIN mapper : mapper[x] \ {ep} # {}} |-> mapper[n] \ {ep}]

\* Mutation: an endpoint that is a node's last one is not erased.
ClearSharedOnly(ep) ==
    [g \in DOMAIN m_group2Node2Endpoints |->
        [n \in DOMAIN m_group2Node2Endpoints[g] |->
            IF m_group2Node2Endpoints[g][n] = {ep} THEN {ep}
            ELSE m_group2Node2Endpoints[g][n] \ {ep}]]

\* clearGroupInfoByEp(_endPoint): every group, and the groups it empties.
ClearAllGroups(ep) ==
    LET cleared == [g \in DOMAIN m_group2Node2Endpoints |->
                       Without(m_group2Node2Endpoints[g], ep)]
    IN  [g \in {x \in DOMAIN cleared : DOMAIN cleared[x] # {}} |-> cleared[g]]

\* clearGroupInfoByEp(_endPoint, _groupID): one group, which stays.
ClearGroup(ep, group) ==
    [g \in DOMAIN m_group2Node2Endpoints |->
        IF g = group THEN Without(m_group2Node2Endpoints[g], ep)
        ELSE m_group2Node2Endpoints[g]]

EndPointsOf(mapper, n) == IF n \in DOMAIN mapper THEN mapper[n] ELSE {}

\* The last section of updateGroupInfoByEp.
InsertNodes(ep, group, nodes) ==
    LET R == m_group2Node2Endpoints
        old == IF group \in DOMAIN R THEN R[group] ELSE <<>>
        new == [n \in DOMAIN old \cup nodes |->
                   EndPointsOf(old, n) \cup (IF n \in nodes THEN {ep} ELSE {})]
    IN  [g \in DOMAIN R \cup {group} |-> IF g = group THEN new ELSE R[g]]

\* updateGroupInfo.
SetGroupInfo(ep, info) ==
    LET I == m_endPoint2GroupId2GroupInfo
        old == IF ep \in DOMAIN I THEN I[ep] ELSE <<>>
        new == [g \in DOMAIN old \cup {info.group} |->
                   IF g = info.group THEN info.nodes ELSE old[g]]
    IN  [e \in DOMAIN I \cup {ep} |-> IF e = ep THEN new ELSE I[e]]

ForgetEndPoint(ep) ==
    [e \in DOMAIN m_endPoint2GroupId2GroupInfo \ {ep} |-> m_endPoint2GroupId2GroupInfo[e]]

\* hasEndPointOfNodeAvailable: only asks whether the node has an entry.
HasEndPointOfNodeAvailable(g, n) ==
    g \in DOMAIN m_group2Node2Endpoints /\ n \in DOMAIN m_group2Node2Endpoints[g]

GetEndPointsByGroupAndNode(g, n) ==
    IF HasEndPointOfNodeAvailable(g, n) THEN m_group2Node2Endpoints[g][n] ELSE {}

GetEndPointsByGroup(g) == UNION {GetEndPointsByGroupAndNode(g, n) : n \in Nodes}

\* The nodes of getGroupInfo: all that some endpoint reports.
GetGroupInfoNodes(g) ==
    UNION {m_endPoint2GroupId2GroupInfo[e][g] :
              e \in {x \in DOMAIN m_endPoint2GroupId2GroupInfo :
                        g \in DOMAIN m_endPoint2GroupId2GroupInfo[x]}}

-----------------------------------------------------------------------------
(* start, waitForConnectionEstablish and stop.                             *)

\* start(), of the service or of a client of it: WsService::start does
\* nothing when the service is running.
Start ==
    /\ state \in {"stopped", "started"} /\ starts < MaxStarts
    /\ state' = "waiting" /\ starts' = starts + 1
    /\ fresh' = (fresh /\ state = "started")
    /\ UNCHANGED <<m_handshakeSucCount, sessions, pool, maps>>

\* A round of the waiting loop finds handshakeSucCount() # 0.
WaitSucceeds ==
    /\ state = "waiting" /\ m_handshakeSucCount # 0
    /\ state' = "started"
    /\ UNCHANGED <<starts, fresh, m_handshakeSucCount, sessions, pool, maps>>

\* External: WsService::stop drops every session.
DropAll(order) ==
    /\ conn' = [s \in Sessions |-> IF conn[s] = "up" THEN "dropped" ELSE conn[s]]
    /\ queue' = queue \o [i \in DOMAIN order |-> NewJob("disconnect", order[i], {})]

\* The sequences that list the sessions that are up.
OrdersOfUp ==
    LET up == {s \in Sessions : conn[s] = "up"}
    IN  {f \in [1 .. Cardinality(up) -> up] : \A s \in up : \E i \in DOMAIN f : f[i] = s}

\* A round of the waiting loop finds no handshake, and its time over.
WaitTimesOut ==
    /\ state = "waiting" /\ m_handshakeSucCount = 0
    /\ state' = "late"
    /\ UNCHANGED <<starts, fresh, m_handshakeSucCount, sessions, pool, maps>>

\* stop(), called by the user, or by the waiting loop, which then throws.
Stop ==
    /\ state \in {"started", "late"}
    /\ state' = "stopped"
    /\ \E order \in OrdersOfUp : DropAll(order)
    /\ UNCHANGED <<starts, fresh, m_handshakeSucCount, asked, version, running, maps>>

-----------------------------------------------------------------------------
(* Jobs.                                                                   *)

\* A thread takes the next job.
TakeJob(t) ==
    /\ queue # <<>> /\ running[t] = NoJob
    /\ Goto(t, Head(queue))
    /\ queue' = Tail(queue)
    /\ UNCHANGED <<lifecycle, sessions, maps>>

\* The callback of startHandshake with an error, a timeout or an answer that
\* HandshakeResponse::decode refuses.
HandshakeFails(t, j) ==
    /\ j.kind = "error"
    /\ Drop(j.session, queue)
    /\ Return(t)
    /\ UNCHANGED <<lifecycle, asked, version, maps>>

NextPc(todo) == IF todo = {} THEN "end" ELSE "info"

\* The callback of startHandshake: the version comes before the groups.
HandshakeSetsVersion(t, j) ==
    /\ j.kind = "handshake" /\ j.pc = "start"
    /\ version' = version \cup {j.session}
    /\ Goto(t, [j EXCEPT !.pc = NextPc(j.todo)])
    /\ UNCHANGED <<lifecycle, conn, asked, queue, maps>>

\* Mutation: onRecvMessage does not ask checkHandshakeDone.
AlwaysDone(s) == TRUE

CheckHandshakeDone(s) == s \in version

\* The handler of a group notification applies one group info.
OnNotifyGroupInfo(t, j) == Goto(t, [j EXCEPT !.pc = "info"])

\* onRecvMessage: a message before the end of the handshake drops the
\* session, any other one goes to its handler.
OnRecvMessage(t, j) ==
    /\ j.kind = "notify" /\ j.pc = "start"
    /\ IF CheckHandshakeDone(j.session)
       THEN /\ OnNotifyGroupInfo(t, j)
            /\ UNCHANGED <<conn, queue>>
       ELSE /\ Return(t)
            /\ Drop(j.session, queue)
    /\ UNCHANGED <<lifecycle, asked, version, maps>>

\* updateGroupInfoByEp, first section: updateGroupInfo.
UpdateInfo(t, j, info) ==
    /\ j.pc = "info" /\ info \in j.todo
    /\ m_endPoint2GroupId2GroupInfo' = SetGroupInfo(EndPointOf[j.session], info)
    /\ Goto(t, [j EXCEPT !.pc = "clear", !.info = info, !.todo = @ \ {info}])
    /\ UNCHANGED <<lifecycle, sessions, queue, m_group2Node2Endpoints>>

\* updateGroupInfoByEp, second section: clearGroupInfoByEp.
UpdateClear(t, j) ==
    /\ j.pc = "clear"
    /\ m_group2Node2Endpoints' = ClearGroup(EndPointOf[j.session], j.info.group)
    /\ Goto(t, [j EXCEPT !.pc = "insert"])
    /\ UNCHANGED <<lifecycle, sessions, queue, m_endPoint2GroupId2GroupInfo>>

\* updateGroupInfoByEp, last section: the nodes of the group.
UpdateInsert(t, j) ==
    /\ j.pc = "insert"
    /\ m_group2Node2Endpoints' =
          InsertNodes(EndPointOf[j.session], j.info.group, j.info.nodes)
    /\ Goto(t, [j EXCEPT !.pc = NextPc(j.todo), !.info = <<>>])
    /\ UNCHANGED <<lifecycle, sessions, queue, m_endPoint2GroupId2GroupInfo>>

\* The handler returns; a handshake is counted.
Finish(t, j) ==
    /\ j.pc = "end"
    /\ Return(t)
    /\ m_handshakeSucCount' =
          m_handshakeSucCount + (IF j.kind = "handshake" THEN 1 ELSE 0)
    /\ fresh' = (fresh \/ j.kind = "handshake")
    /\ UNCHANGED <<state, starts, sessions, queue, maps>>

\* onDisconnect: clearGroupInfoByEp, both maps in one section.
OnDisconnect(t, j) ==
    /\ j.kind = "disconnect"
    /\ conn' = [conn EXCEPT ![j.session] = "closed"]
    /\ m_group2Node2Endpoints' = ClearAllGroups(EndPointOf[j.session])
    /\ m_endPoint2GroupId2GroupInfo' = ForgetEndPoint(EndPointOf[j.session])
    /\ Return(t)
    /\ UNCHANGED <<lifecycle, asked, version, queue>>

-----------------------------------------------------------------------------
(* External: what happens on the connections.                              *)

\* The request of the handshake is sent: its callback will be called.
StartHandshake(s) == asked' = asked \cup {s}

\* onConnect, which starts the handshake at once.
Connect(s) ==
    /\ state # "stopped" /\ conn[s] = "new"
    /\ \A t \in Sessions : conn[t] = "up" => EndPointOf[t] # EndPointOf[s]
    /\ conn' = [conn EXCEPT ![s] = "up"]
    /\ StartHandshake(s)
    /\ UNCHANGED <<lifecycle, version, pool, maps>>

\* The handshake is answered or fails; lost sessions fail it.
HandshakeAnswered(s, kind, infos) ==
    /\ s \in asked /\ Len(queue) < MaxQueue
    /\ kind = "handshake" => conn[s] = "up"
    /\ \A i, k \in infos : i.group = k.group => i = k
    /\ asked' = asked \ {s}
    /\ queue' = Append(queue, NewJob(kind, s, infos))
    /\ UNCHANGED <<lifecycle, conn, version, running, maps>>

GroupNotify(s, info) ==
    /\ conn[s] = "up" /\ Len(queue) < MaxQueue
    /\ queue' = Append(queue, NewJob("notify", s, {info}))
    /\ UNCHANGED <<lifecycle, sessions, running, maps>>

ConnectionLost(s) ==
    /\ conn[s] = "up"
    /\ Drop(s, queue)
    /\ UNCHANGED <<lifecycle, asked, version, running, maps>>

-----------------------------------------------------------------------------
JobStep(t, j) ==
    \/ HandshakeFails(t, j) \/ HandshakeSetsVersion(t, j) \/ OnRecvMessage(t, j)
    \/ \E info \in j.todo : UpdateInfo(t, j, info)
    \/ UpdateClear(t, j) \/ UpdateInsert(t, j) \/ Finish(t, j) \/ OnDisconnect(t, j)

Step(t) == running[t] # NoJob /\ JobStep(t, running[t])

Connections(s) ==
    \/ Connect(s) \/ ConnectionLost(s) \/ HandshakeAnswered(s, "error", {})
    \/ \E infos \in SUBSET GroupInfo : HandshakeAnswered(s, "handshake", infos)
    \/ \E info \in GroupInfo : GroupNotify(s, info)

Next ==
    \/ Start \/ WaitSucceeds \/ WaitTimesOut \/ Stop
    \/ \E t \in Threads : TakeJob(t) \/ Step(t)
    \/ \E s \in Sessions : Connections(s)

Spec == Init /\ [][Next]_vars

\* A pool with one thread at work.
OneHandler == \A t, u \in Threads : running[t] # NoJob /\ running[u] # NoJob => t = u

SingleSpec == Init /\ [][Next /\ OneHandler']_vars

-----------------------------------------------------------------------------
(* Properties.                                                             *)

LifecycleOK ==
    /\ state \in {"stopped", "waiting", "late", "started"} /\ starts \in Nat
    /\ fresh \in BOOLEAN /\ m_handshakeSucCount \in Nat

SessionsOK ==
    /\ conn \in [Sessions -> {"new", "up", "dropped", "closed"}]
    /\ asked \subseteq Sessions /\ version \subseteq Sessions

PoolOK == queue \in Seq(Job) /\ running \in [Threads -> Job \cup {NoJob}]

\* A routing map that leads to endpoints of eps.
RoutesTo(R, eps) ==
    /\ DOMAIN R \subseteq Groups
    /\ \A g \in DOMAIN R :
          /\ DOMAIN R[g] \subseteq Nodes
          /\ \A n \in DOMAIN R[g] : R[g][n] \subseteq eps

\* Group infos of the endpoints of eps.
InfosOf(I, eps) ==
    /\ DOMAIN I \subseteq eps
    /\ \A e \in DOMAIN I :
          /\ DOMAIN I[e] \subseteq Groups
          /\ \A g \in DOMAIN I[e] : I[e][g] \subseteq Nodes

\* Every variable has its type; the maps are partial functions.
TypeOK ==
    /\ LifecycleOK /\ SessionsOK /\ PoolOK
    /\ RoutesTo(m_group2Node2Endpoints, EndPoints)
    /\ InfosOf(m_endPoint2GroupId2GroupInfo, EndPoints)

\* hasEndPointOfNodeAvailable may ask for the entry only: a node with an
\* entry has an endpoint, however updates and disconnects interleave.
EntryMeansEndPoint ==
    \A g \in Groups, n \in Nodes :
        HasEndPointOfNodeAvailable(g, n) => GetEndPointsByGroupAndNode(g, n) # {}

\* Only an endpoint that finished a handshake is ever routed to or describes
\* a group: messages that come before are not handled.
HandshakeFirst ==
    LET greeted == {EndPointOf[s] : s \in version}
    IN  /\ \A g \in Groups : GetEndPointsByGroup(g) \subseteq greeted
        /\ DOMAIN m_endPoint2GroupId2GroupInfo \subseteq greeted

Idle == queue = <<>> /\ \A t \in Threads : running[t] = NoJob

Live == {EndPointOf[s] : s \in {x \in Sessions : conn[x] = "up"}}

\* "all connections available for the group": when no handler is pending, a
\* message for a group is routed to connected endpoints only.
RoutesAreLive == Idle => \A g \in Groups : GetEndPointsByGroup(g) \subseteq Live

\* When no handler is pending, the two maps agree: the group info shown to
\* the user names exactly the nodes that messages can be routed to.
MapsAgree ==
    Idle => \A g \in Groups :
        GetGroupInfoNodes(g) = {n \in Nodes : HasEndPointOfNodeAvailable(g, n)}

\* "wait for websocket connection handshake success": a start() that returns
\* has waited for a handshake.
StartWaits == state = "started" => fresh
=============================================================================

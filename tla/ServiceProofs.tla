---------------------------- MODULE ServiceProofs ----------------------------
(***************************************************************************)
(* Theorems about Service, for any sessions, groups, nodes and threads.    *)
(* First what holds of any pool (Inv), then what more holds of one in      *)
(* which one handler runs at a time (SingleInv).                           *)
(***************************************************************************)
EXTENDS MCService, FiniteSetTheorems, TLAPS

\* The endpoints of sessions whose handshake set a protocol version.
Greeted == {EndPointOf[s] : s \in version}

\* No node is kept without an endpoint.
NoEmptyEntry ==
    \A g \in DOMAIN m_group2Node2Endpoints :
        \A n \in DOMAIN m_group2Node2Endpoints[g] : m_group2Node2Endpoints[g][n] # {}

\* A waiting job has not begun; a job that updates the maps is of a session
\* with a version, and knows its group info after the first section.
JobsInv ==
    /\ \A i \in 1 .. Len(queue) : queue[i].pc = "start"
    /\ \A t \in Threads :
          running[t] # NoJob =>
             /\ running[t].pc \in {"info", "clear", "insert"} =>
                   running[t].session \in version
             /\ running[t].pc \in {"clear", "insert"} => running[t].info \in GroupInfo

Inv ==
    /\ TypeOK /\ NoEmptyEntry /\ JobsInv
    /\ RoutesTo(m_group2Node2Endpoints, Greeted)
    /\ InfosOf(m_endPoint2GroupId2GroupInfo, Greeted)

-----------------------------------------------------------------------------
(* The operations on the maps.                                             *)

\* Erasing an endpoint from a node map leaves no empty entry.
LEMMA WithoutFacts ==
    ASSUME NEW mapper, NEW ep, NEW eps,
           \A n \in DOMAIN mapper : mapper[n] \subseteq eps
    PROVE  /\ DOMAIN Without(mapper, ep) \subseteq DOMAIN mapper
           /\ \A n \in DOMAIN Without(mapper, ep) :
                 /\ Without(mapper, ep)[n] \subseteq eps
                 /\ Without(mapper, ep)[n] # {}
  BY DEF Without

\* clearGroupInfoByEp for all groups keeps the map well formed.
LEMMA ClearAllGroupsFacts ==
    ASSUME NEW ep, NEW eps, RoutesTo(m_group2Node2Endpoints, eps)
    PROVE  /\ RoutesTo(ClearAllGroups(ep), eps)
           /\ \A g \in DOMAIN ClearAllGroups(ep) :
                 \A n \in DOMAIN ClearAllGroups(ep)[g] : ClearAllGroups(ep)[g][n] # {}
<1> DEFINE R == m_group2Node2Endpoints
<1>1. \A g \in DOMAIN R :
         /\ DOMAIN Without(R[g], ep) \subseteq Nodes
         /\ \A n \in DOMAIN Without(R[g], ep) :
               Without(R[g], ep)[n] \subseteq eps /\ Without(R[g], ep)[n] # {}
  BY WithoutFacts DEF RoutesTo
<1>2. /\ DOMAIN ClearAllGroups(ep) \subseteq DOMAIN R
      /\ \A g \in DOMAIN ClearAllGroups(ep) : ClearAllGroups(ep)[g] = Without(R[g], ep)
  BY DEF ClearAllGroups
<1> QED
  BY <1>1, <1>2 DEF RoutesTo

\* clearGroupInfoByEp for one group keeps the map well formed.
LEMMA ClearGroupFacts ==
    ASSUME NEW ep, NEW group, NEW eps, RoutesTo(m_group2Node2Endpoints, eps), NoEmptyEntry
    PROVE  /\ RoutesTo(ClearGroup(ep, group), eps)
           /\ \A g \in DOMAIN ClearGroup(ep, group) :
                 \A n \in DOMAIN ClearGroup(ep, group)[g] :
                     ClearGroup(ep, group)[g][n] # {}
<1> DEFINE R == m_group2Node2Endpoints
<1>1. \A g \in DOMAIN R :
         /\ DOMAIN Without(R[g], ep) \subseteq Nodes
         /\ \A n \in DOMAIN Without(R[g], ep) :
               Without(R[g], ep)[n] \subseteq eps /\ Without(R[g], ep)[n] # {}
  BY WithoutFacts DEF RoutesTo
<1>2. /\ DOMAIN ClearGroup(ep, group) = DOMAIN R
      /\ \A g \in DOMAIN R :
            ClearGroup(ep, group)[g] = R[g] \/ ClearGroup(ep, group)[g] = Without(R[g], ep)
  BY DEF ClearGroup
<1> QED
  BY <1>1, <1>2 DEF RoutesTo, NoEmptyEntry

\* The last section of updateGroupInfoByEp keeps the map well formed.
LEMMA InsertNodesFacts ==
    ASSUME NEW eps, NEW ep \in eps, NEW group \in Groups, NEW nodes \in SUBSET Nodes,
           RoutesTo(m_group2Node2Endpoints, eps), NoEmptyEntry
    PROVE  /\ RoutesTo(InsertNodes(ep, group, nodes), eps)
           /\ \A g \in DOMAIN InsertNodes(ep, group, nodes) :
                 \A n \in DOMAIN InsertNodes(ep, group, nodes)[g] :
                     InsertNodes(ep, group, nodes)[g][n] # {}
<1> DEFINE R == m_group2Node2Endpoints
           old == IF group \in DOMAIN R THEN R[group] ELSE <<>>
           new == [n \in DOMAIN old \cup nodes |->
                      EndPointsOf(old, n) \cup (IF n \in nodes THEN {ep} ELSE {})]
           res == [g \in DOMAIN R \cup {group} |-> IF g = group THEN new ELSE R[g]]
<1>1. /\ DOMAIN old \subseteq Nodes
      /\ \A n \in DOMAIN old : old[n] \subseteq eps /\ old[n] # {}
  <2>1. CASE group \in DOMAIN R
    BY <2>1 DEF RoutesTo, NoEmptyEntry
  <2>2. CASE group \notin DOMAIN R
    <3>1. old = <<>> /\ DOMAIN old = {}
      BY <2>2
    <3> QED
      BY <3>1
  <2> QED
    BY <2>1, <2>2
<1> HIDE DEF old
<1>2. /\ DOMAIN new \subseteq Nodes
      /\ \A n \in DOMAIN new : new[n] \subseteq eps /\ new[n] # {}
  BY <1>1 DEF EndPointsOf
<1> HIDE DEF new
<1>3. RoutesTo(res, eps)
  BY <1>2 DEF RoutesTo
<1>4. \A g \in DOMAIN res : \A n \in DOMAIN res[g] : res[g][n] # {}
  BY <1>2 DEF NoEmptyEntry
<1>5. InsertNodes(ep, group, nodes) = res
  BY DEF InsertNodes, new, old
<1> QED
  BY <1>3, <1>4, <1>5

\* updateGroupInfo keeps the infos well formed.
LEMMA SetGroupInfoFacts ==
    ASSUME NEW eps, NEW ep \in eps, NEW info \in GroupInfo,
           InfosOf(m_endPoint2GroupId2GroupInfo, eps)
    PROVE  InfosOf(SetGroupInfo(ep, info), eps)
<1> DEFINE I == m_endPoint2GroupId2GroupInfo
           old == IF ep \in DOMAIN I THEN I[ep] ELSE <<>>
           new == [g \in DOMAIN old \cup {info.group} |->
                      IF g = info.group THEN info.nodes ELSE old[g]]
           res == [e \in DOMAIN I \cup {ep} |-> IF e = ep THEN new ELSE I[e]]
<1>1. DOMAIN old \subseteq Groups /\ \A g \in DOMAIN old : old[g] \subseteq Nodes
  <2>1. CASE ep \in DOMAIN I
    BY <2>1 DEF InfosOf
  <2>2. CASE ep \notin DOMAIN I
    <3>1. old = <<>> /\ DOMAIN old = {}
      BY <2>2
    <3> QED
      BY <3>1
  <2> QED
    BY <2>1, <2>2
<1> HIDE DEF old
<1>2. info.group \in Groups /\ info.nodes \subseteq Nodes
  BY DEF GroupInfo
<1>3. DOMAIN new \subseteq Groups /\ \A g \in DOMAIN new : new[g] \subseteq Nodes
  BY <1>1, <1>2
<1> HIDE DEF new
<1>4. InfosOf(res, eps)
  BY <1>3 DEF InfosOf
<1>5. SetGroupInfo(ep, info) = res
  BY DEF SetGroupInfo, new, old
<1> QED
  BY <1>4, <1>5

\* Forgetting an endpoint keeps the infos well formed.
LEMMA ForgetEndPointFacts ==
    ASSUME NEW ep, NEW eps, InfosOf(m_endPoint2GroupId2GroupInfo, eps)
    PROVE  InfosOf(ForgetEndPoint(ep), eps)
  BY DEF ForgetEndPoint, InfosOf

-----------------------------------------------------------------------------
(* The invariant.                                                          *)

\* The invariant holds in the initial state.
LEMMA InitInv == Init => Inv
<1> SUFFICES ASSUME Init PROVE Inv
  OBVIOUS
<1>1. LifecycleOK /\ SessionsOK
  BY DEF Init, LifecycleOK, SessionsOK
<1>2. PoolOK /\ JobsInv
  BY DEF Init, PoolOK, JobsInv
<1>3. /\ DOMAIN m_group2Node2Endpoints = {}
      /\ DOMAIN m_endPoint2GroupId2GroupInfo = {}
  BY DEF Init
<1>4. /\ NoEmptyEntry
      /\ \A eps : /\ RoutesTo(m_group2Node2Endpoints, eps)
                  /\ InfosOf(m_endPoint2GroupId2GroupInfo, eps)
  BY <1>3 DEF NoEmptyEntry, RoutesTo, InfosOf
<1> QED
  BY <1>1, <1>2, <1>4 DEF Inv, TypeOK

\* A step that leaves the maps alone and takes no version away keeps the
\* facts about the maps.
LEMMA MapsUnchanged ==
    ASSUME Inv, UNCHANGED maps, version \subseteq version'
    PROVE  /\ NoEmptyEntry'
           /\ RoutesTo(m_group2Node2Endpoints, EndPoints)'
           /\ InfosOf(m_endPoint2GroupId2GroupInfo, EndPoints)'
           /\ RoutesTo(m_group2Node2Endpoints, Greeted)'
           /\ InfosOf(m_endPoint2GroupId2GroupInfo, Greeted)'
<1>1. Greeted \subseteq Greeted'
  BY DEF Greeted
<1>2. UNCHANGED <<m_group2Node2Endpoints, m_endPoint2GroupId2GroupInfo>>
  BY DEF maps
<1> QED
  BY <1>1, <1>2 DEF Inv, TypeOK, NoEmptyEntry, RoutesTo, InfosOf, EndPoints

\* A new job waits, and is a job.
LEMMA NewJobType ==
    ASSUME NEW kind \in {"handshake", "error", "notify", "disconnect"},
           NEW s \in Sessions, NEW infos \in SUBSET GroupInfo
    PROVE  NewJob(kind, s, infos) \in Job /\ NewJob(kind, s, infos).pc = "start"
  BY DEF NewJob, Job

\* Appending jobs that wait keeps the queue a sequence of waiting jobs.
LEMMA AppendWaiting ==
    ASSUME PoolOK, JobsInv, NEW j \in Job, j.pc = "start"
    PROVE  /\ Append(queue, j) \in Seq(Job)
           /\ \A i \in 1 .. Len(Append(queue, j)) : Append(queue, j)[i].pc = "start"
  BY DEF PoolOK, JobsInv

\* Dropping a session keeps the connections and the queue well formed.
LEMMA DropFacts ==
    ASSUME Inv, NEW s \in Sessions, Drop(s, queue)
    PROVE  /\ conn' \in [Sessions -> {"new", "up", "dropped", "closed"}]
           /\ queue' \in Seq(Job)
           /\ \A i \in 1 .. Len(queue') : queue'[i].pc = "start"
<1>1. conn' \in [Sessions -> {"new", "up", "dropped", "closed"}]
  BY DEF Drop, Inv, TypeOK, SessionsOK
<1> DEFINE j == NewJob("disconnect", s, {})
<1>2. j \in Job /\ j.pc = "start"
  BY NewJobType
<1> HIDE DEF j
<1>3. PoolOK /\ JobsInv
  BY DEF Inv, TypeOK
<1>4. /\ Append(queue, j) \in Seq(Job)
      /\ \A i \in 1 .. Len(Append(queue, j)) : Append(queue, j)[i].pc = "start"
  BY <1>2, <1>3, AppendWaiting
<1>5. queue' = Append(queue, j) \/ queue' = queue
  BY DEF Drop, j
<1> QED
  BY <1>1, <1>3, <1>4, <1>5 DEF PoolOK, JobsInv

\* A thread that returns to the pool executes no job.
LEMMA ReturnFacts ==
    ASSUME Inv, NEW t \in Threads, Return(t), version \subseteq version'
    PROVE  /\ running' \in [Threads -> Job \cup {NoJob}]
           /\ \A u \in Threads :
                 running'[u] # NoJob =>
                    /\ running'[u].pc \in {"info", "clear", "insert"} =>
                          running'[u].session \in version'
                    /\ running'[u].pc \in {"clear", "insert"} =>
                          running'[u].info \in GroupInfo
<1>1. running' = [running EXCEPT ![t] = NoJob] /\ running \in [Threads -> Job \cup {NoJob}]
  BY DEF Return, Goto, Inv, TypeOK, PoolOK
<1>2. \A u \in Threads : running'[u] = NoJob \/ running'[u] = running[u]
  BY <1>1
<1>3. JobsInv
  BY DEF Inv
<1> QED
  BY <1>1, <1>2, <1>3 DEF JobsInv

\* A thread may go on with a job that knows its session and its group info.
LEMMA GotoFacts ==
    ASSUME Inv, NEW t \in Threads, NEW j \in Job, Goto(t, j), version \subseteq version',
           j.pc \in {"info", "clear", "insert"} => j.session \in version',
           j.pc \in {"clear", "insert"} => j.info \in GroupInfo
    PROVE  /\ running' \in [Threads -> Job \cup {NoJob}]
           /\ \A u \in Threads :
                 running'[u] # NoJob =>
                    /\ running'[u].pc \in {"info", "clear", "insert"} =>
                          running'[u].session \in version'
                    /\ running'[u].pc \in {"clear", "insert"} =>
                          running'[u].info \in GroupInfo
<1>1. running' = [running EXCEPT ![t] = j] /\ running \in [Threads -> Job \cup {NoJob}]
  BY DEF Goto, Inv, TypeOK, PoolOK
<1>2. \A u \in Threads : running'[u] = j \/ running'[u] = running[u]
  BY <1>1
<1>3. JobsInv
  BY DEF Inv
<1>4. running' \in [Threads -> Job \cup {NoJob}]
  BY <1>1
<1> HIDE DEF Job, NoJob, GroupInfo
<1> QED
  BY <1>2, <1>3, <1>4 DEF JobsInv

\* start, the waiting loop and stop keep the invariant.
LEMMA LifecycleStep ==
    ASSUME Inv, Start \/ WaitSucceeds \/ WaitTimesOut \/ Stop
    PROVE  Inv'
<1>1. UNCHANGED <<maps, version, asked, running>> /\ LifecycleOK'
  <2>1. /\ UNCHANGED <<maps, version, asked, running, m_handshakeSucCount>>
        /\ state' \in {"stopped", "waiting", "late", "started"}
        /\ starts' = starts \/ starts' = starts + 1
    BY DEF Start, WaitSucceeds, WaitTimesOut, Stop, pool, sessions, maps
  <2>2. fresh' = (fresh /\ state = "started") \/ fresh' = fresh
    BY Zenon DEF Start, WaitSucceeds, WaitTimesOut, Stop
  <2>3. fresh' \in BOOLEAN
    BY <2>2, Zenon DEF Inv, TypeOK, LifecycleOK
  <2>4. starts' \in Nat /\ m_handshakeSucCount' \in Nat
    BY <2>1 DEF Inv, TypeOK, LifecycleOK
  <2> QED
    BY <2>1, <2>3, <2>4 DEF LifecycleOK
<1>2. /\ conn' \in [Sessions -> {"new", "up", "dropped", "closed"}]
      /\ queue' \in Seq(Job)
      /\ \A i \in 1 .. Len(queue') : queue'[i].pc = "start"
  <2>1. CASE UNCHANGED <<sessions, pool>>
    BY <2>1 DEF sessions, pool, Inv, TypeOK, SessionsOK, PoolOK, JobsInv
  <2>2. CASE Stop
    <3> DEFINE up == {s \in Sessions : conn[s] = "up"}
    <3>1. PICK order \in OrdersOfUp : DropAll(order)
      BY <2>2 DEF Stop
    <3>2. Cardinality(up) \in Nat
      BY SessionsFinite, FS_Subset, FS_CardinalityType
    <3>3. order \in [1 .. Cardinality(up) -> Sessions]
      BY <3>1 DEF OrdersOfUp
    <3> DEFINE more == [i \in DOMAIN order |-> NewJob("disconnect", order[i], {})]
    <3>4. /\ DOMAIN more = 1 .. Cardinality(up)
          /\ \A i \in DOMAIN more : more[i] \in Job /\ more[i].pc = "start"
      BY <3>3, NewJobType
    <3> HIDE DEF up
    <3>5. more \in Seq(Job) /\ Len(more) = Cardinality(up)
      <4>1. more \in [1 .. Cardinality(up) -> Job]
        BY <3>4
      <4> HIDE DEF more
      <4> QED
        BY <4>1, <3>2
    <3> HIDE DEF more
    <3>6. queue' = queue \o more
      BY <3>1 DEF DropAll, more
    <3>7. queue \in Seq(Job) /\ \A i \in 1 .. Len(queue) : queue[i].pc = "start"
      BY DEF Inv, TypeOK, PoolOK, JobsInv
    <3>8. queue' \in Seq(Job) /\ \A i \in 1 .. Len(queue') : queue'[i].pc = "start"
      <4> HIDE DEF Job
      <4> QED
        BY <3>4, <3>5, <3>6, <3>7
    <3>9. conn' \in [Sessions -> {"new", "up", "dropped", "closed"}]
      BY <3>1 DEF DropAll, Inv, TypeOK, SessionsOK
    <3> QED
      BY <3>8, <3>9
  <2> QED
    BY <2>1, <2>2 DEF Start, WaitSucceeds, WaitTimesOut
<1>3. SessionsOK' /\ PoolOK' /\ JobsInv'
  BY <1>1, <1>2 DEF Inv, TypeOK, SessionsOK, PoolOK, JobsInv
<1> QED
  BY <1>1, <1>3, MapsUnchanged DEF Inv, TypeOK

\* What happens on the connections keeps the invariant.
LEMMA ConnectionsStep ==
    ASSUME Inv, NEW s \in Sessions, Connections(s)
    PROVE  Inv'
<1>1. UNCHANGED <<lifecycle, maps, version, running>> /\ asked' \subseteq Sessions
  BY DEF Connections, Connect, StartHandshake, ConnectionLost, HandshakeAnswered, GroupNotify, lifecycle,
         sessions, pool, maps, Inv, TypeOK, SessionsOK
<1>2. /\ conn' \in [Sessions -> {"new", "up", "dropped", "closed"}]
      /\ queue' \in Seq(Job)
      /\ \A i \in 1 .. Len(queue') : queue'[i].pc = "start"
  <2> USE DEF Inv, TypeOK
  <2> DEFINE QueueGoal == /\ conn' \in [Sessions -> {"new", "up", "dropped", "closed"}]
                          /\ queue' \in Seq(Job)
                          /\ \A i \in 1 .. Len(queue') : queue'[i].pc = "start"
  <2>1. CASE Connect(s)
    BY <2>1 DEF Connect, StartHandshake, pool, SessionsOK, PoolOK, JobsInv
  <2>2. CASE ConnectionLost(s)
    BY <2>2, DropFacts DEF ConnectionLost
  <2>3. CASE HandshakeAnswered(s, "error", {})
    <3>1. queue' = Append(queue, NewJob("error", s, {})) /\ conn' = conn
      BY <2>3 DEF HandshakeAnswered
    <3> QED
      BY <3>1, NewJobType, AppendWaiting DEF SessionsOK
  <2>4. ASSUME NEW infos \in SUBSET GroupInfo, HandshakeAnswered(s, "handshake", infos)
        PROVE  QueueGoal
    <3>1. queue' = Append(queue, NewJob("handshake", s, infos)) /\ conn' = conn
      BY <2>4 DEF HandshakeAnswered
    <3> QED
      BY <3>1, NewJobType, AppendWaiting DEF SessionsOK
  <2>5. ASSUME NEW info \in GroupInfo, GroupNotify(s, info)
        PROVE  QueueGoal
    <3>1. queue' = Append(queue, NewJob("notify", s, {info})) /\ conn' = conn
      BY <2>5 DEF GroupNotify, sessions
    <3> QED
      BY <3>1, NewJobType, AppendWaiting DEF SessionsOK
  <2> QED
    BY <2>1, <2>2, <2>3, <2>4, <2>5 DEF Connections
<1>3. LifecycleOK'
  BY <1>1 DEF Inv, TypeOK, LifecycleOK, lifecycle
<1>4. SessionsOK' /\ PoolOK' /\ JobsInv'
  BY <1>1, <1>2 DEF Inv, TypeOK, SessionsOK, PoolOK, JobsInv
<1> QED
  BY <1>1, <1>3, <1>4, MapsUnchanged DEF Inv, TypeOK

\* Steps of a handler outside the maps keep the invariant.
LEMMA PoolStep ==
    ASSUME Inv, NEW t \in Threads,
           \/ TakeJob(t)
           \/ running[t] # NoJob /\ (\/ HandshakeFails(t, running[t])
                                     \/ HandshakeSetsVersion(t, running[t])
                                     \/ OnRecvMessage(t, running[t])
                                     \/ Finish(t, running[t]))
    PROVE  Inv'
<1> DEFINE j == running[t]
           Waiting == /\ queue' \in Seq(Job)
                      /\ \A i \in 1 .. Len(queue') : queue'[i].pc = "start"
           Working == /\ running' \in [Threads -> Job \cup {NoJob}]
                      /\ \A u \in Threads :
                            running'[u] # NoJob =>
                               /\ running'[u].pc \in {"info", "clear", "insert"} =>
                                     running'[u].session \in version'
                               /\ running'[u].pc \in {"clear", "insert"} =>
                                     running'[u].info \in GroupInfo
<1>1. /\ queue \in Seq(Job) /\ \A i \in 1 .. Len(queue) : queue[i].pc = "start"
      /\ running \in [Threads -> Job \cup {NoJob}]
      /\ version \subseteq Sessions
      /\ conn \in [Sessions -> {"new", "up", "dropped", "closed"}]
  BY DEF Inv, TypeOK, PoolOK, SessionsOK, JobsInv
<1>2. j # NoJob => j \in Job /\ j.session \in Sessions
  BY <1>1 DEF Job
<1>3. CASE TakeJob(t)
  <2>1. /\ Head(queue) \in Job /\ Head(queue).pc = "start"
        /\ UNCHANGED <<lifecycle, sessions, maps>>
        /\ Goto(t, Head(queue)) /\ queue' = Tail(queue)
    BY <1>1, <1>3 DEF TakeJob
  <2>2. Waiting
    <3>1. queue # <<>>
      BY <1>3 DEF TakeJob
    <3> HIDE DEF Job
    <3> QED
      BY <2>1, <3>1, <1>1
  <2>3. UNCHANGED <<state, starts, fresh, m_handshakeSucCount, conn, asked, version>>
    BY <2>1 DEF lifecycle, sessions
  <2>4. Working
    BY <2>1, <2>3, GotoFacts
  <2>5. LifecycleOK' /\ SessionsOK' /\ PoolOK' /\ JobsInv'
    BY <2>2, <2>3, <2>4 DEF Inv, TypeOK, LifecycleOK, SessionsOK, PoolOK, JobsInv
  <2> QED
    BY <2>1, <2>3, <2>5, MapsUnchanged DEF Inv, TypeOK
<1>4. CASE j # NoJob /\ HandshakeFails(t, j)
  <2>1. UNCHANGED <<lifecycle, asked, version, maps>> /\ Return(t) /\ Drop(j.session, queue)
    BY <1>4 DEF HandshakeFails
  <2>2. Working
    BY <2>1, ReturnFacts
  <2>3. Waiting /\ conn' \in [Sessions -> {"new", "up", "dropped", "closed"}]
    BY <1>2, <1>4, <2>1, DropFacts
  <2>4. LifecycleOK' /\ SessionsOK' /\ PoolOK' /\ JobsInv'
    BY <2>1, <2>2, <2>3
    DEF Inv, TypeOK, LifecycleOK, lifecycle, SessionsOK, PoolOK, JobsInv
  <2> QED
    BY <2>1, <2>4, MapsUnchanged DEF Inv, TypeOK
<1>5. CASE j # NoJob /\ HandshakeSetsVersion(t, j)
  <2> DEFINE k == [j EXCEPT !.pc = NextPc(j.todo)]
  <2>1. /\ UNCHANGED <<lifecycle, conn, asked, queue, maps>>
        /\ version' = version \cup {j.session} /\ Goto(t, k)
    BY <1>5 DEF HandshakeSetsVersion
  <2>2. /\ k \in Job /\ k.session = j.session /\ k.pc \in {"info", "end"}
    BY <1>2, <1>5 DEF Job, NextPc
  <2>3. k.session \in version'
    BY <2>1, <2>2
  <2> HIDE DEF k
  <2>4. Working
    BY <2>1, <2>2, <2>3, GotoFacts
  <2>5. LifecycleOK' /\ SessionsOK' /\ PoolOK' /\ JobsInv'
    BY <1>1, <1>2, <1>5, <2>1, <2>4
    DEF Inv, TypeOK, LifecycleOK, lifecycle, SessionsOK, PoolOK, JobsInv
  <2> QED
    BY <2>1, <2>5, MapsUnchanged DEF Inv, TypeOK
<1>6. CASE j # NoJob /\ OnRecvMessage(t, j)
  <2>1. UNCHANGED <<lifecycle, asked, version, maps>>
    BY <1>6 DEF OnRecvMessage
  <2>2. Working /\ Waiting /\ conn' \in [Sessions -> {"new", "up", "dropped", "closed"}]
    <3>1. CASE CheckHandshakeDone(j.session)
      <4> DEFINE k == [j EXCEPT !.pc = "info"]
      <4>1. k \in Job /\ k.session = j.session /\ k.pc = "info"
        BY <1>2, <1>6 DEF Job
      <4>2. Goto(t, k) /\ UNCHANGED <<conn, queue>>
        BY <1>6, <3>1 DEF OnRecvMessage, OnNotifyGroupInfo
      <4>3. k.session \in version'
        BY <2>1, <3>1, <4>1 DEF CheckHandshakeDone
      <4> HIDE DEF k
      <4>4. Working
        BY <2>1, <4>1, <4>2, <4>3, GotoFacts
      <4> QED
        BY <1>1, <4>2, <4>4
    <3>2. CASE ~CheckHandshakeDone(j.session)
      <4>1. Return(t) /\ Drop(j.session, queue)
        BY <1>6, <3>2 DEF OnRecvMessage
      <4> QED
        BY <1>2, <1>6, <2>1, <4>1, ReturnFacts, DropFacts
    <3> QED
      BY <3>1, <3>2
  <2>3. LifecycleOK' /\ SessionsOK' /\ PoolOK' /\ JobsInv'
    BY <2>1, <2>2
    DEF Inv, TypeOK, LifecycleOK, lifecycle, SessionsOK, PoolOK, JobsInv
  <2> QED
    BY <2>1, <2>3, MapsUnchanged DEF Inv, TypeOK
<1>7. CASE j # NoJob /\ Finish(t, j)
  <2>1. UNCHANGED <<state, starts, sessions, queue, maps>> /\ Return(t)
    BY <1>7 DEF Finish
  <2>2. UNCHANGED <<conn, asked, version>>
    BY <2>1 DEF sessions
  <2>3. Working
    BY <2>1, <2>2, ReturnFacts
  <2>4. m_handshakeSucCount' \in Nat /\ state' = state /\ starts' = starts
    BY <1>7, <2>1 DEF Finish, Inv, TypeOK, LifecycleOK
  <2>5. fresh' \in BOOLEAN
    BY <1>7, Zenon DEF Finish
  <2>6. LifecycleOK'
    BY <2>4, <2>5 DEF Inv, TypeOK, LifecycleOK
  <2>7. SessionsOK' /\ PoolOK' /\ JobsInv'
    BY <1>1, <2>1, <2>2, <2>3 DEF Inv, TypeOK, SessionsOK, PoolOK, JobsInv
  <2> QED
    BY <2>1, <2>2, <2>6, <2>7, MapsUnchanged DEF Inv, TypeOK
<1> QED
  BY <1>3, <1>4, <1>5, <1>6, <1>7

\* A section of a handler that changes the maps, and continues or returns,
\* keeps the invariant when it keeps the facts about the maps.
LEMMA MapsStep ==
    ASSUME Inv, NEW t \in Threads, running[t] # NoJob,
           \/ \E info \in running[t].todo : UpdateInfo(t, running[t], info)
           \/ UpdateClear(t, running[t])
           \/ UpdateInsert(t, running[t])
           \/ OnDisconnect(t, running[t])
    PROVE  Inv'
<1> DEFINE j == running[t]
           ep == EndPointOf[j.session]
           Working == /\ running' \in [Threads -> Job \cup {NoJob}]
                      /\ \A u \in Threads :
                            running'[u] # NoJob =>
                               /\ running'[u].pc \in {"info", "clear", "insert"} =>
                                     running'[u].session \in version'
                               /\ running'[u].pc \in {"clear", "insert"} =>
                                     running'[u].info \in GroupInfo
           Mapped == /\ NoEmptyEntry'
                     /\ RoutesTo(m_group2Node2Endpoints', EndPoints)
                     /\ InfosOf(m_endPoint2GroupId2GroupInfo', EndPoints)
                     /\ RoutesTo(m_group2Node2Endpoints', Greeted)
                     /\ InfosOf(m_endPoint2GroupId2GroupInfo', Greeted)
<1>1. /\ j \in Job /\ j.session \in Sessions /\ j.todo \subseteq GroupInfo
      /\ ep \in EndPoints
      /\ j.pc \in {"info", "clear", "insert"} => j.session \in version /\ ep \in Greeted
      /\ j.pc \in {"clear", "insert"} => j.info \in GroupInfo
  BY DEF Inv, TypeOK, PoolOK, JobsInv, Job, EndPoints, Greeted
<1>2. /\ NoEmptyEntry
      /\ RoutesTo(m_group2Node2Endpoints, EndPoints)
      /\ InfosOf(m_endPoint2GroupId2GroupInfo, EndPoints)
      /\ RoutesTo(m_group2Node2Endpoints, Greeted)
      /\ InfosOf(m_endPoint2GroupId2GroupInfo, Greeted)
  BY DEF Inv, TypeOK
<1>3. UNCHANGED <<lifecycle, asked, version, queue>>
  BY DEF UpdateInfo, UpdateClear, UpdateInsert, OnDisconnect, sessions
<1>4. conn' \in [Sessions -> {"new", "up", "dropped", "closed"}] /\ Working /\ Mapped
  <2>1. ASSUME NEW info \in j.todo, UpdateInfo(t, j, info)
        PROVE  UNCHANGED conn /\ Working /\ Mapped
    <3> DEFINE k == [j EXCEPT !.pc = "clear", !.info = info, !.todo = @ \ {info}]
    <3>1. /\ Goto(t, k) /\ UNCHANGED <<conn, m_group2Node2Endpoints>> /\ j.pc = "info"
          /\ m_endPoint2GroupId2GroupInfo' = SetGroupInfo(ep, info)
      BY <2>1 DEF UpdateInfo, sessions
    <3>2. info \in GroupInfo
      BY <1>1
    <3>3. k \in Job /\ k.session = j.session /\ k.pc = "clear" /\ k.info = info
      BY <1>1, <3>2 DEF Job
    <3> HIDE DEF k
    <3>4. Working
      BY <1>1, <1>3, <3>1, <3>2, <3>3, GotoFacts
    <3>5. Mapped
      BY <1>1, <1>2, <3>1, <3>2, SetGroupInfoFacts DEF NoEmptyEntry
    <3> QED
      BY <3>1, <3>4, <3>5
  <2>2. ASSUME UpdateClear(t, j)
        PROVE  UNCHANGED conn /\ Working /\ Mapped
    <3> DEFINE k == [j EXCEPT !.pc = "insert"]
    <3>1. /\ Goto(t, k) /\ UNCHANGED <<conn, m_endPoint2GroupId2GroupInfo>> /\ j.pc = "clear"
          /\ m_group2Node2Endpoints' = ClearGroup(ep, j.info.group)
      BY <2>2 DEF UpdateClear, sessions
    <3>2. k \in Job /\ k.session = j.session /\ k.pc = "insert" /\ k.info = j.info
      BY <1>1 DEF Job
    <3> HIDE DEF k
    <3>3. Working
      BY <1>1, <1>3, <3>1, <3>2, GotoFacts
    <3>4. Mapped
      BY <1>2, <3>1, ClearGroupFacts DEF NoEmptyEntry
    <3> QED
      BY <3>1, <3>3, <3>4
  <2>3. ASSUME UpdateInsert(t, j)
        PROVE  UNCHANGED conn /\ Working /\ Mapped
    <3> DEFINE k == [j EXCEPT !.pc = NextPc(j.todo), !.info = <<>>]
    <3>1. /\ Goto(t, k) /\ UNCHANGED <<conn, m_endPoint2GroupId2GroupInfo>> /\ j.pc = "insert"
          /\ m_group2Node2Endpoints' = InsertNodes(ep, j.info.group, j.info.nodes)
      BY <2>3 DEF UpdateInsert, sessions
    <3>2. k \in Job /\ k.session = j.session /\ k.pc \in {"info", "end"}
      BY <1>1 DEF Job, NextPc
    <3> HIDE DEF k
    <3>3. Working
      BY <1>1, <1>3, <3>1, <3>2, GotoFacts
    <3>4. j.info.group \in Groups /\ j.info.nodes \in SUBSET Nodes
      BY <1>1, <3>1 DEF GroupInfo
    <3>5. Mapped
      BY <1>1, <1>2, <3>1, <3>4, InsertNodesFacts DEF NoEmptyEntry
    <3> QED
      BY <3>1, <3>3, <3>5
  <2>4. ASSUME OnDisconnect(t, j)
        PROVE  conn' \in [Sessions -> {"new", "up", "dropped", "closed"}] /\ Working /\ Mapped
    <3>1. /\ Return(t) /\ conn' = [conn EXCEPT ![j.session] = "closed"]
          /\ m_group2Node2Endpoints' = ClearAllGroups(ep)
          /\ m_endPoint2GroupId2GroupInfo' = ForgetEndPoint(ep)
      BY <2>4 DEF OnDisconnect
    <3>2. Working
      BY <1>3, <3>1, ReturnFacts
    <3>3. Mapped
      BY <1>2, <3>1, ClearAllGroupsFacts, ForgetEndPointFacts DEF NoEmptyEntry
    <3>4. conn' \in [Sessions -> {"new", "up", "dropped", "closed"}]
      BY <3>1 DEF Inv, TypeOK, SessionsOK
    <3> QED
      BY <3>2, <3>3, <3>4
  <2>5. conn \in [Sessions -> {"new", "up", "dropped", "closed"}]
    BY DEF Inv, TypeOK, SessionsOK
  <2> HIDE DEF Working, Mapped
  <2> QED
    BY <2>1, <2>2, <2>3, <2>4, <2>5
<1>5. LifecycleOK' /\ SessionsOK' /\ PoolOK' /\ JobsInv'
  BY <1>3, <1>4
  DEF Inv, TypeOK, LifecycleOK, lifecycle, SessionsOK, PoolOK, JobsInv
<1>6. EndPoints' = EndPoints /\ Greeted' = Greeted
  BY <1>3 DEF EndPoints, Greeted
<1> QED
  BY <1>4, <1>5, <1>6 DEF Inv, TypeOK

\* Every step keeps the invariant.
LEMMA StepInv == Inv /\ [Next]_vars => Inv'
<1> SUFFICES ASSUME Inv, [Next]_vars PROVE Inv'
  OBVIOUS
<1>1. CASE UNCHANGED vars
  <2>1. UNCHANGED <<state, starts, fresh, m_handshakeSucCount, conn, asked, version, queue,
                    running, maps>>
    BY <1>1 DEF vars, lifecycle, sessions, pool, maps
  <2>2. LifecycleOK' /\ SessionsOK' /\ PoolOK' /\ JobsInv'
    BY <2>1 DEF Inv, TypeOK, LifecycleOK, SessionsOK, PoolOK, JobsInv
  <2> QED
    BY <2>1, <2>2, MapsUnchanged DEF Inv, TypeOK
<1>2. CASE Start \/ WaitSucceeds \/ WaitTimesOut \/ Stop
  BY <1>2, LifecycleStep
<1>3. ASSUME NEW t \in Threads, TakeJob(t) PROVE Inv'
  BY <1>3, PoolStep
<1>4. ASSUME NEW t \in Threads, Step(t) PROVE Inv'
  BY <1>4, PoolStep, MapsStep DEF Step, JobStep
<1>5. ASSUME NEW s \in Sessions, Connections(s) PROVE Inv'
  BY <1>5, ConnectionsStep
<1> QED
  BY <1>1, <1>2, <1>3, <1>4, <1>5 DEF Next

\* The invariant implies the properties that the runs check.
LEMMA InvImplies == Inv => TypeOK /\ EntryMeansEndPoint /\ HandshakeFirst
<1> SUFFICES ASSUME Inv PROVE TypeOK /\ EntryMeansEndPoint /\ HandshakeFirst
  OBVIOUS
<1>1. EntryMeansEndPoint
  BY DEF Inv, NoEmptyEntry, EntryMeansEndPoint, HasEndPointOfNodeAvailable,
         GetEndPointsByGroupAndNode
<1>2. HandshakeFirst
  <2>1. \A g \in Groups, n \in Nodes : GetEndPointsByGroupAndNode(g, n) \subseteq Greeted
    BY DEF Inv, RoutesTo, GetEndPointsByGroupAndNode, HasEndPointOfNodeAvailable
  <2>2. \A g \in Groups : GetEndPointsByGroup(g) \subseteq Greeted
    BY <2>1 DEF GetEndPointsByGroup
  <2>3. DOMAIN m_endPoint2GroupId2GroupInfo \subseteq Greeted
    BY DEF Inv, InfosOf
  <2> QED
    BY <2>2, <2>3 DEF HandshakeFirst, Greeted
<1> QED
  BY <1>1, <1>2 DEF Inv

-----------------------------------------------------------------------------
\* The routing maps are well formed, a node with an entry has an endpoint
\* (what hasEndPointOfNodeAvailable relies on), and only endpoints whose
\* handshake was accepted are in the maps, for any number of threads.
THEOREM RoutingSafe == Spec => [](TypeOK /\ EntryMeansEndPoint /\ HandshakeFirst)
<1>1. Spec => []Inv
  BY InitInv, StepInv, PTL DEF Spec
<1> QED
  BY <1>1, InvImplies, PTL

-----------------------------------------------------------------------------
(* One handler at a time.                                                  *)

\* What the two maps say of an endpoint: the pair of tables that a disconnect
\* and an update must leave alike.
RoutedIn(R, e, g, n) == g \in DOMAIN R /\ n \in DOMAIN R[g] /\ e \in R[g][n]
ReportedIn(I, e, g, n) == e \in DOMAIN I /\ g \in DOMAIN I[e] /\ n \in I[e][g]

Routed(e, g, n)   == RoutedIn(m_group2Node2Endpoints, e, g, n)
Reported(e, g, n) == ReportedIn(m_endPoint2GroupId2GroupInfo, e, g, n)

\* Handlers that may update the maps, and those that take an endpoint out.
Updates(j)        == j.kind \in {"handshake", "notify"}
Disconnects(j, s) == j.kind = "disconnect" /\ j.session = s

\* With connections c and queue q: the session is up, or its disconnect waits
\* at place i of the queue or after.
Ends(c, q, s, i) == c[s] = "up" \/ \E k \in i .. Len(q) : Disconnects(q[k], s)

Gone(c, s) == c[s] \notin {"new", "up"}

\* Handlers of a session come before its disconnect, ...
Ordered(c, q) ==
    \A i \in 1 .. Len(q) :
        /\ Updates(q[i]) => Ends(c, q, q[i].session, i + 1)
        /\ q[i].kind = "disconnect" => Gone(c, q[i].session)

QueueInv == Ordered(conn, queue)

\* ... the one that runs as well, and only they go on after their start.
RunInv ==
    \A t \in Threads : running[t] # NoJob =>
        /\ Updates(running[t]) => Ends(conn, queue, running[t].session, 1)
        /\ running[t].kind = "disconnect" => Gone(conn, running[t].session)
        /\ running[t].pc # "start" => Updates(running[t])

\* An endpoint that is routed to has a session that is up or whose
\* disconnect is still to be handled.
Alive(e) ==
    \E s \in Sessions :
        /\ EndPointOf[s] = e
        /\ \/ Ends(conn, queue, s, 1)
           \/ \E t \in Threads : running[t] # NoJob /\ Disconnects(running[t], s)

AliveInv == \A e \in EndPoints, g \in Groups, n \in Nodes : Routed(e, g, n) => Alive(e)

\* Thread t is between the first and the last section of an update of the
\* endpoint's group.
Updating(t, e, g) ==
    /\ running[t] # NoJob /\ running[t].pc \in {"clear", "insert"}
    /\ EndPointOf[running[t].session] = e /\ running[t].info.group = g

\* The maps agree on an endpoint's group that is not being updated, ...
ExactInv ==
    \A e \in EndPoints, g \in Groups, n \in Nodes :
        (Routed(e, g, n) <=> Reported(e, g, n)) \/ \E t \in Threads : Updating(t, e, g)

\* ... and of one that is, the infos are new and then the routes are gone.
UpdatingInv ==
    \A t \in Threads, e \in EndPoints, g \in Groups : Updating(t, e, g) =>
        \A n \in Nodes :
            /\ Reported(e, g, n) <=> n \in running[t].info.nodes
            /\ running[t].pc = "insert" => ~Routed(e, g, n)

SingleInv ==
    /\ Inv /\ OneHandler /\ QueueInv /\ RunInv
    /\ AliveInv /\ ExactInv /\ UpdatingInv

\* clearGroupInfoByEp takes the endpoint out of one group, ...
LEMMA ClearGroupRoutes ==
    ASSUME NEW ep, NEW group, NEW e, NEW g, NEW n
    PROVE  RoutedIn(ClearGroup(ep, group), e, g, n) <=>
              Routed(e, g, n) /\ ~(e = ep /\ g = group)
<1> DEFINE R == m_group2Node2Endpoints
           C == ClearGroup(ep, group)
<1>1. /\ DOMAIN C = DOMAIN R
      /\ \A x \in DOMAIN R : C[x] = IF x = group THEN Without(R[x], ep) ELSE R[x]
  BY DEF ClearGroup
<1>2. g \in DOMAIN R =>
         /\ \A x \in DOMAIN Without(R[g], ep) :
               x \in DOMAIN R[g] /\ Without(R[g], ep)[x] = R[g][x] \ {ep}
         /\ \A x \in DOMAIN R[g] : R[g][x] \ {ep} # {} => x \in DOMAIN Without(R[g], ep)
  BY DEF Without
<1> HIDE DEF C, R
<1>3. RoutedIn(C, e, g, n) <=> RoutedIn(R, e, g, n) /\ ~(e = ep /\ g = group)
  BY <1>1, <1>2 DEF RoutedIn
<1> QED
  BY <1>3 DEF C, R, Routed

\* ... or of all.
LEMMA ClearAllGroupsRoutes ==
    ASSUME NEW ep, NEW e, NEW g, NEW n
    PROVE  RoutedIn(ClearAllGroups(ep), e, g, n) <=> Routed(e, g, n) /\ e # ep
<1> DEFINE R == m_group2Node2Endpoints
           C == ClearAllGroups(ep)
<1>1. /\ \A x \in DOMAIN C : x \in DOMAIN R /\ C[x] = Without(R[x], ep)
      /\ \A x \in DOMAIN R : DOMAIN Without(R[x], ep) # {} => x \in DOMAIN C
  BY DEF ClearAllGroups
<1>2. g \in DOMAIN R =>
         /\ \A x \in DOMAIN Without(R[g], ep) :
               x \in DOMAIN R[g] /\ Without(R[g], ep)[x] = R[g][x] \ {ep}
         /\ \A x \in DOMAIN R[g] : R[g][x] \ {ep} # {} => x \in DOMAIN Without(R[g], ep)
  BY DEF Without
<1> HIDE DEF C, R
<1>3. RoutedIn(C, e, g, n) <=> RoutedIn(R, e, g, n) /\ e # ep
  BY <1>1, <1>2 DEF RoutedIn
<1> QED
  BY <1>3 DEF C, R, Routed

\* The last section of updateGroupInfoByEp adds the endpoint to its nodes.
LEMMA InsertNodesRoutes ==
    ASSUME NEW ep, NEW group, NEW nodes, NEW e, NEW g, NEW n
    PROVE  RoutedIn(InsertNodes(ep, group, nodes), e, g, n) <=>
              Routed(e, g, n) \/ (e = ep /\ g = group /\ n \in nodes)
<1> DEFINE R == m_group2Node2Endpoints
           old == IF group \in DOMAIN R THEN R[group] ELSE <<>>
           new == [x \in DOMAIN old \cup nodes |->
                      EndPointsOf(old, x) \cup (IF x \in nodes THEN {ep} ELSE {})]
           res == [x \in DOMAIN R \cup {group} |-> IF x = group THEN new ELSE R[x]]
<1>1. /\ group \in DOMAIN R => old = R[group]
      /\ group \notin DOMAIN R => DOMAIN old = {}
  <2>1. CASE group \notin DOMAIN R
    <3>1. old = <<>> /\ DOMAIN <<>> = {}
      BY <2>1
    <3> QED
      BY <2>1, <3>1
  <2> QED
    BY <2>1
<1> HIDE DEF old
<1>2. /\ DOMAIN new = DOMAIN old \cup nodes
      /\ n \in DOMAIN new =>
            (e \in new[n] <=> (n \in DOMAIN old /\ e \in old[n]) \/ (n \in nodes /\ e = ep))
  BY DEF EndPointsOf
<1> HIDE DEF new
<1>3. /\ DOMAIN res = DOMAIN R \cup {group}
      /\ \A x \in DOMAIN res : res[x] = IF x = group THEN new ELSE R[x]
  OBVIOUS
<1> HIDE DEF res, R
<1>4. RoutedIn(res, e, g, n) <=>
         RoutedIn(R, e, g, n) \/ (e = ep /\ g = group /\ n \in nodes)
  BY <1>1, <1>2, <1>3 DEF RoutedIn
<1>5. InsertNodes(ep, group, nodes) = res
  BY DEF InsertNodes, res, new, old, R
<1> QED
  BY <1>4, <1>5 DEF R, Routed

\* updateGroupInfo replaces the nodes of the endpoint's group.
LEMMA SetGroupInfoReports ==
    ASSUME NEW ep, NEW info, NEW e, NEW g, NEW n
    PROVE  ReportedIn(SetGroupInfo(ep, info), e, g, n) <=>
              IF e = ep /\ g = info.group THEN n \in info.nodes ELSE Reported(e, g, n)
<1> DEFINE I == m_endPoint2GroupId2GroupInfo
           old == IF ep \in DOMAIN I THEN I[ep] ELSE <<>>
           new == [x \in DOMAIN old \cup {info.group} |->
                      IF x = info.group THEN info.nodes ELSE old[x]]
           res == [x \in DOMAIN I \cup {ep} |-> IF x = ep THEN new ELSE I[x]]
<1>1. /\ ep \in DOMAIN I => old = I[ep]
      /\ ep \notin DOMAIN I => DOMAIN old = {}
  <2>1. CASE ep \notin DOMAIN I
    <3>1. old = <<>> /\ DOMAIN <<>> = {}
      BY <2>1
    <3> QED
      BY <2>1, <3>1
  <2> QED
    BY <2>1
<1> HIDE DEF old
<1>2. /\ DOMAIN new = DOMAIN old \cup {info.group}
      /\ new[info.group] = info.nodes
      /\ \A x \in DOMAIN old : x # info.group => new[x] = old[x]
  OBVIOUS
<1> HIDE DEF new
<1>3. /\ DOMAIN res = DOMAIN I \cup {ep}
      /\ \A x \in DOMAIN res : res[x] = IF x = ep THEN new ELSE I[x]
  OBVIOUS
<1> HIDE DEF res, I
<1>4. ReportedIn(res, e, g, n) <=>
         IF e = ep /\ g = info.group THEN n \in info.nodes ELSE ReportedIn(I, e, g, n)
  BY <1>1, <1>2, <1>3 DEF ReportedIn
<1>5. SetGroupInfo(ep, info) = res
  BY DEF SetGroupInfo, res, new, old, I
<1> QED
  BY <1>4, <1>5 DEF I, Reported

\* A disconnect takes the endpoint's infos away.
LEMMA ForgetEndPointReports ==
    ASSUME NEW ep, NEW e, NEW g, NEW n
    PROVE  ReportedIn(ForgetEndPoint(ep), e, g, n) <=> Reported(e, g, n) /\ e # ep
  BY DEF ForgetEndPoint, ReportedIn, Reported

-----------------------------------------------------------------------------
\* The queue grows: the sessions that go down get their disconnect, and what
\* is queued for others is of sessions that are up.
Grows ==
    /\ queue' \in Seq(Job) /\ Len(queue) <= Len(queue')
    /\ \A i \in 1 .. Len(queue) : queue'[i] = queue[i]
    /\ \A s \in Sessions :
          /\ Gone(conn, s) => Gone(conn', s)
          /\ conn[s] = "up" =>
                \/ conn'[s] = "up"
                \/ \E k \in Len(queue) + 1 .. Len(queue') : Disconnects(queue'[k], s)
    /\ \A k \in Len(queue) + 1 .. Len(queue') :
          /\ Updates(queue'[k]) => conn'[queue'[k].session] = "up"
          /\ queue'[k].kind = "disconnect" => Gone(conn', queue'[k].session)

\* Threads that change their job do so in the middle of it or at its end, and
\* not in a disconnect.
RunsOn ==
    \A u \in Threads :
        \/ running'[u] = running[u]
        \/ /\ running[u] # NoJob /\ running[u].kind # "disconnect"
           /\ running'[u] # NoJob =>
                 /\ running'[u].kind = running[u].kind
                 /\ running'[u].session = running[u].session
                 /\ Updates(running[u])

\* No job is idle.
LEMMA NoJobIsNone == NoJob \notin Job
  BY DEF NoJob, Job

\* The pool, without the records of its jobs.
LEMMA PoolTypes ==
    ASSUME Inv
    PROVE  /\ queue \in Seq(Job) /\ Len(queue) \in Nat
           /\ \A i \in 1 .. Len(queue) :
                 /\ queue[i] \in Job /\ queue[i].session \in Sessions
                 /\ queue[i].pc = "start"
           /\ running \in [Threads -> Job \cup {NoJob}]
           /\ \A t \in Threads : running[t] # NoJob =>
                 running[t] \in Job /\ running[t].session \in Sessions
           /\ conn \in [Sessions -> {"new", "up", "dropped", "closed"}]
<1>1. /\ queue \in Seq(Job) /\ running \in [Threads -> Job \cup {NoJob}]
      /\ conn \in [Sessions -> {"new", "up", "dropped", "closed"}]
      /\ \A i \in 1 .. Len(queue) : queue[i].pc = "start"
  BY DEF Inv, TypeOK, PoolOK, SessionsOK, JobsInv
<1>2. \A j \in Job : j.session \in Sessions
  BY DEF Job
<1> HIDE DEF Job, NoJob
<1>3. Len(queue) \in Nat /\ \A i \in 1 .. Len(queue) : queue[i] \in Job
  BY <1>1
<1>4. \A t \in Threads : running[t] # NoJob => running[t] \in Job
  BY <1>1
<1> QED
  BY <1>1, <1>2, <1>3, <1>4

\* A thread with a job before or after the step is alone.
LEMMA AloneInPool ==
    ASSUME OneHandler, OneHandler', NEW t \in Threads, NEW u \in Threads, u # t,
           running'[u] = running[u], running[t] # NoJob \/ running'[t] # NoJob
    PROVE  running[u] = NoJob
  BY DEF OneHandler

\* A step after which the queue is longer keeps the order of the queue.
LEMMA GrowsQueue ==
    ASSUME Inv, QueueInv, Grows
    PROVE  /\ QueueInv'
           /\ \A s \in Sessions, i \in 1 .. Len(queue) + 1 :
                 Ends(conn, queue, s, i) => Ends(conn', queue', s, i)
<1>1. /\ queue' \in Seq(Job) /\ Len(queue) <= Len(queue') /\ Len(queue) \in Nat
      /\ Len(queue') \in Nat
      /\ \A i \in 1 .. Len(queue) : queue'[i] = queue[i] /\ queue[i].session \in Sessions
  <2> HIDE DEF Job
  <2> QED
    BY PoolTypes DEF Grows
<1>2. ASSUME NEW s \in Sessions, NEW i \in 1 .. Len(queue) + 1, Ends(conn, queue, s, i)
      PROVE  Ends(conn', queue', s, i)
  <2>1. CASE conn[s] = "up"
    <3>1. CASE conn'[s] = "up"
      BY <3>1 DEF Ends
    <3>2. CASE \E k \in Len(queue) + 1 .. Len(queue') : Disconnects(queue'[k], s)
      <4>1. PICK k \in Len(queue) + 1 .. Len(queue') : Disconnects(queue'[k], s)
        BY <3>2
      <4>2. k \in i .. Len(queue')
        BY <1>1
      <4> QED
        BY <4>1, <4>2 DEF Ends
    <3> QED
      BY <2>1, <3>1, <3>2 DEF Grows
  <2>2. CASE \E k \in i .. Len(queue) : Disconnects(queue[k], s)
    <3>1. PICK k \in i .. Len(queue) : Disconnects(queue[k], s)
      BY <2>2
    <3>2. k \in i .. Len(queue') /\ queue'[k] = queue[k]
      BY <1>1
    <3> QED
      BY <3>1, <3>2 DEF Ends
  <2> QED
    BY <1>2, <2>1, <2>2 DEF Ends
<1>3. ASSUME NEW i \in 1 .. Len(queue')
      PROVE  /\ Updates(queue'[i]) => Ends(conn', queue', queue'[i].session, i + 1)
             /\ queue'[i].kind = "disconnect" => Gone(conn', queue'[i].session)
  <2>1. CASE i \in 1 .. Len(queue)
    <3>1. queue'[i] = queue[i] /\ queue[i].session \in Sessions /\ i + 1 \in 1 .. Len(queue) + 1
      BY <1>1, <2>1
    <3>2. /\ Updates(queue[i]) => Ends(conn, queue, queue[i].session, i + 1)
          /\ queue[i].kind = "disconnect" => Gone(conn, queue[i].session)
      BY <2>1 DEF QueueInv, Ordered
    <3>3. Ends(conn, queue, queue[i].session, i + 1) =>
             Ends(conn', queue', queue[i].session, i + 1)
      BY <1>2, <3>1
    <3>4. Gone(conn, queue[i].session) => Gone(conn', queue[i].session)
      BY <3>1 DEF Grows
    <3> QED
      BY <3>1, <3>2, <3>3, <3>4
  <2>2. CASE i \in Len(queue) + 1 .. Len(queue')
    BY <2>2 DEF Grows, Ends
  <2> QED
    BY <1>1, <2>1, <2>2
<1>4. QueueInv'
  BY <1>3 DEF QueueInv, Ordered
<1> QED
  BY <1>2, <1>4

\* What is queued for a session that is up, and nothing else, is appended.
LEMMA AppendGrows ==
    ASSUME Inv, NEW j \in Job, queue' = Append(queue, j), conn' = conn,
           Updates(j) => conn[j.session] = "up", j.kind # "disconnect"
    PROVE  Grows
<1>1. /\ queue' \in Seq(Job) /\ Len(queue) \in Nat /\ Len(queue') = Len(queue) + 1
      /\ queue'[Len(queue) + 1] = j
      /\ \A i \in 1 .. Len(queue) : queue'[i] = queue[i]
  <2> HIDE DEF Job
  <2> QED
    BY PoolTypes
<1>2. \A k \in Len(queue) + 1 .. Len(queue') : queue'[k] = j
  BY <1>1
<1> QED
  BY <1>1, <1>2 DEF Grows, Gone

\* A session is dropped.
LEMMA DropGrows ==
    ASSUME Inv, NEW s \in Sessions, Drop(s, queue)
    PROVE  Grows
<1> DEFINE j == NewJob("disconnect", s, {})
<1>1. j \in Job /\ j.kind = "disconnect" /\ j.session = s
  BY NewJobType DEF NewJob
<1> HIDE DEF j
<1>2. conn \in [Sessions -> {"new", "up", "dropped", "closed"}] /\ queue \in Seq(Job)
  BY PoolTypes
<1>3. CASE conn[s] = "up"
  <2>1. /\ queue' = Append(queue, j)
        /\ conn'[s] = "dropped" /\ \A r \in Sessions : r # s => conn'[r] = conn[r]
    BY <1>2, <1>3 DEF Drop, j
  <2>2. /\ queue' \in Seq(Job) /\ Len(queue) \in Nat /\ Len(queue') = Len(queue) + 1
        /\ queue'[Len(queue) + 1] = j
        /\ \A i \in 1 .. Len(queue) : queue'[i] = queue[i]
    <3> HIDE DEF Job
    <3> QED
      BY <1>1, <1>2, <2>1
  <2>3. \A k \in Len(queue) + 1 .. Len(queue') : queue'[k] = j
    BY <2>2
  <2>4. Len(queue) + 1 \in Len(queue) + 1 .. Len(queue')
    BY <2>2
  <2>5. ASSUME NEW r \in Sessions
        PROVE  /\ Gone(conn, r) => Gone(conn', r)
               /\ conn[r] = "up" =>
                     \/ conn'[r] = "up"
                     \/ \E k \in Len(queue) + 1 .. Len(queue') : Disconnects(queue'[k], r)
    BY <1>1, <2>1, <2>3, <2>4 DEF Gone, Disconnects
  <2>6. Len(queue) <= Len(queue')
    BY <2>2
  <2>7. \A k \in Len(queue) + 1 .. Len(queue') :
           /\ Updates(queue'[k]) => conn'[queue'[k].session] = "up"
           /\ queue'[k].kind = "disconnect" => Gone(conn', queue'[k].session)
    BY <1>1, <2>1, <2>3 DEF Updates, Gone
  <2> QED
    BY <2>2, <2>5, <2>6, <2>7, Zenon DEF Grows
<1>4. CASE conn[s] # "up"
  <2>1. queue' = queue /\ \A r \in Sessions : conn'[r] = conn[r]
    BY <1>2, <1>4 DEF Drop
  <2>2. Len(queue) \in Nat
    BY PoolTypes
  <2> QED
    BY <1>2, <2>1, <2>2 DEF Grows, Gone
<1> QED
  BY <1>3, <1>4

\* The elements of a concatenation.
LEMMA ConcatFacts ==
    ASSUME NEW S, NEW a \in Seq(S), NEW b \in Seq(S)
    PROVE  /\ a \o b \in Seq(S) /\ Len(a) \in Nat /\ Len(a \o b) = Len(a) + Len(b)
           /\ \A i \in 1 .. Len(a) : (a \o b)[i] = a[i]
           /\ \A i \in 1 .. Len(b) : (a \o b)[Len(a) + i] = b[i]
<1>1. a \o b \in Seq(S) /\ Len(a) \in Nat /\ Len(b) \in Nat /\ Len(a \o b) = Len(a) + Len(b)
  OBVIOUS
<1>2. \A i \in 1 .. Len(a) : (a \o b)[i] = a[i]
  OBVIOUS
<1>3. ASSUME NEW i \in 1 .. Len(b) PROVE (a \o b)[Len(a) + i] = b[i]
  <2>1. Len(a) + i \in 1 .. Len(a) + Len(b) /\ Len(a) + i > Len(a) /\ (Len(a) + i) - Len(a) = i
    BY <1>1
  <2> QED
    BY <2>1
<1> QED
  BY <1>1, <1>2, <1>3

\* stop() drops every session.
LEMMA StopGrows ==
    ASSUME Inv, Stop
    PROVE  Grows
<1> DEFINE up == {s \in Sessions : conn[s] = "up"}
<1>1. PICK order \in OrdersOfUp : DropAll(order)
  BY DEF Stop
<1>2. Cardinality(up) \in Nat
  BY SessionsFinite, FS_Subset, FS_CardinalityType
<1>3. /\ order \in [1 .. Cardinality(up) -> up]
      /\ \A s \in up : \E i \in 1 .. Cardinality(up) : order[i] = s
  BY <1>1 DEF OrdersOfUp
<1> DEFINE more == [i \in DOMAIN order |-> NewJob("disconnect", order[i], {})]
           N == Cardinality(up)
<1>4. \A s \in Sessions : /\ NewJob("disconnect", s, {}) \in Job
                          /\ NewJob("disconnect", s, {}).kind = "disconnect"
                          /\ NewJob("disconnect", s, {}).session = s
  BY NewJobType DEF NewJob
<1>5. /\ more \in [1 .. N -> Job]
      /\ \A i \in 1 .. N : more[i].kind = "disconnect" /\ more[i].session = order[i]
                           /\ order[i] \in Sessions /\ conn[order[i]] = "up"
  BY <1>3, <1>4
<1>6. queue' = queue \o more
  BY <1>1 DEF DropAll
<1>7. /\ \A s \in Sessions : conn'[s] = IF conn[s] = "up" THEN "dropped" ELSE conn[s]
      /\ \A s \in Sessions : conn[s] = "up" => \E i \in 1 .. N : order[i] = s
  BY <1>1, <1>3 DEF DropAll
<1>8. queue \in Seq(Job) /\ N \in Nat
  BY <1>2, PoolTypes
<1> HIDE DEF more, N, up
<1>9. /\ queue' \in Seq(Job) /\ Len(queue) \in Nat /\ Len(queue') = Len(queue) + N
      /\ \A i \in 1 .. Len(queue) : queue'[i] = queue[i]
      /\ \A i \in 1 .. N : queue'[Len(queue) + i] = more[i]
  <2>1. more \in Seq(Job) /\ Len(more) = N
    BY <1>5, <1>8
  <2>2. ASSUME NEW S, NEW a \in Seq(S), NEW b \in Seq(S)
        PROVE  /\ a \o b \in Seq(S) /\ Len(a) \in Nat /\ Len(a \o b) = Len(a) + Len(b)
               /\ \A i \in 1 .. Len(a) : (a \o b)[i] = a[i]
               /\ \A i \in 1 .. Len(b) : (a \o b)[Len(a) + i] = b[i]
    BY ConcatFacts
  <2> HIDE DEF Job
  <2>3. /\ queue' \in Seq(Job) /\ Len(queue) \in Nat
        /\ \A i \in 1 .. Len(queue) : queue'[i] = queue[i]
    BY <1>6, <1>8, <2>1
  <2>4. Len(queue') = Len(queue) + N
    BY <1>6, <1>8, <2>1, <2>2
  <2>5. ASSUME NEW i \in 1 .. N PROVE queue'[Len(queue) + i] = more[i]
    BY <1>6, <1>8, <2>1, <2>2
  <2> QED
    BY <2>3, <2>4, <2>5
<1>10. \A k \in Len(queue) + 1 .. Len(queue') :
          k - Len(queue) \in 1 .. N /\ queue'[k] = more[k - Len(queue)]
  BY <1>8, <1>9
<1>11. \A k \in Len(queue) + 1 .. Len(queue') :
          /\ Updates(queue'[k]) => conn'[queue'[k].session] = "up"
          /\ queue'[k].kind = "disconnect" => Gone(conn', queue'[k].session)
  BY <1>5, <1>7, <1>10 DEF Updates, Gone
<1>12. ASSUME NEW s \in Sessions, conn[s] = "up"
       PROVE  \E k \in Len(queue) + 1 .. Len(queue') : Disconnects(queue'[k], s)
  <2>1. PICK i \in 1 .. N : order[i] = s
    BY <1>7, <1>12
  <2>2. Len(queue) + i \in Len(queue) + 1 .. Len(queue') /\ queue'[Len(queue) + i] = more[i]
    BY <1>8, <1>9
  <2>3. Disconnects(queue'[Len(queue) + i], s)
    BY <1>5, <2>1, <2>2 DEF Disconnects
  <2> QED
    BY <2>2, <2>3
<1>13. Len(queue) <= Len(queue')
  BY <1>8, <1>9
<1>14. \A s \in Sessions : Gone(conn, s) => Gone(conn', s)
  BY <1>7 DEF Gone
<1> QED
  BY <1>9, <1>11, <1>12, <1>13, <1>14 DEF Grows

\* Nothing is queued and no session goes down.
LEMMA SameGrows ==
    ASSUME Inv, queue' = queue,
           \A s \in Sessions : (Gone(conn, s) => Gone(conn', s)) /\ (conn[s] = "up" => conn'[s] = "up")
    PROVE  Grows
  BY PoolTypes DEF Grows

\* What happens outside the pool lets the queue grow.
LEMMA OutsideGrows ==
    ASSUME Inv,
           \/ Start \/ WaitSucceeds \/ WaitTimesOut \/ Stop
           \/ \E s \in Sessions : Connections(s)
    PROVE  Grows /\ UNCHANGED <<maps, running>>
<1>1. UNCHANGED <<maps, running>>
  BY DEF Start, WaitSucceeds, WaitTimesOut, Stop, Connections, Connect, ConnectionLost,
         HandshakeAnswered, GroupNotify, pool
<1>2. ASSUME Start \/ WaitSucceeds \/ WaitTimesOut PROVE Grows
  <2>1. queue' = queue /\ conn' = conn
    BY <1>2 DEF Start, WaitSucceeds, WaitTimesOut, pool, sessions
  <2> QED
    BY <2>1, SameGrows DEF Gone
<1>3. ASSUME Stop PROVE Grows
  BY <1>3, StopGrows
<1>4. ASSUME NEW s \in Sessions, Connections(s) PROVE Grows
  <2>1. CASE Connect(s)
    <3>1. queue' = queue /\ conn[s] = "new" /\ conn' = [conn EXCEPT ![s] = "up"]
      BY <2>1 DEF Connect, pool
    <3>2. \A r \in Sessions : (Gone(conn, r) => Gone(conn', r)) /\ (conn[r] = "up" => conn'[r] = "up")
      BY <3>1, PoolTypes DEF Gone
    <3> QED
      BY <3>1, <3>2, SameGrows
  <2>2. CASE ConnectionLost(s)
    BY <2>2, DropGrows DEF ConnectionLost
  <2>3. ASSUME NEW kind \in {"handshake", "error"}, NEW infos \in SUBSET GroupInfo,
               HandshakeAnswered(s, kind, infos)
        PROVE  Grows
    <3> DEFINE j == NewJob(kind, s, infos)
    <3>1. j \in Job /\ j.kind = kind /\ j.session = s
      BY NewJobType DEF NewJob
    <3>2. /\ queue' = Append(queue, j) /\ conn' = conn
          /\ kind = "handshake" => conn[s] = "up"
      BY <2>3 DEF HandshakeAnswered
    <3> HIDE DEF j
    <3> QED
      BY <3>1, <3>2, AppendGrows DEF Updates
  <2>4. ASSUME NEW info \in GroupInfo, GroupNotify(s, info)
        PROVE  Grows
    <3> DEFINE j == NewJob("notify", s, {info})
    <3>1. j \in Job /\ j.kind = "notify" /\ j.session = s
      BY NewJobType DEF NewJob
    <3>2. queue' = Append(queue, j) /\ conn' = conn /\ conn[s] = "up"
      BY <2>4 DEF GroupNotify, sessions
    <3> HIDE DEF j
    <3> QED
      BY <3>1, <3>2, AppendGrows DEF Updates
  <2> QED
    BY <1>4, <2>1, <2>2, <2>3, <2>4 DEF Connections
<1> QED
  BY <1>1, <1>2, <1>3, <1>4

-----------------------------------------------------------------------------
\* The order of the handlers and the life of the endpoints, in a step that is
\* not the beginning or the end of a disconnect.
LEMMA RunsGrow ==
    ASSUME SingleInv, Grows, RunsOn
    PROVE  /\ QueueInv' /\ RunInv'
           /\ \A s \in Sessions : Ends(conn, queue, s, 1) => Ends(conn', queue', s, 1)
           /\ \A e : Alive(e) => Alive(e)'
<1>1. Inv /\ QueueInv /\ RunInv
  BY DEF SingleInv
<1>2. /\ QueueInv'
      /\ \A s \in Sessions : Ends(conn, queue, s, 1) => Ends(conn', queue', s, 1)
  <2>1. 1 \in 1 .. Len(queue) + 1
    BY <1>1, PoolTypes
  <2> QED
    BY <1>1, <2>1, GrowsQueue
<1>3. \A s \in Sessions : Gone(conn, s) => Gone(conn', s)
  BY DEF Grows
<1>4. ASSUME NEW t \in Threads, running'[t] # NoJob
      PROVE  /\ Updates(running'[t]) => Ends(conn', queue', running'[t].session, 1)
             /\ running'[t].kind = "disconnect" => Gone(conn', running'[t].session)
             /\ running'[t].pc # "start" => Updates(running'[t])
  <2>1. /\ running[t] # NoJob /\ running[t].session \in Sessions
        /\ running'[t].kind = running[t].kind /\ running'[t].session = running[t].session
        /\ running'[t] = running[t] \/ Updates(running[t])
    BY <1>1, <1>4, PoolTypes DEF RunsOn
  <2>2. /\ Updates(running[t]) => Ends(conn, queue, running[t].session, 1)
        /\ running[t].kind = "disconnect" => Gone(conn, running[t].session)
        /\ running[t].pc # "start" => Updates(running[t])
    BY <1>1, <2>1 DEF RunInv
  <2>3. Updates(running'[t]) <=> Updates(running[t])
    BY <2>1 DEF Updates
  <2> QED
    BY <1>2, <1>3, <2>1, <2>2, <2>3
<1>5. RunInv'
  BY <1>4 DEF RunInv
<1>6. ASSUME NEW e, Alive(e)
      PROVE  Alive(e)'
  <2>1. PICK s \in Sessions :
           /\ EndPointOf[s] = e
           /\ \/ Ends(conn, queue, s, 1)
              \/ \E t \in Threads : running[t] # NoJob /\ Disconnects(running[t], s)
    BY <1>6 DEF Alive
  <2>2. CASE Ends(conn, queue, s, 1)
    BY <1>2, <2>1, <2>2 DEF Alive
  <2>3. ASSUME NEW t \in Threads, running[t] # NoJob, Disconnects(running[t], s)
        PROVE  Alive(e)'
    <3>1. running'[t] = running[t]
      BY <2>3 DEF RunsOn, Disconnects
    <3> QED
      BY <2>1, <2>3, <3>1 DEF Alive
  <2> QED
    BY <2>1, <2>2, <2>3
<1> QED
  BY <1>2, <1>5, <1>6

\* The maps after a step.
LEMMA MapsPrimed ==
    \A e, g, n :
        /\ Routed(e, g, n)' <=> RoutedIn(m_group2Node2Endpoints', e, g, n)
        /\ Reported(e, g, n)' <=> ReportedIn(m_endPoint2GroupId2GroupInfo', e, g, n)
  BY DEF Routed, Reported, RoutedIn, ReportedIn

\* A step that leaves the maps alone, and is not of a thread that is updating
\* them.
LEMMA QuietMaps ==
    ASSUME SingleInv, UNCHANGED maps,
           \A e : Alive(e) => Alive(e)',
           \A t \in Threads :
              \/ running'[t] = running[t]
              \/ \A e, g : ~Updating(t, e, g) /\ ~Updating(t, e, g)'
    PROVE  AliveInv' /\ ExactInv' /\ UpdatingInv'
<1>1. AliveInv /\ ExactInv /\ UpdatingInv
  BY DEF SingleInv
<1>2. EndPoints' = EndPoints
  BY DEF EndPoints
<1>3. \A e, g, n : (Routed(e, g, n)' <=> Routed(e, g, n)) /\ (Reported(e, g, n)' <=> Reported(e, g, n))
  BY DEF maps, Routed, Reported, RoutedIn, ReportedIn
<1>4. \A t \in Threads : \A e, g : running'[t] = running[t] => (Updating(t, e, g)' <=> Updating(t, e, g))
  BY DEF Updating
<1>5. AliveInv'
  BY <1>1, <1>2, <1>3 DEF AliveInv
<1>6. ExactInv'
  BY <1>1, <1>2, <1>3, <1>4 DEF ExactInv
<1>7. UpdatingInv'
  BY <1>1, <1>2, <1>3, <1>4 DEF UpdatingInv
<1> QED
  BY <1>5, <1>6, <1>7

\* What happens outside the pool.
LEMMA SingleOutside ==
    ASSUME SingleInv,
           \/ Start \/ WaitSucceeds \/ WaitTimesOut \/ Stop
           \/ \E s \in Sessions : Connections(s)
    PROVE  QueueInv' /\ RunInv' /\ AliveInv' /\ ExactInv' /\ UpdatingInv'
<1>1. Grows /\ UNCHANGED maps /\ running' = running
  BY OutsideGrows DEF SingleInv
<1>2. RunsOn
  BY <1>1 DEF RunsOn
<1> QED
  BY <1>1, <1>2, RunsGrow, QuietMaps

\* A thread takes the next job: it is the only one at work.
LEMMA SingleTake ==
    ASSUME SingleInv, OneHandler', NEW t \in Threads, TakeJob(t)
    PROVE  QueueInv' /\ RunInv' /\ AliveInv' /\ ExactInv' /\ UpdatingInv'
<1>1. Inv /\ QueueInv /\ OneHandler
  BY DEF SingleInv
<1>2. /\ queue # <<>> /\ running[t] = NoJob /\ Goto(t, Head(queue)) /\ queue' = Tail(queue)
      /\ UNCHANGED maps /\ conn' = conn
  BY DEF TakeJob, sessions
<1>3. /\ Len(queue) \in Nat /\ 1 \in 1 .. Len(queue) /\ Head(queue) = queue[1]
      /\ Len(queue') = Len(queue) - 1
      /\ \A i \in 1 .. Len(queue') : i + 1 \in 1 .. Len(queue) /\ queue'[i] = queue[i + 1]
  <2>1. queue \in Seq(Job)
    BY <1>1, PoolTypes
  <2> HIDE DEF Job
  <2> QED
    BY <1>2, <2>1
<1>4. /\ queue[1] \in Job /\ queue[1].pc = "start" /\ queue[1] # NoJob
      /\ queue[1].session \in Sessions
  BY <1>1, <1>3, PoolTypes, NoJobIsNone
<1>5. /\ running'[t] = queue[1]
      /\ \A u \in Threads : u # t => running'[u] = running[u] /\ running[u] = NoJob
  <2>1. running \in [Threads -> Job \cup {NoJob}]
    BY <1>1, PoolTypes
  <2>2. running'[t] = queue[1] /\ \A u \in Threads : u # t => running'[u] = running[u]
    BY <1>2, <1>3, <2>1 DEF Goto
  <2> QED
    BY <1>1, <1>4, <2>2, AloneInPool
<1>6. ASSUME NEW s, NEW i \in 1 .. Len(queue), Ends(conn, queue, s, i + 1)
      PROVE  Ends(conn', queue', s, i)
  <2>1. CASE conn[s] = "up"
    BY <1>2, <2>1 DEF Ends
  <2>2. ASSUME NEW k \in i + 1 .. Len(queue), Disconnects(queue[k], s)
        PROVE  Ends(conn', queue', s, i)
    <3>1. k - 1 \in i .. Len(queue') /\ k - 1 \in 1 .. Len(queue') /\ (k - 1) + 1 = k
      BY <1>3
    <3>2. queue'[k - 1] = queue[k]
      BY <1>3, <3>1
    <3> QED
      BY <2>2, <3>1, <3>2 DEF Ends
  <2> QED
    BY <1>6, <2>1, <2>2 DEF Ends
<1>7. QueueInv'
  <2> SUFFICES ASSUME NEW i \in 1 .. Len(queue')
               PROVE  /\ Updates(queue'[i]) => Ends(conn', queue', queue'[i].session, i + 1)
                      /\ queue'[i].kind = "disconnect" => Gone(conn', queue'[i].session)
    BY DEF QueueInv, Ordered
  <2>1. i + 1 \in 1 .. Len(queue) /\ queue'[i] = queue[i + 1]
    BY <1>3
  <2>2. /\ Updates(queue[i + 1]) => Ends(conn, queue, queue[i + 1].session, (i + 1) + 1)
        /\ queue[i + 1].kind = "disconnect" => Gone(conn, queue[i + 1].session)
    BY <1>1, <2>1 DEF QueueInv, Ordered
  <2> QED
    BY <1>2, <1>6, <2>1, <2>2
<1>8. RunInv'
  <2>1. /\ Updates(queue[1]) => Ends(conn, queue, queue[1].session, 1 + 1)
        /\ queue[1].kind = "disconnect" => Gone(conn, queue[1].session)
    BY <1>1, <1>3 DEF QueueInv, Ordered
  <2>2. Updates(queue[1]) => Ends(conn', queue', queue[1].session, 1)
    BY <1>3, <1>6, <2>1
  <2> QED
    BY <1>2, <1>4, <1>5, <2>1, <2>2 DEF RunInv
<1>9. ASSUME NEW e, Alive(e)
      PROVE  Alive(e)'
  <2>1. PICK s \in Sessions :
           /\ EndPointOf[s] = e
           /\ \/ Ends(conn, queue, s, 1)
              \/ \E u \in Threads : running[u] # NoJob /\ Disconnects(running[u], s)
    BY <1>9 DEF Alive
  <2>2. Ends(conn, queue, s, 1)
    BY <1>2, <1>5, <2>1
  <2>3. CASE Disconnects(queue[1], s)
    BY <1>4, <1>5, <2>1, <2>3 DEF Alive
  <2>4. CASE ~Disconnects(queue[1], s)
    <3>1. Ends(conn, queue, s, 1 + 1)
      BY <1>3, <2>2, <2>4 DEF Ends
    <3> QED
      BY <1>3, <1>6, <2>1, <3>1 DEF Alive
  <2> QED
    BY <2>3, <2>4
<1>10. \A e, g : ~Updating(t, e, g) /\ ~Updating(t, e, g)'
  BY <1>2, <1>4, <1>5 DEF Updating
<1> QED
  BY <1>2, <1>5, <1>7, <1>8, <1>9, <1>10, QuietMaps

\* The steps of a handler, when it is the only one at work.
LEMMA Handlers ==
    ASSUME SingleInv, OneHandler', NEW t \in Threads, running[t] # NoJob,
           NEW j, Goto(t, j)
    PROVE  /\ running'[t] = j /\ running[t] \in Job /\ running[t].session \in Sessions
           /\ EndPointOf[running[t].session] \in EndPoints
           /\ \A u \in Threads : u # t => running'[u] = running[u] /\ running[u] = NoJob
<1>1. /\ Inv /\ OneHandler /\ running \in [Threads -> Job \cup {NoJob}]
      /\ running[t] \in Job /\ running[t].session \in Sessions
  BY PoolTypes DEF SingleInv
<1>2. running'[t] = j /\ \A u \in Threads : u # t => running'[u] = running[u]
  BY <1>1 DEF Goto
<1> QED
  BY <1>1, <1>2, AloneInPool DEF EndPoints

\* The steps of a handler outside the maps.
LEMMA SinglePool ==
    ASSUME SingleInv, OneHandler', NEW t \in Threads, running[t] # NoJob,
           \/ HandshakeFails(t, running[t]) \/ HandshakeSetsVersion(t, running[t])
           \/ OnRecvMessage(t, running[t]) \/ Finish(t, running[t])
    PROVE  QueueInv' /\ RunInv' /\ AliveInv' /\ ExactInv' /\ UpdatingInv'
<1> DEFINE r == running[t]
<1>1. Inv /\ RunInv /\ r \in Job /\ r.session \in Sessions
  BY PoolTypes DEF SingleInv
<1>2. UNCHANGED maps
  BY DEF HandshakeFails, HandshakeSetsVersion, OnRecvMessage, Finish
<1>3. r.kind # "disconnect" /\ r.pc \notin {"clear", "insert"}
  <2>1. r.pc # "start" => Updates(r)
    BY <1>1 DEF RunInv
  <2> QED
    BY <2>1 DEF HandshakeFails, HandshakeSetsVersion, OnRecvMessage, Finish, Updates
<1>4. Grows
  <2>1. CASE Drop(r.session, queue)
    BY <1>1, <2>1, DropGrows
  <2>2. CASE queue' = queue /\ conn' = conn
    BY <1>1, <2>2, SameGrows
  <2> QED
    BY <2>1, <2>2 DEF HandshakeFails, HandshakeSetsVersion, OnRecvMessage, Finish, sessions
<1>5. PICK j :
         /\ Goto(t, j)
         /\ \/ j = NoJob
            \/ /\ j.kind = r.kind /\ j.session = r.session /\ Updates(r)
               /\ j.pc \in {"info", "end"}
  <2>1. CASE Return(t)
    BY <2>1 DEF Return
  <2>2. CASE Goto(t, [r EXCEPT !.pc = NextPc(r.todo)]) /\ r.kind = "handshake"
    <3> DEFINE j == [r EXCEPT !.pc = NextPc(r.todo)]
    <3>1. j.kind = r.kind /\ j.session = r.session /\ j.pc \in {"info", "end"}
      BY <1>1 DEF Job, NextPc
    <3> HIDE DEF j
    <3>2. Goto(t, j)
      BY <2>2 DEF j
    <3> QED
      BY <2>2, <3>1, <3>2 DEF Updates
  <2>3. CASE Goto(t, [r EXCEPT !.pc = "info"]) /\ r.kind = "notify"
    <3> DEFINE j == [r EXCEPT !.pc = "info"]
    <3>1. j.kind = r.kind /\ j.session = r.session /\ j.pc \in {"info", "end"}
      BY <1>1 DEF Job
    <3> HIDE DEF j
    <3>2. Goto(t, j)
      BY <2>3 DEF j
    <3> QED
      BY <2>3, <3>1, <3>2 DEF Updates
  <2> QED
    BY <2>1, <2>2, <2>3
    DEF HandshakeFails, HandshakeSetsVersion, OnRecvMessage, OnNotifyGroupInfo, Finish
<1>6. running'[t] = j /\ \A u \in Threads : u # t => running'[u] = running[u]
  BY <1>5, Handlers
<1>7. RunsOn
  BY <1>3, <1>5, <1>6 DEF RunsOn
<1>8. \A e, g : ~Updating(t, e, g) /\ ~Updating(t, e, g)'
  BY <1>3, <1>5, <1>6 DEF Updating
<1> QED
  BY <1>2, <1>4, <1>6, <1>7, <1>8, RunsGrow, QuietMaps

\* updateGroupInfoByEp: the sections keep the order of the handlers.
LEMMA SectionRuns ==
    ASSUME SingleInv, OneHandler', NEW t \in Threads, running[t] # NoJob,
           running[t].pc \in {"info", "clear", "insert"}, NEW j, Goto(t, j), j # NoJob,
           j.kind = running[t].kind, j.session = running[t].session,
           queue' = queue, conn' = conn
    PROVE  /\ QueueInv' /\ RunInv' /\ \A e : Alive(e) => Alive(e)'
           /\ \A e : e = EndPointOf[running[t].session] => Alive(e)'
           /\ running[t].info \in GroupInfo \/ running[t].pc = "info"
<1>1. Inv /\ RunInv /\ JobsInv
  BY DEF SingleInv, Inv
<1>2. /\ running'[t] = j /\ running[t].session \in Sessions
      /\ \A u \in Threads : u # t => running'[u] = running[u]
  BY Handlers
<1>3. Updates(running[t]) /\ Ends(conn, queue, running[t].session, 1)
  BY <1>1 DEF RunInv
<1>4. Grows
  BY <1>1, SameGrows
<1>5. RunsOn
  BY <1>2, <1>3 DEF RunsOn, Updates
<1>6. Alive(EndPointOf[running[t].session])
  BY <1>2, <1>3 DEF Alive
<1>7. running[t].info \in GroupInfo \/ running[t].pc = "info"
  BY <1>1 DEF JobsInv
<1> QED
  BY <1>4, <1>5, <1>6, <1>7, RunsGrow

\* updateGroupInfoByEp, first section.
LEMMA SingleInfo ==
    ASSUME SingleInv, OneHandler', NEW t \in Threads, running[t] # NoJob,
           NEW info \in running[t].todo, UpdateInfo(t, running[t], info)
    PROVE  QueueInv' /\ RunInv' /\ AliveInv' /\ ExactInv' /\ UpdatingInv'
<1> DEFINE r == running[t]
           ep == EndPointOf[r.session]
           j == [r EXCEPT !.pc = "clear", !.info = info, !.todo = @ \ {info}]
<1>1. /\ r.pc = "info" /\ Goto(t, j) /\ queue' = queue /\ conn' = conn
      /\ m_endPoint2GroupId2GroupInfo' = SetGroupInfo(ep, info)
      /\ m_group2Node2Endpoints' = m_group2Node2Endpoints
  BY DEF UpdateInfo, sessions
<1>2. /\ r \in Job /\ running'[t] = j /\ ep \in EndPoints
      /\ \A u \in Threads : u # t => running'[u] = running[u] /\ running[u] = NoJob
  BY <1>1, Handlers
<1>3. /\ j.kind = r.kind /\ j.session = r.session /\ j.pc = "clear" /\ j.info = info
      /\ j # NoJob
  <2>1. r.todo \subseteq GroupInfo
    BY <1>2 DEF Job
  <2>2. j \in Job /\ j.kind = r.kind /\ j.session = r.session /\ j.pc = "clear" /\ j.info = info
    BY <1>2, <2>1 DEF Job
  <2> QED
    BY <2>2, NoJobIsNone
<1> HIDE DEF j
<1>4. QueueInv' /\ RunInv' /\ \A e : Alive(e) => Alive(e)'
  BY <1>1, <1>3, SectionRuns
<1>5. \A e, g, n :
         /\ Routed(e, g, n)' <=> Routed(e, g, n)
         /\ Reported(e, g, n)' <=>
               IF e = ep /\ g = info.group THEN n \in info.nodes ELSE Reported(e, g, n)
  BY <1>1, MapsPrimed, SetGroupInfoReports DEF Routed
<1>6. /\ \A u \in Threads : \A e, g : ~Updating(u, e, g)
      /\ \A u \in Threads : \A e, g :
            Updating(u, e, g)' <=> (u = t /\ e = ep /\ g = info.group)
  BY <1>1, <1>2, <1>3 DEF Updating
<1>7. EndPoints' = EndPoints /\ AliveInv /\ ExactInv
  BY DEF EndPoints, SingleInv
<1>8. AliveInv'
  BY <1>4, <1>5, <1>7 DEF AliveInv
<1>9. ExactInv'
  BY <1>5, <1>6, <1>7 DEF ExactInv
<1>10. UpdatingInv'
  BY <1>2, <1>3, <1>5, <1>6 DEF UpdatingInv
<1> QED
  BY <1>4, <1>8, <1>9, <1>10

\* updateGroupInfoByEp, second section.
LEMMA SingleClear ==
    ASSUME SingleInv, OneHandler', NEW t \in Threads, running[t] # NoJob,
           UpdateClear(t, running[t])
    PROVE  QueueInv' /\ RunInv' /\ AliveInv' /\ ExactInv' /\ UpdatingInv'
<1> DEFINE r == running[t]
           ep == EndPointOf[r.session]
           j == [r EXCEPT !.pc = "insert"]
<1>1. /\ r.pc = "clear" /\ Goto(t, j) /\ queue' = queue /\ conn' = conn
      /\ m_group2Node2Endpoints' = ClearGroup(ep, r.info.group)
      /\ m_endPoint2GroupId2GroupInfo' = m_endPoint2GroupId2GroupInfo
  BY DEF UpdateClear, sessions
<1>2. /\ r \in Job /\ running'[t] = j /\ ep \in EndPoints
      /\ \A u \in Threads : u # t => running'[u] = running[u] /\ running[u] = NoJob
  BY <1>1, Handlers
<1>3. /\ j.kind = r.kind /\ j.session = r.session /\ j.pc = "insert" /\ j.info = r.info
      /\ j # NoJob
  <2>1. j \in Job /\ j.kind = r.kind /\ j.session = r.session /\ j.pc = "insert" /\ j.info = r.info
    BY <1>2 DEF Job
  <2> QED
    BY <2>1, NoJobIsNone
<1> HIDE DEF j
<1>4. QueueInv' /\ RunInv' /\ \A e : Alive(e) => Alive(e)'
  BY <1>1, <1>3, SectionRuns
<1>5. \A e, g, n :
         /\ Routed(e, g, n)' <=> Routed(e, g, n) /\ ~(e = ep /\ g = r.info.group)
         /\ Reported(e, g, n)' <=> Reported(e, g, n)
  BY <1>1, MapsPrimed, ClearGroupRoutes DEF Reported
<1>6. \A u \in Threads : \A e, g :
         /\ Updating(u, e, g) <=> (u = t /\ e = ep /\ g = r.info.group)
         /\ Updating(u, e, g)' <=> (u = t /\ e = ep /\ g = r.info.group)
  BY <1>1, <1>2, <1>3 DEF Updating
<1>7. EndPoints' = EndPoints /\ AliveInv /\ ExactInv /\ UpdatingInv
  BY DEF EndPoints, SingleInv
<1>8. AliveInv'
  BY <1>4, <1>5, <1>7 DEF AliveInv
<1>9. ExactInv'
  BY <1>5, <1>6, <1>7 DEF ExactInv
<1>10. UpdatingInv'
  BY <1>2, <1>3, <1>5, <1>6, <1>7 DEF UpdatingInv
<1> QED
  BY <1>4, <1>8, <1>9, <1>10

\* updateGroupInfoByEp, last section.
LEMMA SingleInsert ==
    ASSUME SingleInv, OneHandler', NEW t \in Threads, running[t] # NoJob,
           UpdateInsert(t, running[t])
    PROVE  QueueInv' /\ RunInv' /\ AliveInv' /\ ExactInv' /\ UpdatingInv'
<1> DEFINE r == running[t]
           ep == EndPointOf[r.session]
           j == [r EXCEPT !.pc = NextPc(r.todo), !.info = <<>>]
<1>1. /\ r.pc = "insert" /\ Goto(t, j) /\ queue' = queue /\ conn' = conn
      /\ m_group2Node2Endpoints' = InsertNodes(ep, r.info.group, r.info.nodes)
      /\ m_endPoint2GroupId2GroupInfo' = m_endPoint2GroupId2GroupInfo
  BY DEF UpdateInsert, sessions
<1>2. /\ r \in Job /\ running'[t] = j /\ ep \in EndPoints
      /\ \A u \in Threads : u # t => running'[u] = running[u] /\ running[u] = NoJob
  BY <1>1, Handlers
<1>3. j.kind = r.kind /\ j.session = r.session /\ j.pc \in {"info", "end"} /\ j # NoJob
  <2>1. j \in Job /\ j.kind = r.kind /\ j.session = r.session /\ j.pc \in {"info", "end"}
    BY <1>2 DEF Job, NextPc
  <2> QED
    BY <2>1, NoJobIsNone
<1> HIDE DEF j
<1>4. /\ QueueInv' /\ RunInv' /\ \A e : Alive(e) => Alive(e)'
      /\ \A e : e = ep => Alive(e)'
      /\ r.info \in GroupInfo
  BY <1>1, <1>3, SectionRuns
<1>5. \A e, g, n :
         /\ Routed(e, g, n)' <=>
               Routed(e, g, n) \/ (e = ep /\ g = r.info.group /\ n \in r.info.nodes)
         /\ Reported(e, g, n)' <=> Reported(e, g, n)
  BY <1>1, MapsPrimed, InsertNodesRoutes DEF Reported
<1>6. \A u \in Threads : \A e, g :
         /\ Updating(u, e, g) <=> (u = t /\ e = ep /\ g = r.info.group)
         /\ ~Updating(u, e, g)'
  BY <1>1, <1>2, <1>3 DEF Updating
<1>7. EndPoints' = EndPoints /\ AliveInv /\ ExactInv /\ UpdatingInv
  BY DEF EndPoints, SingleInv
<1>8. \A n \in Nodes :
         /\ Reported(ep, r.info.group, n) <=> n \in r.info.nodes
         /\ ~Routed(ep, r.info.group, n)
  <2>1. r.info.group \in Groups
    BY <1>4 DEF GroupInfo
  <2> QED
    BY <1>1, <1>2, <1>6, <1>7, <2>1 DEF UpdatingInv
<1>9. AliveInv'
  BY <1>4, <1>5, <1>7 DEF AliveInv
<1>10. ExactInv'
  BY <1>5, <1>6, <1>7, <1>8 DEF ExactInv
<1>11. UpdatingInv'
  BY <1>6 DEF UpdatingInv
<1> QED
  BY <1>4, <1>9, <1>10, <1>11

\* onDisconnect.
LEMMA SingleDisconnect ==
    ASSUME SingleInv, OneHandler', NEW t \in Threads, running[t] # NoJob,
           OnDisconnect(t, running[t])
    PROVE  QueueInv' /\ RunInv' /\ AliveInv' /\ ExactInv' /\ UpdatingInv'
<1> DEFINE r == running[t]
           ep == EndPointOf[r.session]
<1>1. /\ r.kind = "disconnect" /\ Goto(t, NoJob) /\ queue' = queue
      /\ conn' = [conn EXCEPT ![r.session] = "closed"]
      /\ m_group2Node2Endpoints' = ClearAllGroups(ep)
      /\ m_endPoint2GroupId2GroupInfo' = ForgetEndPoint(ep)
  BY DEF OnDisconnect, Return
<1>2. /\ r \in Job /\ r.session \in Sessions /\ running'[t] = NoJob
      /\ \A u \in Threads : u # t => running'[u] = running[u] /\ running[u] = NoJob
  BY <1>1, Handlers
<1>3. Inv /\ QueueInv /\ Gone(conn, r.session) /\ r.pc = "start"
  BY <1>1 DEF SingleInv, RunInv, Updates
<1>4. Grows
  <2>1. \A s \in Sessions : /\ Gone(conn, s) => Gone(conn', s)
                            /\ conn[s] = "up" => conn'[s] = "up"
    BY <1>1, <1>2, <1>3, PoolTypes DEF Gone
  <2> QED
    BY <1>1, <1>3, <2>1, SameGrows
<1>5. /\ QueueInv'
      /\ \A s \in Sessions : Ends(conn, queue, s, 1) => Ends(conn', queue', s, 1)
  <2>1. 1 \in 1 .. Len(queue) + 1
    BY <1>3, PoolTypes
  <2> QED
    BY <1>3, <1>4, <2>1, GrowsQueue
<1>6. \A u \in Threads : running'[u] = NoJob /\ (running[u] # NoJob => u = t)
  BY <1>2
<1>7. RunInv'
  BY <1>6 DEF RunInv
<1>8. \A u \in Threads : \A e, g : ~Updating(u, e, g) /\ ~Updating(u, e, g)'
  BY <1>3, <1>6 DEF Updating
<1>9. \A e, g, n :
         /\ Routed(e, g, n)' <=> Routed(e, g, n) /\ e # ep
         /\ Reported(e, g, n)' <=> Reported(e, g, n) /\ e # ep
  BY <1>1, MapsPrimed, ClearAllGroupsRoutes, ForgetEndPointReports
<1>10. ASSUME NEW e, e # ep, Alive(e)
       PROVE  Alive(e)'
  BY <1>5, <1>6, <1>10 DEF Alive, Disconnects
<1>11. EndPoints' = EndPoints /\ AliveInv /\ ExactInv
  BY DEF EndPoints, SingleInv
<1>12. AliveInv'
  BY <1>9, <1>10, <1>11 DEF AliveInv
<1>13. ExactInv'
  BY <1>8, <1>9, <1>11 DEF ExactInv
<1>14. UpdatingInv'
  BY <1>8 DEF UpdatingInv
<1> QED
  BY <1>5, <1>7, <1>12, <1>13, <1>14

-----------------------------------------------------------------------------
\* A step after which one handler runs at most keeps the invariant.
LEMMA StepSingle == SingleInv /\ [Next /\ OneHandler']_vars => SingleInv'
<1> SUFFICES ASSUME SingleInv, [Next /\ OneHandler']_vars PROVE SingleInv'
  OBVIOUS
<1>1. Inv'
  BY StepInv DEF SingleInv
<1>2. CASE UNCHANGED vars
  <2>1. UNCHANGED <<maps, running, queue, conn>>
    BY <1>2 DEF vars, pool, sessions
  <2>2. OneHandler' /\ QueueInv' /\ RunInv' /\ \A e : Alive(e) => Alive(e)'
    BY <2>1 DEF SingleInv, OneHandler, QueueInv, RunInv, Alive
  <2>3. AliveInv' /\ ExactInv' /\ UpdatingInv'
    BY <2>1, <2>2, QuietMaps
  <2> QED
    BY <1>1, <2>2, <2>3 DEF SingleInv
<1>3. CASE Next /\ OneHandler'
  <2>1. ASSUME NEW t \in Threads, Step(t)
        PROVE  QueueInv' /\ RunInv' /\ AliveInv' /\ ExactInv' /\ UpdatingInv'
    BY <1>3, <2>1, SinglePool, SingleInfo, SingleClear, SingleInsert, SingleDisconnect
    DEF Step, JobStep
  <2>2. QueueInv' /\ RunInv' /\ AliveInv' /\ ExactInv' /\ UpdatingInv'
    BY <1>3, <2>1, SingleOutside, SingleTake DEF Next
  <2> QED
    BY <1>1, <1>3, <2>2 DEF SingleInv
<1> QED
  BY <1>2, <1>3

\* The invariant holds in the initial state.
LEMMA InitSingle == Init => SingleInv
<1> SUFFICES ASSUME Init PROVE SingleInv
  OBVIOUS
<1>1. Inv
  BY InitInv
<1>2. OneHandler /\ QueueInv /\ RunInv /\ UpdatingInv
  BY DEF Init, OneHandler, QueueInv, Ordered, RunInv, UpdatingInv, Updating
<1>3. \A e, g, n : ~Routed(e, g, n) /\ ~Reported(e, g, n)
  <2>1. /\ DOMAIN m_group2Node2Endpoints = {}
        /\ DOMAIN m_endPoint2GroupId2GroupInfo = {}
    BY DEF Init
  <2> QED
    BY <2>1 DEF Routed, Reported, RoutedIn, ReportedIn
<1>4. AliveInv /\ ExactInv
  BY <1>3 DEF AliveInv, ExactInv
<1> QED
  BY <1>1, <1>2, <1>4 DEF SingleInv

\* What the invariant says when no handler is pending.
LEMMA SingleExact == SingleInv => RoutesAreLive /\ MapsAgree
<1> SUFFICES ASSUME SingleInv, Idle, NEW g \in Groups
             PROVE  /\ GetEndPointsByGroup(g) \subseteq Live
                    /\ GetGroupInfoNodes(g) = {n \in Nodes : HasEndPointOfNodeAvailable(g, n)}
  BY DEF RoutesAreLive, MapsAgree
<1>1. Inv /\ AliveInv /\ ExactInv /\ NoEmptyEntry
  BY DEF SingleInv, Inv
<1>2. Len(queue) = 0 /\ \A t \in Threads : running[t] = NoJob
  BY DEF Idle
<1>3. \A e : Alive(e) => e \in Live
  BY <1>2 DEF Alive, Ends, Live
<1>4. \A e \in EndPoints, n \in Nodes : Routed(e, g, n) <=> Reported(e, g, n)
  BY <1>1, <1>2 DEF ExactInv, Updating
<1>5. \A n \in Nodes : \A e \in GetEndPointsByGroupAndNode(g, n) :
         e \in EndPoints /\ Routed(e, g, n)
  BY <1>1 DEF Inv, TypeOK, RoutesTo, GetEndPointsByGroupAndNode, HasEndPointOfNodeAvailable,
              Routed, RoutedIn
<1>6. GetEndPointsByGroup(g) \subseteq Live
  BY <1>1, <1>3, <1>5 DEF AliveInv, GetEndPointsByGroup
<1>7. \A n : n \in GetGroupInfoNodes(g) <=> \E e \in EndPoints : n \in Nodes /\ Reported(e, g, n)
  <2>1. InfosOf(m_endPoint2GroupId2GroupInfo, EndPoints)
    BY <1>1 DEF Inv, TypeOK
  <2> QED
    BY <2>1 DEF GetGroupInfoNodes, InfosOf, Reported, ReportedIn
<1>8. \A n \in Nodes : HasEndPointOfNodeAvailable(g, n) <=> \E e \in EndPoints : Routed(e, g, n)
  BY <1>1 DEF Inv, TypeOK, RoutesTo, NoEmptyEntry, HasEndPointOfNodeAvailable, Routed, RoutedIn
<1>9. GetGroupInfoNodes(g) = {n \in Nodes : HasEndPointOfNodeAvailable(g, n)}
  BY <1>4, <1>7, <1>8
<1> QED
  BY <1>6, <1>9

\* With one handler at a time, when none is pending, messages of a group go
\* to connected endpoints only, and getGroupInfo names exactly the nodes that
\* they can go to, for any sessions, groups and nodes.
THEOREM OneHandlerExact == SingleSpec => [](RoutesAreLive /\ MapsAgree)
  BY InitSingle, StepSingle, SingleExact, PTL DEF SingleSpec

\* The same of the specification the run checks, in its part "single".
THEOREM OneHandlerPartExact == mcSpec => []OneHandlerMapsExact
<1> DEFINE PartInv == part = "single" => SingleInv
<1>1. mcInit => PartInv
  BY InitSingle DEF mcInit
<1>2. PartInv /\ [mcNext]_<<vars, part>> => PartInv'
  <2> SUFFICES ASSUME PartInv, [mcNext]_<<vars, part>>, part' = "single" PROVE SingleInv'
    OBVIOUS
  <2>1. part = "single" /\ [Next /\ OneHandler']_vars
    BY DEF mcNext
  <2> QED
    BY <2>1, StepSingle
<1>3. PartInv => OneHandlerMapsExact
  BY SingleExact DEF OneHandlerMapsExact
<1> QED
  BY <1>1, <1>2, <1>3, PTL DEF mcSpec
=============================================================================

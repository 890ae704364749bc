--------------------------- MODULE EventSubProofs ---------------------------
(***************************************************************************)
(* Theorems about EventSub, for any set of tasks, any connections and any  *)
(* range of blocks.  The inductive invariant is built in layers:           *)
(*   TypeOK and SuspendCountExact, which need each other (the counter is a *)
(*     natural number because it is the size of a set);                    *)
(*   RequestInv, who may still add a task to the tables;                   *)
(*   RemovedInv, that a removed task has nobody left to add it;            *)
(*   ArrivedInv, the blocks behind every number the client resumes from.   *)
(***************************************************************************)
EXTENDS EventSub, FiniteSetTheorems, TLAPS

Tables == TypeOK /\ SuspendCountExact

Outstandings == {r \in requests : r.phase # "added"}

\* A first request that is open belongs to a task in no table, with no
\* request of doLoop; an open request's task is not working; a bound request
\* and its task agree on the session.
RequestInv ==
    /\ WaitRespExact
    /\ \A r \in requests : r.task \in created
    /\ m_workingTasks \cup m_suspendTasks \subseteq created
    /\ \A r \in Outstandings : r.task \notin m_workingTasks
    /\ \A r \in Outstandings : r.kind = "first" =>
          r.task \notin m_suspendTasks /\ r.task \notin m_waitRespTasks
    /\ \A r \in requests : r.phase = "bound" => m_session[r.task] = r.session
    /\ SessionMatchesTable

RemovedInv ==
    \A t \in gone : t \in created /\ ~Known(t) /\ ~Outstanding(t)

\* The blocks hold every one up to b, from the given first one on.
Covers(blocks, first, b) == \A k \in 0 .. b : k >= first => k \in blocks

\* Every block up to b, from where the subscription began, has been pushed.
AllArrived(t, b) == Covers(arrived[t], begun[t], b)

ArrivedInv ==
    /\ \A r \in requests : AllArrived(r.task, r.from - 1)
    /\ \A s \in Sessions, t \in Tasks :
          cursor[s][t] # NoSub => AllArrived(t, cursor[s][t] - 1)
    /\ \A p \in pushes : p.status = "Success" => AllArrived(p.task, p.block)
    /\ \A p \in pushes : p.stage = "store" => p.status = "Success"
    /\ \A t \in Tasks : AllArrived(t, m_currentBlockNumber[t])
    /\ \A t \in Tasks : begun[t] >= FromBlock

-----------------------------------------------------------------------------
(* Facts about the helpers.                                                *)

\* The size of a set of tasks is a natural number.
LEMMA TaskSetFinite ==
    ASSUME NEW S \in SUBSET Tasks
    PROVE  IsFiniteSet(S) /\ Cardinality(S) \in Nat
BY TasksFinite, FS_Subset, FS_CardinalityType

\* removeSuspendTask and getTaskAndRemove take out one task.
LEMMA TakeOneOut ==
    ASSUME NEW S \in SUBSET Tasks, NEW t \in S
    PROVE  Cardinality(S \ {t}) = Cardinality(S) - 1
BY TaskSetFinite, FS_RemoveElement

\* suspendTasks adds tasks that are not suspended yet.
LEMMA PutManyIn ==
    ASSUME NEW S \in SUBSET Tasks, NEW T \in SUBSET Tasks, S \cap T = {}
    PROVE  Cardinality(S \cup T) = Cardinality(S) + Cardinality(T \ S)
<1>1. Cardinality(S \cap T) = 0
  BY FS_EmptySet
<1>2. Cardinality(S \cup T) = Cardinality(S) + Cardinality(T) - Cardinality(S \cap T)
  BY TaskSetFinite, FS_Union
<1>3. T \ S = T
  OBVIOUS
<1> QED
  BY <1>1, <1>2, <1>3, TaskSetFinite

\* A request that moves to another phase changes nothing else.
LEMMA PhaseOnly ==
    ASSUME NEW r \in Request,
           NEW phase \in {"sent", "accepted", "bound", "added"}
    PROVE  /\ InPhase(r, phase) \in Request
           /\ InPhase(r, phase).phase = phase
           /\ InPhase(r, phase).task = r.task
           /\ InPhase(r, phase).kind = r.kind
           /\ InPhase(r, phase).session = r.session
           /\ InPhase(r, phase).from = r.from
BY DEF InPhase, Request

\* The request that subscribeEvent builds is a request in its first phase.
LEMMA NewRequestType ==
    ASSUME TypeOK, NEW t \in Tasks, NEW s \in Sessions,
           NEW kind \in {"first", "resend"}
    PROVE  /\ NewRequest(t, kind, s) \in Request
           /\ NewRequest(t, kind, s).task = t
           /\ NewRequest(t, kind, s).kind = kind
           /\ NewRequest(t, kind, s).phase = "sent"
           /\ NewRequest(t, kind, s).from = ResumeFrom(t)
<1>1. ResumeFrom(t) \in Nat \cup {-1}
  BY BlockRange DEF TypeOK, ResumeFrom
<1> QED
  BY <1>1 DEF NewRequest, Request

\* The node begins at a block: the one asked for, or the latest one.
LEMMA NodeBegins ==
    ASSUME NEW r \in requests, r.from \in Nat \cup {-1}, NodeAccepts(r)
    PROVE  \E b \in Nat :
              /\ cursor' = [cursor EXCEPT ![r.session][r.task] = b]
              /\ \/ r.from = b /\ begun' = begun
                 \/ begun' = [begun EXCEPT ![r.task] = b] /\ b >= begun[r.task]
<1>1. CASE r.from # -1
  <2>1. r.from \in Nat
    BY <1>1
  <2>2. cursor' = [cursor EXCEPT ![r.session][r.task] = r.from] /\ begun' = begun
    BY <1>1 DEF NodeAccepts
  <2> QED
    BY <2>1, <2>2
<1>2. CASE r.from = -1
  <2>1. PICK b \in LatestBlocks(r.task) :
           /\ cursor' = [cursor EXCEPT ![r.session][r.task] = b]
           /\ begun' = [begun EXCEPT ![r.task] = b]
    BY <1>2 DEF NodeAccepts
  <2>2. b \in Nat /\ b >= begun[r.task]
    BY BlockRange DEF LatestBlocks
  <2> QED
    BY <2>1, <2>2
<1> QED
  BY <1>1, <1>2

-----------------------------------------------------------------------------
(* Types and the counter.                                                  *)

\* The tables are disjoint, typed and counted in the initial state.
LEMMA TablesInit == Init => Tables
<1> SUFFICES ASSUME Init PROVE Tables
  OBVIOUS
<1>1. TypeOK
  BY BlockRange DEF Init, InitTasks, TypeOK, NoSub
<1>2. SuspendCountExact
  BY FS_EmptySet DEF Init, InitTasks, SuspendCountExact
<1> QED
  BY <1>1, <1>2 DEF Tables

\* The steps of start, stop, the user's calls and the timer.
LEMMA TablesCalls ==
    ASSUME Tables, Lifecycle \/ TimerFires \/ UserCalls
    PROVE  Tables'
<1> USE DEF Tables
<1>1. CASE Lifecycle
  BY <1>1 DEF Lifecycle, StartEnter, StartReturns, StartThrows, Stop, TypeOK,
     SuspendCountExact, tables, task, user, node, history
<1>2. CASE TimerFires
  <2> PICK route \in [Retryable -> Up \cup {NULL}] : DoLoop(route)
    BY <1>2 DEF TimerFires
  <2>1. Retryable \subseteq Tasks /\ Up \subseteq Sessions
    BY DEF Retryable, Up, TypeOK
  <2>2. ASSUME NEW t \in Retryable, route[t] # NULL
        PROVE  NewRequest(t, "resend", route[t]) \in Request
    BY <2>1, <2>2, NewRequestType
  <2>3. requests' \subseteq Request /\ m_waitRespTasks' \subseteq Tasks
    BY <2>1, <2>2 DEF DoLoop, TypeOK
  <2> QED
    BY <2>3 DEF DoLoop, TypeOK, SuspendCountExact, service, tables, task, user,
       node, history
<1>3. ASSUME NEW t \in Tasks, NEW s \in Up \cup {NULL}, SubscribeEvent(t, s)
      PROVE  Tables'
  <2>1. s # NULL => NewRequest(t, "first", s) \in Request
    BY NewRequestType DEF Up
  <2> QED
    BY <1>3, <2>1 DEF SubscribeEvent, TypeOK, SuspendCountExact, service, tables,
       task, node, history
<1>4. ASSUME NEW t \in Tasks, UnsubscribeEvent(t)
      PROVE  Tables'
  <2>1. t \in m_suspendTasks =>
          /\ Cardinality(m_suspendTasks \ {t}) = m_suspendTasksCount - 1
          /\ Cardinality(m_suspendTasks \ {t}) \in Nat
    BY TakeOneOut, TaskSetFinite DEF TypeOK, SuspendCountExact
  <2> QED
    BY <1>4, <2>1 DEF UnsubscribeEvent, GetTaskAndRemove, TypeOK,
       SuspendCountExact, service, task, node
<1>5. ASSUME NEW t \in Tasks, UnsubscribeSends(t)
      PROVE  Tables'
  BY <1>5 DEF UnsubscribeSends, TypeOK, SuspendCountExact, service, tables, task,
     history
<1> QED
  BY <1>1, <1>2, <1>3, <1>4, <1>5 DEF UserCalls

\* The steps of a response and of a push.
LEMMA TablesHandlers ==
    ASSUME Tables,
           \/ \E r \in requests : ResponseStep(r)
           \/ \E p \in pushes : PushStep(p)
    PROVE  Tables'
<1> USE DEF Tables
<1>1. ASSUME NEW r \in requests, OnResponseFails(r) \/ FinishResponse(r)
      PROVE  Tables'
  BY <1>1 DEF OnResponseFails, FinishResponse, CallbackDone, TypeOK,
     SuspendCountExact, service, tables, task, user, node, history
<1>2. ASSUME NEW r \in requests, OnResponseSuccess(r)
      PROVE  Tables'
  <2>1. r \in Request /\ InPhase(r, "bound") \in Request
    BY PhaseOnly DEF TypeOK
  <2>2. r.task \in Tasks /\ r.session \in Sessions
    BY <2>1 DEF Request
  <2> QED
    BY <1>2, <2>1, <2>2 DEF OnResponseSuccess, TypeOK, SuspendCountExact, service,
       tables, user, node, history
<1>3. ASSUME NEW r \in requests, AddTask(r)
      PROVE  Tables'
  <2>1. r \in Request /\ InPhase(r, "added") \in Request
    BY PhaseOnly DEF TypeOK
  <2>2. r.task \in Tasks
    BY <2>1 DEF Request
  <2>3. r.task \in m_suspendTasks =>
          /\ Cardinality(m_suspendTasks \ {r.task}) = m_suspendTasksCount - 1
          /\ Cardinality(m_suspendTasks \ {r.task}) \in Nat
    BY TakeOneOut, TaskSetFinite DEF TypeOK, SuspendCountExact
  <2>4. SuspendCountExact'
    <3>1. r.task \notin m_suspendTasks => m_suspendTasks \ {r.task} = m_suspendTasks
      OBVIOUS
    <3> QED
      BY <1>3, <2>3, <3>1 DEF AddTask, RemoveSuspendTask, SuspendCountExact
  <2>5. m_suspendTasksCount' \in Nat
    BY <1>3, <2>3 DEF AddTask, RemoveSuspendTask, TypeOK, SuspendCountExact
  <2> QED
    BY <1>3, <2>1, <2>2, <2>4, <2>5 DEF AddTask, RemoveSuspendTask, TypeOK,
       service, task, user, node, history
<1>4. ASSUME NEW p \in pushes, PushGetTask(p) \/ PushCompare(p)
      PROVE  Tables'
  <2>1. /\ [p EXCEPT !.stage = "found"] \in Push
        /\ [p EXCEPT !.stage = "store"] \in Push
    BY DEF TypeOK, Push
  <2> QED
    BY <1>4, <2>1 DEF PushGetTask, PushCompare, TypeOK, SuspendCountExact,
       service, tables, task, user, node, history
<1>5. ASSUME NEW p \in pushes, PushEnd(p)
      PROVE  Tables'
  <2>1. p.task \in Tasks
    BY DEF TypeOK, Push
  <2>2. p.task \in m_suspendTasks =>
          /\ Cardinality(m_suspendTasks \ {p.task}) = m_suspendTasksCount - 1
          /\ Cardinality(m_suspendTasks \ {p.task}) \in Nat
    BY TakeOneOut, TaskSetFinite DEF TypeOK, SuspendCountExact
  <2> QED
    BY <1>5, <2>1, <2>2 DEF PushEnd, GetTaskAndRemove, TypeOK, SuspendCountExact,
       service, task, user, node
<1>6. ASSUME NEW p \in pushes, PushStore(p)
      PROVE  Tables'
  <2>1. p.task \in Tasks /\ p.block \in Nat \cup {-1}
    BY DEF TypeOK, Push
  <2> QED
    BY <1>6, <2>1 DEF PushStore, TypeOK, SuspendCountExact, service, tables, user,
       node, history
<1> QED
  BY <1>1, <1>2, <1>3, <1>4, <1>5, <1>6 DEF ResponseStep, PushStep

\* The steps of connections and of the node.
LEMMA TablesEnvironment ==
    ASSUME Tables, Connections \/ Node
    PROVE  Tables'
<1> USE DEF Tables
<1>1. ASSUME NEW s \in Sessions, Connect(s)
      PROVE  Tables'
  BY <1>1 DEF Connect, TypeOK, SuspendCountExact, service, tables, task, user,
     node, history
<1>7. ASSUME NEW s \in Sessions, Drop(s)
      PROVE  Tables'
  <2>1. /\ cursor' \in [Sessions -> [Tasks -> Nat \cup {NoSub}]]
        /\ conn' \in [Sessions -> {"new", "up", "dropped", "closed"}]
    BY <1>7 DEF Drop, TypeOK
  <2> QED
    BY <1>7, <2>1 DEF Drop, TypeOK, SuspendCountExact, service, tables, task, user,
       history
<1>2. ASSUME NEW s \in Sessions, OnDisconnect(s)
      PROVE  Tables'
  <2> DEFINE B == BoundTo(s)
  <2>1. B \subseteq m_workingTasks
    BY DEF BoundTo
  <2>2. /\ m_suspendTasksCount' = Cardinality(m_suspendTasks \cup B)
        /\ m_suspendTasksCount' \in Nat
    <3>1. B \in SUBSET Tasks /\ m_suspendTasks \in SUBSET Tasks
          /\ m_suspendTasks \cap B = {}
      BY <2>1 DEF TypeOK, SuspendCountExact
    <3>2. Cardinality(m_suspendTasks \cup B) =
            Cardinality(m_suspendTasks) + Cardinality(B \ m_suspendTasks)
      BY <3>1, PutManyIn
    <3>3. Cardinality(m_suspendTasks \cup B) \in Nat
      <4> HIDE DEF B
      <4> QED BY <3>1, TaskSetFinite
    <3> QED
      BY <1>2, <3>2, <3>3 DEF OnDisconnect, AddSuspendTasks, SuspendCountExact
  <2>3. SuspendCountExact'
    BY <1>2, <2>1, <2>2 DEF OnDisconnect, AddSuspendTasks, SuspendCountExact
  <2>4. m_session' \in [Tasks -> Sessions \cup {NULL}]
    BY <1>2 DEF OnDisconnect, ClearSession, TypeOK
  <2> QED
    BY <1>2, <2>1, <2>2, <2>3, <2>4 DEF OnDisconnect, AddSuspendTasks, TypeOK,
       service, user, node, history
<1>3. ASSUME NEW r \in requests, NodeAccepts(r)
      PROVE  Tables'
  <2>1. r \in Request /\ InPhase(r, "accepted") \in Request
    BY PhaseOnly DEF TypeOK
  <2>2. r.task \in Tasks /\ r.session \in Sessions /\ r.from \in Nat \cup {-1}
    BY <2>1 DEF Request
  <2>3. PICK b \in Nat : /\ cursor' = [cursor EXCEPT ![r.session][r.task] = b]
                         /\ \/ begun' = begun
                            \/ begun' = [begun EXCEPT ![r.task] = b]
    BY <1>3, <2>2, NodeBegins
  <2>4. /\ cursor' \in [Sessions -> [Tasks -> Nat \cup {NoSub}]]
        /\ begun' \in [Tasks -> Nat \cup {-1}]
    BY <2>2, <2>3 DEF TypeOK
  <2> QED
    BY <1>3, <2>1, <2>2, <2>4 DEF NodeAccepts, TypeOK, SuspendCountExact, service,
       tables, task, user
<1>4. ASSUME NEW s \in Sessions, NEW t \in Tasks, NodePushes(s, t)
      PROVE  Tables'
  <2>1. cursor[s][t] \in Nat
    BY <1>4 DEF NodePushes, TypeOK
  <2> QED
    BY <1>4, <2>1 DEF NodePushes, TypeOK, SuspendCountExact, Push, service,
       tables, task, user
<1>5. ASSUME NEW s \in Sessions, NEW t \in Tasks,
             NEW status \in {"EndOfPush", "Error"}, NodeEnds(s, t, status)
      PROVE  Tables'
  BY <1>5 DEF NodeEnds, TypeOK, SuspendCountExact, Push, service, tables, task,
     user, history, NoSub
<1>6. ASSUME NEW s \in Sessions, NEW t \in Tasks, NodeUnsubscribes(s, t)
      PROVE  Tables'
  BY <1>6 DEF NodeUnsubscribes, TypeOK, SuspendCountExact, service, tables, task,
     user, history, NoSub
<1> QED
  BY <1>1, <1>2, <1>3, <1>4, <1>5, <1>6, <1>7 DEF Connections, Node

\* Every step keeps the two tables and the count of suspended tasks.
LEMMA TablesStep == Tables /\ [Next]_vars => Tables'
<1>1. ASSUME Tables, UNCHANGED vars PROVE Tables'
  BY <1>1 DEF Tables, TypeOK, SuspendCountExact, vars, service, tables, task, user,
     node, history
<1> QED
  BY <1>1, TablesCalls, TablesHandlers, TablesEnvironment DEF Next, Work

\* The counter of suspended tasks is exact and the tables are disjoint in
\* every reachable state, with every variable in its type.
THEOREM TablesCorrect == Spec => [](TypeOK /\ SuspendCountExact)
BY TablesInit, TablesStep, PTL DEF Spec, Tables

-----------------------------------------------------------------------------
(* Who may still add a task to the tables.                                 *)

\* The variables RequestInv is about.
requestVars ==
    <<requests, m_waitRespTasks, created, m_workingTasks, m_suspendTasks, m_session>>

\* A step that changes no request variable keeps the invariant on requests.
LEMMA RequestUnchanged == RequestInv /\ UNCHANGED requestVars => RequestInv'
BY DEF RequestInv, requestVars, WaitRespExact, Outstandings, SessionMatchesTable

\* No request is open in the initial state.
LEMMA RequestInit == Init => RequestInv
BY DEF Init, InitTasks, RequestInv, WaitRespExact, Outstandings, SessionMatchesTable

\* A request that moves on leaves m_waitRespTasks exact.
LEMMA WaitRespPhase ==
    ASSUME TypeOK, WaitRespExact, NEW r \in requests,
           NEW phase \in {"sent", "accepted", "bound", "added"},
           requests' = (requests \ {r}) \cup {InPhase(r, phase)},
           UNCHANGED m_waitRespTasks
    PROVE  WaitRespExact'
<1> DEFINE q == InPhase(r, phase)
<1>1. q.task = r.task /\ q.kind = r.kind
  BY PhaseOnly DEF TypeOK
<1> HIDE DEF q
<1>2. requests' = (requests \ {r}) \cup {q}
  BY DEF q
<1> QED
  BY <1>1, <1>2 DEF WaitRespExact

\* A finished request leaves m_waitRespTasks exact.
LEMMA WaitRespDone ==
    ASSUME TypeOK, WaitRespExact, NEW r \in requests,
           requests' = requests \ {r}, CallbackDone(r)
    PROVE  WaitRespExact'
BY DEF WaitRespExact, CallbackDone, TypeOK, Request

\* start, stop, the calls of the user and the timer keep the invariant on requests.
LEMMA RequestCalls ==
    ASSUME Tables, RequestInv, Lifecycle \/ TimerFires \/ UserCalls
    PROVE  RequestInv'
<1> USE DEF Tables
<1>1. CASE Lifecycle
  BY <1>1, RequestUnchanged DEF requestVars, Lifecycle, StartEnter, StartReturns,
     StartThrows, Stop, tables, task, user
<1>2. CASE TimerFires
  <2> PICK route \in [Retryable -> Up \cup {NULL}] : DoLoop(route)
    BY <1>2 DEF TimerFires
  <2> DEFINE sent == {t \in Retryable : route[t] # NULL}
             new == {NewRequest(t, "resend", route[t]) : t \in sent}
  <2>1. /\ requests' = requests \cup new
        /\ m_waitRespTasks' = m_waitRespTasks \cup sent
        /\ UNCHANGED <<created, m_workingTasks, m_suspendTasks, m_session>>
    BY DEF DoLoop, tables, task, user
  <2>2. sent \subseteq m_suspendTasks /\ sent \cap m_waitRespTasks = {}
        /\ sent \subseteq Tasks
    BY DEF Retryable, TypeOK
  <2>3. \A t \in sent : /\ NewRequest(t, "resend", route[t]).task = t
                        /\ NewRequest(t, "resend", route[t]).kind = "resend"
                        /\ NewRequest(t, "resend", route[t]).phase = "sent"
    BY DEF NewRequest
  <2> HIDE DEF sent
  <2>4. /\ \A q \in new : /\ q.task \in sent /\ q.kind = "resend"
                          /\ q.phase = "sent"
        /\ \A q1, q2 \in new : q1.task = q2.task => q1 = q2
        /\ \A t \in sent : \E q \in new : q.task = t
    BY <2>3
  <2> HIDE DEF new
  <2>5. WaitRespExact'
    BY <2>1, <2>2, <2>4 DEF WaitRespExact, RequestInv
  <2>6. /\ \A r \in requests' : r.task \in created'
        /\ \A r \in Outstandings' : r.task \notin m_workingTasks'
    BY <2>1, <2>2, <2>4 DEF RequestInv, Outstandings, SuspendCountExact
  <2>7. \A r \in Outstandings' : r.kind = "first" =>
           r.task \notin m_suspendTasks' /\ r.task \notin m_waitRespTasks'
    BY <2>1, <2>2, <2>4 DEF RequestInv, Outstandings
  <2>8. \A r \in requests' : r.phase = "bound" => m_session'[r.task] = r.session
    BY <2>1, <2>4 DEF RequestInv
  <2>9. SessionMatchesTable'
    BY <2>1 DEF RequestInv, SessionMatchesTable
  <2> QED
    BY <2>1, <2>5, <2>6, <2>7, <2>8, <2>9 DEF RequestInv
<1>3. ASSUME NEW t \in Tasks, NEW s \in Up \cup {NULL}, SubscribeEvent(t, s)
      PROVE  RequestInv'
  <2> DEFINE q == NewRequest(t, "first", s)
  <2>1. /\ t \notin created /\ created' = created \cup {t}
        /\ UNCHANGED <<m_waitRespTasks, m_workingTasks, m_suspendTasks, m_session>>
        /\ requests' = requests \/ requests' = requests \cup {q}
    BY <1>3 DEF SubscribeEvent, tables, task
  <2>2. q.task = t /\ q.kind = "first" /\ q.phase = "sent"
    BY DEF NewRequest
  <2> HIDE DEF q
  <2>3. t \notin m_waitRespTasks
    BY <2>1 DEF RequestInv, WaitRespExact
  <2>4. WaitRespExact'
    BY <2>1, <2>2 DEF RequestInv, WaitRespExact
  <2>5. SessionMatchesTable'
    BY <2>1 DEF RequestInv, SessionMatchesTable
  <2> QED
    BY <2>1, <2>2, <2>3, <2>4, <2>5 DEF RequestInv, Outstandings
<1>4. ASSUME NEW t \in Tasks, UnsubscribeEvent(t)
      PROVE  RequestInv'
  <2>1. /\ m_workingTasks' \subseteq m_workingTasks
        /\ m_suspendTasks' \subseteq m_suspendTasks
        /\ UNCHANGED <<requests, m_waitRespTasks, created, m_session>>
    BY <1>4 DEF UnsubscribeEvent, GetTaskAndRemove, task
  <2> QED
    BY <2>1 DEF RequestInv, WaitRespExact, Outstandings, SessionMatchesTable
<1>5. ASSUME NEW t \in Tasks, UnsubscribeSends(t)
      PROVE  RequestInv'
  BY <1>5, RequestUnchanged DEF UnsubscribeSends, requestVars, tables, task
<1> QED
  BY <1>1, <1>2, <1>3, <1>4, <1>5 DEF UserCalls

\* The handlers of responses and of pushes keep the invariant on requests.
LEMMA RequestHandlers ==
    ASSUME Tables, RequestInv,
           \/ \E r \in requests : ResponseStep(r)
           \/ \E p \in pushes : PushStep(p)
    PROVE  RequestInv'
<1> USE DEF Tables
<1>1. ASSUME NEW r \in requests, OnResponseFails(r) \/ FinishResponse(r)
      PROVE  RequestInv'
  <2>1. /\ requests' = requests \ {r} /\ CallbackDone(r)
        /\ r.phase # "bound"
        /\ UNCHANGED <<created, m_workingTasks, m_suspendTasks, m_session>>
    BY <1>1 DEF OnResponseFails, FinishResponse, tables, task, user
  <2>2. WaitRespExact'
    BY <2>1, WaitRespDone DEF RequestInv
  <2>3. m_waitRespTasks' \subseteq m_waitRespTasks
    BY <2>1 DEF CallbackDone
  <2>4. SessionMatchesTable'
    BY <2>1 DEF RequestInv, SessionMatchesTable
  <2> QED
    BY <2>1, <2>2, <2>3, <2>4 DEF RequestInv, Outstandings
<1>2. ASSUME NEW r \in requests, OnResponseSuccess(r)
      PROVE  RequestInv'
  <2> DEFINE q == InPhase(r, "bound")
  <2>1. /\ q.task = r.task /\ q.kind = r.kind /\ q.phase = "bound"
        /\ q.session = r.session /\ r.task \in Tasks /\ r.session \in Sessions
    BY PhaseOnly DEF TypeOK, Request
  <2>2. /\ requests' = (requests \ {r}) \cup {q} /\ r.phase = "accepted"
        /\ m_session' = [m_session EXCEPT ![r.task] = r.session]
        /\ UNCHANGED <<created, m_waitRespTasks, m_workingTasks, m_suspendTasks>>
    BY <1>2 DEF OnResponseSuccess, tables, user
  <2>3. WaitRespExact'
    BY <2>2, WaitRespPhase DEF RequestInv
  <2> HIDE DEF q
  <2>4. \A x \in Outstandings : x.task = r.task => x = r
    BY <2>2 DEF RequestInv, Outstandings, WaitRespExact, TypeOK, Request
  <2>5. \A x \in requests' : x.phase = "bound" => m_session'[x.task] = x.session
    BY <2>1, <2>2, <2>4 DEF RequestInv, Outstandings, TypeOK, Request
  <2>6. SessionMatchesTable'
    BY <2>1, <2>2, SessionsNonNull DEF RequestInv, SessionMatchesTable, TypeOK
  <2> QED
    BY <2>1, <2>2, <2>3, <2>5, <2>6 DEF RequestInv, Outstandings
<1>3. ASSUME NEW r \in requests, AddTask(r)
      PROVE  RequestInv'
  <2> DEFINE q == InPhase(r, "added")
  <2>1. /\ q.task = r.task /\ q.kind = r.kind /\ q.phase = "added"
        /\ r.task \in Tasks /\ r.session \in Sessions
    BY PhaseOnly DEF TypeOK, Request
  <2>2. /\ requests' = (requests \ {r}) \cup {q} /\ r.phase = "bound"
        /\ m_workingTasks' = m_workingTasks \cup {r.task}
        /\ m_suspendTasks' = m_suspendTasks \ {r.task}
        /\ UNCHANGED <<created, m_waitRespTasks, m_session>>
    BY <1>3 DEF AddTask, RemoveSuspendTask, task, user
  <2>3. WaitRespExact'
    BY <2>2, WaitRespPhase DEF RequestInv
  <2> HIDE DEF q
  <2>4. \A x \in Outstandings : x.task = r.task => x = r
    BY <2>2 DEF RequestInv, Outstandings, WaitRespExact, TypeOK, Request
  <2>5. \A x \in Outstandings' : x.task \notin m_workingTasks'
    BY <2>1, <2>2, <2>4 DEF RequestInv, Outstandings
  <2>6. SessionMatchesTable'
    BY <2>1, <2>2, SessionsNonNull DEF RequestInv, SessionMatchesTable
  <2> QED
    BY <2>1, <2>2, <2>3, <2>5, <2>6 DEF RequestInv, Outstandings
<1>4. ASSUME NEW p \in pushes, PushGetTask(p) \/ PushCompare(p) \/ PushStore(p)
      PROVE  RequestInv'
  BY <1>4, RequestUnchanged DEF PushGetTask, PushCompare, PushStore, requestVars,
     tables, task, user
<1>5. ASSUME NEW p \in pushes, PushEnd(p)
      PROVE  RequestInv'
  <2>1. /\ m_workingTasks' \subseteq m_workingTasks
        /\ m_suspendTasks' \subseteq m_suspendTasks
        /\ UNCHANGED <<requests, m_waitRespTasks, created, m_session>>
    BY <1>5 DEF PushEnd, GetTaskAndRemove, task, user
  <2> QED
    BY <2>1 DEF RequestInv, WaitRespExact, Outstandings, SessionMatchesTable
<1> QED
  BY <1>1, <1>2, <1>3, <1>4, <1>5 DEF ResponseStep, PushStep

\* Connections and nodes keep the invariant on requests.
LEMMA RequestEnvironment ==
    ASSUME Tables, RequestInv, Connections \/ Node
    PROVE  RequestInv'
<1> USE DEF Tables
<1>1. ASSUME NEW s \in Sessions, Connect(s) \/ Drop(s)
      PROVE  RequestInv'
  BY <1>1, RequestUnchanged DEF Connect, Drop, requestVars, tables, task, user
<1>2. ASSUME NEW s \in Sessions, OnDisconnect(s)
      PROVE  RequestInv'
  <2> DEFINE B == BoundTo(s)
  <2>1. /\ m_workingTasks' = m_workingTasks \ B
        /\ m_suspendTasks' = m_suspendTasks \cup B
        /\ m_session' = [t \in Tasks |-> IF t \in B THEN NULL ELSE m_session[t]]
        /\ UNCHANGED <<requests, m_waitRespTasks, created>>
    BY <1>2 DEF OnDisconnect, AddSuspendTasks, ClearSession, user
  <2>2. B \subseteq m_workingTasks /\ B \subseteq Tasks
    BY DEF BoundTo, TypeOK
  <2> HIDE DEF B
  <2>3. \A r \in requests : r.task \in Tasks
    BY DEF TypeOK, Request
  <2>4. \A r \in requests' : r.phase = "bound" => m_session'[r.task] = r.session
    BY <2>1, <2>2, <2>3 DEF RequestInv, Outstandings
  <2>5. SessionMatchesTable'
    BY <2>1, <2>2, <2>3 DEF RequestInv, SessionMatchesTable, TypeOK, SuspendCountExact
  <2>6. WaitRespExact'
    BY <2>1 DEF RequestInv, WaitRespExact
  <2> QED
    BY <2>1, <2>2, <2>4, <2>5, <2>6 DEF RequestInv, Outstandings
<1>3. ASSUME NEW r \in requests, NodeAccepts(r)
      PROVE  RequestInv'
  <2> DEFINE q == InPhase(r, "accepted")
  <2>1. q.task = r.task /\ q.kind = r.kind /\ q.phase = "accepted"
    BY PhaseOnly DEF TypeOK, Request
  <2>2. /\ requests' = (requests \ {r}) \cup {q} /\ r.phase = "sent"
        /\ UNCHANGED <<created, m_waitRespTasks, m_workingTasks, m_suspendTasks,
                       m_session>>
    BY <1>3 DEF NodeAccepts, tables, task, user
  <2>3. WaitRespExact'
    BY <2>2, WaitRespPhase DEF RequestInv
  <2> HIDE DEF q
  <2>4. SessionMatchesTable'
    BY <2>1, <2>2 DEF RequestInv, SessionMatchesTable
  <2> QED
    BY <2>1, <2>2, <2>3, <2>4 DEF RequestInv, Outstandings
<1>4. ASSUME NEW s \in Sessions, NEW t \in Tasks,
             \/ NodePushes(s, t) \/ NodeUnsubscribes(s, t)
             \/ \E status \in {"EndOfPush", "Error"} : NodeEnds(s, t, status)
      PROVE  RequestInv'
  BY <1>4, RequestUnchanged DEF NodePushes, NodeUnsubscribes, NodeEnds,
     requestVars, tables, task, user
<1> QED
  BY <1>1, <1>2, <1>3, <1>4 DEF Connections, Node

\* Every step keeps the invariant on requests.
LEMMA RequestStep == Tables /\ RequestInv /\ [Next]_vars => RequestInv'
<1>1. ASSUME RequestInv, UNCHANGED vars PROVE RequestInv'
  BY <1>1, RequestUnchanged DEF vars, requestVars, tables, task, user
<1> QED
  BY <1>1, RequestCalls, RequestHandlers, RequestEnvironment DEF Next, Work

\* The invariant on requests implies the properties that the runs check.
LEMMA RequestImplies ==
    Tables /\ RequestInv => WaitRespExact /\ OneSubscribeAtATime /\ SessionMatchesTable
BY DEF Tables, RequestInv, Outstandings, OneSubscribeAtATime, WaitRespExact, TypeOK,
   Request

\* m_waitRespTasks is exact, a subscription is asked for by one request at a
\* time, and the session of a task tells the table it is in.
THEOREM RequestsCorrect ==
    Spec => [](WaitRespExact /\ OneSubscribeAtATime /\ SessionMatchesTable)
<1>1. Init => Tables /\ RequestInv
  BY TablesInit, RequestInit
<1>2. Tables /\ RequestInv /\ [Next]_vars => (Tables /\ RequestInv)'
  BY TablesStep, RequestStep
<1> QED
  BY <1>1, <1>2, RequestImplies, PTL DEF Spec

-----------------------------------------------------------------------------
(* A removed task stays removed.                                           *)

\* Nothing is removed, no task enters a table, no open request appears.
LEMMA RemovedQuiet ==
    ASSUME RemovedInv, UNCHANGED <<gone, created>>,
           m_workingTasks' \cup m_suspendTasks' \subseteq m_workingTasks \cup m_suspendTasks,
           \A r \in requests' : r.phase # "added" =>
              \E q \in requests : q.task = r.task /\ q.phase # "added"
    PROVE  RemovedInv'
BY DEF RemovedInv, Known, Outstanding

\* getTaskAndRemove(t): t joins the removed tasks only without a request.
LEMMA RemovedByGetTask ==
    ASSUME Tables, RequestInv, RemovedInv, NEW t \in Tasks, GetTaskAndRemove(t),
           UNCHANGED <<requests, created>>
    PROVE  RemovedInv'
BY DEF Tables, SuspendCountExact, RequestInv, RemovedInv, GetTaskAndRemove, Known,
   Outstanding

\* Every step keeps removed tasks out of the tables and of the open requests.
LEMMA RemovedStep ==
    ASSUME Tables, RequestInv, RemovedInv, [Next]_vars
    PROVE  RemovedInv'
<1>0. \A r \in requests : r \in Request /\ r.task \in Tasks
  BY DEF Tables, TypeOK, Request
<1>1. CASE UNCHANGED vars
  BY <1>1 DEF vars, tables, user, history, RemovedInv, Known, Outstanding
<1>2. CASE Lifecycle
  BY <1>2 DEF Lifecycle, StartEnter, StartReturns, StartThrows, Stop, tables, user,
     history, RemovedInv, Known, Outstanding
<1>3. CASE TimerFires
  <2> PICK route \in [Retryable -> Up \cup {NULL}] : DoLoop(route)
    BY <1>3 DEF TimerFires
  <2>1. /\ \A r \in requests' : r \in requests \/ r.task \in m_suspendTasks
        /\ UNCHANGED <<gone, created, m_workingTasks, m_suspendTasks>>
    BY DEF DoLoop, NewRequest, Retryable, tables, user, history
  <2> QED
    BY <2>1 DEF RemovedInv, Known, Outstanding
<1>4. ASSUME NEW t \in Tasks, NEW s \in Up \cup {NULL}, SubscribeEvent(t, s)
      PROVE  RemovedInv'
  <2>1. /\ \A r \in requests' : r \in requests \/ r.task = t
        /\ t \notin created /\ created \subseteq created'
        /\ UNCHANGED <<gone, m_workingTasks, m_suspendTasks>>
    BY <1>4 DEF SubscribeEvent, NewRequest, tables, history
  <2> QED
    BY <2>1 DEF RemovedInv, Known, Outstanding
<1>5. ASSUME NEW t \in Tasks, UnsubscribeEvent(t)
      PROVE  RemovedInv'
  BY <1>5, RemovedByGetTask DEF UnsubscribeEvent
<1>6. ASSUME NEW t \in Tasks, UnsubscribeSends(t)
      PROVE  RemovedInv'
  BY <1>6 DEF UnsubscribeSends, tables, history, RemovedInv, Known, Outstanding
<1>7. ASSUME NEW r \in requests, OnResponseFails(r) \/ FinishResponse(r)
      PROVE  RemovedInv'
  BY <1>7 DEF OnResponseFails, FinishResponse, tables, user, history, RemovedInv,
     Known, Outstanding
<1>8. ASSUME NEW r \in requests, OnResponseSuccess(r) \/ NodeAccepts(r)
      PROVE  RemovedInv'
  <2>1. \E q : /\ requests' = (requests \ {r}) \cup {q}
               /\ q.task = r.task /\ q.phase # "added"
    BY <1>0, <1>8, PhaseOnly DEF OnResponseSuccess, NodeAccepts
  <2>2. r.phase # "added"
    BY <1>8 DEF OnResponseSuccess, NodeAccepts
  <2> QED
    BY <1>8, <2>1, <2>2, RemovedQuiet DEF OnResponseSuccess, NodeAccepts, tables,
       user, history
<1>9. ASSUME NEW r \in requests, AddTask(r)
      PROVE  RemovedInv'
  <2> DEFINE q == InPhase(r, "added")
  <2>1. q.task = r.task /\ q.phase = "added"
    BY <1>0, PhaseOnly
  <2>2. /\ requests' = (requests \ {r}) \cup {q} /\ r.phase = "bound"
        /\ m_workingTasks' = m_workingTasks \cup {r.task}
        /\ m_suspendTasks' = m_suspendTasks \ {r.task}
        /\ UNCHANGED <<created, gone>>
    BY <1>9 DEF AddTask, RemoveSuspendTask, user, history
  <2> HIDE DEF q
  <2>3. r.task \notin gone
    BY <2>2 DEF RemovedInv, Outstanding
  <2> QED
    BY <2>1, <2>2, <2>3 DEF RemovedInv, Known, Outstanding
<1>10. ASSUME NEW p \in pushes, PushGetTask(p) \/ PushCompare(p) \/ PushStore(p)
       PROVE  RemovedInv'
  BY <1>10 DEF PushGetTask, PushCompare, PushStore, tables, user, history,
     RemovedInv, Known, Outstanding
<1>11. ASSUME NEW p \in pushes, PushEnd(p)
       PROVE  RemovedInv'
  <2>1. p.task \in Tasks
    BY DEF Tables, TypeOK, Push
  <2> QED
    BY <1>11, <2>1, RemovedByGetTask DEF PushEnd, user
<1>12. ASSUME NEW s \in Sessions, Connect(s) \/ Drop(s)
       PROVE  RemovedInv'
  BY <1>12 DEF Connect, Drop, tables, user, history, RemovedInv, Known, Outstanding
<1>13. ASSUME NEW s \in Sessions, OnDisconnect(s)
       PROVE  RemovedInv'
  BY <1>13 DEF OnDisconnect, AddSuspendTasks, BoundTo, user, history, RemovedInv,
     Known, Outstanding
<1>14. ASSUME NEW s \in Sessions, NEW t \in Tasks,
              \/ NodePushes(s, t) \/ NodeUnsubscribes(s, t)
              \/ \E status \in {"EndOfPush", "Error"} : NodeEnds(s, t, status)
       PROVE  RemovedInv'
  BY <1>14 DEF NodePushes, NodeUnsubscribes, NodeEnds, tables, user, history,
     RemovedInv, Known, Outstanding
<1> QED
  BY <1>1, <1>2, <1>3, <1>4, <1>5, <1>6, <1>7, <1>8, <1>9, <1>10, <1>11, <1>12,
     <1>13, <1>14
     DEF Next, Work, UserCalls, ResponseStep, PushStep, Connections, Node

\* A task removed by EndOfPush, an error or unsubscribeEvent while no
\* subscribe request of it is open never comes back.
THEOREM RemovedStaysRemoved == Spec => []RemovedForGood
<1> DEFINE I == Tables /\ RequestInv /\ RemovedInv
<1>1. Init => I
  BY TablesInit, RequestInit DEF Init, InitTasks, RemovedInv
<1>2. I /\ [Next]_vars => I'
  BY TablesStep, RequestStep, RemovedStep
<1>3. I => RemovedForGood
  BY DEF RemovedInv, RemovedForGood
<1> QED
  BY <1>1, <1>2, <1>3, PTL DEF Spec

-----------------------------------------------------------------------------
(* Nothing is skipped over a disconnect.                                   *)

\* Nothing has arrived in the initial state.
LEMMA ArrivedInit == Init => ArrivedInv
<1> SUFFICES ASSUME Init PROVE ArrivedInv
  OBVIOUS
<1>1. 0 .. -1 = {} /\ FromBlock >= FromBlock
  BY BlockRange
<1> QED
  BY <1>1, BlockRange DEF Init, InitTasks, ArrivedInv, AllArrived, Covers, NoSub

\* Where a request of t resumes: all before it has arrived.
LEMMA ResumeArrived ==
    ASSUME TypeOK, ArrivedInv, NEW t \in Tasks
    PROVE  AllArrived(t, ResumeFrom(t) - 1)
<1>1. m_currentBlockNumber[t] \in Nat \cup {-1}
  BY DEF TypeOK
<1>2. begun[t] \in Nat \cup {-1} /\ begun[t] >= FromBlock
  BY DEF TypeOK, ArrivedInv
<1>3. AllArrived(t, FromBlock - 1)
  BY <1>2, BlockRange DEF AllArrived, Covers
<1>4. m_currentBlockNumber[t] > 0 =>
         AllArrived(t, (m_currentBlockNumber[t] + 1) - 1)
  BY <1>1 DEF ArrivedInv, AllArrived
<1> QED
  BY <1>3, <1>4 DEF ResumeFrom

\* Every step keeps what has arrived ahead of where a request resumes.
LEMMA ArrivedStep ==
    ASSUME Tables, ArrivedInv, [Next]_vars
    PROVE  ArrivedInv'
<1>0. /\ TypeOK
      /\ \A r \in requests : r \in Request /\ r.task \in Tasks
                             /\ r.session \in Sessions /\ r.from \in Nat \cup {-1}
      /\ \A p \in pushes : p.task \in Tasks /\ p.block \in Nat \cup {-1}
  BY DEF Tables, TypeOK, Request, Push
<1> USE DEF AllArrived
<1>1. CASE UNCHANGED vars
  BY <1>1 DEF vars, task, node, history, ArrivedInv
<1>2. CASE Lifecycle
  BY <1>2 DEF Lifecycle, StartEnter, StartReturns, StartThrows, Stop, task, node,
     history, ArrivedInv
<1>3. CASE TimerFires
  <2> PICK route \in [Retryable -> Up \cup {NULL}] : DoLoop(route)
    BY <1>3 DEF TimerFires
  <2>1. /\ \A r \in requests' :
              r \in requests \/ \E t \in Tasks : r.task = t /\ r.from = ResumeFrom(t)
        /\ UNCHANGED <<arrived, begun, cursor, pushes, m_currentBlockNumber>>
    BY <1>0 DEF DoLoop, NewRequest, Retryable, TypeOK, task, node, history
  <2>2. \A r \in requests' : AllArrived(r.task, r.from - 1)
    BY <1>0, <2>1, ResumeArrived DEF ArrivedInv
  <2> QED
    BY <2>1, <2>2 DEF ArrivedInv
<1>4. ASSUME NEW t \in Tasks, NEW s \in Up \cup {NULL}, SubscribeEvent(t, s)
      PROVE  ArrivedInv'
  <2> DEFINE q == NewRequest(t, "first", s)
  <2>1. /\ requests' = requests \/ requests' = requests \cup {q}
        /\ UNCHANGED <<arrived, begun, cursor, pushes, m_currentBlockNumber>>
    BY <1>4 DEF SubscribeEvent, task, node, history
  <2>a. q.task = t /\ q.from = ResumeFrom(t)
    BY DEF NewRequest
  <2> HIDE DEF q
  <2>2. \A r \in requests' : AllArrived(r.task, r.from - 1)
    BY <1>0, <2>1, <2>a, ResumeArrived DEF ArrivedInv
  <2> QED
    BY <2>1, <2>2 DEF ArrivedInv
<1>5. ASSUME NEW t \in Tasks, UnsubscribeEvent(t) \/ UnsubscribeSends(t)
      PROVE  ArrivedInv'
  BY <1>5 DEF UnsubscribeEvent, UnsubscribeSends, task, node, history, ArrivedInv
<1>6. ASSUME NEW r \in requests, OnResponseFails(r) \/ FinishResponse(r)
      PROVE  ArrivedInv'
  BY <1>6 DEF OnResponseFails, FinishResponse, task, node, history, ArrivedInv
<1>7. ASSUME NEW r \in requests, OnResponseSuccess(r) \/ AddTask(r)
      PROVE  ArrivedInv'
  <2>1. /\ \E q : /\ requests' = (requests \ {r}) \cup {q}
                  /\ q.task = r.task /\ q.from = r.from
        /\ UNCHANGED <<arrived, begun, cursor, pushes, m_currentBlockNumber>>
    BY <1>0, <1>7, PhaseOnly DEF OnResponseSuccess, AddTask, task, node, history
  <2> QED
    BY <2>1 DEF ArrivedInv
<1>8. ASSUME NEW r \in requests, NodeAccepts(r)
      PROVE  ArrivedInv'
  <2>1. /\ \E q : /\ requests' = (requests \ {r}) \cup {q}
                  /\ q.task = r.task /\ q.from = r.from
        /\ UNCHANGED <<arrived, pushes, m_currentBlockNumber>>
    BY <1>0, <1>8, PhaseOnly DEF NodeAccepts, task
  <2>2. PICK b \in Nat :
          /\ cursor' = [cursor EXCEPT ![r.session][r.task] = b]
          /\ \/ r.from = b /\ begun' = begun
             \/ begun' = [begun EXCEPT ![r.task] = b] /\ b >= begun[r.task]
    BY <1>0, <1>8, NodeBegins
  <2>3. \A s \in Sessions, t \in Tasks :
          cursor'[s][t] = IF s = r.session /\ t = r.task THEN b ELSE cursor[s][t]
    BY <1>0, <2>2 DEF TypeOK
  <2>4. \A t \in Tasks : /\ begun[t] \in Int /\ begun'[t] \in Int
                         /\ begun'[t] >= begun[t]
    BY <1>0, <2>2 DEF TypeOK
  <2>5. \A t \in Tasks : \A k : Covers(arrived[t], begun[t], k) =>
                                 Covers(arrived'[t], begun'[t], k)
    BY <2>1, <2>4 DEF Covers
  <2>6. Covers(arrived'[r.task], begun'[r.task], b - 1)
    <3>1. CASE r.from = b
      BY <1>0, <2>5, <3>1 DEF ArrivedInv
    <3>2. CASE begun' = [begun EXCEPT ![r.task] = b]
      BY <1>0, <3>2 DEF Covers, TypeOK
    <3> QED
      BY <2>2, <3>1, <3>2
  <2>7. \A s \in Sessions, t \in Tasks :
          cursor'[s][t] # NoSub => Covers(arrived'[t], begun'[t], cursor'[s][t] - 1)
    BY <2>3, <2>5, <2>6 DEF ArrivedInv
  <2>8. \A t \in Tasks : begun'[t] >= FromBlock
    BY <2>4, BlockRange DEF ArrivedInv
  <2> QED
    BY <1>0, <2>1, <2>5, <2>7, <2>8 DEF ArrivedInv
<1>9. ASSUME NEW p \in pushes, PushGetTask(p) \/ PushCompare(p)
      PROVE  ArrivedInv'
  <2>1. /\ \A q \in pushes' : \E x \in pushes :
              /\ q.task = x.task /\ q.block = x.block /\ q.status = x.status
              /\ q.stage = "store" => x.stage = "store" \/ x.status = "Success"
        /\ UNCHANGED <<arrived, begun, cursor, requests, m_currentBlockNumber>>
    BY <1>9 DEF PushGetTask, PushCompare, Tables, TypeOK, Push, task, node, history
  <2> QED
    BY <2>1 DEF ArrivedInv
<1>10. ASSUME NEW p \in pushes, PushEnd(p)
       PROVE  ArrivedInv'
  BY <1>10 DEF PushEnd, task, node, history, ArrivedInv
<1>11. ASSUME NEW p \in pushes, PushStore(p)
       PROVE  ArrivedInv'
  <2>1. /\ m_currentBlockNumber' = [m_currentBlockNumber EXCEPT ![p.task] = p.block]
        /\ pushes' \subseteq pushes
        /\ UNCHANGED <<arrived, begun, cursor, requests>>
    BY <1>11 DEF PushStore, node, history
  <2>2. \A t \in Tasks : AllArrived(t, m_currentBlockNumber'[t])
    BY <1>0, <1>11, <2>1 DEF PushStore, ArrivedInv, TypeOK
  <2> QED
    BY <2>1, <2>2 DEF ArrivedInv
<1>12. ASSUME NEW s \in Sessions, Connect(s) \/ OnDisconnect(s)
       PROVE  ArrivedInv'
  BY <1>12 DEF Connect, OnDisconnect, task, node, history, ArrivedInv
<1>13. ASSUME NEW s \in Sessions, Drop(s)
       PROVE  ArrivedInv'
  <2>1. \A x \in Sessions, t \in Tasks :
          cursor'[x][t] = cursor[x][t] \/ cursor'[x][t] = NoSub
    BY <1>0, <1>13 DEF Drop, TypeOK
  <2> QED
    BY <1>13, <2>1 DEF Drop, task, history, ArrivedInv
<1>14. ASSUME NEW s \in Sessions, NEW t \in Tasks, NodePushes(s, t)
       PROVE  ArrivedInv'
  <2> DEFINE b == cursor[s][t]
             q == [task |-> t, session |-> s, block |-> b, status |-> "Success",
                   stage |-> "received"]
  <2>1. /\ b \in Nat /\ b # NoSub
        /\ arrived' = [arrived EXCEPT ![t] = @ \cup {b}]
        /\ cursor' = [cursor EXCEPT ![s][t] = b + 1]
        /\ pushes' = pushes \cup {q}
        /\ UNCHANGED <<begun, requests, m_currentBlockNumber>>
    BY <1>0, <1>14 DEF NodePushes, TypeOK, task
  <2>a. q.task = t /\ q.block = b /\ q.stage = "received"
    OBVIOUS
  <2> HIDE DEF q
  <2>2. \A x \in Tasks : arrived[x] \subseteq arrived'[x]
    BY <1>0, <2>1 DEF TypeOK
  <2>3. \A x \in Sessions, y \in Tasks :
          cursor'[x][y] = IF x = s /\ y = t THEN b + 1 ELSE cursor[x][y]
    BY <1>0, <2>1 DEF TypeOK
  <2>4. Covers(arrived'[t], begun'[t], b)
    <3>1. Covers(arrived[t], begun[t], b - 1)
      BY <2>1 DEF ArrivedInv
    <3>2. arrived'[t] = arrived[t] \cup {b} /\ begun'[t] = begun[t]
      BY <1>0, <2>1 DEF TypeOK
    <3>3. \A i \in 0 .. b : i = b \/ i \in 0 .. (b - 1)
      BY <2>1
    <3> QED
      BY <2>1, <3>1, <3>2, <3>3 DEF Covers
  <2>5. (b + 1) - 1 = b
    BY <2>1
  <2>6. \A x \in Tasks : \A k : Covers(arrived[x], begun[x], k) =>
                                 Covers(arrived'[x], begun'[x], k)
    BY <2>1, <2>2 DEF Covers
  <2> HIDE DEF b
  <2>7. \A x \in Sessions, y \in Tasks :
          cursor'[x][y] # NoSub => Covers(arrived'[y], begun'[y], cursor'[x][y] - 1)
    BY <2>3, <2>4, <2>5, <2>6 DEF ArrivedInv
  <2>8. \A p \in pushes' :
          /\ p.status = "Success" => Covers(arrived'[p.task], begun'[p.task], p.block)
          /\ p.stage = "store" => p.status = "Success"
    BY <1>0, <2>1, <2>a, <2>4, <2>6 DEF ArrivedInv
  <2> QED
    BY <1>0, <2>1, <2>6, <2>7, <2>8 DEF ArrivedInv
<1>15. ASSUME NEW s \in Sessions, NEW t \in Tasks, NodeUnsubscribes(s, t)
       PROVE  ArrivedInv'
  <2>1. \A x \in Sessions, y \in Tasks :
          cursor'[x][y] = cursor[x][y] \/ cursor'[x][y] = NoSub
    BY <1>0, <1>15 DEF NodeUnsubscribes, TypeOK
  <2> QED
    BY <1>15, <2>1 DEF NodeUnsubscribes, task, history, ArrivedInv
<1>16. ASSUME NEW s \in Sessions, NEW t \in Tasks,
              NEW status \in {"EndOfPush", "Error"}, NodeEnds(s, t, status)
       PROVE  ArrivedInv'
  <2>1. \A x \in Sessions, y \in Tasks :
          cursor'[x][y] = cursor[x][y] \/ cursor'[x][y] = NoSub
    BY <1>0, <1>16 DEF NodeEnds, TypeOK
  <2> DEFINE e == [task |-> t, session |-> s, block |-> -1, status |-> status,
                   stage |-> "received"]
  <2>a. e.status # "Success" /\ e.stage # "store"
    OBVIOUS
  <2>b. /\ pushes' = pushes \cup {e}
        /\ UNCHANGED <<arrived, begun, requests, m_currentBlockNumber>>
    BY <1>16 DEF NodeEnds, task, history
  <2> HIDE DEF e
  <2>2. /\ \A q \in pushes' :
              q \in pushes \/ (q.status # "Success" /\ q.stage # "store")
        /\ UNCHANGED <<arrived, begun, requests, m_currentBlockNumber>>
    BY <2>a, <2>b
  <2> QED
    BY <2>1, <2>2 DEF ArrivedInv
<1> QED
  BY <1>1, <1>2, <1>3, <1>4, <1>5, <1>6, <1>7, <1>8, <1>9, <1>10, <1>11, <1>12,
     <1>13, <1>14, <1>15, <1>16
     DEF Next, Work, UserCalls, ResponseStep, PushStep, Connections, Node

\* A request that names a block never passes one that the node has not pushed
\* since the subscription began, over any number of disconnects and retries.
\* At "latest" (-1) the node may begin anew, and skip: ContinuesAfterDisconnect.
THEOREM ResumeSkipsNothing == Spec => []NoSkippedBlock
<1> DEFINE I == Tables /\ ArrivedInv
<1>1. Init => I
  BY TablesInit, ArrivedInit
<1>2. I /\ [Next]_vars => I'
  BY TablesStep, ArrivedStep
<1>3. I => NoSkippedBlock
  BY DEF ArrivedInv, AllArrived, Covers, NoSkippedBlock
<1> QED
  BY <1>1, <1>2, <1>3, PTL DEF Spec
-----------------------------------------------------------------------------
(* The client implements the abstract subscription.                        *)

\* The state of the abstract subscription.
abstractVars == <<created, OpenTasks, m_workingTasks, m_suspendTasks>>

\* Only one open request of a task.
LEMMA OneOpenRequest ==
    ASSUME Tables, RequestInv, NEW r \in Outstandings, NEW q \in Outstandings,
           r.task = q.task
    PROVE  r = q
BY DEF Tables, RequestInv, Outstandings, WaitRespExact, TypeOK, Request

\* A request that stays open after a step leaves the open tasks alone.
LEMMA OpenStays ==
    ASSUME NEW r \in Outstandings, NEW q, q.task = r.task, q.phase # "added",
           requests' = (requests \ {r}) \cup {q}
    PROVE  UNCHANGED OpenTasks
BY DEF OpenTasks, Outstandings

\* A request that is answered closes its task.
LEMMA OpenCloses ==
    ASSUME Tables, RequestInv, NEW r \in Outstandings,
           Outstandings' = Outstandings \ {r}
    PROVE  r.task \in OpenTasks /\ OpenTasks' = OpenTasks \ {r.task}
<1>1. \A q \in Outstandings : q.task = r.task => q = r
  BY OneOpenRequest
<1>2. OpenTasks = {q.task : q \in Outstandings}
  BY DEF OpenTasks, Outstandings
<1>3. OpenTasks' = {q.task : q \in Outstandings'}
  BY DEF OpenTasks, Outstandings
<1> QED
  BY <1>1, <1>2, <1>3

\* getTaskAndRemove is the abstract removal.
LEMMA RemoveRefines ==
    ASSUME Tables, NEW t \in Tasks, GetTaskAndRemove(t), UNCHANGED <<requests, created>>
    PROVE  Abstract!Next
<1>1. UNCHANGED OpenTasks
  BY DEF OpenTasks
<1>2. Abstract!Remove(t)
  BY <1>1 DEF Abstract!Remove, GetTaskAndRemove, Tables, SuspendCountExact
<1> QED
  BY <1>2 DEF Abstract!Next

\* A round of the timer asks again for lost subscriptions without a request.
LEMMA DoLoopRefines ==
    ASSUME Tables, RequestInv, NEW route \in [Retryable -> Up \cup {NULL}], DoLoop(route)
    PROVE  Abstract!Next
<1> DEFINE sent == {t \in Retryable : route[t] # NULL}
           new == {NewRequest(t, "resend", route[t]) : t \in sent}
<1>1. /\ requests' = requests \cup new
      /\ UNCHANGED <<created, m_workingTasks, m_suspendTasks>>
  BY DEF DoLoop, tables, user
<1>2. \A t \in sent : /\ NewRequest(t, "resend", route[t]).task = t
                      /\ NewRequest(t, "resend", route[t]).phase = "sent"
  BY DEF NewRequest
<1>3. sent \subseteq m_suspendTasks \ m_waitRespTasks /\ sent \subseteq Tasks
  BY DEF Retryable, Tables, TypeOK
<1> HIDE DEF sent
<1>4. /\ \A q \in new : q.task \in sent /\ q.phase = "sent"
      /\ \A t \in sent : \E q \in new : q.task = t
  BY <1>2
<1> HIDE DEF new
<1>5. OpenTasks' = OpenTasks \cup sent
  BY <1>1, <1>4 DEF OpenTasks
<1>6. sent \cap OpenTasks = {}
  <2>1. ASSUME NEW r \in requests, r.phase # "added", r.task \in sent PROVE FALSE
    <3>1. r.kind = "resend" => r.task \in m_waitRespTasks
      BY DEF RequestInv, WaitRespExact
    <3>2. r.kind = "first" => r.task \notin m_suspendTasks
      BY <2>1 DEF RequestInv, Outstandings
    <3>3. r.kind \in {"first", "resend"}
      BY DEF Tables, TypeOK, Request
    <3> QED
      BY <1>3, <2>1, <3>1, <3>2, <3>3
  <2> QED
    BY <2>1 DEF OpenTasks
<1>7. Abstract!AskAgain(sent)
  BY <1>1, <1>3, <1>5, <1>6 DEF Abstract!AskAgain
<1> QED
  BY <1>3, <1>7 DEF Abstract!Next

\* subscribeEvent hands out a subscription that nobody knew.
LEMMA SubscribeRefines ==
    ASSUME NEW t \in Tasks, NEW s \in Up \cup {NULL}, SubscribeEvent(t, s)
    PROVE  Abstract!Next
<1> DEFINE q == NewRequest(t, "first", s)
<1>1. /\ t \notin created /\ created' = created \cup {t}
      /\ UNCHANGED <<m_workingTasks, m_suspendTasks>>
      /\ requests' = requests \/ requests' = requests \cup {q}
  BY DEF SubscribeEvent, tables
<1>2. q.task = t /\ q.phase = "sent"
  BY DEF NewRequest
<1> HIDE DEF q
<1>3. OpenTasks' = OpenTasks \/ OpenTasks' = OpenTasks \cup {t}
  BY <1>1, <1>2 DEF OpenTasks
<1>4. Abstract!Create(t)
  BY <1>1, <1>3 DEF Abstract!Create
<1> QED
  BY <1>4 DEF Abstract!Next

\* The callback of a subscribe request: an answer accepts, or refuses.
LEMMA ResponseRefines ==
    ASSUME Tables, RequestInv, NEW r \in requests, ResponseStep(r) \/ NodeAccepts(r)
    PROVE  [Abstract!Next]_abstractVars
<1>0. r \in Request /\ r.task \in Tasks
  BY DEF Tables, TypeOK, Request
<1>1. CASE OnResponseFails(r)
  <2>1. /\ r \in Outstandings /\ Outstandings' = Outstandings \ {r}
        /\ UNCHANGED <<created, m_workingTasks, m_suspendTasks>>
    BY <1>1 DEF OnResponseFails, Outstandings, tables, user
  <2>2. Abstract!Refuse(r.task)
    BY <2>1, OpenCloses DEF Abstract!Refuse
  <2> QED
    BY <1>0, <2>2 DEF Abstract!Next
<1>2. CASE OnResponseSuccess(r) \/ NodeAccepts(r)
  <2>1. \E q : /\ requests' = (requests \ {r}) \cup {q}
               /\ q.task = r.task /\ q.phase # "added"
    BY <1>0, <1>2, PhaseOnly DEF OnResponseSuccess, NodeAccepts
  <2>2. r \in Outstandings
    BY <1>2 DEF OnResponseSuccess, NodeAccepts, Outstandings
  <2>3. UNCHANGED OpenTasks
    BY <2>1, <2>2, OpenStays
  <2> QED
    BY <1>2, <2>3 DEF OnResponseSuccess, NodeAccepts, abstractVars, tables, user
<1>3. CASE AddTask(r)
  <2> DEFINE q == InPhase(r, "added")
  <2>1. q.phase = "added"
    BY <1>0, PhaseOnly
  <2>2. /\ requests' = (requests \ {r}) \cup {q} /\ r.phase = "bound"
        /\ m_workingTasks' = m_workingTasks \cup {r.task}
        /\ m_suspendTasks' = m_suspendTasks \ {r.task}
        /\ UNCHANGED created
    BY <1>3 DEF AddTask, RemoveSuspendTask, user
  <2> HIDE DEF q
  <2>3. r \in Outstandings /\ Outstandings' = Outstandings \ {r}
    BY <2>1, <2>2 DEF Outstandings
  <2>4. Abstract!Accept(r.task)
    BY <2>2, <2>3, OpenCloses DEF Abstract!Accept
  <2> QED
    BY <1>0, <2>4 DEF Abstract!Next
<1>4. CASE FinishResponse(r)
  <2>1. UNCHANGED OpenTasks
    BY <1>4 DEF FinishResponse, OpenTasks
  <2> QED
    BY <1>4, <2>1 DEF FinishResponse, abstractVars, tables, user
<1> QED
  BY <1>1, <1>2, <1>3, <1>4 DEF ResponseStep

\* Every step is one of the abstract subscription, or changes nothing of it.
LEMMA SubscriptionStep ==
    ASSUME Tables, RequestInv, [Next]_vars
    PROVE  [Abstract!Next]_abstractVars
<1>0. requests' = requests => UNCHANGED OpenTasks
  BY DEF OpenTasks
<1>1. CASE UNCHANGED vars
  BY <1>0, <1>1 DEF vars, tables, user, abstractVars
<1>2. CASE Lifecycle
  BY <1>0, <1>2 DEF Lifecycle, StartEnter, StartReturns, StartThrows, Stop, tables,
     user, abstractVars
<1>3. CASE TimerFires
  BY <1>3, DoLoopRefines DEF TimerFires
<1>4. ASSUME NEW t \in Tasks, NEW s \in Up \cup {NULL}, SubscribeEvent(t, s)
      PROVE  Abstract!Next
  BY <1>4, SubscribeRefines
<1>5. ASSUME NEW t \in Tasks, UnsubscribeEvent(t)
      PROVE  Abstract!Next
  BY <1>5, RemoveRefines DEF UnsubscribeEvent
<1>6. ASSUME NEW t \in Tasks, UnsubscribeSends(t)
      PROVE  UNCHANGED abstractVars
  BY <1>0, <1>6 DEF UnsubscribeSends, tables, abstractVars
<1>7. ASSUME NEW r \in requests, ResponseStep(r) \/ NodeAccepts(r)
      PROVE  [Abstract!Next]_abstractVars
  BY <1>7, ResponseRefines
<1>8. ASSUME NEW p \in pushes, PushEnd(p)
      PROVE  Abstract!Next
  <2>1. p.task \in Tasks
    BY DEF Tables, TypeOK, Push
  <2> QED
    BY <1>8, <2>1, RemoveRefines DEF PushEnd, user
<1>9. ASSUME NEW p \in pushes, PushGetTask(p) \/ PushCompare(p) \/ PushStore(p)
      PROVE  UNCHANGED abstractVars
  BY <1>0, <1>9 DEF PushGetTask, PushCompare, PushStore, tables, user, abstractVars
<1>10. ASSUME NEW s \in Sessions, Connect(s) \/ Drop(s)
       PROVE  UNCHANGED abstractVars
  BY <1>0, <1>10 DEF Connect, Drop, tables, user, abstractVars
<1>11. ASSUME NEW s \in Sessions, OnDisconnect(s)
       PROVE  Abstract!Next
  <2>1. BoundTo(s) \subseteq m_workingTasks /\ BoundTo(s) \in SUBSET Tasks
    BY DEF BoundTo, Tables, TypeOK
  <2>2. Abstract!Lose(BoundTo(s))
    BY <1>0, <1>11, <2>1 DEF OnDisconnect, AddSuspendTasks, user, Abstract!Lose
  <2> QED
    BY <2>1, <2>2 DEF Abstract!Next
<1>12. ASSUME NEW s \in Sessions, NEW t \in Tasks,
              \/ NodePushes(s, t) \/ NodeUnsubscribes(s, t)
              \/ \E status \in {"EndOfPush", "Error"} : NodeEnds(s, t, status)
       PROVE  UNCHANGED abstractVars
  BY <1>0, <1>12 DEF NodePushes, NodeUnsubscribes, NodeEnds, tables, user,
     abstractVars
<1> QED
  BY <1>1, <1>2, <1>3, <1>4, <1>5, <1>6, <1>7, <1>8, <1>9, <1>10, <1>11, <1>12
     DEF Next, Work, UserCalls, PushStep, Connections, Node

\* The client implements the abstract subscription: an answer activates a
\* task once, one request at a time asks for it, and a removed task without
\* a request stays removed, for any tasks and connections.
THEOREM ClientIsSubscription == Spec => IsSubscription
<1> DEFINE I == Tables /\ RequestInv
<1>1. Init => I /\ Abstract!Init
  BY TablesInit, RequestInit DEF Init, InitTasks, OpenTasks, Abstract!Init
<1>2. I /\ [Next]_vars => I'
  BY TablesStep, RequestStep
<1>3. I /\ [Next]_vars => [Abstract!Next]_abstractVars
  BY SubscriptionStep
<1> QED
  BY <1>1, <1>2, <1>3, PTL DEF Spec, IsSubscription, Abstract!Spec, abstractVars
=============================================================================

------------------------------ MODULE EventSub ------------------------------
(***************************************************************************)
(* The contract-event subscription client (bcos-cpp-sdk/event).            *)
(*                                                                         *)
(* A task is one subscription: it is created by subscribeEvent, enters     *)
(* m_workingTasks when the node answers, moves to m_suspendTasks when its  *)
(* connection is lost and is subscribed again by the timer's doLoop from   *)
(* the block after the last one it has seen.                               *)
(*                                                                         *)
(* Message handlers, response callbacks, disconnect handlers, the timer    *)
(* and the user's threads run concurrently (thread_pool_size, default 8),  *)
(* so every critical section of x_tasks or x_waitRespTasks, and every      *)
(* access to a task outside them, is an action of its own.                 *)
(*                                                                         *)
(* The websocket layer and the node are external: a request is answered    *)
(* or fails exactly once, and the node pushes the blocks of a subscription *)
(* in order, from the block asked for, or the latest one, to toBlock.      *)
(***************************************************************************)
EXTENDS Integers, FiniteSets

CONSTANTS
    Tasks,       \* task ids, one per accepted call of subscribeEvent
    Sessions,    \* connections; a session object is one connection
    EndPointOf,  \* [Sessions -> endpoints]: several sessions, one endpoint
    FromBlock,   \* params.fromBlock of every task; -1, the default, is "latest"
    ToBlock,     \* params.toBlock of every task; -1, the default, is no end
    MaxBlock,    \* bound: the last block of the chain
    MaxPushes,   \* bound: pushes received and not fully handled at a time
    NULL         \* the null pointer

ASSUME TasksFinite == IsFiniteSet(Tasks)
ASSUME SessionsNonNull == NULL \notin Sessions
ASSUME BlockRange ==
    FromBlock \in Nat \cup {-1} /\ ToBlock \in Nat \cup {-1} /\ MaxBlock \in Nat

VARIABLES
    m_running,             \* start() was entered and stop() was not
    starting,              \* a call of start() is inside m_service->start()
    m_timer,               \* NULL, "armed" or "stopped"
    m_workingTasks,        \* ids in m_workingTasks
    m_suspendTasks,        \* ids in m_suspendTasks
    m_suspendTasksCount,   \* the atomic counter doLoop reads without a lock
    m_waitRespTasks,       \* ids with a subscribe request of doLoop pending
    m_session,             \* task -> session it is bound to, or NULL
    m_currentBlockNumber,  \* task -> EventSubTaskState::m_currentBlockNumber
    created,               \* ids handed out by subscribeEvent
    requests,              \* subscribe requests that are not finished
    pushes,                \* received pushes that are not fully handled
    conn,                  \* state of every connection
    cursor,                \* node: session -> task -> next block to push
    leaving,               \* tasks inside unsubscribeEvent, removed already
    unsubs,                \* unsubscribe requests on their way to the node
    unsubscribed,          \* history: ids given to unsubscribeEvent
    gone,                  \* history: ids removed with no request pending
    arrived,               \* history: task -> blocks pushed to the client
    begun                  \* history: task -> block its subscription begins at

service == <<m_running, starting, m_timer>>
tables  == <<m_workingTasks, m_suspendTasks, m_suspendTasksCount>>
task    == <<m_session, m_currentBlockNumber>>
node    == <<cursor, unsubs>>
user    == <<created, leaving>>
history == <<unsubscribed, gone, arrived, begun>>
vars    == <<service, tables, m_waitRespTasks, task, user, requests, pushes,
             conn, node, history>>

-----------------------------------------------------------------------------
NoSub == -1    \* no subscription: the node has no cursor

Request ==
    [task : Tasks, kind : {"first", "resend"},
     phase : {"sent", "accepted", "bound", "added"},
     session : Sessions, from : Nat \cup {-1}]

Push ==
    [task : Tasks, session : Sessions, block : Nat \cup {-1},
     status : {"Success", "EndOfPush", "Error"},
     stage : {"received", "found", "store"}]

Up == {s \in Sessions : conn[s] = "up"}

\* Mutation: resumes two blocks after the last one seen.
ResumeTooFar(t) ==
    IF m_currentBlockNumber[t] > 0 THEN m_currentBlockNumber[t] + 2 ELSE FromBlock

\* The block a subscribe request asks the node to start from: the one after
\* the last block seen, or again fromBlock when no block above 0 was seen.
ResumeFrom(t) ==
    IF m_currentBlockNumber[t] > 0 THEN m_currentBlockNumber[t] + 1 ELSE FromBlock

NewRequest(t, kind, s) ==
    [task |-> t, kind |-> kind, phase |-> "sent", session |-> s,
     from |-> ResumeFrom(t)]

InPhase(r, phase) == [r EXCEPT !.phase = phase]

\* A request whose callback may still put the task into m_workingTasks.
Outstanding(t) == \E r \in requests : r.task = t /\ r.phase # "added"

Known(t) == t \in m_workingTasks \cup m_suspendTasks

-----------------------------------------------------------------------------
InitTasks ==
    /\ m_workingTasks = {} /\ m_suspendTasks = {} /\ m_suspendTasksCount = 0
    /\ m_waitRespTasks = {}
    /\ m_session = [t \in Tasks |-> NULL]
    /\ m_currentBlockNumber = [t \in Tasks |-> -1]
    /\ created = {} /\ leaving = {} /\ requests = {} /\ pushes = {}
    /\ conn = [s \in Sessions |-> "new"]
    /\ cursor = [s \in Sessions |-> [t \in Tasks |-> NoSub]]
    /\ unsubs = {}
    /\ unsubscribed = {} /\ gone = {}
    /\ arrived = [t \in Tasks |-> {}]
    /\ begun = [t \in Tasks |-> FromBlock]

Init ==
    /\ m_running = FALSE /\ starting = FALSE /\ m_timer = NULL
    /\ InitTasks

-----------------------------------------------------------------------------
(* start and stop.                                                         *)

\* start() up to the call of m_service->start(), which waits for a handshake.
StartEnter ==
    /\ ~m_running /\ ~starting
    /\ m_running' = TRUE /\ starting' = TRUE
    /\ UNCHANGED <<m_timer, tables, m_waitRespTasks, task, user, requests,
                   pushes, conn, node, history>>

\* The service is connected: the rest of start() arms the timer of doLoop.
StartReturns ==
    /\ starting
    /\ starting' = FALSE /\ m_timer' = "armed"
    /\ UNCHANGED <<m_running, tables, m_waitRespTasks, task, user, requests,
                   pushes, conn, node, history>>

\* m_service->start() throws the handshake timeout: start() is left by it.
StartThrows ==
    /\ starting
    /\ starting' = FALSE
    /\ UNCHANGED <<m_running, m_timer, tables, m_waitRespTasks, task, user,
                   requests, pushes, conn, node, history>>

Stop ==
    /\ m_running
    /\ m_running' = FALSE
    /\ m_timer' = IF m_timer = NULL THEN NULL ELSE "stopped"
    /\ UNCHANGED <<starting, tables, m_waitRespTasks, task, user, requests,
                   pushes, conn, node, history>>

-----------------------------------------------------------------------------
(* Subscribing: the user's call, the timer's retries and the callback.     *)

\* subscribeEvent with valid parameters.  The request goes to a session of
\* the group, or fails at once when the group has no endpoint (s = NULL).
SubscribeEvent(t, s) ==
    /\ t \notin created
    /\ created' = created \cup {t}
    /\ requests' = IF s = NULL THEN requests
                   ELSE requests \cup {NewRequest(t, "first", s)}
    /\ UNCHANGED <<service, tables, m_waitRespTasks, task, leaving, pushes,
                   conn, node, history>>

\* Mutation: doLoop does not ask addWaitResp.
RetryUnanswered == m_suspendTasks

\* The tasks doLoop sends again: addWaitResp refuses the others.
Retryable == m_suspendTasks \ m_waitRespTasks

\* One round of the timer.  route[t] is the session the request of t is sent
\* to; NULL means no endpoint, the callback runs at once and takes t out of
\* m_waitRespTasks again.  x_tasks is held (shared) during the loop.
DoLoop(route) ==
    /\ m_timer = "armed"
    /\ m_suspendTasksCount # 0
    /\ Up # {}
    /\ LET sent == {t \in Retryable : route[t] # NULL}
       IN  /\ m_waitRespTasks' = m_waitRespTasks \cup sent
           /\ requests' = requests \cup
                 {NewRequest(t, "resend", route[t]) : t \in sent}
    /\ UNCHANGED <<service, tables, task, user, pushes, conn, node, history>>

\* What the callback given to subscribeEvent does at its end: doLoop's takes
\* the id out of m_waitRespTasks, the user's has no effect on the tables.
CallbackDone(r) ==
    m_waitRespTasks' = IF r.kind = "resend" THEN m_waitRespTasks \ {r.task}
                       ELSE m_waitRespTasks

\* Mutation: the error path returns without calling the callback.
OnResponseFailsSilently(r) ==
    /\ r \in requests /\ r.phase \in {"sent", "accepted"}
    /\ requests' = requests \ {r}
    /\ UNCHANGED <<service, tables, m_waitRespTasks, task, user, pushes, conn,
                   node, history>>

\* An error (timeout, disconnect), an unreadable answer or a status other
\* than Success: only the callback is called.
OnResponseFails(r) ==
    /\ r \in requests /\ r.phase \in {"sent", "accepted"}
    /\ requests' = requests \ {r}
    /\ CallbackDone(r)
    /\ UNCHANGED <<service, tables, task, user, pushes, conn, node, history>>

\* Success, first statement: the task is bound to the session, with no lock.
OnResponseSuccess(r) ==
    /\ r \in requests /\ r.phase = "accepted"
    /\ m_session' = [m_session EXCEPT ![r.task] = r.session]
    /\ requests' = (requests \ {r}) \cup {InPhase(r, "bound")}
    /\ UNCHANGED <<service, tables, m_waitRespTasks, m_currentBlockNumber,
                   user, pushes, conn, node, history>>

RemoveSuspendTask(t) ==
    /\ m_suspendTasks' = m_suspendTasks \ {t}
    /\ m_suspendTasksCount' = IF t \in m_suspendTasks
                              THEN m_suspendTasksCount - 1
                              ELSE m_suspendTasksCount

\* Success, second statement: addTask, under x_tasks.
AddTask(r) ==
    /\ r \in requests /\ r.phase = "bound"
    /\ RemoveSuspendTask(r.task)
    /\ m_workingTasks' = m_workingTasks \cup {r.task}
    /\ requests' = (requests \ {r}) \cup {InPhase(r, "added")}
    /\ UNCHANGED <<service, m_waitRespTasks, task, user, pushes, conn, node,
                   history>>

\* Success, last statement: the callback.
FinishResponse(r) ==
    /\ r \in requests /\ r.phase = "added"
    /\ requests' = requests \ {r}
    /\ CallbackDone(r)
    /\ UNCHANGED <<service, tables, task, user, pushes, conn, node, history>>

-----------------------------------------------------------------------------
(* Removing and suspending tasks.                                          *)

\* Mutation: getTaskAndRemove with includeSuspendTask = false.
GetWorkingTaskAndRemove(t) ==
    /\ m_workingTasks' = m_workingTasks \ {t}
    /\ UNCHANGED <<m_suspendTasks, m_suspendTasksCount>>
    /\ gone' = IF Known(t) /\ ~Outstanding(t) THEN gone \cup {t} ELSE gone

\* getTaskAndRemove, under x_tasks, suspended tasks included.
GetTaskAndRemove(t) ==
    /\ m_workingTasks' = m_workingTasks \ {t}
    /\ IF t \notin m_workingTasks /\ t \in m_suspendTasks
       THEN /\ m_suspendTasks' = m_suspendTasks \ {t}
            /\ m_suspendTasksCount' = m_suspendTasksCount - 1
       ELSE UNCHANGED <<m_suspendTasks, m_suspendTasksCount>>
    /\ gone' = IF Known(t) /\ ~Outstanding(t) THEN gone \cup {t} ELSE gone

\* unsubscribeEvent: the task leaves the tables.
UnsubscribeEvent(t) ==
    /\ t \in created
    /\ GetTaskAndRemove(t)
    /\ leaving' = IF Known(t) THEN leaving \cup {t} ELSE leaving
    /\ unsubscribed' = unsubscribed \cup {t}
    /\ UNCHANGED <<service, m_waitRespTasks, task, created, requests, pushes,
                   conn, node, arrived, begun>>

\* unsubscribeEvent, without the lock: a task bound to a session is also
\* unsubscribed there, and the answer is only logged.
UnsubscribeSends(t) ==
    /\ t \in leaving
    /\ leaving' = leaving \ {t}
    /\ unsubs' = IF m_session[t] = NULL THEN unsubs
                 ELSE unsubs \cup {<<m_session[t], t>>}
    /\ UNCHANGED <<service, tables, m_waitRespTasks, task, created, requests,
                   pushes, conn, cursor, history>>

\* The working tasks that suspendTasks moves: those bound to the endpoint of
\* the lost session, and those bound to no session.
BoundTo(s) ==
    {t \in m_workingTasks :
        m_session[t] = NULL \/ EndPointOf[m_session[t]] = EndPointOf[s]}

\* Mutation: addSuspendTask does not count.
AddSuspendTasksNotCounted(ts) ==
    /\ m_suspendTasks' = m_suspendTasks \cup ts
    /\ UNCHANGED m_suspendTasksCount

\* addSuspendTask for every task of ts.
AddSuspendTasks(ts) ==
    /\ m_suspendTasks' = m_suspendTasks \cup ts
    /\ m_suspendTasksCount' =
          m_suspendTasksCount + Cardinality(ts \ m_suspendTasks)

\* Mutation: setSession(nullptr) is forgotten.
KeepSession(ts) == UNCHANGED m_session

\* setSession(nullptr) for every task of ts.
ClearSession(ts) ==
    m_session' = [t \in Tasks |-> IF t \in ts THEN NULL ELSE m_session[t]]

\* The disconnect handler: suspendTasks, under x_tasks.
OnDisconnect(s) ==
    /\ conn[s] = "dropped"
    /\ conn' = [conn EXCEPT ![s] = "closed"]
    /\ m_workingTasks' = m_workingTasks \ BoundTo(s)
    /\ AddSuspendTasks(BoundTo(s))
    /\ ClearSession(BoundTo(s))
    /\ UNCHANGED <<service, m_waitRespTasks, m_currentBlockNumber, user,
                   requests, pushes, node, history>>

-----------------------------------------------------------------------------
(* onRecvEventSubMessage: one handler per received push.                   *)

\* getTask, under x_tasks (shared); the push is discarded if there is none.
PushGetTask(p) ==
    /\ p \in pushes /\ p.stage = "received"
    /\ pushes' = (pushes \ {p}) \cup
                 (IF Known(p.task) THEN {[p EXCEPT !.stage = "found"]} ELSE {})
    /\ UNCHANGED <<service, tables, m_waitRespTasks, task, user, requests,
                   conn, node, history>>

\* EndOfPush, or an error status: remove the task, then call its callback.
PushEnd(p) ==
    /\ p \in pushes /\ p.stage = "found" /\ p.status # "Success"
    /\ GetTaskAndRemove(p.task)
    /\ pushes' = pushes \ {p}
    /\ UNCHANGED <<service, m_waitRespTasks, task, user, requests, conn,
                   node, unsubscribed, arrived, begun>>

\* setCurrentBlockNumber, load and compare.  A block that is not newer goes
\* straight to the callback, which ends the handler.
PushCompare(p) ==
    /\ p \in pushes /\ p.stage = "found" /\ p.status = "Success"
    /\ pushes' = (pushes \ {p}) \cup
                 (IF p.block > m_currentBlockNumber[p.task]
                  THEN {[p EXCEPT !.stage = "store"]} ELSE {})
    /\ UNCHANGED <<service, tables, m_waitRespTasks, task, user, requests,
                   conn, node, history>>

\* setCurrentBlockNumber, store; then the callback.
PushStore(p) ==
    /\ p \in pushes /\ p.stage = "store"
    /\ m_currentBlockNumber' = [m_currentBlockNumber EXCEPT ![p.task] = p.block]
    /\ pushes' = pushes \ {p}
    /\ UNCHANGED <<service, tables, m_waitRespTasks, m_session, user,
                   requests, conn, node, history>>

-----------------------------------------------------------------------------
(* External: the websocket layer and the node.                             *)

\* A connection is established; an endpoint has one live session at a time.
Connect(s) ==
    /\ conn[s] = "new"
    /\ \A s2 \in Up : EndPointOf[s2] # EndPointOf[s]
    /\ conn' = [conn EXCEPT ![s] = "up"]
    /\ UNCHANGED <<service, tables, m_waitRespTasks, task, user, requests,
                   pushes, node, history>>

\* A connection is lost: the node forgets its subscriptions, and the
\* disconnect handler of the client is queued.
Drop(s) ==
    /\ conn[s] = "up"
    /\ conn' = [conn EXCEPT ![s] = "dropped"]
    /\ cursor' = [cursor EXCEPT ![s] = [t \in Tasks |-> NoSub]]
    /\ UNCHANGED <<service, tables, m_waitRespTasks, task, user, requests,
                   pushes, unsubs, history>>

\* The latest block when the node registers t: the chain never gets shorter.
LatestBlocks(t) ==
    {b \in 0 .. MaxBlock : b >= begun[t] /\ \A a \in arrived[t] : b >= a}

\* The node registers the subscription, from the block asked for or, at -1,
\* from the latest one.
NodeAccepts(r) ==
    /\ r \in requests /\ r.phase = "sent" /\ conn[r.session] = "up"
    /\ requests' = (requests \ {r}) \cup {InPhase(r, "accepted")}
    /\ \/ /\ r.from # -1
          /\ cursor' = [cursor EXCEPT ![r.session][r.task] = r.from]
          /\ UNCHANGED begun
       \/ /\ r.from = -1
          /\ \E b \in LatestBlocks(r.task) :
                /\ cursor' = [cursor EXCEPT ![r.session][r.task] = b]
                /\ begun' = [begun EXCEPT ![r.task] = b]
    /\ UNCHANGED <<service, tables, m_waitRespTasks, task, user, pushes,
                   conn, unsubs, unsubscribed, gone, arrived>>

\* The next block of a subscription reaches the client.
NodePushes(s, t) ==
    /\ cursor[s][t] # NoSub /\ cursor[s][t] <= MaxBlock
    /\ ToBlock = -1 \/ cursor[s][t] <= ToBlock
    /\ Cardinality(pushes) < MaxPushes
    /\ pushes' = pushes \cup
          {[task |-> t, session |-> s, block |-> cursor[s][t],
            status |-> "Success", stage |-> "received"]}
    /\ arrived' = [arrived EXCEPT ![t] = @ \cup {cursor[s][t]}]
    /\ cursor' = [cursor EXCEPT ![s][t] = @ + 1]
    /\ UNCHANGED <<service, tables, m_waitRespTasks, task, user, requests,
                   conn, unsubs, unsubscribed, gone, begun>>

\* The node ends a subscription: toBlock has been pushed, or an error.
NodeEnds(s, t, status) ==
    /\ cursor[s][t] # NoSub
    /\ Cardinality(pushes) < MaxPushes
    /\ status = "EndOfPush" => ToBlock # -1 /\ cursor[s][t] > ToBlock
    /\ pushes' = pushes \cup
          {[task |-> t, session |-> s, block |-> -1, status |-> status,
            stage |-> "received"]}
    /\ cursor' = [cursor EXCEPT ![s][t] = NoSub]
    /\ UNCHANGED <<service, tables, m_waitRespTasks, task, user, requests,
                   conn, unsubs, history>>

\* An unsubscribe request reaches the node.
NodeUnsubscribes(s, t) ==
    /\ <<s, t>> \in unsubs
    /\ unsubs' = unsubs \ {<<s, t>>}
    /\ cursor' = [cursor EXCEPT ![s][t] = NoSub]
    /\ UNCHANGED <<service, tables, m_waitRespTasks, task, user, requests,
                   pushes, conn, history>>

-----------------------------------------------------------------------------
Lifecycle == StartEnter \/ StartReturns \/ StartThrows \/ Stop

TimerFires == \E route \in [Retryable -> Up \cup {NULL}] : DoLoop(route)

UserCalls ==
    \E t \in Tasks : \/ \E s \in Up \cup {NULL} : SubscribeEvent(t, s)
                     \/ UnsubscribeEvent(t)
                     \/ UnsubscribeSends(t)

ResponseStep(r) ==
    OnResponseFails(r) \/ OnResponseSuccess(r) \/ AddTask(r) \/ FinishResponse(r)

PushStep(p) == PushGetTask(p) \/ PushEnd(p) \/ PushCompare(p) \/ PushStore(p)

Connections == \E s \in Sessions : Connect(s) \/ Drop(s) \/ OnDisconnect(s)

Node ==
    \/ \E r \in requests : NodeAccepts(r)
    \/ \E s \in Sessions, t \in Tasks :
          \/ NodePushes(s, t)
          \/ \E status \in {"EndOfPush", "Error"} : NodeEnds(s, t, status)
          \/ NodeUnsubscribes(s, t)

\* Everything but start and stop.
Work ==
    \/ TimerFires
    \/ UserCalls
    \/ \E r \in requests : ResponseStep(r)
    \/ \E p \in pushes : PushStep(p)
    \/ Connections
    \/ Node

Next == Lifecycle \/ Work

Spec == Init /\ [][Next]_vars

\* The timer keeps firing and finds a route, the websocket layer ends every
\* request, and a node that is asked again and again accepts at last.  No
\* fairness is assumed of the user, of connections or of pushes.
Fairness ==
    /\ WF_vars(\E route \in [Retryable -> Up] : DoLoop(route))
    /\ \A t \in Tasks :
          /\ WF_vars(\E r \in requests : r.task = t /\ ResponseStep(r))
          /\ SF_vars(\E r \in requests : r.task = t /\ NodeAccepts(r))
          /\ SF_vars(\E r \in requests : r.task = t /\ OnResponseSuccess(r))

-----------------------------------------------------------------------------
(* Properties.                                                             *)

\* Every variable has its type; m_suspendTasksCount is an unsigned counter
\* and never wraps below zero.
TypeOK ==
    /\ m_running \in BOOLEAN /\ starting \in BOOLEAN
    /\ m_timer \in {NULL, "armed", "stopped"}
    /\ m_workingTasks \subseteq Tasks /\ m_suspendTasks \subseteq Tasks
    /\ m_suspendTasksCount \in Nat
    /\ m_waitRespTasks \subseteq Tasks
    /\ m_session \in [Tasks -> Sessions \cup {NULL}]
    /\ m_currentBlockNumber \in [Tasks -> Nat \cup {-1}]
    /\ created \subseteq Tasks /\ leaving \subseteq Tasks
    /\ requests \subseteq Request /\ pushes \subseteq Push
    /\ conn \in [Sessions -> {"new", "up", "dropped", "closed"}]
    /\ cursor \in [Sessions -> [Tasks -> Nat \cup {NoSub}]]
    /\ unsubs \subseteq Sessions \X Tasks
    /\ unsubscribed \subseteq Tasks /\ gone \subseteq Tasks
    /\ arrived \in [Tasks -> SUBSET Nat]
    /\ begun \in [Tasks -> Nat \cup {-1}]

\* The counter doLoop tests without taking x_tasks always equals the size of
\* m_suspendTasks, and no task is in both tables, whatever order responses,
\* pushes, disconnects and unsubscribes are handled in.
SuspendCountExact ==
    /\ m_workingTasks \cap m_suspendTasks = {}
    /\ m_suspendTasksCount = Cardinality(m_suspendTasks)

\* m_waitRespTasks holds exactly the tasks with a request of doLoop that is
\* not finished: no task stays in it for ever, and no task has two.
WaitRespExact ==
    /\ m_waitRespTasks = {r.task : r \in {q \in requests : q.kind = "resend"}}
    /\ \A r, q \in requests : r.task = q.task /\ r.kind = q.kind => r = q

\* At most one answer that can still put a task into m_workingTasks is on
\* its way, and while it is, the task is not working: a subscription is
\* never asked for a second time while it is alive or being asked for.
OneSubscribeAtATime ==
    \A r \in requests : r.phase # "added" =>
        /\ r.task \notin m_workingTasks
        /\ \A q \in requests : q.task = r.task /\ q.phase # "added" => q = r

\* unsubscribeEvent takes a task without a session for a suspended one: a
\* working task always has a session, and a suspended task has none until
\* the answer to its request has bound it to the new one.
SessionMatchesTable ==
    /\ \A t \in m_workingTasks : m_session[t] # NULL
    /\ \A t \in m_suspendTasks :
          \/ m_session[t] = NULL
          \/ \E r \in requests : r.task = t /\ r.phase = "bound"
                               /\ r.session = m_session[t]

\* A task removed by EndOfPush, by an error or by unsubscribeEvent while no
\* subscribe request of it is open never comes back into a table.
RemovedForGood == \A t \in gone : ~Known(t)

\* A request that asks for a block by its number never passes a block that
\* the node has not sent since the subscription began: at fromBlock, or, when
\* that is "latest", at the block where the node began it last.
NoSkippedBlock ==
    \A r \in requests : \A b \in 0 .. (r.from - 1) :
        b >= begun[r.task] => b \in arrived[r.task]

\* A suspended task does not stay suspended: while the client is connected,
\* doLoop subscribes it again, whatever answers fail on the way.
SuspendedResumes ==
    \A t \in Tasks :
        <>[](m_timer = "armed" /\ Up # {})
        => (t \in m_suspendTasks ~> t \notin m_suspendTasks)

\* The tasks with a request that may still be answered.
OpenTasks == {r.task : r \in {q \in requests : q.phase # "added"}}

Abstract ==
    INSTANCE Subscription WITH
        Subscriptions <- Tasks, known <- created, open <- OpenTasks,
        active <- m_workingTasks, lost <- m_suspendTasks

\* Whatever order answers, pushes, disconnects, rounds of the timer and calls of
\* the user are handled in, every step is one of the abstract subscription: an
\* answer activates a task once, a task is asked for by one request at a time,
\* and a removed one without a request stays removed.
IsSubscription == Abstract!Spec

(* What a test or a comment says, and concurrent handlers break.           *)

\* EventSubTest: after unsubscribeEvent(id), getTask(id) finds nothing.
UnsubscribedStaysOut == \A t \in unsubscribed : ~Known(t)

\* "update the latest blocknumber of event sub": the recorded number never
\* goes back.
BlockNumberMonotone ==
    [][\A t \in Tasks : m_currentBlockNumber'[t] >= m_currentBlockNumber[t]]_vars

\* "update the latest blocknumber of event sub for network disconnect
\* continue": a subscription that the node begins anew leaves out no block
\* since it began before.
ContinuesAfterDisconnect ==
    [][\A t \in Tasks : begun[t] # -1 =>
          begun[t] .. (begun'[t] - 1) \subseteq arrived[t]]_vars

\* "for network disconnect continue": when the handler of a lost connection
\* has run, no working task is left on that connection.
NoTaskOnClosedSession ==
    \A t \in m_workingTasks : conn[m_session[t]] # "closed"

\* "event sub task not exist": a block is thrown away only when its task was
\* unsubscribed or removed.
DiscardOnlyWhenRemoved ==
    [][\A p \in pushes :
          p.status = "Success" /\ p.stage = "received" /\ p \notin pushes'
          /\ [p EXCEPT !.stage = "found"] \notin pushes'
          => p.task \in unsubscribed \cup gone]_vars

\* "event sub is running": a client that says it is running has its timer.
RunningHasTimer == m_running /\ ~starting => m_timer = "armed"
=============================================================================

-------------------------------- MODULE Amop --------------------------------
(***************************************************************************)
(* AMOP (bcos-cpp-sdk/amop): the topics a client subscribes to, and how    *)
(* the nodes are told of them.                                             *)
(*                                                                         *)
(* subscribe and unsubscribe change m_topics, and then send the whole set  *)
(* to every session; a session that ends its handshake is sent the set     *)
(* too.  Reading the set (TopicManager::toJson) and sending it are two     *)
(* steps with no lock between them, so calls of the user and the handlers  *)
(* of handshakes interleave: a call is a small program of a thread.        *)
(***************************************************************************)
EXTENDS Integers, FiniteSets

CONSTANTS
    Topics,
    Sessions,    \* connections; a session object is one connection
    Threads,     \* threads of the user and of the pool
    MaxCalls     \* bound: calls of subscribe and unsubscribe

ASSUME MaxCallsNatural == MaxCalls \in Nat

VARIABLES
    m_topics,          \* TopicManager: the topics subscribed to
    m_topic2Callback,  \* the topics that have a callback
    m_callback,        \* whether a default callback is set
    running,           \* the call each thread executes
    calls,             \* calls of subscribe and unsubscribe so far
    conn,              \* "new", "up", "greeted" (handshake done) or "closed"
    view,              \* the topics each node was told last
    inbox,             \* AMOP messages received, not yet handled
    told,              \* history: topics told, since they were subscribed to
    silent,            \* history: topics subscribed to without a callback
    lost               \* history: topics of messages no callback was found for

topics    == <<m_topics, m_topic2Callback, m_callback>>
history   == <<told, silent, lost>>
vars      == <<topics, running, calls, conn, view, inbox, history>>

-----------------------------------------------------------------------------
\* topics: of the call; todo: still to be removed; to: sessions still to be
\* told; target and payload: of the message being sent.
Job ==
    [topics : SUBSET Topics, todo : SUBSET Topics, changed : BOOLEAN,
     to : SUBSET Sessions, target : SUBSET Sessions, payload : SUBSET Topics,
     pc : {"remove", "callback", "sessions", "read", "send", "idle"}]

NoJob ==
    [topics |-> {}, todo |-> {}, changed |-> FALSE, to |-> {}, target |-> {},
     payload |-> {}, pc |-> "idle"]

NewJob(ts, pc) == [NoJob EXCEPT !.topics = ts, !.pc = pc]

Goto(t, j) == running' = [running EXCEPT ![t] = j]

Live == {s \in Sessions : conn[s] \in {"up", "greeted"}}

Init ==
    /\ m_topics = {} /\ m_topic2Callback = {} /\ m_callback = FALSE
    /\ running = [t \in Threads |-> NoJob] /\ calls = 0
    /\ conn = [s \in Sessions |-> "new"] /\ view = [s \in Sessions |-> {}]
    /\ inbox = {}
    /\ told = [s \in Sessions |-> {}] /\ silent = {} /\ lost = {}

-----------------------------------------------------------------------------
(* TopicManager.                                                           *)

\* Mutation: addTopics says "changed" only when every topic is new.
AddTopicsAllNew(ts) == ts \cap m_topics = {} /\ ts # {}

\* The result of addTopics and addTopic: some topic is new.
AddsTopics(ts) == ~(ts \subseteq m_topics)

-----------------------------------------------------------------------------
(* Calls of the user.                                                      *)

Call(t) == running[t] = NoJob /\ calls < MaxCalls /\ calls' = calls + 1

\* subscribe(topics): addTopics, and an update if it changed anything.
Subscribe(t, ts) ==
    /\ Call(t)
    /\ m_topics' = m_topics \cup ts
    /\ Goto(t, IF AddsTopics(ts) THEN NewJob(ts, "sessions") ELSE NoJob)
    /\ silent' = silent \cup ts
    /\ UNCHANGED <<m_topic2Callback, m_callback, conn, view, inbox, told, lost>>

\* subscribe(topic, callback): addTopic.
SubscribeWithCallback(t, x) ==
    /\ Call(t)
    /\ m_topics' = m_topics \cup {x}
    /\ Goto(t, [NewJob({x}, "callback") EXCEPT !.changed = AddsTopics({x})])
    /\ UNCHANGED <<m_topic2Callback, m_callback, conn, view, inbox, history>>

\* subscribe(topic, callback): addTopicCallback, then the update if needed.
AddTopicCallback(t) ==
    /\ running[t].pc = "callback"
    /\ m_topic2Callback' = m_topic2Callback \cup running[t].topics
    /\ Goto(t, IF running[t].changed THEN NewJob(running[t].topics, "sessions") ELSE NoJob)
    /\ UNCHANGED <<m_topics, m_callback, calls, conn, view, inbox, history>>

\* unsubscribe(topics): removeTopics takes x_topics once for every topic.
Unsubscribe(t, ts) ==
    /\ Call(t)
    /\ Goto(t, [NewJob(ts, "remove") EXCEPT !.todo = ts])
    /\ UNCHANGED <<topics, conn, view, inbox, history>>

\* One removeTopic; after the last one the update, if anything was removed.
RemoveTopic(t, x) ==
    LET j == running[t]
        changed == j.changed \/ x \in m_topics
    IN  /\ j.pc = "remove" /\ x \in j.todo
        /\ m_topics' = m_topics \ {x}
        /\ told' = [s \in Sessions |-> told[s] \ {x}]
        /\ Goto(t, IF j.todo # {x}
                   THEN [j EXCEPT !.todo = @ \ {x}, !.changed = changed]
                   ELSE IF changed THEN NewJob(j.topics, "sessions") ELSE NoJob)
        /\ UNCHANGED <<m_topic2Callback, m_callback, calls, conn, view, inbox,
                       silent, lost>>

SetSubCallback ==
    /\ m_callback' = TRUE
    /\ UNCHANGED <<m_topics, m_topic2Callback, running, calls, conn, view, inbox, history>>

-----------------------------------------------------------------------------
(* updateTopicsToRemote.                                                   *)

\* The sessions, m_service->sessions(), are collected.
UpdateTopicsToRemote(t) ==
    /\ running[t].pc = "sessions"
    /\ Goto(t, IF Live = {} THEN NoJob
               ELSE [running[t] EXCEPT !.pc = "read", !.to = Live])
    /\ UNCHANGED <<topics, calls, conn, view, inbox, history>>

\* For each session: toJson.
ReadTopics(t, s) ==
    /\ running[t].pc = "read" /\ s \in running[t].to
    /\ Goto(t, [running[t] EXCEPT !.pc = "send", !.to = @ \ {s}, !.target = {s},
                                  !.payload = m_topics])
    /\ UNCHANGED <<topics, calls, conn, view, inbox, history>>

\* For each session: asyncSendMessage.  A session sends its messages in order
\* and its node keeps the last one; on a closed session nothing is sent.
SendTopics(t) ==
    LET j == running[t]
        to == j.target \cap Live
    IN  /\ j.pc = "send"
        /\ view' = [s \in Sessions |-> IF s \in to THEN j.payload ELSE view[s]]
        /\ told' = [s \in Sessions |-> IF s \in to THEN told[s] \cup j.payload
                                       ELSE told[s]]
        /\ Goto(t, IF j.to = {} THEN NoJob ELSE [j EXCEPT !.pc = "read"])
        /\ UNCHANGED <<topics, calls, conn, inbox, silent, lost>>

\* Mutation: the handler of the handshake tells the session nothing.
HandshakeUntold(t, s) ==
    /\ running[t] = NoJob /\ conn[s] = "up"
    /\ conn' = [conn EXCEPT ![s] = "greeted"]
    /\ UNCHANGED <<topics, running, calls, view, inbox, history>>

\* The handshake of a session is done: the handler of buildAMOP tells it.
HandshakeSucHandler(t, s) ==
    /\ running[t] = NoJob /\ conn[s] = "up"
    /\ conn' = [conn EXCEPT ![s] = "greeted"]
    /\ Goto(t, [NewJob({}, "read") EXCEPT !.to = {s}])
    /\ UNCHANGED <<topics, calls, view, inbox, history>>

-----------------------------------------------------------------------------
\* onRecvAMOPRequest and onRecvAMOPBroadcast: the callback of the topic, else
\* the default one; a message with neither is dropped with a warning.
OnRecvAMOPMessage(x) ==
    /\ x \in inbox
    /\ inbox' = inbox \ {x}
    /\ lost' = IF x \in m_topic2Callback \/ m_callback THEN lost ELSE lost \cup {x}
    /\ UNCHANGED <<topics, running, calls, conn, view, told, silent>>

-----------------------------------------------------------------------------
(* External: connections, and a node that has a message for a topic.       *)

Connect(s) ==
    /\ conn[s] = "new"
    /\ conn' = [conn EXCEPT ![s] = "up"]
    /\ UNCHANGED <<topics, running, calls, view, inbox, history>>

Disconnect(s) ==
    /\ s \in Live
    /\ conn' = [conn EXCEPT ![s] = "closed"]
    /\ UNCHANGED <<topics, running, calls, view, inbox, history>>

NodeSends(s, x) ==
    /\ s \in Live /\ x \in view[s]
    /\ inbox' = inbox \cup {x}
    /\ UNCHANGED <<topics, running, calls, conn, view, history>>

-----------------------------------------------------------------------------
UserCalls(t) ==
    \/ \E ts \in SUBSET Topics : Subscribe(t, ts)
    \/ \E x \in Topics : SubscribeWithCallback(t, x)
    \/ \E ts \in SUBSET Topics \ {{}} : Unsubscribe(t, ts)

Step(t) ==
    \/ AddTopicCallback(t) \/ UpdateTopicsToRemote(t) \/ SendTopics(t)
    \/ \E x \in running[t].todo : RemoveTopic(t, x)
    \/ \E s \in running[t].to : ReadTopics(t, s)

Next ==
    \/ \E t \in Threads : UserCalls(t) \/ Step(t)
    \/ \E t \in Threads, s \in Sessions : HandshakeSucHandler(t, s)
    \/ \E s \in Sessions : Connect(s) \/ Disconnect(s) \/ \E x \in Topics : NodeSends(s, x)
    \/ \E x \in inbox : OnRecvAMOPMessage(x)
    \/ SetSubCallback

Spec == Init /\ [][Next]_vars

\* Calls and handlers that do not overlap.
OneCall == \A t, u \in Threads : running[t] # NoJob /\ running[u] # NoJob => t = u

SerialSpec == Init /\ [][Next /\ OneCall']_vars

-----------------------------------------------------------------------------
(* Properties.                                                             *)

\* Every variable has its type.
TypeOK ==
    /\ m_topics \subseteq Topics /\ m_topic2Callback \subseteq Topics
    /\ m_callback \in BOOLEAN
    /\ running \in [Threads -> Job] /\ calls \in Nat
    /\ conn \in [Sessions -> {"new", "up", "greeted", "closed"}]
    /\ view \in [Sessions -> SUBSET Topics] /\ inbox \subseteq Topics
    /\ told \in [Sessions -> SUBSET Topics]
    /\ silent \subseteq Topics /\ lost \subseteq Topics

Idle == \A t \in Threads : running[t] = NoJob

Greeted == {s \in Sessions : conn[s] = "greeted"}

\* Whatever calls and handshakes overlap, when they have returned every node
\* has been told of every topic since it was subscribed to: a session misses
\* neither the update of a call nor that of its own handshake.
EveryTopicTold == Idle => \A s \in Greeted : m_topics \subseteq told[s]

\* "update topics to server": when every call has returned, what a node was
\* told last is the set of topics.
NodesAgree == Idle => \A s \in Greeted : view[s] = m_topics

\* A topic that is only subscribed to with a callback is announced after the
\* callback is kept: no message of it finds no callback.
NothingLost == lost \subseteq silent
=============================================================================

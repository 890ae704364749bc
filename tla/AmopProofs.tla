----------------------------- MODULE AmopProofs -----------------------------
(***************************************************************************)
(* Theorems about Amop, for any topics, sessions and threads.  First what  *)
(* holds of calls that overlap (Inv), then what more holds when they do    *)
(* not (SerialInv).                                                        *)
(***************************************************************************)
EXTENDS MCAmop, TLAPS

\* A call with this state will still tell session s of topic x.
WillTell(j, s, x) ==
    \/ j.pc = "callback" /\ j.changed /\ x \in j.topics
    \/ j.pc = "sessions"
    \/ j.pc \in {"read", "send"} /\ s \in j.to
    \/ j.pc = "send" /\ s \in j.target /\ x \in j.payload

\* Every topic was told, or some thread will still tell it.
ToldInv ==
    \A s \in Greeted, x \in m_topics :
        x \in told[s] \/ \E t \in Threads : WillTell(running[t], s, x)

Inv == TypeOK /\ ToldInv

\* An idle thread executes no call.
LEMMA NoJobType == NoJob \in Job /\ NoJob.pc = "idle"
  BY DEF Job, NoJob

\* A call that has only begun is a job of its phase.
LEMMA NewJobType ==
    ASSUME NEW ts \in SUBSET Topics,
           NEW pc \in {"remove", "callback", "sessions", "read"}
    PROVE  NewJob(ts, pc) \in Job /\ NewJob(ts, pc).pc = pc /\ NewJob(ts, pc).topics = ts
  BY DEF NewJob, NoJob, Job

\* The type invariant without the calls: what TypeOK adds to running.
RestOK ==
    /\ m_topics \subseteq Topics /\ m_topic2Callback \subseteq Topics
    /\ calls \in Nat
    /\ conn \in [Sessions -> {"new", "up", "greeted", "closed"}]
    /\ view \in [Sessions -> SUBSET Topics] /\ inbox \subseteq Topics
    /\ told \in [Sessions -> SUBSET Topics]
    /\ silent \subseteq Topics /\ lost \subseteq Topics

\* TypeOK in three parts, before and after a step.
LEMMA TypeParts ==
    /\ TypeOK <=> RestOK /\ m_callback \in BOOLEAN /\ running \in [Threads -> Job]
    /\ TypeOK' <=> RestOK' /\ m_callback' \in BOOLEAN /\ running' \in [Threads -> Job]
  BY Zenon DEF TypeOK, RestOK

\* The invariant holds in the initial state.
LEMMA InitInv == Init => Inv
<1> SUFFICES ASSUME Init PROVE Inv
  OBVIOUS
<1>1. running \in [Threads -> Job]
  BY NoJobType DEF Init
<1>2. m_callback \in BOOLEAN
  BY Zenon DEF Init
<1>3. RestOK
  BY DEF Init, RestOK
<1>4. ToldInv
  BY DEF Init, ToldInv
<1> QED
  BY <1>1, <1>2, <1>3, <1>4, TypeParts DEF Inv

\* One thread changes its call, and every topic that it would have told, or
\* that is new, or whose session is new, is told or will be told by it.
LEMMA OneThread ==
    ASSUME Inv, NEW t \in Threads, NEW j \in Job, Goto(t, j),
           \A s \in Greeted', x \in m_topics' :
              \/ /\ s \in Greeted /\ x \in m_topics
                 /\ x \in told[s] => x \in told'[s]
                 /\ WillTell(running[t], s, x) => x \in told'[s] \/ WillTell(j, s, x)
              \/ x \in told'[s] \/ WillTell(j, s, x)
    PROVE  running' \in [Threads -> Job] /\ ToldInv'
<1>1. running \in [Threads -> Job]
  BY TypeParts DEF Inv
<1>2. /\ running' \in [Threads -> Job] /\ running'[t] = j
      /\ \A u \in Threads : u # t => running'[u] = running[u]
  BY <1>1 DEF Goto
<1>3. ASSUME NEW s \in Greeted', NEW x \in m_topics'
      PROVE  x \in told'[s] \/ \E u \in Threads : WillTell(running'[u], s, x)
  <2>1. CASE x \in told'[s] \/ WillTell(j, s, x)
    BY <1>2, <2>1
  <2>2. CASE ~(x \in told'[s] \/ WillTell(j, s, x))
    <3>1. /\ s \in Greeted /\ x \in m_topics /\ x \notin told[s]
          /\ ~WillTell(running[t], s, x)
      BY <2>2
    <3>2. PICK u \in Threads : WillTell(running[u], s, x)
      BY <3>1 DEF Inv, ToldInv
    <3>3. running'[u] = running[u]
      BY <1>2, <3>1, <3>2
    <3> QED
      BY <3>2, <3>3
  <2> QED
    BY <2>1, <2>2
<1>4. ToldInv'
  BY <1>3 DEF ToldInv, WillTell
<1> QED
  BY <1>2, <1>4

\* What a thread that has nothing to tell, or everything, tells.
LEMMA TellFacts ==
    /\ \A s, x : ~WillTell(NoJob, s, x)
    /\ \A j \in Job : j.pc = "remove" => \A s, x : ~WillTell(j, s, x)
    /\ \A j \in Job : j.pc = "sessions" => \A s, x : WillTell(j, s, x)
  BY NoJobType DEF WillTell

\* Calls of the user keep the invariant.
LEMMA CallStep ==
    ASSUME Inv, NEW t \in Threads, UserCalls(t)
    PROVE  Inv'
<1>1. RestOK /\ m_callback \in BOOLEAN
  BY TypeParts DEF Inv
<1>2. calls' \in Nat /\ running[t] = NoJob
  <2>1. Call(t)
    BY DEF UserCalls, Subscribe, SubscribeWithCallback, Unsubscribe
  <2> QED
    BY <1>1, <2>1 DEF Call, RestOK
<1>7. m_callback' = m_callback
  BY DEF UserCalls, Subscribe, SubscribeWithCallback, Unsubscribe, topics
<1>6. m_callback' \in BOOLEAN
  BY <1>1, <1>7, Zenon
<1>3. ASSUME NEW ts \in SUBSET Topics, Subscribe(t, ts)
      PROVE  Inv'
  <2> DEFINE j == IF AddsTopics(ts) THEN NewJob(ts, "sessions") ELSE NoJob
  <2>1. /\ Goto(t, j) /\ m_topics' = m_topics \cup ts /\ silent' = silent \cup ts
        /\ UNCHANGED <<m_topic2Callback, m_callback, conn, view, inbox, told, lost>>
    BY <1>3 DEF Subscribe
  <2>2. /\ j \in Job
        /\ AddsTopics(ts) => j.pc = "sessions"
        /\ ~AddsTopics(ts) => m_topics' = m_topics
    BY <2>1, NewJobType, NoJobType DEF AddsTopics
  <2> HIDE DEF j
  <2>3. RestOK'
    BY <1>1, <1>2, <2>1 DEF RestOK
  <2>4. \A s \in Greeted', x \in m_topics' : WillTell(j, s, x) \/ (s \in Greeted /\ x \in m_topics)
    BY <2>1, <2>2, TellFacts DEF Greeted
  <2>5. running' \in [Threads -> Job] /\ ToldInv'
    BY <1>2, <2>1, <2>2, <2>4, TellFacts, OneThread
  <2> QED
    BY <1>6, <2>1, <2>3, <2>5, TypeParts DEF Inv
<1>4. ASSUME NEW y \in Topics, SubscribeWithCallback(t, y)
      PROVE  Inv'
  <2> DEFINE j == [NewJob({y}, "callback") EXCEPT !.changed = AddsTopics({y})]
  <2>1. /\ Goto(t, j) /\ m_topics' = m_topics \cup {y}
        /\ UNCHANGED <<m_topic2Callback, m_callback, conn, view, inbox, history>>
    BY <1>4 DEF SubscribeWithCallback
  <2>2. j \in Job /\ j.pc = "callback" /\ j.topics = {y} /\ j.changed = AddsTopics({y})
    <3>1. {y} \in SUBSET Topics /\ AddsTopics({y}) \in BOOLEAN
      BY DEF AddsTopics
    <3> QED
      BY <3>1 DEF NewJob, NoJob, Job
  <2> HIDE DEF j
  <2>3. RestOK'
    BY <1>1, <1>2, <2>1 DEF RestOK, history
  <2>4. \A s \in Greeted', x \in m_topics' :
           /\ x \in told[s] => x \in told'[s]
           /\ WillTell(j, s, x) \/ (s \in Greeted /\ x \in m_topics)
    BY <2>1, <2>2 DEF Greeted, AddsTopics, WillTell, history
  <2>5. running' \in [Threads -> Job] /\ ToldInv'
    BY <1>2, <2>1, <2>2, <2>4, TellFacts, OneThread
  <2> QED
    BY <1>6, <2>1, <2>3, <2>5, TypeParts DEF Inv
<1>5. ASSUME NEW ts \in SUBSET Topics, Unsubscribe(t, ts)
      PROVE  Inv'
  <2> DEFINE j == [NewJob(ts, "remove") EXCEPT !.todo = ts]
  <2>1. Goto(t, j) /\ UNCHANGED <<topics, conn, view, inbox, history>>
    BY <1>5 DEF Unsubscribe
  <2>2. j \in Job
    BY DEF NewJob, NoJob, Job
  <2> HIDE DEF j
  <2>3. RestOK' /\ UNCHANGED <<m_topics, m_callback, conn, told>>
    BY <1>1, <1>2, <2>1 DEF RestOK, topics, history
  <2>4. running' \in [Threads -> Job] /\ ToldInv'
    BY <1>2, <2>1, <2>2, <2>3, TellFacts, OneThread DEF Greeted
  <2> QED
    BY <1>6, <2>3, <2>4, TypeParts DEF Inv
<1> QED
  BY <1>3, <1>4, <1>5 DEF UserCalls

\* Steps of a running call keep the invariant.
LEMMA ThreadStep ==
    ASSUME Inv, NEW t \in Threads, Step(t)
    PROVE  Inv'
<1> DEFINE r == running[t]
<1>1. RestOK /\ m_callback \in BOOLEAN /\ r \in Job /\ r.topics \subseteq Topics
  BY TypeParts DEF Inv, Job
<1>7. m_callback' = m_callback
  BY DEF Step, AddTopicCallback, UpdateTopicsToRemote, SendTopics, RemoveTopic, ReadTopics,
         topics
<1>8. m_callback' \in BOOLEAN
  BY <1>1, <1>7, Zenon
<1>2. CASE AddTopicCallback(t)
  <2> DEFINE j == IF r.changed THEN NewJob(r.topics, "sessions") ELSE NoJob
  <2>1. /\ Goto(t, j) /\ r.pc = "callback"
        /\ m_topic2Callback' = m_topic2Callback \cup r.topics
        /\ UNCHANGED <<m_topics, m_callback, calls, conn, view, inbox, history>>
    BY <1>2 DEF AddTopicCallback
  <2>2. j \in Job /\ (r.changed => j.pc = "sessions")
    BY <1>1, NewJobType, NoJobType
  <2> HIDE DEF j
  <2>3. RestOK'
    BY <1>1, <2>1 DEF RestOK, history
  <2>4. \A s, x : WillTell(r, s, x) => WillTell(j, s, x)
    BY <2>1, <2>2 DEF WillTell
  <2>5. running' \in [Threads -> Job] /\ ToldInv'
    BY <2>1, <2>2, <2>4, OneThread DEF Greeted, history
  <2> QED
    BY <1>8, <2>1, <2>3, <2>5, TypeParts DEF Inv
<1>3. CASE UpdateTopicsToRemote(t)
  <2> DEFINE k == [r EXCEPT !.pc = "read", !.to = Live]
             j == IF Live = {} THEN NoJob ELSE k
  <2>1. Goto(t, j) /\ UNCHANGED <<topics, calls, conn, view, inbox, history>>
    BY <1>3 DEF UpdateTopicsToRemote
  <2>2. j \in Job /\ (Live # {} => j.pc = "read" /\ j.to = Live)
    <3>1. Live \in SUBSET Sessions
      BY DEF Live
    <3>2. k \in Job /\ k.pc = "read" /\ k.to = Live
      BY <1>1, <3>1 DEF Job
    <3> HIDE DEF k
    <3> QED
      BY <3>2, NoJobType
  <2> HIDE DEF j
  <2>3. RestOK' /\ UNCHANGED <<m_topics, m_callback, conn, told>>
    BY <1>1, <2>1 DEF RestOK, topics, history
  <2>4. \A s \in Greeted' : \A x : WillTell(j, s, x)
    BY <2>2, <2>3 DEF Greeted, Live, WillTell
  <2>5. running' \in [Threads -> Job] /\ ToldInv'
    BY <2>1, <2>2, <2>4, OneThread
  <2> QED
    BY <1>8, <2>3, <2>5, TypeParts DEF Inv
<1>4. ASSUME NEW u \in r.to, ReadTopics(t, u)
      PROVE  Inv'
  <2> DEFINE j == [r EXCEPT !.pc = "send", !.to = @ \ {u}, !.target = {u},
                            !.payload = m_topics]
  <2>1. Goto(t, j) /\ r.pc = "read" /\ UNCHANGED <<topics, calls, conn, view, inbox, history>>
    BY <1>4 DEF ReadTopics
  <2>2. /\ j \in Job /\ j.pc = "send" /\ j.to = r.to \ {u}
        /\ j.target = {u} /\ j.payload = m_topics
    <3>1. u \in Sessions /\ m_topics \in SUBSET Topics
      BY <1>1 DEF Job, RestOK
    <3> QED
      BY <1>1, <3>1 DEF Job
  <2> HIDE DEF j
  <2>3. RestOK' /\ UNCHANGED <<m_topics, m_callback, conn, told>>
    BY <1>1, <2>1 DEF RestOK, topics, history
  <2>4. \A s, x : x \in m_topics /\ WillTell(r, s, x) => WillTell(j, s, x)
    BY <2>1, <2>2 DEF WillTell
  <2>5. running' \in [Threads -> Job] /\ ToldInv'
    BY <2>1, <2>2, <2>3, <2>4, OneThread DEF Greeted
  <2> QED
    BY <1>8, <2>3, <2>5, TypeParts DEF Inv
<1>5. CASE SendTopics(t)
  <2> DEFINE j == IF r.to = {} THEN NoJob ELSE [r EXCEPT !.pc = "read"]
             to == r.target \cap Live
  <2>1. /\ Goto(t, j) /\ r.pc = "send" /\ UNCHANGED <<topics, calls, conn, inbox, silent, lost>>
        /\ view' = [s \in Sessions |-> IF s \in to THEN r.payload ELSE view[s]]
        /\ told' = [s \in Sessions |-> IF s \in to THEN told[s] \cup r.payload
                                       ELSE told[s]]
    BY <1>5 DEF SendTopics
  <2>2. j \in Job /\ (r.to # {} => j.pc = "read" /\ j.to = r.to)
    <3>1. [r EXCEPT !.pc = "read"] \in Job
      BY <1>1 DEF Job
    <3>2. [r EXCEPT !.pc = "read"].pc = "read" /\ [r EXCEPT !.pc = "read"].to = r.to
      BY <1>1 DEF Job
    <3> QED
      BY <3>1, <3>2, NoJobType
  <2> HIDE DEF j
  <2>3. UNCHANGED <<m_topics, m_callback, conn>>
    BY <2>1 DEF topics
  <2>4. RestOK'
    BY <1>1, <2>1 DEF RestOK, topics, Job
  <2>5. ASSUME NEW s \in Greeted', NEW x \in m_topics'
        PROVE  /\ s \in Greeted /\ x \in m_topics
               /\ x \in told[s] => x \in told'[s]
               /\ WillTell(r, s, x) => x \in told'[s] \/ WillTell(j, s, x)
    <3>1. s \in Greeted /\ x \in m_topics /\ s \in Live /\ s \in Sessions
      BY <2>3 DEF Greeted, Live
    <3>2. x \in told[s] => x \in told'[s]
      BY <2>1, <3>1
    <3>3. WillTell(r, s, x) => x \in told'[s] \/ WillTell(j, s, x)
      BY <2>1, <2>2, <3>1 DEF WillTell
    <3> QED
      BY <3>1, <3>2, <3>3
  <2>6. running' \in [Threads -> Job] /\ ToldInv'
    BY <2>1, <2>2, <2>5, OneThread
  <2> QED
    BY <1>8, <2>3, <2>4, <2>6, TypeParts DEF Inv
<1>6. ASSUME NEW y \in r.todo, RemoveTopic(t, y)
      PROVE  Inv'
  <2> DEFINE changed == r.changed \/ y \in m_topics
             j == IF r.todo # {y}
                  THEN [r EXCEPT !.todo = @ \ {y}, !.changed = changed]
                  ELSE IF changed THEN NewJob(r.topics, "sessions") ELSE NoJob
  <2>1. /\ Goto(t, j) /\ r.pc = "remove" /\ m_topics' = m_topics \ {y}
        /\ told' = [s \in Sessions |-> told[s] \ {y}]
        /\ UNCHANGED <<m_topic2Callback, m_callback, calls, conn, view, inbox, silent, lost>>
    BY <1>6 DEF RemoveTopic
  <2>2. j \in Job
    <3>1. y \in Topics /\ changed \in BOOLEAN
      BY <1>1 DEF Job
    <3> HIDE DEF changed
    <3>2. [r EXCEPT !.todo = @ \ {y}, !.changed = changed] \in Job
      BY <1>1, <3>1 DEF Job
    <3>3. NewJob(r.topics, "sessions") \in Job /\ NoJob \in Job
      BY <1>1, NewJobType, NoJobType
    <3> QED
      BY <3>2, <3>3
  <2> HIDE DEF j
  <2>3. RestOK'
    BY <1>1, <2>1 DEF RestOK
  <2>4. \A s \in Greeted', x \in m_topics' :
           /\ s \in Greeted /\ x \in m_topics /\ (x \in told[s] => x \in told'[s])
           /\ ~WillTell(r, s, x)
    BY <1>1, <2>1, TellFacts DEF Greeted
  <2>5. running' \in [Threads -> Job] /\ ToldInv'
    BY <2>1, <2>2, <2>4, OneThread
  <2> QED
    BY <1>8, <2>1, <2>3, <2>5, TypeParts DEF Inv
<1> QED
  BY <1>2, <1>3, <1>4, <1>5, <1>6 DEF Step

\* What happens outside the calls keeps the invariant.
LEMMA OutsideStep ==
    ASSUME Inv,
           \/ \E s \in Sessions : Connect(s) \/ Disconnect(s) \/ \E x \in Topics : NodeSends(s, x)
           \/ \E x \in inbox : OnRecvAMOPMessage(x)
           \/ SetSubCallback
    PROVE  Inv'
<1>1. RestOK /\ running \in [Threads -> Job]
  BY TypeParts DEF Inv
<1>2. RestOK' /\ UNCHANGED <<m_topics, running, told>> /\ Greeted' \subseteq Greeted
  BY <1>1 DEF Connect, Disconnect, NodeSends, OnRecvAMOPMessage, SetSubCallback, topics,
              history, RestOK, Greeted, Live
<1>3. m_callback' \in BOOLEAN
  <2>1. m_callback \in BOOLEAN
    BY TypeParts DEF Inv
  <2>2. CASE SetSubCallback
    BY <2>2, Zenon DEF SetSubCallback
  <2>3. CASE ~SetSubCallback
    <3>1. m_callback' = m_callback
      BY <2>3 DEF Connect, Disconnect, NodeSends, OnRecvAMOPMessage, topics
    <3> QED
      BY <2>1, <3>1, Zenon
  <2> QED
    BY <2>2, <2>3
<1>4. ToldInv'
  BY <1>2 DEF Inv, ToldInv, WillTell
<1> QED
  BY <1>1, <1>2, <1>3, <1>4, TypeParts DEF Inv

\* The handler of a handshake keeps the invariant.
LEMMA HandshakeStep ==
    ASSUME Inv, NEW t \in Threads, NEW u \in Sessions, HandshakeSucHandler(t, u)
    PROVE  Inv'
<1> DEFINE j == [NewJob({}, "read") EXCEPT !.to = {u}]
<1>1. RestOK /\ m_callback \in BOOLEAN
  BY TypeParts DEF Inv
<1>2. /\ Goto(t, j) /\ running[t] = NoJob /\ conn' = [conn EXCEPT ![u] = "greeted"]
      /\ UNCHANGED <<topics, calls, view, inbox, history>>
  BY DEF HandshakeSucHandler
<1>3. j \in Job /\ j.pc = "read" /\ j.to = {u}
  BY DEF NewJob, NoJob, Job
<1> HIDE DEF j
<1>4. UNCHANGED <<m_topics, told, m_callback>>
  BY <1>2 DEF topics, history
<1>5. RestOK'
  BY <1>1, <1>2 DEF RestOK, topics, history
<1>6. \A s \in Greeted' : s \in Greeted \/ s = u
  BY <1>1, <1>2 DEF Greeted, RestOK
<1>7. \A x : WillTell(j, u, x)
  BY <1>3 DEF WillTell
<1>8. running' \in [Threads -> Job] /\ ToldInv'
  BY <1>2, <1>3, <1>4, <1>6, <1>7, TellFacts, OneThread
<1>9. m_callback' \in BOOLEAN
  BY <1>1, <1>4, Zenon
<1> QED
  BY <1>5, <1>8, <1>9, TypeParts DEF Inv

\* Every step keeps the invariant.
LEMMA StepInv == Inv /\ [Next]_vars => Inv'
<1> SUFFICES ASSUME Inv, [Next]_vars PROVE Inv'
  OBVIOUS
<1>1. CASE UNCHANGED vars
  <2>1. UNCHANGED <<m_topics, m_topic2Callback, m_callback, running, calls, conn, view, inbox,
                    told, silent, lost>>
    BY <1>1 DEF vars, topics, history
  <2>2. RestOK' /\ running' \in [Threads -> Job]
    BY <2>1, TypeParts DEF Inv, RestOK
  <2>3. m_callback' = m_callback
    BY <2>1
  <2>4. m_callback' \in BOOLEAN
    BY <2>3, TypeParts, Zenon DEF Inv
  <2>5. ToldInv'
    BY <2>1 DEF Inv, ToldInv, WillTell, Greeted
  <2> QED
    BY <2>2, <2>4, <2>5, TypeParts DEF Inv
<1>2. ASSUME NEW t \in Threads, UserCalls(t) \/ Step(t) PROVE Inv'
  BY <1>2, CallStep, ThreadStep
<1>3. ASSUME NEW t \in Threads, NEW s \in Sessions, HandshakeSucHandler(t, s) PROVE Inv'
  BY <1>3, HandshakeStep
<1>4. CASE \/ \E s \in Sessions :
                 Connect(s) \/ Disconnect(s) \/ \E x \in Topics : NodeSends(s, x)
           \/ \E x \in inbox : OnRecvAMOPMessage(x)
           \/ SetSubCallback
  BY <1>4, OutsideStep
<1> QED
  BY <1>1, <1>2, <1>3, <1>4 DEF Next

-----------------------------------------------------------------------------
\* When the calls of AMOP have returned, every node whose handshake is done
\* has been told of every topic, for any number of threads and sessions.
THEOREM TopicsReachNodes == Spec => [](TypeOK /\ EveryTopicTold)
<1>1. Inv => TypeOK /\ EveryTopicTold
  BY TellFacts DEF Inv, ToldInv, EveryTopicTold, Idle
<1>2. Spec => []Inv
  BY InitInv, StepInv, PTL DEF Spec
<1> QED
  BY <1>1, <1>2, PTL

-----------------------------------------------------------------------------
(* Calls that do not overlap.                                              *)

\* A call with this state will still tell session s the topics.
WillUpdate(j, s) ==
    \/ j.pc \in {"callback", "remove"} /\ j.changed
    \/ j.pc = "sessions"
    \/ j.pc \in {"read", "send"} /\ s \in j.to
    \/ j.pc = "send" /\ s \in j.target

\* The topics that a message may have and be handled.
Handled == m_topic2Callback \cup silent

\* A node was told the topics last, or the call that runs will tell it, ...
ViewInv ==
    \A s \in Greeted :
        view[s] = m_topics \/ \E t \in Threads : WillUpdate(running[t], s)

\* ... and what it tells are the topics as they are, which have callbacks.
PayloadInv ==
    \A t \in Threads :
        running[t].pc = "send" =>
            running[t].payload = m_topics /\ running[t].payload \subseteq Handled

\* A topic with no callback yet is of a call that is about to keep it.
CallbackInv ==
    \A x \in m_topics :
        x \in Handled \/ \E t \in Threads : running[t].pc = "callback" /\ x \in running[t].topics

\* No node was told of a topic with no callback.
HandledInv ==
    /\ \A s \in Sessions : view[s] \subseteq Handled
    /\ inbox \subseteq Handled /\ lost \subseteq silent

SerialInv == Inv /\ OneCall /\ ViewInv /\ CallbackInv /\ PayloadInv /\ HandledInv

\* What an idle thread and a call in its first phases will tell.
LEMMA UpdateFacts ==
    /\ \A s : ~WillUpdate(NoJob, s)
    /\ \A j \in Job : j.pc = "sessions" => \A s : WillUpdate(j, s)
  BY NoJobType DEF WillUpdate

\* While a thread executes a call, before or after the step, the others do
\* not.
LEMMA Alone ==
    ASSUME OneCall, OneCall', NEW t \in Threads, NEW u \in Threads, u # t,
           running'[u] = running[u],
           running[t].pc # "idle" \/ running'[t].pc # "idle"
    PROVE  running[u] = NoJob /\ running[u].pc = "idle"
  BY NoJobType DEF OneCall

\* One thread changes its call, and accounts for what it would have told and
\* kept, and for what it changes.
LEMMA SerialThread ==
    ASSUME SerialInv, OneCall', NEW t \in Threads, NEW j \in Job, Goto(t, j),
           \A s \in Greeted' :
              \/ view'[s] = m_topics' \/ WillUpdate(j, s)
              \/ /\ s \in Greeted /\ view'[s] = view[s] /\ m_topics' = m_topics
                 /\ ~WillUpdate(running[t], s),
           \A x \in m_topics' :
              \/ x \in Handled' \/ (j.pc = "callback" /\ x \in j.topics)
              \/ x \in m_topics /\ ~(running[t].pc = "callback" /\ x \in running[t].topics),
           m_topics' = m_topics \/ running[t].pc # "idle" \/ j.pc # "idle",
           j.pc = "send" => j.payload = m_topics' /\ j.payload \subseteq Handled',
           Handled \subseteq Handled'
    PROVE  ViewInv' /\ CallbackInv' /\ PayloadInv'
<1>1. running \in [Threads -> Job]
  BY TypeParts DEF SerialInv, Inv
<1>2. /\ running'[t] = j
      /\ \A u \in Threads : u # t => running'[u] = running[u]
  BY <1>1 DEF Goto
<1>3. ViewInv'
  <2> SUFFICES ASSUME NEW s \in Greeted', view'[s] # m_topics', ~WillUpdate(j, s)
               PROVE  \E u \in Threads : WillUpdate(running'[u], s)
    BY <1>2 DEF ViewInv, WillUpdate
  <2>1. /\ s \in Greeted /\ view[s] # m_topics /\ ~WillUpdate(running[t], s)
    OBVIOUS
  <2>2. PICK u \in Threads : WillUpdate(running[u], s)
    BY <2>1 DEF SerialInv, ViewInv
  <2>3. running'[u] = running[u]
    BY <1>2, <2>1, <2>2
  <2> QED
    BY <2>2, <2>3
<1>4. CallbackInv'
  <2> SUFFICES ASSUME NEW x \in m_topics', x \notin Handled', ~(j.pc = "callback" /\ x \in j.topics)
               PROVE  \E u \in Threads : running'[u].pc = "callback" /\ x \in running'[u].topics
    BY <1>2 DEF CallbackInv
  <2>1. /\ x \in m_topics /\ x \notin Handled
        /\ ~(running[t].pc = "callback" /\ x \in running[t].topics)
    OBVIOUS
  <2>2. PICK u \in Threads : running[u].pc = "callback" /\ x \in running[u].topics
    BY <2>1 DEF SerialInv, CallbackInv
  <2>3. running'[u] = running[u]
    BY <1>2, <2>1, <2>2
  <2> QED
    BY <2>2, <2>3
<1>5. PayloadInv'
  <2> SUFFICES ASSUME NEW u \in Threads, u # t, running'[u].pc = "send"
               PROVE  running'[u].payload = m_topics' /\ running'[u].payload \subseteq Handled'
    BY <1>2 DEF PayloadInv
  <2>1. running'[u] = running[u]
    BY <1>2
  <2>2. running[t].pc = "idle" /\ j.pc = "idle"
    BY <1>2, <2>1, Alone DEF SerialInv
  <2> QED
    BY <2>1, <2>2 DEF SerialInv, PayloadInv
<1> QED
  BY <1>3, <1>4, <1>5

\* Calls of the user.
LEMMA SerialCall ==
    ASSUME SerialInv, OneCall', NEW t \in Threads, UserCalls(t)
    PROVE  ViewInv' /\ CallbackInv' /\ PayloadInv' /\ HandledInv'
<1>1. RestOK
  BY TypeParts DEF SerialInv, Inv
<1>2. running[t] = NoJob /\ running[t].pc = "idle"
  <2>1. Call(t)
    BY DEF UserCalls, Subscribe, SubscribeWithCallback, Unsubscribe
  <2> QED
    BY <2>1, NoJobType DEF Call
<1>3. ASSUME NEW ts \in SUBSET Topics, Subscribe(t, ts)
      PROVE  ViewInv' /\ CallbackInv' /\ PayloadInv' /\ HandledInv'
  <2> DEFINE j == IF AddsTopics(ts) THEN NewJob(ts, "sessions") ELSE NoJob
  <2>1. /\ Goto(t, j) /\ m_topics' = m_topics \cup ts /\ silent' = silent \cup ts
        /\ UNCHANGED <<m_topic2Callback, conn, view, inbox, lost>>
    BY <1>3 DEF Subscribe
  <2>2. /\ j \in Job /\ j.pc \in {"sessions", "idle"}
        /\ AddsTopics(ts) => j.pc = "sessions"
        /\ ~AddsTopics(ts) => m_topics' = m_topics
    BY <2>1, NewJobType, NoJobType DEF AddsTopics
  <2> HIDE DEF j
  <2>3. Handled' = Handled \cup ts /\ Greeted' = Greeted
    BY <2>1 DEF Handled, Greeted
  <2>4. HandledInv'
    BY <2>1, <2>3 DEF SerialInv, HandledInv
  <2>5. \A s \in Greeted' :
           WillUpdate(j, s) \/ (s \in Greeted /\ view'[s] = view[s] /\ m_topics' = m_topics)
    BY <2>1, <2>2, <2>3, UpdateFacts
  <2>6. ViewInv' /\ CallbackInv' /\ PayloadInv'
    BY <1>2, <2>1, <2>2, <2>3, <2>5, UpdateFacts, SerialThread
  <2> QED
    BY <2>4, <2>6
<1>4. ASSUME NEW y \in Topics, SubscribeWithCallback(t, y)
      PROVE  ViewInv' /\ CallbackInv' /\ PayloadInv' /\ HandledInv'
  <2> DEFINE j == [NewJob({y}, "callback") EXCEPT !.changed = AddsTopics({y})]
  <2>1. /\ Goto(t, j) /\ m_topics' = m_topics \cup {y}
        /\ UNCHANGED <<m_topic2Callback, conn, view, inbox, silent, lost>>
    BY <1>4 DEF SubscribeWithCallback, history
  <2>2. j \in Job /\ j.pc = "callback" /\ j.topics = {y} /\ j.changed = AddsTopics({y})
    <3>1. {y} \in SUBSET Topics /\ AddsTopics({y}) \in BOOLEAN
      BY DEF AddsTopics
    <3> QED
      BY <3>1 DEF NewJob, NoJob, Job
  <2> HIDE DEF j
  <2>3. Handled' = Handled /\ Greeted' = Greeted
    BY <2>1 DEF Handled, Greeted
  <2>4. HandledInv'
    BY <2>1, <2>3 DEF SerialInv, HandledInv
  <2>5. \A s \in Greeted' :
           WillUpdate(j, s) \/ (s \in Greeted /\ view'[s] = view[s] /\ m_topics' = m_topics)
    BY <2>1, <2>2, <2>3 DEF AddsTopics, WillUpdate
  <2>6. ViewInv' /\ CallbackInv' /\ PayloadInv'
    BY <1>2, <2>1, <2>2, <2>3, <2>5, UpdateFacts, SerialThread
  <2> QED
    BY <2>4, <2>6
<1>5. ASSUME NEW ts \in SUBSET Topics, Unsubscribe(t, ts)
      PROVE  ViewInv' /\ CallbackInv' /\ PayloadInv' /\ HandledInv'
  <2> DEFINE j == [NewJob(ts, "remove") EXCEPT !.todo = ts]
  <2>1. Goto(t, j) /\ UNCHANGED <<m_topics, m_topic2Callback, conn, view, inbox, silent, lost>>
    BY <1>5 DEF Unsubscribe, topics, history
  <2>2. j \in Job /\ j.pc = "remove"
    BY DEF NewJob, NoJob, Job
  <2> HIDE DEF j
  <2>3. Handled' = Handled /\ Greeted' = Greeted
    BY <2>1 DEF Handled, Greeted
  <2>4. HandledInv'
    BY <2>1, <2>3 DEF SerialInv, HandledInv
  <2>5. ViewInv' /\ CallbackInv' /\ PayloadInv'
    BY <1>2, <2>1, <2>2, <2>3, UpdateFacts, SerialThread
  <2> QED
    BY <2>4, <2>5
<1> QED
  BY <1>3, <1>4, <1>5 DEF UserCalls

\* Steps of the running call.
LEMMA SerialStep ==
    ASSUME SerialInv, OneCall', NEW t \in Threads, Step(t)
    PROVE  ViewInv' /\ CallbackInv' /\ PayloadInv' /\ HandledInv'
<1> DEFINE r == running[t]
<1>1. RestOK /\ r \in Job /\ r.topics \subseteq Topics /\ running \in [Threads -> Job]
  BY TypeParts DEF SerialInv, Inv, Job
<1>2. CASE AddTopicCallback(t)
  <2> DEFINE j == IF r.changed THEN NewJob(r.topics, "sessions") ELSE NoJob
  <2>1. /\ Goto(t, j) /\ r.pc = "callback"
        /\ m_topic2Callback' = m_topic2Callback \cup r.topics
        /\ UNCHANGED <<m_topics, conn, view, inbox, silent, lost>>
    BY <1>2 DEF AddTopicCallback, history
  <2>2. j \in Job /\ j.pc \in {"sessions", "idle"} /\ (r.changed => j.pc = "sessions")
    BY <1>1, NewJobType, NoJobType
  <2> HIDE DEF j
  <2>3. Handled' = Handled \cup r.topics /\ Greeted' = Greeted
    BY <2>1 DEF Handled, Greeted
  <2>4. HandledInv'
    BY <2>1, <2>3 DEF SerialInv, HandledInv
  <2>5. \A s : WillUpdate(j, s) \/ ~WillUpdate(r, s)
    BY <2>1, <2>2 DEF WillUpdate
  <2>6. ViewInv' /\ CallbackInv' /\ PayloadInv'
    BY <2>1, <2>2, <2>3, <2>5, SerialThread
  <2> QED
    BY <2>4, <2>6
<1>3. CASE UpdateTopicsToRemote(t)
  <2> DEFINE k == [r EXCEPT !.pc = "read", !.to = Live]
             j == IF Live = {} THEN NoJob ELSE k
  <2>1. /\ Goto(t, j) /\ r.pc = "sessions"
        /\ UNCHANGED <<m_topics, m_topic2Callback, conn, view, inbox, silent, lost>>
    BY <1>3 DEF UpdateTopicsToRemote, topics, history
  <2>2. /\ j \in Job /\ j.pc \in {"read", "idle"}
        /\ Live # {} => j.pc = "read" /\ j.to = Live
    <3>1. Live \in SUBSET Sessions
      BY DEF Live
    <3>2. k \in Job /\ k.pc = "read" /\ k.to = Live
      BY <1>1, <3>1 DEF Job
    <3> HIDE DEF k
    <3> QED
      BY <3>2, NoJobType
  <2> HIDE DEF j
  <2>3. Handled' = Handled /\ Greeted' = Greeted
    BY <2>1 DEF Handled, Greeted
  <2>4. HandledInv'
    BY <2>1, <2>3 DEF SerialInv, HandledInv
  <2>5. \A s \in Greeted' : WillUpdate(j, s)
    BY <2>2, <2>3 DEF Greeted, Live, WillUpdate
  <2>6. ViewInv' /\ CallbackInv' /\ PayloadInv'
    BY <2>1, <2>2, <2>3, <2>5, SerialThread
  <2> QED
    BY <2>4, <2>6
<1>4. ASSUME NEW u \in r.to, ReadTopics(t, u)
      PROVE  ViewInv' /\ CallbackInv' /\ PayloadInv' /\ HandledInv'
  <2> DEFINE j == [r EXCEPT !.pc = "send", !.to = @ \ {u}, !.target = {u},
                            !.payload = m_topics]
  <2>1. /\ Goto(t, j) /\ r.pc = "read"
        /\ UNCHANGED <<m_topics, m_topic2Callback, conn, view, inbox, silent, lost>>
    BY <1>4 DEF ReadTopics, topics, history
  <2>2. /\ j \in Job /\ j.pc = "send" /\ j.to = r.to \ {u}
        /\ j.target = {u} /\ j.payload = m_topics
    <3>1. u \in Sessions /\ m_topics \in SUBSET Topics
      BY <1>1 DEF Job, RestOK
    <3> QED
      BY <1>1, <3>1 DEF Job
  <2> HIDE DEF j
  <2>3. Handled' = Handled /\ Greeted' = Greeted
    BY <2>1 DEF Handled, Greeted
  <2>4. HandledInv'
    BY <2>1, <2>3 DEF SerialInv, HandledInv
  <2>5. \A s : WillUpdate(j, s) \/ ~WillUpdate(r, s)
    BY <2>1, <2>2 DEF WillUpdate
  <2>6. m_topics \subseteq Handled
    <3>1. \A v \in Threads : running[v].pc # "callback"
      <4> SUFFICES ASSUME NEW v \in Threads, v # t PROVE running[v].pc # "callback"
        BY <2>1
      <4>1. running'[v] = running[v]
        BY <1>1, <2>1 DEF Goto
      <4> QED
        BY <2>1, <4>1, Alone DEF SerialInv
    <3> QED
      BY <3>1 DEF SerialInv, CallbackInv
  <2>7. ViewInv' /\ CallbackInv' /\ PayloadInv'
    BY <2>1, <2>2, <2>3, <2>5, <2>6, SerialThread
  <2> QED
    BY <2>4, <2>7
<1>5. CASE SendTopics(t)
  <2> DEFINE j == IF r.to = {} THEN NoJob ELSE [r EXCEPT !.pc = "read"]
             to == r.target \cap Live
  <2>1. /\ Goto(t, j) /\ r.pc = "send"
        /\ UNCHANGED <<m_topics, m_topic2Callback, conn, inbox, silent, lost>>
        /\ view' = [s \in Sessions |-> IF s \in to THEN r.payload ELSE view[s]]
    BY <1>5 DEF SendTopics, topics
  <2>2. /\ j \in Job /\ j.pc \in {"read", "idle"}
        /\ r.to # {} => j.pc = "read" /\ j.to = r.to
    <3>1. [r EXCEPT !.pc = "read"] \in Job
      BY <1>1 DEF Job
    <3>2. [r EXCEPT !.pc = "read"].pc = "read" /\ [r EXCEPT !.pc = "read"].to = r.to
      BY <1>1 DEF Job
    <3> QED
      BY <3>1, <3>2, NoJobType
  <2> HIDE DEF j
  <2>3. Handled' = Handled /\ Greeted' = Greeted
    BY <2>1 DEF Handled, Greeted
  <2>4. r.payload = m_topics /\ r.payload \subseteq Handled
    BY <2>1 DEF SerialInv, PayloadInv
  <2>5. HandledInv'
    BY <2>1, <2>3, <2>4 DEF SerialInv, HandledInv
  <2>6. ASSUME NEW s \in Greeted'
        PROVE  \/ view'[s] = m_topics' \/ WillUpdate(j, s)
               \/ /\ s \in Greeted /\ view'[s] = view[s] /\ m_topics' = m_topics
                  /\ ~WillUpdate(r, s)
    <3>1. s \in Greeted /\ s \in Live /\ s \in Sessions
      BY <2>3 DEF Greeted, Live
    <3>2. CASE s \in r.target
      BY <2>1, <2>4, <3>1, <3>2
    <3>3. CASE s \in r.to
      BY <2>2, <3>3 DEF WillUpdate
    <3>4. CASE s \notin r.target /\ s \notin r.to
      BY <2>1, <3>1, <3>4 DEF WillUpdate
    <3> QED
      BY <3>2, <3>3, <3>4
  <2>7. ViewInv' /\ CallbackInv' /\ PayloadInv'
    BY <2>1, <2>2, <2>3, <2>6, SerialThread
  <2> QED
    BY <2>5, <2>7
<1>6. ASSUME NEW y \in r.todo, RemoveTopic(t, y)
      PROVE  ViewInv' /\ CallbackInv' /\ PayloadInv' /\ HandledInv'
  <2> DEFINE changed == r.changed \/ y \in m_topics
             k == [r EXCEPT !.todo = @ \ {y}, !.changed = changed]
             j == IF r.todo # {y} THEN k
                  ELSE IF changed THEN NewJob(r.topics, "sessions") ELSE NoJob
  <2>1. /\ Goto(t, j) /\ r.pc = "remove" /\ m_topics' = m_topics \ {y}
        /\ UNCHANGED <<m_topic2Callback, conn, view, inbox, silent, lost>>
    BY <1>6 DEF RemoveTopic
  <2>2. /\ j \in Job /\ j.pc \in {"remove", "sessions", "idle"}
        /\ changed => \A s : WillUpdate(j, s)
    <3>1. y \in Topics /\ changed \in BOOLEAN
      BY <1>1 DEF Job
    <3> HIDE DEF changed
    <3>2. k \in Job /\ k.pc = "remove" /\ k.changed = changed
      BY <1>1, <2>1, <3>1 DEF Job
    <3>3. /\ NewJob(r.topics, "sessions") \in Job /\ NoJob \in Job
          /\ NewJob(r.topics, "sessions").pc = "sessions" /\ NoJob.pc = "idle"
      BY <1>1, NewJobType, NoJobType
    <3> HIDE DEF k
    <3> QED
      BY <3>2, <3>3 DEF WillUpdate
  <2> HIDE DEF j
  <2>3. Handled' = Handled /\ Greeted' = Greeted
    BY <2>1 DEF Handled, Greeted
  <2>4. HandledInv'
    BY <2>1, <2>3 DEF SerialInv, HandledInv
  <2>5. ~changed => m_topics' = m_topics /\ \A s : ~WillUpdate(r, s)
    BY <2>1 DEF WillUpdate
  <2> HIDE DEF changed
  <2>6. ViewInv' /\ CallbackInv' /\ PayloadInv'
    BY <2>1, <2>2, <2>3, <2>5, SerialThread
  <2> QED
    BY <2>4, <2>6
<1> QED
  BY <1>2, <1>3, <1>4, <1>5, <1>6 DEF Step

\* The handler of a handshake.
LEMMA SerialHandshake ==
    ASSUME SerialInv, OneCall', NEW t \in Threads, NEW u \in Sessions,
           HandshakeSucHandler(t, u)
    PROVE  ViewInv' /\ CallbackInv' /\ PayloadInv' /\ HandledInv'
<1> DEFINE j == [NewJob({}, "read") EXCEPT !.to = {u}]
<1>1. RestOK
  BY TypeParts DEF SerialInv, Inv
<1>2. /\ Goto(t, j) /\ running[t] = NoJob /\ conn' = [conn EXCEPT ![u] = "greeted"]
      /\ UNCHANGED <<m_topics, m_topic2Callback, view, inbox, silent, lost>>
  BY DEF HandshakeSucHandler, topics, history
<1>3. j \in Job /\ j.pc = "read" /\ j.to = {u}
  BY DEF NewJob, NoJob, Job
<1> HIDE DEF j
<1>4. Handled' = Handled /\ \A s \in Greeted' : s \in Greeted \/ s = u
  BY <1>1, <1>2 DEF Handled, Greeted, RestOK
<1>5. HandledInv'
  BY <1>2, <1>4 DEF SerialInv, HandledInv
<1>6. WillUpdate(j, u) /\ running[t].pc = "idle"
  BY <1>2, <1>3, NoJobType DEF WillUpdate
<1>7. ViewInv' /\ CallbackInv' /\ PayloadInv'
  BY <1>2, <1>3, <1>4, <1>6, UpdateFacts, SerialThread
<1> QED
  BY <1>5, <1>7

\* What happens outside the calls.
LEMMA SerialOutside ==
    ASSUME SerialInv,
           \/ \E s \in Sessions : Connect(s) \/ Disconnect(s) \/ \E x \in Topics : NodeSends(s, x)
           \/ \E x \in inbox : OnRecvAMOPMessage(x)
           \/ SetSubCallback
    PROVE  ViewInv' /\ CallbackInv' /\ PayloadInv' /\ HandledInv'
<1>1. RestOK
  BY TypeParts DEF SerialInv, Inv
<1>2. /\ UNCHANGED <<m_topics, m_topic2Callback, running, view, silent>>
      /\ Greeted' \subseteq Greeted
  BY <1>1 DEF Connect, Disconnect, NodeSends, OnRecvAMOPMessage, SetSubCallback, topics,
              history, RestOK, Greeted, Live
<1>3. Handled' = Handled
  BY <1>2 DEF Handled
<1>4. inbox' \subseteq Handled
  BY DEF Connect, Disconnect, NodeSends, OnRecvAMOPMessage, SetSubCallback, SerialInv, HandledInv
<1>5. lost' \subseteq silent
  BY DEF Connect, Disconnect, NodeSends, OnRecvAMOPMessage, SetSubCallback, SerialInv,
         HandledInv, Handled, history
<1>6. HandledInv'
  BY <1>2, <1>3, <1>4, <1>5 DEF SerialInv, HandledInv
<1>7. ViewInv'
  BY <1>2 DEF SerialInv, ViewInv, WillUpdate
<1>8. CallbackInv' /\ PayloadInv'
  BY <1>2, <1>3 DEF SerialInv, CallbackInv, PayloadInv
<1> QED
  BY <1>6, <1>7, <1>8

\* A step after which one call runs at most keeps the invariant.
LEMMA StepSerial == SerialInv /\ [Next /\ OneCall']_vars => SerialInv'
<1> SUFFICES ASSUME SerialInv, [Next /\ OneCall']_vars PROVE SerialInv'
  OBVIOUS
<1>1. Inv'
  BY StepInv DEF SerialInv
<1>2. CASE UNCHANGED vars
  <2>1. UNCHANGED <<m_topics, m_topic2Callback, running, conn, view, inbox, silent, lost>>
    BY <1>2 DEF vars, topics, history
  <2>2. Handled' = Handled /\ Greeted' = Greeted
    BY <2>1 DEF Handled, Greeted
  <2>3. OneCall' /\ ViewInv'
    BY <2>1, <2>2 DEF SerialInv, OneCall, ViewInv, WillUpdate
  <2>4. CallbackInv' /\ PayloadInv' /\ HandledInv'
    BY <2>1, <2>2 DEF SerialInv, CallbackInv, PayloadInv, HandledInv
  <2> QED
    BY <1>1, <2>3, <2>4 DEF SerialInv
<1>3. CASE Next /\ OneCall'
  <2>1. ViewInv' /\ CallbackInv' /\ PayloadInv' /\ HandledInv'
    BY <1>3, SerialCall, SerialStep, SerialHandshake, SerialOutside, Zenon DEF Next
  <2> QED
    BY <1>1, <1>3, <2>1 DEF SerialInv
<1> QED
  BY <1>2, <1>3

\* The invariant holds in the initial state.
LEMMA InitSerial == Init => SerialInv
<1> SUFFICES ASSUME Init PROVE SerialInv
  OBVIOUS
<1>1. Inv
  BY InitInv
<1>2. OneCall /\ ViewInv /\ CallbackInv /\ HandledInv
  BY DEF Init, OneCall, ViewInv, CallbackInv, HandledInv, Greeted
<1>3. PayloadInv
  BY NoJobType DEF Init, PayloadInv
<1> QED
  BY <1>1, <1>2, <1>3 DEF SerialInv

\* What the invariant says when no call runs, and of the messages lost.
LEMMA SerialExact == SerialInv => NodesAgree /\ NothingLost
  BY UpdateFacts DEF SerialInv, ViewInv, HandledInv, NodesAgree, NothingLost, Idle

\* Of calls of AMOP that do not overlap, when the last one has returned every
\* node was told the topics as they are, and no message of a topic subscribed
\* to with a callback is lost, for any topics, sessions and threads.
THEOREM SerialCallsExact == SerialSpec => [](NodesAgree /\ NothingLost)
  BY InitSerial, StepSerial, SerialExact, PTL DEF SerialSpec

\* The same of the specification the run checks, in its part "serial".
THEOREM SerialPartExact == mcSpec => []SerialTopicsExact
<1> DEFINE PartInv == part = "serial" => SerialInv
<1>1. mcInit => PartInv
  BY InitSerial DEF mcInit
<1>2. PartInv /\ [mcNext]_<<vars, part>> => PartInv'
  <2> SUFFICES ASSUME PartInv, [mcNext]_<<vars, part>>, part' = "serial" PROVE SerialInv'
    OBVIOUS
  <2>1. part = "serial" /\ [Next /\ OneCall']_vars
    BY DEF mcNext
  <2> QED
    BY <2>1, StepSerial
<1>3. PartInv => SerialTopicsExact
  BY SerialExact DEF SerialTopicsExact
<1> QED
  BY <1>1, <1>2, <1>3, PTL DEF mcSpec
=============================================================================

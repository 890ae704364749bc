------------------------- MODULE TransactionsProofs -------------------------
(***************************************************************************)
(* Proofs about BlockNotifier and Transactions, for any number of threads, *)
(* keys, nodes, callbacks and notifications: no callback is told of a      *)
(* block twice and the number of a group only grows; the suite for         *)
(* hardware keys is made once, and what is signed has a fresh block limit  *)
(* and the suite of the group.  Of the block number the second part uses   *)
(* the abstract specification only.                                        *)
(***************************************************************************)
EXTENDS Transactions, FiniteSetTheorems, TLAPS

-----------------------------------------------------------------------------
(* The block numbers of the groups.                                        *)

\* A handler reaches its last section only for a new number, and every
\* handler that goes on has the highest number.
JobInv ==
    /\ IsFiniteSet(jobs)
    /\ \A j \in jobs : j.isHighest /\ (j.pc = "notify" => j.isNew)

\* No node has reported more than the number that is kept.
ReportedInv == \A n \in Nodes : reported[n] <= m_group2BlockNumber

\* Before any removal: the new numbers on their way to the callbacks are
\* distinct, not yet delivered, and not above the number that is kept.
NotifyInv ==
    removals = 0 =>
        /\ \A j \in jobs : j.number <= m_group2BlockNumber
        /\ \A j, k \in jobs : j.isNew /\ k.isNew /\ j.number = k.number => j = k
        /\ \A c \in Callbacks : \A i \in 1 .. Len(delivered[c]) :
              /\ delivered[c][i] <= m_group2BlockNumber
              /\ \A j \in jobs : j.isNew => delivered[c][i] # j.number
        /\ NotifiedOnce

\* A reported highest number has a node, or a handler about to insert one.
HighestInv ==
    HasBlockNumber /\ (\E n \in Nodes : reported[n] = m_group2BlockNumber)
    => \/ m_group2LatestBlockNumberNodes # {}
       \/ \E j \in jobs : j.pc = "nodes"

AtNumber == {n \in Nodes : HasBlockNumber /\ reported[n] = m_group2BlockNumber}

\* With one worker and no handshake numbers: the set of nodes is exact, or
\* the single running handler is about to make it so.
SingleInv ==
    /\ \A j, k \in jobs : j = k
    /\ removals = 0 =>
          /\ jobs = {} => m_group2LatestBlockNumberNodes = AtNumber
          /\ \A j \in jobs :
                /\ j.pc = "notify" => m_group2LatestBlockNumberNodes = AtNumber
                /\ j.pc = "nodes" /\ j.isNew => AtNumber = {j.node}
                /\ j.pc = "nodes" /\ ~j.isNew =>
                      AtNumber = m_group2LatestBlockNumberNodes \cup {j.node}

Inv == TypeOK /\ JobInv /\ ReportedInv /\ NotifyInv /\ HighestInv

-----------------------------------------------------------------------------
\* The invariant holds in the initial state.
LEMMA InitInv == Init => Inv
<1> SUFFICES ASSUME Init PROVE Inv
  OBVIOUS
<1>1. TypeOK /\ ReportedInv /\ HighestInv
  BY BoundsAreNatural DEF Init, TypeOK, ReportedInv, HighestInv, HasBlockNumber, None
<1>2. JobInv
  BY FS_EmptySet DEF Init, JobInv
<1>3. NotifyInv
  BY DEF Init, NotifyInv, NotifiedOnce
<1> QED
  BY <1>1, <1>2, <1>3 DEF Inv

\* The handler's first section.
LEMMA RecvStep ==
    ASSUME Inv, NEW m \in messages, OnRecvBlockNotifier(m)
    PROVE  Inv'
<1> USE DEF Inv
<1> DEFINE job == [node |-> m.node, number |-> m.number, pc |-> "nodes",
                   isNew |-> IsNew(m.number), isHighest |-> TRUE]
<1>1. /\ m.node \in Nodes /\ m.number \in 0 .. MaxBlock /\ MaxBlock \in Nat
      /\ m_group2BlockNumber \in (0 .. MaxBlock) \cup {-1}
      /\ IsNew(m.number) \in BOOLEAN
  BY BoundsAreNatural DEF TypeOK, IsNew, None
<1>2. /\ job \in Job /\ job.number = m.number /\ job.pc = "nodes"
      /\ job.isNew = IsNew(m.number) /\ job.isHighest
  BY <1>1 DEF Job
<1>3. /\ \/ jobs' = jobs /\ m.number < m_group2BlockNumber
         \/ jobs' = jobs \cup {job} /\ ~(m.number < m_group2BlockNumber)
      /\ UNCHANGED <<m_group2LatestBlockNumberNodes, m_group2callbacks, chain,
                     removals, delivered>>
      /\ messages' \subseteq messages
  BY DEF OnRecvBlockNotifier
<1>4. m_group2BlockNumber' = IF m.number > m_group2BlockNumber THEN m.number
                             ELSE m_group2BlockNumber
  BY DEF OnRecvBlockNotifier, UpdateGroupBlockNumber, IsNew
<1>5. /\ reported' \in [Nodes -> Nat \cup {-1}]
      /\ \A n \in Nodes : reported'[n] = IF n = m.node /\ m.number > reported[n]
                                         THEN m.number ELSE reported[n]
  BY <1>1 DEF OnRecvBlockNotifier, TypeOK, None
<1> HIDE DEF job
<1>6. TypeOK'
  BY <1>1, <1>2, <1>3, <1>4, <1>5 DEF TypeOK, None
<1>7. JobInv'
  <2>1. IsFiniteSet(jobs')
    BY <1>3, FS_AddElement DEF JobInv
  <2> QED
    BY <1>2, <1>3, <2>1 DEF JobInv
<1>8. ReportedInv'
  <2> SUFFICES ASSUME NEW n \in Nodes PROVE reported'[n] <= m_group2BlockNumber'
    BY DEF ReportedInv
  <2>1. reported[n] \in Int /\ reported[n] <= m_group2BlockNumber
    BY DEF ReportedInv, TypeOK, None
  <2> HIDE DEF Inv
  <2> QED
    BY <1>1, <1>4, <1>5, <2>1
<1>9. NotifyInv'
  <2> SUFFICES ASSUME removals' = 0 PROVE NotifyInv'
    BY DEF NotifyInv
  <2>1. removals = 0
    BY <1>3
  <2>2. /\ \A j \in jobs : j.number \in Nat
        /\ \A c \in Callbacks : \A i \in 1 .. Len(delivered[c]) : delivered[c][i] \in Nat
    BY DEF TypeOK, Job
  <2>3. m_group2BlockNumber' >= m_group2BlockNumber /\ m.number <= m_group2BlockNumber'
    BY <1>1, <1>4
  <2>4. job.isNew => m.number > m_group2BlockNumber
    BY <1>2 DEF IsNew
  <2>5. \A j \in jobs' : j.number <= m_group2BlockNumber'
    BY <1>1, <1>2, <1>3, <1>4, <2>1, <2>2, <2>3 DEF NotifyInv
  <2>6. \A j, k \in jobs' : j.isNew /\ k.isNew /\ j.number = k.number => j = k
    BY <1>1, <1>2, <1>3, <2>1, <2>2, <2>4 DEF NotifyInv
  <2>7. \A c \in Callbacks : \A i \in 1 .. Len(delivered[c]) :
              /\ delivered[c][i] <= m_group2BlockNumber'
              /\ \A j \in jobs' : j.isNew => delivered[c][i] # j.number
    BY <1>1, <1>2, <1>3, <1>4, <2>1, <2>2, <2>4 DEF NotifyInv
  <2>8. NotifiedOnce'
    BY <1>3, <2>1 DEF NotifyInv, NotifiedOnce
  <2> QED
    BY <1>3, <2>5, <2>6, <2>7, <2>8 DEF NotifyInv
<1>10. HighestInv'
  <2>1. CASE jobs' = jobs \cup {job}
    BY <1>2, <2>1 DEF HighestInv
  <2>2. CASE jobs' = jobs /\ m.number < m_group2BlockNumber
    BY <1>1, <1>3, <1>4, <1>5, <2>2 DEF HighestInv, HasBlockNumber, None, TypeOK
  <2> QED
    BY <1>3, <2>1, <2>2
<1> QED
  BY <1>6, <1>7, <1>8, <1>9, <1>10

\* The handler's second section.
LEMMA NodesStep ==
    ASSUME Inv, NEW j \in jobs, UpdateNodes(j)
    PROVE  Inv'
<1> USE DEF Inv
<1> DEFINE next == [j EXCEPT !.pc = "notify"]
<1>1. /\ j \in Job /\ next \in Job /\ next.pc = "notify" /\ next.number = j.number
      /\ next.isNew = j.isNew /\ next.isHighest = j.isHighest /\ j.node \in Nodes
  BY DEF TypeOK, Job
<1>2. /\ \/ jobs' = (jobs \ {j}) \cup {next} /\ j.isNew
         \/ jobs' = jobs \ {j}
      /\ UNCHANGED <<m_group2BlockNumber, m_group2callbacks, chain, messages,
                     removals, reported, delivered>>
  BY DEF UpdateNodes
<1>3. j.node \in m_group2LatestBlockNumberNodes'
      /\ m_group2LatestBlockNumberNodes' \subseteq Nodes
  BY <1>1 DEF UpdateNodes, ClearThenInsert, JobInv, TypeOK
<1> HIDE DEF next
<1>4. TypeOK'
  BY <1>1, <1>2, <1>3 DEF TypeOK
<1>5. JobInv'
  <2>1. IsFiniteSet(jobs \ {j}) /\ IsFiniteSet((jobs \ {j}) \cup {next})
    BY FS_RemoveElement, FS_AddElement DEF JobInv
  <2> QED
    BY <1>1, <1>2, <2>1 DEF JobInv
<1>6. ReportedInv'
  BY <1>2 DEF ReportedInv
<1>7. NotifyInv'
  BY <1>1, <1>2 DEF NotifyInv, NotifiedOnce
<1>8. HighestInv'
  BY <1>3 DEF HighestInv
<1> QED
  BY <1>4, <1>5, <1>6, <1>7, <1>8

\* The handler's last section.
LEMMA CallbackStep ==
    ASSUME Inv, NEW j \in jobs, CallCallbacks(j)
    PROVE  Inv'
<1> USE DEF Inv
<1>1. /\ j.pc = "notify" /\ jobs' = jobs \ {j} /\ j.number \in Nat /\ j.isNew
      /\ UNCHANGED <<m_group2BlockNumber, m_group2LatestBlockNumberNodes,
                     m_group2callbacks, chain, messages, removals, reported>>
  BY DEF CallCallbacks, maps, TypeOK, Job, JobInv
<1>2. \A c \in Callbacks : /\ delivered[c] \in Seq(Nat)
                           /\ \/ delivered'[c] = delivered[c]
                              \/ delivered'[c] = Append(delivered[c], j.number)
  BY DEF CallCallbacks, TypeOK
<1>3. delivered' \in [Callbacks -> Seq(Nat)]
  BY <1>1 DEF CallCallbacks, TypeOK
<1>4. TypeOK'
  BY <1>1, <1>3 DEF TypeOK
<1>5. JobInv'
  BY <1>1, FS_RemoveElement DEF JobInv
<1>6. ReportedInv' /\ HighestInv'
  BY <1>1 DEF ReportedInv, HighestInv, HasBlockNumber
<1>7. NotifyInv'
  <2> SUFFICES ASSUME removals' = 0 PROVE NotifyInv'
    BY DEF NotifyInv
  <2>1. removals = 0
    BY <1>1
  <2>2. ASSUME NEW c \in Callbacks, NEW i \in 1 .. Len(delivered'[c])
        PROVE  \/ i \in 1 .. Len(delivered[c]) /\ delivered'[c][i] = delivered[c][i]
               \/ i = Len(delivered[c]) + 1 /\ delivered'[c][i] = j.number
    <3>1. CASE delivered'[c] = delivered[c]
      BY <2>2, <3>1
    <3>2. CASE delivered'[c] = Append(delivered[c], j.number)
      <4> DEFINE d == delivered[c]
      <4>1. d \in Seq(Nat) /\ j.number \in Nat
        BY <1>1, <1>2, <2>2
      <4>2. i \in 1 .. Len(Append(d, j.number))
        BY <2>2, <3>2
      <4> HIDE DEF d
      <4>3. \/ i \in 1 .. Len(d) /\ Append(d, j.number)[i] = d[i]
            \/ i = Len(d) + 1 /\ Append(d, j.number)[i] = j.number
        BY <4>1, <4>2
      <4> QED
        BY <3>2, <4>3 DEF d
    <3> QED
      BY <1>2, <2>2, <3>1, <3>2
  <2>3. \A c \in Callbacks : \A i \in 1 .. Len(delivered[c]) :
          delivered[c][i] # j.number
    BY <1>1, <2>1 DEF NotifyInv
  <2>4. \A c \in Callbacks : \A i \in 1 .. Len(delivered'[c]) :
              /\ delivered'[c][i] <= m_group2BlockNumber
              /\ \A k \in jobs' : k.isNew => delivered'[c][i] # k.number
    BY <1>1, <2>1, <2>2 DEF NotifyInv
  <2>5. NotifiedOnce'
    BY <2>1, <2>2, <2>3 DEF NotifyInv, NotifiedOnce
  <2> QED
    BY <1>1, <2>1, <2>4, <2>5 DEF NotifyInv
<1> QED
  BY <1>4, <1>5, <1>6, <1>7

\* Handshakes, the user's calls and the nodes.
LEMMA OtherStep ==
    ASSUME Inv,
           \/ \E n \in Nodes, b \in 0 .. MaxBlock :
                 HandshakeBlockNumber(n, b) \/ NodeNotifies(n, b)
           \/ \E c \in Callbacks : RegisterBlockNumberNotifier(c)
           \/ RemoveBlockNumberInfo
    PROVE  Inv'
<1> USE DEF Inv
<1>1. ASSUME NEW n \in Nodes, NEW b \in 0 .. MaxBlock, HandshakeBlockNumber(n, b)
      PROVE  Inv'
  <2>1. /\ m_group2BlockNumber' = IF b > m_group2BlockNumber THEN b
                                  ELSE m_group2BlockNumber
        /\ UNCHANGED <<m_group2LatestBlockNumberNodes, m_group2callbacks, jobs,
                       chain, messages, removals, reported, delivered>>
    BY <1>1 DEF HandshakeBlockNumber, UpdateGroupBlockNumber, IsNew
  <2>2. /\ MaxBlock \in Nat /\ b \in Nat
        /\ m_group2BlockNumber \in Nat \cup {-1}
        /\ m_group2BlockNumber' \in Nat \cup {-1}
        /\ m_group2BlockNumber' >= m_group2BlockNumber
    BY <2>1, BoundsAreNatural DEF TypeOK, None
  <2>3. TypeOK' /\ JobInv'
    BY <2>1 DEF TypeOK, JobInv
  <2>4. ReportedInv' /\ HighestInv'
    BY <2>1, <2>2 DEF ReportedInv, HighestInv, HasBlockNumber, TypeOK, None
  <2>5. NotifyInv'
    <3> SUFFICES ASSUME removals' = 0 PROVE NotifyInv'
      BY DEF NotifyInv
    <3>1. /\ \A j \in jobs : j.number \in Nat
          /\ \A c \in Callbacks : \A i \in 1 .. Len(delivered[c]) :
                delivered[c][i] \in Nat
      BY DEF TypeOK, Job
    <3> QED
      BY <2>1, <2>2, <3>1 DEF NotifyInv, NotifiedOnce
  <2> QED
    BY <2>3, <2>4, <2>5
<1>2. ASSUME NEW n \in Nodes, NEW b \in 0 .. MaxBlock, NodeNotifies(n, b)
      PROVE  Inv'
  BY <1>2 DEF NodeNotifies, maps, TypeOK, JobInv, ReportedInv, NotifyInv,
     NotifiedOnce, HighestInv, HasBlockNumber
<1>3. ASSUME NEW c \in Callbacks, RegisterBlockNumberNotifier(c)
      PROVE  Inv'
  BY <1>3 DEF RegisterBlockNumberNotifier, TypeOK, JobInv, ReportedInv, NotifyInv,
     NotifiedOnce, HighestInv, HasBlockNumber
<1>4. ASSUME RemoveBlockNumberInfo
      PROVE  Inv'
  <2>1. removals' # 0 /\ removals' \in Nat
    BY <1>4 DEF RemoveBlockNumberInfo, TypeOK
  <2> QED
    BY <1>4, <2>1 DEF RemoveBlockNumberInfo, TypeOK, JobInv, ReportedInv, NotifyInv,
       HighestInv, HasBlockNumber, None
<1> QED
  BY <1>1, <1>2, <1>3, <1>4

\* Every step keeps the invariant.
LEMMA StepInv == Inv /\ [Next]_vars => Inv'
<1>1. ASSUME Inv, UNCHANGED vars PROVE Inv'
  BY <1>1 DEF vars, maps, Inv, TypeOK, JobInv, ReportedInv, NotifyInv, NotifiedOnce,
     HighestInv, HasBlockNumber
<1> QED
  BY <1>1, RecvStep, NodesStep, CallbackStep, OtherStep DEF Next

\* Every callback is told of a block at most once, and a group whose highest
\* number was reported has a node to send to once the handlers are done.
THEOREM NotifierSafe == Spec => [](TypeOK /\ NotifiedOnce /\ SomeHighestNode)
<1>1. Inv => TypeOK /\ NotifiedOnce /\ SomeHighestNode
  BY DEF Inv, NotifyInv, NotifiedOnce, HighestInv, SomeHighestNode
<1> QED
  BY <1>1, InitInv, StepInv, PTL DEF Spec

\* The block limit never moves back, whatever order notifications and
\* handshakes are handled in.
THEOREM BlockLimitMonotone == Spec => BlockLimitNeverFalls
<1> DEFINE A == HasBlockNumber /\ removals' = removals => GetBlockLimit' >= GetBlockLimit
<1>1. Inv /\ [Next]_vars => [A]_vars
  <2> SUFFICES ASSUME Inv, Next PROVE A
    OBVIOUS
  <2>0. m_group2BlockNumber \in Int /\ removals \in Nat
    BY BoundsAreNatural DEF Inv, TypeOK, None
  <2>1. ASSUME NEW m \in messages, OnRecvBlockNotifier(m) PROVE A
    <3>1. m.number \in Int
      BY DEF Inv, TypeOK
    <3> QED
      BY <2>0, <2>1, <3>1 DEF OnRecvBlockNotifier, UpdateGroupBlockNumber, IsNew,
         GetBlockLimit, BLOCK_LIMIT_RANGE
  <2>2. ASSUME NEW j \in jobs, UpdateNodes(j) \/ CallCallbacks(j) PROVE A
    BY <2>0, <2>2 DEF UpdateNodes, CallCallbacks, maps, GetBlockLimit, BLOCK_LIMIT_RANGE
  <2>3. ASSUME NEW n \in Nodes, NEW b \in 0 .. MaxBlock, HandshakeBlockNumber(n, b)
        PROVE  A
    BY <2>0, <2>3, BoundsAreNatural DEF HandshakeBlockNumber, UpdateGroupBlockNumber,
       IsNew, GetBlockLimit, BLOCK_LIMIT_RANGE
  <2>4. ASSUME NEW n \in Nodes, NEW b \in 0 .. MaxBlock, NodeNotifies(n, b) PROVE A
    BY <2>0, <2>4 DEF NodeNotifies, maps, GetBlockLimit, BLOCK_LIMIT_RANGE
  <2>5. ASSUME NEW c \in Callbacks, RegisterBlockNumberNotifier(c) PROVE A
    BY <2>0, <2>5 DEF RegisterBlockNumberNotifier, GetBlockLimit, BLOCK_LIMIT_RANGE
  <2>6. ASSUME RemoveBlockNumberInfo PROVE A
    BY <2>0, <2>6 DEF RemoveBlockNumberInfo
  <2> QED
    BY <2>1, <2>2, <2>3, <2>4, <2>5, <2>6 DEF Next
<1> QED
  BY <1>1, InitInv, StepInv, PTL DEF Spec, BlockLimitNeverFalls

\* Every step of the notifier is a step of the abstract block number.
LEMMA NumberStep ==
    ASSUME Inv, [Next]_vars
    PROVE  [Number!Next]_<<m_group2BlockNumber, removals>>
<1>0. /\ m_group2BlockNumber \in Int /\ removals \in Nat
      /\ \A m \in messages : m.number \in 0 .. MaxBlock
  BY BoundsAreNatural DEF Inv, TypeOK, None
<1>1. ASSUME NEW b \in 0 .. MaxBlock, UpdateGroupBlockNumber(b), UNCHANGED removals
      PROVE  [Number!Next]_<<m_group2BlockNumber, removals>>
  <2>1. CASE IsNew(b)
    <3>1. Number!Learn(b)
      BY <1>1, <2>1 DEF Number!Learn, UpdateGroupBlockNumber, IsNew
    <3> QED
      BY <3>1 DEF Number!Next
  <2>2. CASE ~IsNew(b)
    BY <1>1, <2>2 DEF UpdateGroupBlockNumber
  <2> QED
    BY <2>1, <2>2
<1>2. ASSUME NEW m \in messages, OnRecvBlockNotifier(m)
      PROVE  [Number!Next]_<<m_group2BlockNumber, removals>>
  BY <1>0, <1>1, <1>2 DEF OnRecvBlockNotifier
<1>3. ASSUME NEW n \in Nodes, NEW b \in 0 .. MaxBlock, HandshakeBlockNumber(n, b)
      PROVE  [Number!Next]_<<m_group2BlockNumber, removals>>
  BY <1>1, <1>3 DEF HandshakeBlockNumber
<1>4. ASSUME RemoveBlockNumberInfo
      PROVE  Number!Next
  <2>1. Number!Forget
    BY <1>4 DEF RemoveBlockNumberInfo, Number!Forget
  <2> QED
    BY <2>1 DEF Number!Next
<1>5. ASSUME NEW j \in jobs, UpdateNodes(j) \/ CallCallbacks(j)
      PROVE  UNCHANGED <<m_group2BlockNumber, removals>>
  BY <1>5 DEF UpdateNodes, CallCallbacks, maps
<1>6. ASSUME NEW n \in Nodes, NEW b \in 0 .. MaxBlock, NodeNotifies(n, b)
      PROVE  UNCHANGED <<m_group2BlockNumber, removals>>
  BY <1>6 DEF NodeNotifies, maps
<1>7. ASSUME NEW c \in Callbacks, RegisterBlockNumberNotifier(c)
      PROVE  UNCHANGED <<m_group2BlockNumber, removals>>
  BY <1>7 DEF RegisterBlockNumberNotifier
<1>8. CASE UNCHANGED vars
  BY <1>8 DEF vars, maps
<1> QED
  BY <1>2, <1>3, <1>4, <1>5, <1>6, <1>7, <1>8 DEF Next

\* The notifier implements the abstract block number, for any nodes, any
\* number of handlers and any order of notifications and handshakes.
THEOREM NotifierIsBlockNumber == Spec => IsBlockNumber
<1>1. Init => Number!Init
  BY DEF Init, Number!Init
<1> QED
  BY <1>1, InitInv, StepInv, NumberStep, PTL DEF Spec, IsBlockNumber, Number!Spec

-----------------------------------------------------------------------------
(* One worker, and no numbers from handshakes.                             *)

\* With one handler at a time and no number from handshakes, the nodes are exact.
LEMMA SingleStep ==
    ASSUME Workers = 1, HandshakeNodes = {}, Inv, SingleInv, [Next]_vars
    PROVE  SingleInv'
<1> USE DEF Inv
<1>1. CASE UNCHANGED vars
  BY <1>1 DEF vars, maps, SingleInv, AtNumber, HasBlockNumber
<1>2. ASSUME NEW m \in messages, OnRecvBlockNotifier(m) PROVE SingleInv'
  <2> DEFINE job == [node |-> m.node, number |-> m.number, pc |-> "nodes",
                     isNew |-> IsNew(m.number), isHighest |-> TRUE]
  <2>1. jobs = {}
    <3>1. Cardinality(jobs) \in Nat /\ Cardinality(jobs) < 1
      BY <1>2, FS_CardinalityType DEF OnRecvBlockNotifier, JobInv
    <3> QED
      BY <3>1, FS_EmptySet DEF JobInv
  <2>2. /\ m.node \in Nodes /\ m.number \in Nat /\ MaxBlock \in Nat
        /\ m_group2BlockNumber \in Nat \cup {-1}
        /\ reported \in [Nodes -> Nat \cup {-1}]
    BY BoundsAreNatural DEF TypeOK, None
  <2>3. /\ \/ jobs' = {} /\ m.number < m_group2BlockNumber
           \/ jobs' = {job} /\ m.number >= m_group2BlockNumber
        /\ UNCHANGED <<m_group2LatestBlockNumberNodes, removals>>
        /\ m_group2BlockNumber' = IF m.number > m_group2BlockNumber THEN m.number
                                  ELSE m_group2BlockNumber
    BY <1>2, <2>1, <2>2 DEF OnRecvBlockNotifier, UpdateGroupBlockNumber, IsNew
  <2>4. \A n \in Nodes : reported'[n] = IF n = m.node /\ m.number > reported[n]
                                        THEN m.number ELSE reported[n]
    BY <1>2, <2>2 DEF OnRecvBlockNotifier
  <2>5. job.pc = "nodes" /\ job.node = m.node /\ (job.isNew <=> IsNew(m.number))
    OBVIOUS
  <2> HIDE DEF job
  <2> SUFFICES ASSUME removals' = 0 PROVE SingleInv'
    BY <2>3 DEF SingleInv
  <2>6. m_group2LatestBlockNumberNodes = AtNumber
    BY <2>1, <2>3 DEF SingleInv
  <2>7. CASE m.number < m_group2BlockNumber
    <3>1. AtNumber' = AtNumber
      BY <2>2, <2>3, <2>4, <2>7 DEF AtNumber, HasBlockNumber
    <3> QED
      BY <2>2, <2>3, <2>6, <2>7, <3>1 DEF SingleInv
  <2>8. CASE m.number = m_group2BlockNumber
    <3>1. AtNumber' = AtNumber \cup {m.node}
      BY <2>2, <2>3, <2>4, <2>8 DEF AtNumber, HasBlockNumber, ReportedInv, None
    <3>2. jobs' = {job} /\ ~job.isNew
      <4>1. ~IsNew(m.number)
        BY <2>2, <2>8 DEF IsNew
      <4>2. jobs' = {job}
        BY <2>2, <2>3, <2>8
      <4> QED
        BY <2>5, <4>1, <4>2
    <3> QED
      BY <2>3, <2>5, <2>6, <3>1, <3>2 DEF SingleInv
  <2>9. CASE m.number > m_group2BlockNumber
    <3>1. AtNumber' = {m.node}
      BY <2>2, <2>3, <2>4, <2>9 DEF AtNumber, HasBlockNumber, ReportedInv, None
    <3>2. jobs' = {job} /\ job.isNew
      <4>1. IsNew(m.number)
        BY <2>9 DEF IsNew
      <4>2. jobs' = {job}
        BY <2>2, <2>3, <2>9
      <4> QED
        BY <2>5, <4>1, <4>2
    <3> QED
      BY <2>5, <3>1, <3>2 DEF SingleInv
  <2> QED
    BY <2>2, <2>7, <2>8, <2>9
<1>3. ASSUME NEW j \in jobs, UpdateNodes(j) PROVE SingleInv'
  <2> DEFINE next == [j EXCEPT !.pc = "notify"]
  <2>1. next.pc = "notify" /\ j.pc = "nodes"
    BY <1>3 DEF UpdateNodes, TypeOK, Job
  <2>2. jobs = {j}
    BY DEF SingleInv
  <2>3. jobs' = {next} \/ jobs' = {}
    BY <1>3, <2>2 DEF UpdateNodes
  <2>4. UNCHANGED <<removals, AtNumber>>
    BY <1>3 DEF UpdateNodes, AtNumber, HasBlockNumber
  <2>5. removals = 0 => m_group2LatestBlockNumberNodes' = AtNumber
    BY <1>3, <2>1 DEF UpdateNodes, ClearThenInsert, SingleInv, JobInv
  <2> HIDE DEF next
  <2> QED
    BY <2>1, <2>3, <2>4, <2>5 DEF SingleInv
<1>4. ASSUME NEW j \in jobs, CallCallbacks(j) PROVE SingleInv'
  BY <1>4 DEF CallCallbacks, maps, SingleInv, AtNumber, HasBlockNumber
<1>5. ASSUME NEW n \in Nodes, NEW b \in 0 .. MaxBlock, NodeNotifies(n, b)
      PROVE  SingleInv'
  BY <1>5 DEF NodeNotifies, maps, SingleInv, AtNumber, HasBlockNumber
<1>6. ASSUME NEW c \in Callbacks, RegisterBlockNumberNotifier(c) PROVE SingleInv'
  BY <1>6 DEF RegisterBlockNumberNotifier, SingleInv, AtNumber, HasBlockNumber
<1>7. ASSUME RemoveBlockNumberInfo PROVE SingleInv'
  <2>1. removals' # 0
    BY <1>7 DEF RemoveBlockNumberInfo, TypeOK
  <2> QED
    BY <1>7, <2>1 DEF RemoveBlockNumberInfo, SingleInv
<1> QED
  BY <1>1, <1>2, <1>3, <1>4, <1>5, <1>6, <1>7 DEF Next, HandshakeBlockNumber

\* With one handler at a time and no numbers from handshakes, requests are
\* routed to nodes that did report the highest number.  Either condition
\* dropped, TLC finds a counterexample.
THEOREM LatestNodesExact ==
    ASSUME Workers = 1, HandshakeNodes = {}
    PROVE  Spec => []LatestNodesAreHighest
<1> DEFINE I == Inv /\ SingleInv
<1>1. Init => I
  BY InitInv DEF Init, SingleInv, AtNumber, HasBlockNumber
<1>2. I /\ [Next]_vars => I'
  BY StepInv, SingleStep
<1>3. I => LatestNodesAreHighest
  BY DEF SingleInv, AtNumber, LatestNodesAreHighest
<1> QED
  BY <1>1, <1>2, <1>3, PTL DEF Spec

-----------------------------------------------------------------------------
(* The threads that make transactions.                                     *)

Libs == {LibOfKey[k] : k \in KeyPairs}

CallRec ==
    [via : Vias, key : KeyPairs \cup {NULL},
     pc : {"idle", "limit", "crashed", "suite", "lock", "make", "unlock", "sign"},
     limit : Nat, seen : (0 .. MaxBlock) \cup {None}, removed : Nat]

\* The disjuncts of LimitIsFresh, of a call or of a transaction.
Fresh(x) ==
    \/ x.limit = 0 /\ x.via = "rpc" /\ (x.seen = None \/ removals > x.removed)
    \/ /\ x.limit - BLOCK_LIMIT_RANGE \in 0 .. MaxBlock
       /\ removals = x.removed => x.limit - BLOCK_LIMIT_RANGE \in x.seen .. m_group2BlockNumber

\* The number has not fallen since the call began, unless it was forgotten.
Began(x) ==
    /\ x.removed <= removals
    /\ x.removed = removals => x.seen <= m_group2BlockNumber

\* What a call knows of the suite of its builder at each step of the double
\* check: missing while it makes it, there when it unlocks or signs.
Sees(x) ==
    /\ x.pc = "make" => m_hsmCryptoSuite[x.via] = NULL
    /\ x.pc = "unlock" => m_hsmCryptoSuite[x.via] # NULL
    /\ x.pc = "sign" /\ TypeOfKey[x.key] = "HsmSM2" => m_hsmCryptoSuite[x.via] # NULL

\* A call past the block limit.
Limited == {"suite", "lock", "make", "unlock", "sign"}

Checked(x) ==
    /\ x.pc # "idle" => x.key \in KeyPairs
    /\ x.pc \in Limited /\ x.via = "service" => KeyFits(x.key)

InTime(x) ==
    /\ x.pc # "idle" => Began(x)
    /\ x.pc \in Limited => Fresh(x)

SigTypes ==
    /\ m_transactionBuilder \in {"none", "default", "null"}
    /\ m_hsmCryptoSuite \in [Vias -> Libs \cup {NULL}]
    /\ x_hsmCryptoSuite \in [Vias -> Signers \cup {NULL}]
    /\ call \in [Signers -> CallRec]
    /\ txs \in 0 .. MaxTxs
    /\ \A x \in signed : /\ x.limit \in Nat /\ x.removed \in Nat
                         /\ x.seen \in (0 .. MaxBlock) \cup {None}

\* The lock is held by exactly the thread that is inside its section.
LockInv ==
    /\ \A t \in Signers : call[t].pc \in {"make", "unlock"} => x_hsmCryptoSuite[call[t].via] = t
    /\ \A v \in Vias : x_hsmCryptoSuite[v] # NULL =>
          /\ call[x_hsmCryptoSuite[v]].pc \in {"make", "unlock"}
          /\ call[x_hsmCryptoSuite[v]].via = v

CallInv == \A t \in Signers : Checked(call[t]) /\ Sees(call[t])

TimeInv ==
    /\ \A t \in Signers : InTime(call[t])
    /\ \A x \in signed : Fresh(x) /\ x.removed <= removals

TxInv == Inv /\ SigTypes /\ LockInv /\ CallInv /\ TimeInv /\ SignedForGroup

-----------------------------------------------------------------------------

LEMMA NoCallType ==
    /\ NoCall \in CallRec
    /\ NoCall.pc = "idle"
    /\ Checked(NoCall) /\ Sees(NoCall) /\ InTime(NoCall)
BY DEF NoCall, CallRec, Vias, Checked, Sees, InTime, Limited, None

LEMMA TxInitInv == TxInit => TxInv
<1> SUFFICES ASSUME TxInit PROVE TxInv
  OBVIOUS
<1>1. Inv
  BY InitInv DEF TxInit
<1>2. \A t \in Signers : call[t] = NoCall
  BY DEF TxInit
<1>3. SigTypes
  BY NoCallType, MaxTxsNatural DEF TxInit, SigTypes
<1>4. LockInv
  BY <1>2, NoCallType DEF TxInit, LockInv
<1>5. CallInv /\ TimeInv /\ SignedForGroup
  BY <1>2, NoCallType DEF TxInit, CallInv, TimeInv, SignedForGroup
<1> QED
  BY <1>1, <1>3, <1>4, <1>5 DEF TxInv

\* What a step leaves alone when it does not touch the notifier.
LEMMA NotifierAlone ==
    ASSUME Inv, UNCHANGED vars
    PROVE  /\ Inv'
           /\ m_group2BlockNumber' = m_group2BlockNumber
           /\ removals' = removals
BY StepInv DEF vars, maps

\* Types of the numbers.
LEMMA NumberTypes ==
    ASSUME Inv
    PROVE  /\ m_group2BlockNumber \in (0 .. MaxBlock) \cup {-1}
           /\ removals \in Nat /\ MaxBlock \in Nat
BY BoundsAreNatural DEF Inv, TypeOK, None

-----------------------------------------------------------------------------
(* The steps of a call that take no part in the lock.                      *)

\* A thread that moves on outside of the lock, to a state that is right.
LEMMA MovesOutside ==
    ASSUME TxInv, NEW t \in Signers, NEW s \in CallRec,
           call[t].pc \notin {"make", "unlock"}, s.pc \notin {"make", "unlock"},
           Checked(s), Sees(s), InTime(s),
           call' = [call EXCEPT ![t] = s], txs' \in 0 .. MaxTxs,
           UNCHANGED <<vars, m_transactionBuilder, m_hsmCryptoSuite, x_hsmCryptoSuite, signed>>
    PROVE  TxInv'
<1>1. call \in [Signers -> CallRec] /\ x_hsmCryptoSuite \in [Vias -> Signers \cup {NULL}]
  BY DEF TxInv, SigTypes
<1>2. Inv' /\ m_group2BlockNumber' = m_group2BlockNumber /\ removals' = removals
  BY NotifierAlone DEF TxInv
<1>3. SigTypes'
  BY <1>1 DEF TxInv, SigTypes
<1>4. LockInv'
  BY <1>1, NullIsNothing DEF TxInv, LockInv
<1>5. CallInv'
  <2> SUFFICES ASSUME NEW u \in Signers PROVE (Checked(call[u]) /\ Sees(call[u]))'
    BY DEF CallInv
  <2>1. Checked(call'[u]) /\ Sees(call'[u])
    BY <1>1 DEF TxInv, CallInv
  <2> QED
    BY <2>1 DEF Checked, Sees
<1>6. TimeInv'
  <2>1. ASSUME NEW u \in Signers PROVE InTime(call[u])'
    <3>1. InTime(call'[u])
      BY <1>1 DEF TxInv, TimeInv
    <3> QED
      BY <1>2, <3>1 DEF InTime, Began, Fresh
  <2>2. \A x \in signed' : Fresh(x)' /\ x.removed <= removals'
    BY <1>2 DEF TxInv, TimeInv, Fresh
  <2> QED
    BY <2>1, <2>2 DEF TimeInv
<1>7. SignedForGroup'
  BY DEF TxInv, SignedForGroup
<1> QED
  BY <1>2, <1>3, <1>4, <1>5, <1>6, <1>7 DEF TxInv

\* A call ends without a transaction, outside of the lock.
LEMMA EndsOutside ==
    ASSUME TxInv, NEW t \in Signers, call[t].pc \notin {"make", "unlock"},
           Goto(t, "idle"),
           UNCHANGED <<vars, m_transactionBuilder, m_hsmCryptoSuite, x_hsmCryptoSuite, txs, signed>>
    PROVE  TxInv'
<1>1. call' = [call EXCEPT ![t] = NoCall] /\ txs' \in 0 .. MaxTxs
  BY DEF Goto, TxInv, SigTypes
<1> QED
  BY <1>1, NoCallType, MovesOutside

LEMMA CallStep ==
    ASSUME TxInv, NEW t \in Signers, NEW via \in Vias, NEW k \in KeyPairs, Call(t, via, k)
    PROVE  TxInv'
<1> DEFINE s == [via |-> via, key |-> k, pc |-> "limit", limit |-> 0,
                 seen |-> m_group2BlockNumber, removed |-> removals]
<1>1. /\ m_group2BlockNumber \in (0 .. MaxBlock) \cup {-1}
      /\ removals \in Nat /\ MaxBlock \in Nat
  BY NumberTypes DEF TxInv
<1>2. s \in CallRec
  BY <1>1 DEF CallRec, None
<1>3. Checked(s) /\ Sees(s) /\ InTime(s)
  BY <1>1 DEF Checked, Sees, InTime, Began, Limited
<1>4. call[t].pc = "idle" /\ call' = [call EXCEPT ![t] = s] /\ txs' \in 0 .. MaxTxs
  BY MaxTxsNatural DEF Call, TxInv, SigTypes
<1> QED
  BY <1>2, <1>3, <1>4, MovesOutside DEF Call

\* The block limit is taken: of the number that is known now, which is not
\* lower than the one when the call began, or none, if it was unknown then or
\* has been forgotten since.
LEMMA LimitStep ==
    ASSUME TxInv, NEW t \in Signers, call[t].pc = "limit", TakesLimit(t),
           call[t].via = "service" => HasBlockNumber /\ KeyFits(call[t].key),
           UNCHANGED <<vars, m_transactionBuilder, m_hsmCryptoSuite, x_hsmCryptoSuite, txs, signed>>
    PROVE  TxInv'
<1> DEFINE pc == IF call[t].via = "service" /\ m_transactionBuilder = "null"
                 THEN "crashed" ELSE "suite"
           s == [call[t] EXCEPT !.limit = LimitOrZero, !.pc = pc]
<1>1. /\ m_group2BlockNumber \in (0 .. MaxBlock) \cup {-1}
      /\ removals \in Nat /\ MaxBlock \in Nat
  BY NumberTypes DEF TxInv
<1>2. call \in [Signers -> CallRec] /\ call[t] \in CallRec /\ txs' \in 0 .. MaxTxs
  BY DEF TxInv, SigTypes
<1>3. call' = [call EXCEPT ![t] = s]
  BY <1>2 DEF TakesLimit, CallRec
<1>4. LimitOrZero \in Nat /\ pc \in {"crashed", "suite"}
  BY <1>1 DEF LimitOrZero, HasBlockNumber, GetBlockLimit, BLOCK_LIMIT_RANGE, None
<1>5. /\ s \in CallRec /\ s.pc = pc /\ s.limit = LimitOrZero
      /\ s.via = call[t].via /\ s.key = call[t].key
      /\ s.seen = call[t].seen /\ s.removed = call[t].removed
  BY <1>2, <1>4 DEF CallRec
<1>6. /\ Began(call[t]) /\ call[t].key \in KeyPairs
      /\ call[t].seen \in (0 .. MaxBlock) \cup {-1} /\ call[t].removed \in Nat
      /\ call[t].via \in Vias
  BY <1>2 DEF TxInv, TimeInv, InTime, CallInv, Checked, CallRec, None
<1> HIDE DEF s
<1>7. Checked(s) /\ Sees(s)
  BY <1>4, <1>5, <1>6 DEF Checked, Sees, Limited
<1>8. Began(s)
  BY <1>5, <1>6 DEF Began
<1>9. Fresh(s)
  <2>1. CASE HasBlockNumber
    <3>1. s.limit = m_group2BlockNumber + 500 /\ m_group2BlockNumber \in 0 .. MaxBlock
      BY <1>1, <1>5, <2>1 DEF LimitOrZero, HasBlockNumber, GetBlockLimit, BLOCK_LIMIT_RANGE, None
    <3>2. s.limit - 500 = m_group2BlockNumber
      BY <3>1
    <3> QED
      BY <1>1, <1>5, <1>6, <1>8, <3>1, <3>2 DEF Fresh, Began, BLOCK_LIMIT_RANGE
  <2>2. CASE ~HasBlockNumber
    <3>1. s.limit = 0 /\ m_group2BlockNumber = -1 /\ s.via = "rpc"
      BY <1>5, <1>6, <2>2 DEF LimitOrZero, HasBlockNumber, None, Vias
    <3>2. s.seen = -1 \/ removals > s.removed
      BY <1>1, <1>5, <1>6, <1>8, <3>1 DEF Began
    <3> QED
      BY <3>1, <3>2 DEF Fresh, None
  <2> QED
    BY <2>1, <2>2
<1>10. InTime(s)
  BY <1>8, <1>9 DEF InTime
<1> QED
  BY <1>2, <1>3, <1>4, <1>5, <1>7, <1>10, MovesOutside

LEMMA ServiceLimitStep ==
    ASSUME TxInv, NEW t \in Signers, ServiceGetsLimit(t)
    PROVE  TxInv'
<1>1. CASE ~HasBlockNumber \/ ~KeyFits(call[t].key)
  BY <1>1, EndsOutside DEF ServiceGetsLimit
<1>2. CASE HasBlockNumber /\ KeyFits(call[t].key)
  BY <1>2, LimitStep DEF ServiceGetsLimit
<1> QED
  BY <1>1, <1>2

LEMMA RpcLimitStep ==
    ASSUME TxInv, NEW t \in Signers, RpcGetsLimit(t)
    PROVE  TxInv'
BY LimitStep DEF RpcGetsLimit

LEMMA LookStep ==
    ASSUME TxInv, NEW t \in Signers, LooksForSuite(t)
    PROVE  TxInv'
<1> DEFINE pc == IF TypeOfKey[call[t].key] = "HsmSM2" /\ m_hsmCryptoSuite[call[t].via] = NULL
                 THEN "lock" ELSE "sign"
           s == [call[t] EXCEPT !.pc = pc]
<1>1. /\ call[t].pc = "suite" /\ call[t] \in CallRec /\ txs' \in 0 .. MaxTxs
      /\ Checked(call[t]) /\ InTime(call[t])
  BY DEF TxInv, SigTypes, CallInv, TimeInv, LooksForSuite
<1>2. call' = [call EXCEPT ![t] = s]
  BY DEF LooksForSuite, Goto
<1>3. s \in CallRec /\ s.pc \in {"lock", "sign"}
  BY <1>1 DEF CallRec
<1>4. Checked(s) /\ InTime(s)
  BY <1>1, <1>3 DEF Checked, InTime, Began, Fresh, Limited, CallRec
<1>5. Sees(s)
  BY <1>1 DEF Sees, CallRec
<1> QED
  BY <1>1, <1>2, <1>3, <1>4, <1>5, MovesOutside DEF LooksForSuite

-----------------------------------------------------------------------------
(* The steps inside the section of the lock.                               *)

\* The times of the calls and of what was signed are kept by a step that only
\* moves one thread on among the steps after the limit, or ends its call.
LEMMA TimeKept ==
    ASSUME TxInv, NEW t \in Signers, NEW s \in CallRec, InTime(s),
           call' = [call EXCEPT ![t] = s], signed' = signed, UNCHANGED vars
    PROVE  TimeInv'
<1>1. m_group2BlockNumber' = m_group2BlockNumber /\ removals' = removals
  BY DEF vars, maps
<1>2. call \in [Signers -> CallRec]
  BY DEF TxInv, SigTypes
<1>3. ASSUME NEW u \in Signers PROVE InTime(call[u])'
  <2>1. InTime(call'[u])
    BY <1>2 DEF TxInv, TimeInv
  <2> QED
    BY <1>1, <2>1 DEF InTime, Began, Fresh
<1>4. \A x \in signed' : Fresh(x)' /\ x.removed <= removals'
  BY <1>1 DEF TxInv, TimeInv, Fresh
<1> QED
  BY <1>3, <1>4 DEF TimeInv

LEMMA LockStep ==
    ASSUME TxInv, NEW t \in Signers, LocksSuite(t)
    PROVE  TxInv'
<1> DEFINE pc == IF m_hsmCryptoSuite[call[t].via] = NULL THEN "make" ELSE "unlock"
           s == [call[t] EXCEPT !.pc = pc]
<1>1. /\ call[t].pc = "lock" /\ call \in [Signers -> CallRec] /\ call[t] \in CallRec
      /\ call[t].via \in Vias /\ x_hsmCryptoSuite[call[t].via] = NULL
      /\ Checked(call[t]) /\ InTime(call[t])
      /\ x_hsmCryptoSuite \in [Vias -> Signers \cup {NULL}]
  BY DEF TxInv, SigTypes, CallInv, TimeInv, LocksSuite, CallRec
<1>2. /\ call' = [call EXCEPT ![t] = s]
      /\ x_hsmCryptoSuite' = [x_hsmCryptoSuite EXCEPT ![call[t].via] = t]
      /\ UNCHANGED <<m_transactionBuilder, m_hsmCryptoSuite, txs, signed>>
      /\ UNCHANGED vars
  BY DEF LocksSuite, Goto
<1>3. s \in CallRec /\ s.pc = pc /\ s.via = call[t].via /\ s.key = call[t].key
  BY <1>1 DEF CallRec
<1>4. pc \in {"make", "unlock"}
  OBVIOUS
<1>5. InTime(s)
  BY <1>1, <1>4 DEF InTime, Began, Fresh, Limited, CallRec
<1>6. Checked(s) /\ Sees(s)
  BY <1>1, <1>3 DEF Checked, Sees, Limited
<1> HIDE DEF s
<1>7. SigTypes'
  BY <1>1, <1>2, <1>3 DEF TxInv, SigTypes
<1>8. LockInv'
  BY <1>1, <1>2, <1>3, <1>4, NullIsNothing DEF TxInv, LockInv
<1>9. CallInv'
  <2> SUFFICES ASSUME NEW u \in Signers PROVE (Checked(call[u]) /\ Sees(call[u]))'
    BY DEF CallInv
  <2>1. Checked(call'[u]) /\ Sees(call'[u])
    BY <1>1, <1>2, <1>6 DEF TxInv, CallInv
  <2> QED
    BY <1>2, <2>1 DEF Checked, Sees
<1>10. Inv'
  BY <1>2, NotifierAlone DEF TxInv
<1>11. TimeInv'
  BY <1>2, <1>3, <1>5, TimeKept
<1>12. SignedForGroup'
  BY <1>2 DEF TxInv, SignedForGroup
<1> QED
  BY <1>7, <1>8, <1>9, <1>10, <1>11, <1>12 DEF TxInv

LEMMA MakeStep ==
    ASSUME TxInv, NEW t \in Signers, MakesSuite(t)
    PROVE  TxInv'
<1> DEFINE s == [call[t] EXCEPT !.pc = "unlock"]
           lib == LibOfKey[call[t].key]
<1>1. /\ call[t].pc = "make" /\ call \in [Signers -> CallRec] /\ call[t] \in CallRec
      /\ call[t].via \in Vias /\ call[t].key \in KeyPairs
      /\ Checked(call[t]) /\ InTime(call[t])
      /\ m_hsmCryptoSuite \in [Vias -> Libs \cup {NULL}]
      /\ x_hsmCryptoSuite[call[t].via] = t
  BY DEF TxInv, SigTypes, CallInv, TimeInv, LockInv, MakesSuite, CallRec, Checked
<1>2. /\ call' = [call EXCEPT ![t] = s]
      /\ m_hsmCryptoSuite' = [m_hsmCryptoSuite EXCEPT ![call[t].via] = lib]
      /\ UNCHANGED <<m_transactionBuilder, x_hsmCryptoSuite, txs, signed>>
      /\ UNCHANGED vars
  BY DEF MakesSuite, Goto
<1>3. lib \in Libs /\ lib # NULL
  BY <1>1, NullIsNothing DEF Libs
<1>4. s \in CallRec /\ s.pc = "unlock" /\ s.via = call[t].via /\ s.key = call[t].key
  BY <1>1 DEF CallRec
<1>5. InTime(s) /\ Checked(s)
  BY <1>1 DEF InTime, Began, Fresh, Checked, Limited, CallRec
<1> HIDE DEF s, lib
<1>6. SigTypes'
  BY <1>1, <1>2, <1>3, <1>4 DEF TxInv, SigTypes
<1>7. LockInv'
  BY <1>1, <1>2, <1>4 DEF TxInv, LockInv
<1>8. CallInv'
  <2> SUFFICES ASSUME NEW u \in Signers PROVE Checked(call'[u]) /\ Sees(call[u])'
    BY DEF CallInv, Checked
  <2>1. CASE u = t
    <3>1. call'[u] = s
      BY <1>1, <1>2, <2>1
    <3>2. m_hsmCryptoSuite'[s.via] # NULL
      BY <1>1, <1>2, <1>3, <1>4
    <3> QED
      BY <1>4, <1>5, <3>1, <3>2 DEF Sees
  <2>2. CASE u # t
    <3>1. call'[u] = call[u] /\ Checked(call[u]) /\ Sees(call[u]) /\ call[u].via \in Vias
      BY <1>1, <1>2, <2>2 DEF TxInv, CallInv, CallRec
    <3>2. call[u].pc = "make" => call[u].via # call[t].via
      BY <1>1, <2>2 DEF TxInv, LockInv
    <3>3. m_hsmCryptoSuite'[call[u].via] = IF call[u].via = call[t].via THEN lib
                                           ELSE m_hsmCryptoSuite[call[u].via]
      BY <1>1, <1>2, <3>1
    <3> QED
      BY <1>3, <3>1, <3>2, <3>3 DEF Sees
  <2> QED
    BY <2>1, <2>2
<1>9. Inv'
  BY <1>2, NotifierAlone DEF TxInv
<1>10. TimeInv'
  BY <1>2, <1>4, <1>5, TimeKept
<1>11. SignedForGroup'
  BY <1>2 DEF TxInv, SignedForGroup
<1> QED
  BY <1>6, <1>7, <1>8, <1>9, <1>10, <1>11 DEF TxInv

\* A thread leaves the section, with the suite made or by an exception.
LEMMA LeaveStep ==
    ASSUME TxInv, NEW t \in Signers, NEW s \in CallRec,
           call[t].pc \in {"make", "unlock"}, s.pc \notin {"make", "unlock"},
           Checked(s), Sees(s), InTime(s), call' = [call EXCEPT ![t] = s],
           x_hsmCryptoSuite' = [x_hsmCryptoSuite EXCEPT ![call[t].via] = NULL],
           UNCHANGED <<vars, m_transactionBuilder, m_hsmCryptoSuite, txs, signed>>
    PROVE  TxInv'
<1>1. /\ call \in [Signers -> CallRec] /\ call[t].via \in Vias
      /\ x_hsmCryptoSuite \in [Vias -> Signers \cup {NULL}]
      /\ x_hsmCryptoSuite[call[t].via] = t
  BY DEF TxInv, SigTypes, LockInv, CallRec
<1>2. SigTypes'
  BY <1>1 DEF TxInv, SigTypes
<1>3. LockInv'
  <2>1. ASSUME NEW u \in Signers, call'[u].pc \in {"make", "unlock"}
        PROVE  x_hsmCryptoSuite'[call'[u].via] = u
    <3>1. u # t /\ call'[u] = call[u] /\ call[u].via \in Vias
      BY <1>1, <2>1 DEF CallRec
    <3>2. x_hsmCryptoSuite[call[u].via] = u
      BY <2>1, <3>1 DEF TxInv, LockInv
    <3> QED
      BY <1>1, <3>1, <3>2
  <2>2. ASSUME NEW v \in Vias, x_hsmCryptoSuite'[v] # NULL
        PROVE  /\ call'[x_hsmCryptoSuite'[v]].pc \in {"make", "unlock"}
               /\ call'[x_hsmCryptoSuite'[v]].via = v
    <3>1. v # call[t].via /\ x_hsmCryptoSuite'[v] = x_hsmCryptoSuite[v]
      BY <1>1, <2>2
    <3>2. /\ x_hsmCryptoSuite[v] \in Signers
          /\ call[x_hsmCryptoSuite[v]].pc \in {"make", "unlock"}
          /\ call[x_hsmCryptoSuite[v]].via = v
      BY <1>1, <2>2, <3>1 DEF TxInv, LockInv
    <3>3. x_hsmCryptoSuite[v] # t
      BY <3>1, <3>2
    <3> QED
      BY <1>1, <3>1, <3>2, <3>3
  <2> QED
    BY <2>1, <2>2 DEF LockInv
<1>4. CallInv'
  <2> SUFFICES ASSUME NEW u \in Signers PROVE (Checked(call[u]) /\ Sees(call[u]))'
    BY DEF CallInv
  <2>1. Checked(call'[u]) /\ Sees(call'[u])
    BY <1>1 DEF TxInv, CallInv
  <2> QED
    BY <2>1 DEF Checked, Sees
<1>5. Inv'
  BY NotifierAlone DEF TxInv
<1>6. TimeInv'
  BY TimeKept
<1>7. SignedForGroup'
  BY DEF TxInv, SignedForGroup
<1> QED
  BY <1>2, <1>3, <1>4, <1>5, <1>6, <1>7 DEF TxInv

LEMMA ThrowStep ==
    ASSUME TxInv, NEW t \in Signers, MakeThrows(t)
    PROVE  TxInv'
<1>1. call[t].pc = "make" /\ call' = [call EXCEPT ![t] = NoCall]
  BY DEF MakeThrows, Goto
<1> QED
  BY <1>1, NoCallType, LeaveStep DEF MakeThrows

LEMMA UnlockStep ==
    ASSUME TxInv, NEW t \in Signers, UnlocksSuite(t)
    PROVE  TxInv'
<1> DEFINE s == [call[t] EXCEPT !.pc = "sign"]
<1>1. /\ call[t].pc = "unlock" /\ call[t] \in CallRec
      /\ Checked(call[t]) /\ Sees(call[t]) /\ InTime(call[t])
  BY DEF TxInv, SigTypes, CallInv, TimeInv, UnlocksSuite
<1>2. call' = [call EXCEPT ![t] = s]
  BY DEF UnlocksSuite, Goto
<1>3. s \in CallRec /\ s.pc = "sign"
  BY <1>1 DEF CallRec
<1>4. Checked(s) /\ Sees(s) /\ InTime(s)
  BY <1>1 DEF Checked, Sees, InTime, Began, Fresh, Limited, CallRec
<1> QED
  BY <1>1, <1>2, <1>3, <1>4, LeaveStep DEF UnlocksSuite

-----------------------------------------------------------------------------

(* Signing.                                                                *)

\* A call signs with the suite of its key, and with a suite.
LEMMA SuiteFits ==
    ASSUME TxInv, NEW t \in Signers, call[t].pc = "sign"
    PROVE  /\ SuiteOf(call[t].via, call[t].key) # NULL
           /\ call[t].via = "service" =>
                 (SmCryptoType <=> SuiteOf(call[t].via, call[t].key) # "ecdsa")
<1> DEFINE k == call[t].key
           via == call[t].via
<1>1. /\ k \in KeyPairs /\ via \in Vias
      /\ via = "service" => (SmCryptoType <=> Sm(k))
      /\ TypeOfKey[k] = "HsmSM2" => m_hsmCryptoSuite[via] # NULL
      /\ m_hsmCryptoSuite[via] \in Libs \cup {NULL}
  BY DEF TxInv, SigTypes, CallInv, Checked, Sees, KeyFits, Limited, CallRec
<1>2. TypeOfKey[k] \in {"Secp256K1", "SM2", "HsmSM2"}
  BY <1>1, TypeOfKeyType
<1>3. CASE TypeOfKey[k] = "SM2"
  <2>1. SuiteOf(via, k) = "sm" /\ Sm(k)
    BY <1>3 DEF SuiteOf, Sm
  <2> QED
    BY <1>1, <2>1, NullIsNothing
<1>4. CASE TypeOfKey[k] = "HsmSM2"
  <2>1. SuiteOf(via, k) = m_hsmCryptoSuite[via] /\ Sm(k)
    BY <1>4 DEF SuiteOf, Sm
  <2>2. m_hsmCryptoSuite[via] # NULL /\ m_hsmCryptoSuite[via] # "ecdsa"
    BY <1>1, <1>4, NullIsNothing DEF Libs
  <2> QED
    BY <1>1, <2>1, <2>2
<1>5. CASE TypeOfKey[k] = "Secp256K1"
  <2>1. SuiteOf(via, k) = "ecdsa" /\ ~Sm(k)
    BY <1>5 DEF SuiteOf, Sm
  <2> QED
    BY <1>1, <2>1, NullIsNothing
<1> QED
  BY <1>2, <1>3, <1>4, <1>5

LEMMA SignStepInv ==
    ASSUME TxInv, NEW t \in Signers, Signs(t)
    PROVE  TxInv'
<1> DEFINE x == [via |-> call[t].via, key |-> call[t].key, limit |-> call[t].limit,
                 seen |-> call[t].seen, removed |-> call[t].removed,
                 suite |-> SuiteOf(call[t].via, call[t].key)]
<1>1. /\ call[t].pc = "sign" /\ call \in [Signers -> CallRec] /\ call[t] \in CallRec
      /\ InTime(call[t]) /\ call' = [call EXCEPT ![t] = NoCall] /\ signed' = {x}
      /\ x_hsmCryptoSuite \in [Vias -> Signers \cup {NULL}]
      /\ UNCHANGED <<m_transactionBuilder, m_hsmCryptoSuite, x_hsmCryptoSuite, txs>>
      /\ UNCHANGED vars
  BY DEF TxInv, SigTypes, TimeInv, Signs, Goto
<1>2. Inv' /\ m_group2BlockNumber' = m_group2BlockNumber /\ removals' = removals
  BY <1>1, NotifierAlone DEF TxInv
<1>3. /\ x.limit = call[t].limit /\ x.via = call[t].via /\ x.seen = call[t].seen
      /\ x.removed = call[t].removed /\ x.suite = SuiteOf(call[t].via, call[t].key)
  OBVIOUS
<1> HIDE DEF x
<1>4. SigTypes'
  BY <1>1, <1>3, NoCallType DEF TxInv, SigTypes, CallRec
<1>5. LockInv'
  BY <1>1, NoCallType, NullIsNothing DEF TxInv, LockInv
<1>6. CallInv'
  <2> SUFFICES ASSUME NEW u \in Signers PROVE (Checked(call[u]) /\ Sees(call[u]))'
    BY DEF CallInv
  <2>1. Checked(call'[u]) /\ Sees(call'[u])
    BY <1>1, NoCallType DEF TxInv, CallInv
  <2> QED
    BY <1>1, <2>1 DEF Checked, Sees
<1>7. TimeInv'
  <2>1. ASSUME NEW u \in Signers PROVE InTime(call[u])'
    <3>1. InTime(call'[u])
      BY <1>1, NoCallType DEF TxInv, TimeInv
    <3> QED
      BY <1>2, <3>1 DEF InTime, Began, Fresh
  <2>2. Fresh(call[t]) /\ call[t].removed <= removals
    BY <1>1 DEF InTime, Limited, Began
  <2>3. \A y \in signed' : Fresh(y)' /\ y.removed <= removals'
    BY <1>1, <1>2, <1>3, <2>2 DEF Fresh
  <2> QED
    BY <1>1, <2>1, <2>3 DEF TimeInv
<1>8. SignedForGroup'
  BY <1>1, <1>3, SuiteFits DEF SignedForGroup
<1> QED
  BY <1>2, <1>4, <1>5, <1>6, <1>7, <1>8 DEF TxInv

-----------------------------------------------------------------------------
(* Steps of the notifier, seen through BlockNumber.                        *)

\* A number that grows, or is forgotten, leaves every limit fresh.
LEMMA FreshKept ==
    ASSUME Inv, [Number!Next]_<<m_group2BlockNumber, removals>>, Inv',
           NEW x, x.limit \in Nat, x.removed \in Nat, x.seen \in (0 .. MaxBlock) \cup {None},
           x.removed <= removals
    PROVE  /\ x.removed <= removals'
           /\ Fresh(x) => Fresh(x)'
           /\ Began(x) => Began(x)'
<1>1. /\ m_group2BlockNumber \in (0 .. MaxBlock) \cup {-1}
      /\ removals \in Nat /\ MaxBlock \in Nat
  BY NumberTypes
<1>2. \/ UNCHANGED <<m_group2BlockNumber, removals>>
      \/ removals' = removals + 1
      \/ /\ removals' = removals /\ m_group2BlockNumber' \in 0 .. MaxBlock
         /\ m_group2BlockNumber' > m_group2BlockNumber
  BY DEF Number!Next, Number!Learn, Number!Forget
<1>3. CASE UNCHANGED <<m_group2BlockNumber, removals>>
  BY <1>3 DEF Fresh, Began
<1>4. CASE removals' = removals + 1
  BY <1>1, <1>4 DEF Fresh, Began
<1>5. CASE /\ removals' = removals /\ m_group2BlockNumber' \in 0 .. MaxBlock
           /\ m_group2BlockNumber' > m_group2BlockNumber
  BY <1>1, <1>5 DEF Fresh, Began, None, BLOCK_LIMIT_RANGE
<1> QED
  BY <1>2, <1>3, <1>4, <1>5

LEMMA NotifierStep ==
    ASSUME TxInv, [Next]_vars, UNCHANGED signing
    PROVE  TxInv'
<1>1. Inv /\ Inv' /\ [Number!Next]_<<m_group2BlockNumber, removals>>
  BY StepInv, NumberStep DEF TxInv
<1>2. /\ UNCHANGED <<m_transactionBuilder, m_hsmCryptoSuite, x_hsmCryptoSuite>>
      /\ UNCHANGED <<call, txs, signed>>
  BY DEF signing
<1>3. SigTypes' /\ LockInv' /\ SignedForGroup'
  BY <1>2 DEF TxInv, SigTypes, LockInv, SignedForGroup
<1>4. CallInv'
  BY <1>2 DEF TxInv, CallInv, Checked, Sees
<1>5. ASSUME NEW t \in Signers PROVE InTime(call[t])'
  <2>1. /\ call[t].limit \in Nat /\ call[t].removed \in Nat
        /\ call[t].seen \in (0 .. MaxBlock) \cup {None}
        /\ InTime(call[t])
    BY DEF TxInv, SigTypes, TimeInv, CallRec
  <2>2. CASE call[t].pc = "idle"
    BY <1>2, <2>2 DEF InTime, Limited
  <2>3. CASE call[t].pc # "idle"
    <3>1. Began(call[t]) /\ call[t].removed <= removals
      BY <2>1, <2>3 DEF InTime, Began
    <3> DEFINE x == call[t]
    <3>2. /\ x.limit \in Nat /\ x.removed \in Nat /\ x.seen \in (0 .. MaxBlock) \cup {None}
          /\ x.removed <= removals
      BY <2>1, <3>1
    <3> QED
      BY <1>1, <1>2, <2>1, <3>1, <3>2, NumberTypes
         DEF InTime, Fresh, Began, Number!Next, Number!Learn, Number!Forget, None,
             BLOCK_LIMIT_RANGE
  <2> QED
    BY <2>2, <2>3
<1>6. \A x \in signed' : Fresh(x)' /\ x.removed <= removals'
  <2> SUFFICES ASSUME NEW x \in signed PROVE Fresh(x)' /\ x.removed <= removals'
    BY <1>2
  <2> QED
    BY <1>1, FreshKept DEF TxInv, SigTypes, TimeInv
<1> QED
  BY <1>1, <1>3, <1>4, <1>5, <1>6 DEF TxInv, TimeInv

LEMMA NewServiceStep ==
    ASSUME TxInv, NEW passed \in BOOLEAN, NewTransactionBuilderService(passed)
    PROVE  TxInv'
<1>1. /\ m_transactionBuilder' \in {"none", "default", "null"}
      /\ UNCHANGED <<m_hsmCryptoSuite, x_hsmCryptoSuite, call, txs, signed>>
      /\ UNCHANGED vars
  BY DEF NewTransactionBuilderService
<1>2. Inv' /\ m_group2BlockNumber' = m_group2BlockNumber /\ removals' = removals
  BY <1>1, NotifierAlone DEF TxInv
<1>3. SigTypes' /\ LockInv' /\ SignedForGroup'
  BY <1>1 DEF TxInv, SigTypes, LockInv, SignedForGroup
<1>4. CallInv'
  BY <1>1 DEF TxInv, CallInv, Checked, Sees
<1>5. TimeInv'
  BY <1>1, <1>2 DEF TxInv, TimeInv, InTime, Fresh, Began
<1> QED
  BY <1>2, <1>3, <1>4, <1>5 DEF TxInv

LEMMA TxStepInv == TxInv /\ [TxNext]_allVars => TxInv'
<1> SUFFICES ASSUME TxInv, [TxNext]_allVars PROVE TxInv'
  OBVIOUS
<1>1. CASE UNCHANGED allVars
  BY <1>1, NotifierStep DEF allVars
<1>2. CASE Next /\ UNCHANGED signing
  BY <1>2, NotifierStep
<1>3. ASSUME NEW passed \in BOOLEAN, NewTransactionBuilderService(passed) PROVE TxInv'
  BY <1>3, NewServiceStep
<1>4. ASSUME NEW t \in Signers, UserStep(t) PROVE TxInv'
  BY <1>4, CallStep DEF UserStep
<1>5. ASSUME NEW t \in Signers, SignStep(t) PROVE TxInv'
  BY <1>5, ServiceLimitStep, RpcLimitStep, LookStep, LockStep, MakeStep, ThrowStep,
     UnlockStep, SignStepInv DEF SignStep
<1> QED
  BY <1>1, <1>2, <1>3, <1>4, <1>5 DEF TxNext

-----------------------------------------------------------------------------

\* Whatever notifications arrive while transactions are built, the lock of the
\* suite is held by the thread inside its section, the limit of a transaction
\* is not older than the call that built it, and it is signed with the suite of
\* the group.
THEOREM TransactionsSafe == TxSpec => [](TxTypeOK /\ LimitIsFresh /\ SignedForGroup)
<1>1. TxInv => TxTypeOK /\ LimitIsFresh /\ SignedForGroup
  <2> SUFFICES ASSUME TxInv PROVE TxTypeOK /\ LimitIsFresh
    BY DEF TxInv
  <2>1. TxTypeOK
    BY DEF TxInv, SigTypes, LockInv, TxTypeOK, Libs
  <2>2. LimitIsFresh
    BY DEF TxInv, TimeInv, Fresh, LimitIsFresh
  <2> QED
    BY <2>1, <2>2
<1> QED
  BY <1>1, TxInitInv, TxStepInv, PTL DEF TxSpec

\* The suite for hardware keys is made once: the thread that makes it holds the
\* lock and has seen, with the lock, that there is none.
THEOREM SuiteIsMadeOnce == TxSpec => SuiteMadeOnce
<1> DEFINE A == \A v \in Vias :
                   m_hsmCryptoSuite[v] # NULL => m_hsmCryptoSuite'[v] = m_hsmCryptoSuite[v]
<1>1. TxInv /\ [TxNext]_allVars => [A]_allVars
  <2> SUFFICES ASSUME TxInv, TxNext PROVE A
    OBVIOUS
  <2>1. CASE UNCHANGED m_hsmCryptoSuite
    BY <2>1
  <2>2. ASSUME NEW t \in Signers, MakesSuite(t) PROVE A
    <3>1. /\ m_hsmCryptoSuite[call[t].via] = NULL
          /\ m_hsmCryptoSuite \in [Vias -> Libs \cup {NULL}]
          /\ m_hsmCryptoSuite' = [m_hsmCryptoSuite EXCEPT ![call[t].via] = LibOfKey[call[t].key]]
      BY <2>2 DEF TxInv, SigTypes, CallInv, Sees, MakesSuite
    <3> QED
      BY <3>1
  <2> QED
    BY <2>1, <2>2 DEF TxNext, signing, NewTransactionBuilderService, UserStep, Call, SignStep,
       ServiceGetsLimit, RpcGetsLimit, LooksForSuite, LocksSuite, MakeThrows, UnlocksSuite, Signs
<1> QED
  BY <1>1, TxInitInv, TxStepInv, PTL DEF TxSpec, SuiteMadeOnce

\* Signing leaves the block number alone: what NotifierIsBlockNumber shows of
\* the notifier holds of the two together.
THEOREM TransactionsKeepBlockNumber == TxSpec => IsBlockNumber
<1>1. TxInit => Number!Init
  BY DEF TxInit, Init, Number!Init
<1>2. TxInv /\ [TxNext]_allVars => [Number!Next]_<<m_group2BlockNumber, removals>>
  <2> SUFFICES ASSUME TxInv, [TxNext]_allVars, ~UNCHANGED <<m_group2BlockNumber, removals>>
               PROVE  [Number!Next]_<<m_group2BlockNumber, removals>>
    OBVIOUS
  <2>1. ~UNCHANGED vars
    BY DEF vars, maps
  <2>2. Next
    BY <2>1 DEF TxNext, allVars, NewTransactionBuilderService, UserStep, Call, SignStep,
       ServiceGetsLimit, RpcGetsLimit, LooksForSuite, LocksSuite, MakesSuite, MakeThrows,
       UnlocksSuite, Signs
  <2> QED
    BY <2>2, NumberStep DEF TxInv
<1> QED
  BY <1>1, <1>2, TxInitInv, TxStepInv, PTL DEF TxSpec, IsBlockNumber, Number!Spec
=============================================================================

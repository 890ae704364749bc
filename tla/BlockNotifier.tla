---------------------------- MODULE BlockNotifier ----------------------------
(***************************************************************************)
(* The block notifier of Service (bcos-cpp-sdk/ws), for one group: the     *)
(* highest block number the client knows, the nodes that have it, and the  *)
(* callbacks told of every new number.                                     *)
(*                                                                         *)
(* Notifications of several nodes are handled by the threads of a pool, so *)
(* a handler is a job with one step per critical section of                *)
(* x_blockNotifierLock: the number, the set of nodes, the callbacks.       *)
(* A handshake updates the number alone.                                   *)
(***************************************************************************)
EXTENDS Integers, Sequences, FiniteSets

CONSTANTS
    Nodes,           \* the nodes of the group
    HandshakeNodes,  \* nodes whose handshake answer carries groupBlockNumber
    Callbacks,       \* callbacks the user may register
    Workers,         \* notifications handled at the same time
    MaxBlock,        \* bound: highest block of the chain
    MaxRemovals      \* bound: calls of removeBlockNumberInfo

ASSUME HandshakeNodesAreNodes == HandshakeNodes \subseteq Nodes
ASSUME BoundsAreNatural == MaxBlock \in Nat /\ MaxRemovals \in Nat /\ Workers \in Nat

VARIABLES
    m_group2BlockNumber,             \* the number, or None
    m_group2LatestBlockNumberNodes,  \* the nodes; empty and absent are alike
    m_group2callbacks,               \* registered callbacks
    jobs,                            \* running calls of onRecvBlockNotifier
    chain,                           \* external: height of every node
    messages,                        \* notifications received, not yet handled
    removals,                        \* calls of removeBlockNumberInfo so far
    reported,                        \* history: highest number handled, by node
    delivered                        \* history: callback -> numbers it was given

maps == <<m_group2BlockNumber, m_group2LatestBlockNumberNodes, m_group2callbacks>>
vars == <<maps, jobs, chain, messages, removals, reported, delivered>>

-----------------------------------------------------------------------------
None == -1

BLOCK_LIMIT_RANGE == 500

Job ==
    [node : Nodes, number : Nat, pc : {"nodes", "notify"},
     isNew : BOOLEAN, isHighest : BOOLEAN]

\* getBlockNumber returned true.
HasBlockNumber == m_group2BlockNumber # None

\* getBlockLimit, where it returns true: the last block in which a
\* transaction built now may be sealed.
GetBlockLimit == m_group2BlockNumber + BLOCK_LIMIT_RANGE

Init ==
    /\ m_group2BlockNumber = None
    /\ m_group2LatestBlockNumberNodes = {} /\ m_group2callbacks = {}
    /\ jobs = {} /\ messages = {} /\ removals = 0
    /\ chain = [n \in Nodes |-> 0]
    /\ reported = [n \in Nodes |-> None]
    /\ delivered = [c \in Callbacks |-> <<>>]

-----------------------------------------------------------------------------
\* Mutation: an equal number counts as new.
IsNewOrEqual(b) == b >= m_group2BlockNumber

\* updateGroupBlockNumber: a number is new if none is known or it is larger.
IsNew(b) == b > m_group2BlockNumber

\* Mutation: any number replaces the one that is known.
UpdateToLast(b) == m_group2BlockNumber' = b

\* updateGroupBlockNumber: the number that is kept.
UpdateGroupBlockNumber(b) ==
    m_group2BlockNumber' = IF IsNew(b) THEN b ELSE m_group2BlockNumber

\* onRecvBlockNotifier, first section.  A number that is neither new nor the
\* highest ends the handler.
OnRecvBlockNotifier(m) ==
    /\ m \in messages /\ Cardinality(jobs) < Workers
    /\ messages' = messages \ {m}
    /\ UpdateGroupBlockNumber(m.number)
    /\ reported' = [reported EXCEPT ![m.node] = IF m.number > @ THEN m.number ELSE @]
    /\ jobs' = IF m.number < m_group2BlockNumber THEN jobs
               ELSE jobs \cup {[node |-> m.node, number |-> m.number, pc |-> "nodes",
                                isNew |-> IsNew(m.number), isHighest |-> TRUE]}
    /\ UNCHANGED <<m_group2LatestBlockNumberNodes, m_group2callbacks, chain,
                   removals, delivered>>

\* Mutation: the node is inserted first and the set cleared after it.
InsertThenClear(j) ==
    m_group2LatestBlockNumberNodes' =
        IF j.isNew THEN {} ELSE m_group2LatestBlockNumberNodes \cup {j.node}

\* Cleared for a new number, then the node is inserted.
ClearThenInsert(j) ==
    m_group2LatestBlockNumberNodes' =
        (IF j.isNew THEN {} ELSE m_group2LatestBlockNumberNodes) \cup
        (IF j.isHighest THEN {j.node} ELSE {})

\* onRecvBlockNotifier, second section: the nodes of the highest number.
UpdateNodes(j) ==
    /\ j \in jobs /\ j.pc = "nodes"
    /\ ClearThenInsert(j)
    /\ jobs' = (jobs \ {j}) \cup
               (IF j.isNew THEN {[j EXCEPT !.pc = "notify"]} ELSE {})
    /\ UNCHANGED <<m_group2BlockNumber, m_group2callbacks, chain, messages,
                   removals, reported, delivered>>

\* onRecvBlockNotifier, last section: every callback, for a new number only.
CallCallbacks(j) ==
    /\ j \in jobs /\ j.pc = "notify"
    /\ delivered' = [c \in Callbacks |->
          IF c \in m_group2callbacks THEN Append(delivered[c], j.number)
          ELSE delivered[c]]
    /\ jobs' = jobs \ {j}
    /\ UNCHANGED <<maps, chain, messages, removals, reported>>

-----------------------------------------------------------------------------
\* A handshake with a node: the block number its answer carries, which may
\* be behind the node's chain by the time it is handled.
HandshakeBlockNumber(n, b) ==
    /\ n \in HandshakeNodes /\ b <= chain[n]
    /\ UpdateGroupBlockNumber(b)
    /\ UNCHANGED <<m_group2LatestBlockNumberNodes, m_group2callbacks, jobs, chain,
                   messages, removals, reported, delivered>>

RegisterBlockNumberNotifier(c) ==
    /\ m_group2callbacks' = m_group2callbacks \cup {c}
    /\ UNCHANGED <<m_group2BlockNumber, m_group2LatestBlockNumberNodes, jobs, chain,
                   messages, removals, reported, delivered>>

RemoveBlockNumberInfo ==
    /\ removals < MaxRemovals
    /\ removals' = removals + 1
    /\ m_group2BlockNumber' = None
    /\ m_group2LatestBlockNumberNodes' = {} /\ m_group2callbacks' = {}
    /\ reported' = [n \in Nodes |-> None]
    /\ UNCHANGED <<jobs, chain, messages, delivered>>

\* External: a node reports its height, again or after a new block; a node
\* reached over two connections reports twice.
NodeNotifies(n, b) ==
    /\ b \in {chain[n], chain[n] + 1} /\ b <= MaxBlock
    /\ chain' = [chain EXCEPT ![n] = b]
    /\ messages' = messages \cup {[node |-> n, number |-> b]}
    /\ UNCHANGED <<maps, jobs, removals, reported, delivered>>

Next ==
    \/ \E m \in messages : OnRecvBlockNotifier(m)
    \/ \E j \in jobs : UpdateNodes(j) \/ CallCallbacks(j)
    \/ \E n \in Nodes, b \in 0 .. MaxBlock :
          HandshakeBlockNumber(n, b) \/ NodeNotifies(n, b)
    \/ \E c \in Callbacks : RegisterBlockNumberNotifier(c)
    \/ RemoveBlockNumberInfo

Spec == Init /\ [][Next]_vars

-----------------------------------------------------------------------------
(* Properties.                                                             *)

\* Every variable has its type, and no number passes the chain's.
TypeOK ==
    /\ m_group2BlockNumber \in (0 .. MaxBlock) \cup {None}
    /\ m_group2LatestBlockNumberNodes \subseteq Nodes
    /\ m_group2callbacks \subseteq Callbacks
    /\ jobs \subseteq Job
    /\ chain \in [Nodes -> 0 .. MaxBlock]
    /\ messages \subseteq [node : Nodes, number : 0 .. MaxBlock]
    /\ removals \in Nat
    /\ reported \in [Nodes -> Nat \cup {None}]
    /\ delivered \in [Callbacks -> Seq(Nat)]

\* Whatever order notifications and handshakes are handled in, the block
\* limit that transactions are built with never moves back.
BlockLimitNeverFalls ==
    [][HasBlockNumber /\ removals' = removals => GetBlockLimit' >= GetBlockLimit]_vars

Number ==
    INSTANCE BlockNumber WITH
        Numbers <- 0 .. MaxBlock, Unknown <- None,
        number <- m_group2BlockNumber, forgotten <- removals

\* Notifications, handshakes and removals in any order are steps of the
\* abstract block number: it grows until it is forgotten.
IsBlockNumber == Number!Spec

\* A callback is told of a block at most once, although every node reports
\* it and several handlers run at the same time.
NotifiedOnce ==
    removals = 0 =>
        \A c \in Callbacks : \A i, k \in 1 .. Len(delivered[c]) :
            delivered[c][i] = delivered[c][k] => i = k

\* While no handler is running, a group whose highest number some node has
\* reported has a node to send requests to.
SomeHighestNode ==
    jobs = {} /\ HasBlockNumber /\ (\E n \in Nodes : reported[n] = m_group2BlockNumber)
    => m_group2LatestBlockNumberNodes # {}

\* config: "send rpc request to the highest block number node".  When every
\* notification is handled, the nodes kept are those that reported the number.
LatestNodesAreHighest ==
    jobs = {} /\ messages = {} /\ removals = 0 =>
        m_group2LatestBlockNumberNodes =
            {n \in Nodes : HasBlockNumber /\ reported[n] = m_group2BlockNumber}
=============================================================================

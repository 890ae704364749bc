------------------------------- MODULE MCAmop -------------------------------
(* A small instance of Amop for TLC, in two parts: "threads", in which     *)
(* calls overlap, and "serial", in which a call begins when the one before *)
(* has returned, and there is one more of them.                            *)
EXTENDS Amop, TLC

CONSTANT OverlappingCalls    \* bound: calls of the part "threads"

VARIABLE part

\* Threads, topics and sessions are interchangeable.
mcSymmetry ==
    Permutations(Threads) \cup Permutations(Topics) \cup Permutations(Sessions)

mcInit == Init /\ part \in {"threads", "serial"}

mcNext ==
    /\ UNCHANGED part
    /\ Next
    /\ part = "threads" => calls' <= OverlappingCalls
    /\ part = "serial" => OneCall'

mcSpec == mcInit /\ [][mcNext]_<<vars, part>>

\* "update topics to server": of calls that do not overlap, when every one has
\* returned, what a node was told last is the set of topics, and a topic that is
\* only subscribed to with a callback is announced after the callback is kept:
\* no message of it finds no callback (NodesAgree and NothingLost of Amop).
SerialTopicsExact == part = "serial" => NodesAgree /\ NothingLost
=============================================================================

------------------------------ MODULE MCService ------------------------------
(* A small instance of Service for TLC, in two parts.  "pool": two threads *)
(* handle the messages of two successive connections to one endpoint, with *)
(* a restart.  "single": one handler runs at a time, and there is a        *)
(* connection to another endpoint, which knows of a second node.           *)
EXTENDS Service, TLC

CONSTANTS s1, s2, s3, n1

VARIABLE part

\* Two successive connections to one endpoint, and one to another endpoint.
mcEndPointOf == [s \in Sessions |-> IF s = s3 THEN "e2" ELSE "e1"]

\* Threads are interchangeable.
mcSymmetry == Permutations(Threads)

mcInit == Init /\ part \in {"pool", "single"}

OneEndPoint == \A s \in Sessions : EndPointOf[s] = "e2" => conn[s] = "new"

\* The first endpoint has only the first node in its groups.
OneNode ==
    \A i \in DOMAIN queue :
        EndPointOf[queue[i].session] = "e1" => \A info \in queue[i].todo : info.nodes \subseteq {n1}

mcNext ==
    /\ UNCHANGED part
    /\ Next /\ OneNode'
    /\ part = "pool" => OneEndPoint'
    /\ part = "single" => OneHandler' /\ starts' <= 1

mcSpec == mcInit /\ [][mcNext]_<<vars, part>>

\* Two threads, without the bounds of the parts.
poolSpec == Init /\ part = "pool" /\ [][Next /\ UNCHANGED part]_<<vars, part>>

\* "all connections available for the group": with one handler at a time, when
\* none is pending, a message for a group is routed to connected endpoints only,
\* and the group info that is shown to the user names exactly the nodes that
\* messages can be routed to (RoutesAreLive and MapsAgree of module Service).
OneHandlerMapsExact == part = "single" => RoutesAreLive /\ MapsAgree
=============================================================================

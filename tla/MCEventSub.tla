----------------------------- MODULE MCEventSub -----------------------------
(* Small instances of EventSub for TLC.                                    *)
EXTENDS EventSub

CONSTANTS s1, s2, s3

\* Two successive connections to one endpoint, and one to another endpoint.
mcEndPointOf == [s \in Sessions |-> IF s = s3 THEN "e2" ELSE "e1"]

\* "latest" as the first block, "no end" as the last: the defaults.
Latest == -1

\* The client that has been started and is not stopped.
InitStarted ==
    /\ m_running = TRUE /\ starting = FALSE /\ m_timer = "armed"
    /\ InitTasks

SpecStarted == InitStarted /\ [][Work]_vars

FairSpec == Spec /\ Fairness
=============================================================================

---------------------------- MODULE Subscription ----------------------------
(***************************************************************************)
(* What EventSub promises of a subscription, without messages, sessions    *)
(* and threads: it becomes active by the answer to one request, is asked   *)
(* for again only after it was lost, by one request at a time, and never   *)
(* comes back once it is removed and no request of it is open.             *)
(***************************************************************************)

CONSTANT Subscriptions

VARIABLES
    known,      \* subscriptions handed out to the user
    open,       \* those with a request that may still be answered
    active,     \* those whose events reach the user
    lost        \* those that wait for being asked for again

Init == known = {} /\ open = {} /\ active = {} /\ lost = {}

\* A new subscription; its request may fail at once.
Create(x) ==
    /\ x \notin known
    /\ known' = known \cup {x}
    /\ open' = open \/ open' = open \cup {x}
    /\ UNCHANGED <<active, lost>>

\* Lost subscriptions are asked for again.
AskAgain(xs) ==
    /\ xs \subseteq lost \ open
    /\ open' = open \cup xs
    /\ UNCHANGED <<known, active, lost>>

Accept(x) ==
    /\ x \in open
    /\ open' = open \ {x}
    /\ active' = active \cup {x} /\ lost' = lost \ {x}
    /\ UNCHANGED known

Refuse(x) ==
    /\ x \in open
    /\ open' = open \ {x}
    /\ UNCHANGED <<known, active, lost>>

\* A connection is lost, with the subscriptions on it.
Lose(xs) ==
    /\ xs \subseteq active
    /\ active' = active \ xs /\ lost' = lost \cup xs
    /\ UNCHANGED <<known, open>>

Remove(x) ==
    /\ active' = active \ {x} /\ lost' = lost \ {x}
    /\ UNCHANGED <<known, open>>

Next ==
    \/ \E x \in Subscriptions : Create(x) \/ Accept(x) \/ Refuse(x) \/ Remove(x)
    \/ \E xs \in SUBSET Subscriptions : AskAgain(xs) \/ Lose(xs)

Spec == Init /\ [][Next]_<<known, open, active, lost>>
=============================================================================

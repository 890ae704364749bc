----------------------------- MODULE BlockNumber -----------------------------
(***************************************************************************)
(* What Service promises of the block number of a group, and all that the  *)
(* building of transactions needs to know of it: it only grows, until      *)
(* removeBlockNumberInfo forgets it.                                       *)
(***************************************************************************)
EXTENDS Integers

CONSTANTS
    Numbers,   \* the block numbers of the chain
    Unknown    \* no number, lower than all of them

VARIABLES
    number,    \* the number that is known, or Unknown
    forgotten  \* how often it was forgotten

Init == number = Unknown /\ forgotten = 0

\* A higher number becomes known.
Learn(b) ==
    /\ b > number
    /\ number' = b
    /\ UNCHANGED forgotten

Forget ==
    /\ number' = Unknown
    /\ forgotten' = forgotten + 1

Next == Forget \/ \E b \in Numbers : Learn(b)

Spec == Init /\ [][Next]_<<number, forgotten>>
=============================================================================

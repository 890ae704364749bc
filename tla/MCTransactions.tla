--------------------------- MODULE MCTransactions ---------------------------
(* A small instance of Transactions for TLC.  Building a transaction looks *)
(* at nothing of the notifier but the block number and how often it was    *)
(* forgotten, so the run is of two parts: the notifier alone, with all its *)
(* handlers, and signing beside the steps that change the number, once the *)
(* chain has all its blocks and the service is made; the number is         *)
(* forgotten, if at all, between the first call and the second.            *)
EXTENDS Transactions, TLC

CONSTANTS n1, n2, hsm1, hsm2, ecdsa

VARIABLE part    \* "notifier" or "signing"

\* Two hardware keys with different libraries, and one key without hardware.
mcTypeOfKey == [k \in KeyPairs |-> IF k = ecdsa THEN "Secp256K1" ELSE "HsmSM2"]
mcLibOfKey == [k \in KeyPairs |-> IF k = hsm1 THEN "lib1" ELSE "lib2"]

mcInit == TxInit /\ part \in {"notifier", "signing"}

NumberStep ==
    \/ chain[n1] < MaxBlock /\ NodeNotifies(n1, chain[n1] + 1)
    \/ \E b \in 0 .. MaxBlock : HandshakeBlockNumber(n1, b)
    \/ txs = 1 /\ RemoveBlockNumberInfo

mcNext ==
    /\ UNCHANGED part
    /\ \/ part = "notifier" /\ Next /\ UNCHANGED signing
       \/ part = "signing" /\ NumberStep /\ UNCHANGED signing
       \/ part = "signing" /\ txs = 0 /\ \E passed \in BOOLEAN : NewTransactionBuilderService(passed)
       \/ part = "signing" /\ chain[n1] = MaxBlock /\ \E t \in Signers : UserStep(t)
       \/ part = "signing" /\ \E t \in Signers : SignStep(t)

mcSpec == mcInit /\ [][mcNext]_<<allVars, part>> /\ TxFairness
=============================================================================

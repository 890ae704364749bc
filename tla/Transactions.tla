---------------------------- MODULE Transactions ----------------------------
(***************************************************************************)
(* Building and signing transactions (bcos-cpp-sdk/utilities/tx and        *)
(* rpc/JsonRpcServiceImpl), while block notifications move the block       *)
(* number that the block limit is taken from (module BlockNotifier).       *)
(*                                                                         *)
(* Threads of the user call TransactionBuilderService or                   *)
(* JsonRpcServiceImpl::sendTransaction; each of the two has a              *)
(* TransactionBuilder, whose suite for hardware keys is made by the first  *)
(* call that needs it, under a lock, after a look without the lock.        *)
(***************************************************************************)
EXTENDS BlockNotifier

CONSTANTS
    Signers,      \* threads that build transactions
    KeyPairs,     \* the key pairs of the user
    TypeOfKey,    \* [KeyPairs -> {"Secp256K1", "SM2", "HsmSM2"}]
    LibOfKey,     \* [KeyPairs -> hsmLibPath]
    SmCryptoType, \* groupInfo->smCryptoType()
    MaxTxs,       \* bound: calls that build a transaction
    NULL          \* the null pointer

ASSUME TypeOfKeyType == TypeOfKey \in [KeyPairs -> {"Secp256K1", "SM2", "HsmSM2"}]
ASSUME LibOfKeyType == LibOfKey \in [KeyPairs -> {LibOfKey[k] : k \in KeyPairs}]
ASSUME NullIsNothing ==
    /\ NULL \notin Signers \cup {"sm", "ecdsa"}
    /\ \A k \in KeyPairs : LibOfKey[k] \notin {NULL, "ecdsa"}
ASSUME MaxTxsNatural == MaxTxs \in Nat /\ SmCryptoType \in BOOLEAN

VARIABLES
    m_transactionBuilder,  \* of the TransactionBuilderService: "none" before it is made
    m_hsmCryptoSuite,      \* of each builder: NULL, or the library it was made with
    x_hsmCryptoSuite,      \* of each builder: the thread that holds the lock, or NULL
    call,                  \* what each thread executes
    txs,                   \* calls so far
    signed                 \* history: the transaction signed last, as a set of at most one

signing == <<m_transactionBuilder, m_hsmCryptoSuite, x_hsmCryptoSuite, call, txs, signed>>
allVars == <<vars, signing>>

-----------------------------------------------------------------------------
Vias == {"service", "rpc"}    \* the two that own a builder

\* seen and removed: the block number and the removals when the call began.
NoCall ==
    [via |-> "service", key |-> NULL, pc |-> "idle", limit |-> 0, seen |-> None, removed |-> 0]

Goto(t, pc) == call' = [call EXCEPT ![t] = IF pc = "idle" THEN NoCall ELSE [@ EXCEPT !.pc = pc]]

TxInit ==
    /\ Init
    /\ m_transactionBuilder = "none"
    /\ m_hsmCryptoSuite = [v \in Vias |-> NULL] /\ x_hsmCryptoSuite = [v \in Vias |-> NULL]
    /\ call = [t \in Signers |-> NoCall] /\ txs = 0 /\ signed = {}

-----------------------------------------------------------------------------
\* The constructor of TransactionBuilderService for a group that exists: the
\* default builder if one is passed, and the null pointer if none is.
NewTransactionBuilderService(passed) ==
    /\ m_transactionBuilder = "none"
    /\ m_transactionBuilder' = IF passed THEN "default" ELSE "null"
    /\ UNCHANGED <<vars, m_hsmCryptoSuite, x_hsmCryptoSuite, call, txs, signed>>

\* createSignedTransaction or sendTransaction is called.
Call(t, via, k) ==
    /\ call[t].pc = "idle" /\ txs < MaxTxs
    /\ via = "service" => m_transactionBuilder # "none"
    /\ txs' = txs + 1
    /\ call' = [call EXCEPT ![t] =
                    [via |-> via, key |-> k, pc |-> "limit", limit |-> 0,
                     seen |-> m_group2BlockNumber, removed |-> removals]]
    /\ UNCHANGED <<vars, m_transactionBuilder, m_hsmCryptoSuite, x_hsmCryptoSuite, signed>>

Sm(k) == TypeOfKey[k] \in {"SM2", "HsmSM2"}

\* What getBlockLimit leaves in a limit that was 0.
LimitOrZero == IF HasBlockNumber THEN GetBlockLimit ELSE 0

\* The call goes on with the limit; a builder that is null ends the program.
TakesLimit(t) ==
    call' = [call EXCEPT ![t].limit = LimitOrZero,
                         ![t].pc = IF call[t].via = "service" /\ m_transactionBuilder = "null"
                                   THEN "crashed" ELSE "suite"]

\* Mutation: the key for a group with sm is not checked.
KeyFitsOtherGroup(k) == Sm(k) => SmCryptoType

\* The check of the key pair's type.
KeyFits(k) == SmCryptoType <=> Sm(k)

\* Mutation: the result of getBlockLimit is ignored.
ServiceIgnoresResult(t) ==
    /\ call[t].pc = "limit" /\ call[t].via = "service"
    /\ IF ~KeyFits(call[t].key) THEN Goto(t, "idle") ELSE TakesLimit(t)
    /\ UNCHANGED <<vars, m_transactionBuilder, m_hsmCryptoSuite, x_hsmCryptoSuite, txs, signed>>

\* TransactionBuilderService::createSignedTransaction: it throws without a block
\* number or with a key of the wrong type.
ServiceGetsLimit(t) ==
    /\ call[t].pc = "limit" /\ call[t].via = "service"
    /\ IF ~HasBlockNumber \/ ~KeyFits(call[t].key) THEN Goto(t, "idle") ELSE TakesLimit(t)
    /\ UNCHANGED <<vars, m_transactionBuilder, m_hsmCryptoSuite, x_hsmCryptoSuite, txs, signed>>

\* sendTransaction: the result of getBlockLimit is not asked for, nor the type
\* of the key.
RpcGetsLimit(t) ==
    /\ call[t].pc = "limit" /\ call[t].via = "rpc"
    /\ TakesLimit(t)
    /\ UNCHANGED <<vars, m_transactionBuilder, m_hsmCryptoSuite, x_hsmCryptoSuite, txs, signed>>

-----------------------------------------------------------------------------
(* signTransactionDataHash.                                                *)

\* The first look at m_hsmCryptoSuite, without the lock.
LooksForSuite(t) ==
    /\ call[t].pc = "suite"
    /\ Goto(t, IF TypeOfKey[call[t].key] = "HsmSM2" /\ m_hsmCryptoSuite[call[t].via] = NULL
               THEN "lock" ELSE "sign")
    /\ UNCHANGED <<vars, m_transactionBuilder, m_hsmCryptoSuite, x_hsmCryptoSuite, txs, signed>>

\* Mutation: the second look is left out.
LocksAndMakes(t) ==
    /\ call[t].pc = "lock" /\ x_hsmCryptoSuite[call[t].via] = NULL
    /\ x_hsmCryptoSuite' = [x_hsmCryptoSuite EXCEPT ![call[t].via] = t]
    /\ Goto(t, "make")
    /\ UNCHANGED <<vars, m_transactionBuilder, m_hsmCryptoSuite, txs, signed>>

\* lock_guard, and the second look.
LocksSuite(t) ==
    /\ call[t].pc = "lock" /\ x_hsmCryptoSuite[call[t].via] = NULL
    /\ x_hsmCryptoSuite' = [x_hsmCryptoSuite EXCEPT ![call[t].via] = t]
    /\ Goto(t, IF m_hsmCryptoSuite[call[t].via] = NULL THEN "make" ELSE "unlock")
    /\ UNCHANGED <<vars, m_transactionBuilder, m_hsmCryptoSuite, txs, signed>>

\* make_unique with the library of the key pair.
MakesSuite(t) ==
    /\ call[t].pc = "make"
    /\ m_hsmCryptoSuite' = [m_hsmCryptoSuite EXCEPT ![call[t].via] = LibOfKey[call[t].key]]
    /\ Goto(t, "unlock")
    /\ UNCHANGED <<vars, m_transactionBuilder, x_hsmCryptoSuite, txs, signed>>

\* Mutation: an exception leaves the lock taken.
ThrowsLocked(t) ==
    /\ call[t].pc = "make"
    /\ Goto(t, "idle")
    /\ UNCHANGED <<vars, m_transactionBuilder, m_hsmCryptoSuite, x_hsmCryptoSuite, txs, signed>>

\* The library cannot be loaded: the exception leaves the lock_guard.
MakeThrows(t) ==
    /\ call[t].pc = "make"
    /\ x_hsmCryptoSuite' = [x_hsmCryptoSuite EXCEPT ![call[t].via] = NULL]
    /\ Goto(t, "idle")
    /\ UNCHANGED <<vars, m_transactionBuilder, m_hsmCryptoSuite, txs, signed>>

UnlocksSuite(t) ==
    /\ call[t].pc = "unlock"
    /\ x_hsmCryptoSuite' = [x_hsmCryptoSuite EXCEPT ![call[t].via] = NULL]
    /\ Goto(t, "sign")
    /\ UNCHANGED <<vars, m_transactionBuilder, m_hsmCryptoSuite, txs, signed>>

\* The suite a key pair is signed with.
SuiteOf(via, k) ==
    CASE TypeOfKey[k] = "SM2" -> "sm"
      [] TypeOfKey[k] = "HsmSM2" -> m_hsmCryptoSuite[via]
      [] OTHER -> "ecdsa"

\* sign, createTransaction and encodeTransaction; sendTransaction then hands the
\* transaction to JsonRpcImpl.
Signs(t) ==
    /\ call[t].pc = "sign"
    /\ signed' = {[via |-> call[t].via, key |-> call[t].key, limit |-> call[t].limit,
                    seen |-> call[t].seen, removed |-> call[t].removed,
                    suite |-> SuiteOf(call[t].via, call[t].key)]}
    /\ Goto(t, "idle")
    /\ UNCHANGED <<vars, m_transactionBuilder, m_hsmCryptoSuite, x_hsmCryptoSuite, txs>>

-----------------------------------------------------------------------------
SignStep(t) ==
    \/ ServiceGetsLimit(t) \/ RpcGetsLimit(t)
    \/ LooksForSuite(t) \/ LocksSuite(t) \/ MakesSuite(t) \/ MakeThrows(t) \/ UnlocksSuite(t)
    \/ Signs(t)

UserStep(t) == \E via \in Vias, k \in KeyPairs : Call(t, via, k)

TxNext ==
    \/ Next /\ UNCHANGED signing
    \/ \E passed \in BOOLEAN : NewTransactionBuilderService(passed)
    \/ \E t \in Signers : UserStep(t) \/ SignStep(t)

TxSpec == TxInit /\ [][TxNext]_allVars

\* A thread that is inside a call goes on, and one that waits for the lock gets
\* it at last.
TxFairness == \A t \in Signers : WF_allVars(SignStep(t)) /\ SF_allVars(LocksSuite(t))

FairTxSpec == TxSpec /\ TxFairness

-----------------------------------------------------------------------------
(* Properties.                                                             *)

\* Every variable has its type; the lock is held by a thread inside the
\* section.
TxTypeOK ==
    /\ m_transactionBuilder \in {"none", "default", "null"}
    /\ \A v \in Vias :
          /\ m_hsmCryptoSuite[v] \in {LibOfKey[k] : k \in KeyPairs} \cup {NULL}
          /\ x_hsmCryptoSuite[v] # NULL =>
                LET t == x_hsmCryptoSuite[v]
                IN  call[t].pc \in {"make", "unlock"} /\ call[t].via = v
    /\ txs \in 0 .. MaxTxs

\* However calls overlap, the suite for hardware keys is made once: no thread
\* replaces the one that another thread signs with (x_hsmCryptoSuite).
SuiteMadeOnce ==
    [][\A v \in Vias : m_hsmCryptoSuite[v] # NULL => m_hsmCryptoSuite'[v] = m_hsmCryptoSuite[v]]_allVars

\* A transaction has a block limit that is not older than the call that built
\* it, although notifications arrive meanwhile; it has none only when
\* sendTransaction was called without a known block number.
LimitIsFresh ==
    \A x \in signed :
        \/ x.limit = 0 /\ x.via = "rpc" /\ (x.seen = None \/ removals > x.removed)
        \/ /\ x.limit - BLOCK_LIMIT_RANGE \in 0 .. MaxBlock
           /\ removals = x.removed =>
                 x.limit - BLOCK_LIMIT_RANGE \in x.seen .. m_group2BlockNumber

\* What TransactionBuilderService signs is signed with a suite of the group's
\* crypto type, and never without a suite.
SignedForGroup ==
    \A x \in signed :
        /\ x.suite # NULL
        /\ x.via = "service" => (SmCryptoType <=> x.suite # "ecdsa")

\* Every call ends, the ones that wait for the lock of the suite included, also
\* when making the suite throws.
CallsEnd == \A t \in Signers : call[t].pc = "limit" ~> call[t].pc \in {"idle", "crashed"}

\* "default builder": a service that is made without a builder can be used.
BuilderIsNeverNull == \A t \in Signers : call[t].pc # "crashed"
=============================================================================

------------------------------ MODULE TxFormat ------------------------------
(***************************************************************************)
(* The structs of utilities/tx/Transaction.h and                           *)
(* utilities/receipt/TransactionReceipt.h: the members with their tags,    *)
(* which of them writeTo leaves out when they have the default value,      *)
(* which readFrom and readFromJson require, and what is hashed.            *)
(***************************************************************************)
EXTENDS TarsJson

StringType == [k |-> "String", default |-> <<>>]
BytesType == [k |-> "Bytes", default |-> <<>>]
HexType == [k |-> "Hex", default |-> <<>>]
NumberType(k) == [k |-> k, default |-> 0]
VectorOf(t) == [k |-> "Vector", of |-> t, default |-> <<>>]
TopicsType == [k |-> "Topics", default |-> <<>>]

\* A member whose value is always written and required.
Always(tag, name, type) ==
    [tag |-> tag, name |-> name, type |-> type, always |-> TRUE, require |-> TRUE,
     jsonRequire |-> TRUE]

\* A member that is written unless it has its default value.
Unless(tag, name, type) ==
    [tag |-> tag, name |-> name, type |-> type, always |-> FALSE, require |-> FALSE,
     jsonRequire |-> FALSE]

\* The member is hexadecimal digits in JSON.
AsHex(m) == m @@ [json |-> HexType]

InJson(m) == [m EXCEPT !.jsonRequire = TRUE]

\* A struct; resetDefault gives every member its default.
StructOf(name, members) ==
    [k |-> "Struct", name |-> name, members |-> members,
     default |-> [i \in DOMAIN members |-> members[i].type.default]]

-----------------------------------------------------------------------------

TransactionData ==
    StructOf("TransactionData",
             <<Always(1, "version", NumberType("Int32")),
               Always(2, "chainID", StringType),
               Always(3, "groupID", StringType),
               Always(4, "blockLimit", NumberType("Int64")),
               Always(5, "nonce", StringType),
               Unless(6, "to", StringType),
               AsHex(Always(7, "input", BytesType)),
               Unless(8, "abi", StringType)>>)

\* The data is always written and never required.
Transaction ==
    StructOf("Transaction",
             <<[Unless(1, "data", TransactionData) EXCEPT !.always = TRUE],
               Unless(2, "dataHash", BytesType),
               Unless(3, "signature", BytesType),
               Unless(4, "importTime", NumberType("Int64")),
               Unless(5, "attribute", NumberType("Int32")),
               Unless(7, "sender", BytesType),
               Unless(8, "extraData", StringType)>>)

LogEntry ==
    StructOf("LogEntry",
             <<InJson(Unless(1, "address", StringType)),
               Unless(2, "topics", VectorOf(BytesType))
                   @@ [json |-> TopicsType],
               AsHex(InJson(Unless(3, "data", BytesType)))>>)

TransactionReceiptData ==
    StructOf("TransactionReceiptData",
             <<Always(1, "version", NumberType("Int32")),
               InJson(Unless(2, "gasUsed", StringType)),
               InJson(Unless(3, "contractAddress", StringType)),
               InJson(Unless(4, "status", NumberType("Int32"))),
               AsHex(InJson(Unless(5, "output", BytesType))),
               Unless(6, "logEntries", VectorOf(LogEntry)),
               InJson(Unless(7, "blockNumber", NumberType("Int64")))>>)

TransactionReceipt ==
    StructOf("TransactionReceipt",
             <<[Unless(1, "data", TransactionReceiptData) EXCEPT !.always = TRUE],
               Unless(2, "dataHash", BytesType),
               Unless(3, "message", StringType)>>)

-----------------------------------------------------------------------------
(* hash(): what the hasher is given; two values with the same input have   *)
(* the same hash, and others are taken to have different ones.             *)

TransactionHash(v) ==
    BigEndian(v[1], 4) \o v[2] \o v[3] \o BigEndian(v[4], 8) \o v[5] \o v[6] \o v[7] \o v[8]

LogHash(log) == log[1] \o FlattenSeq(log[2]) \o log[3]

ReceiptHash(v) ==
    BigEndian(v[1], 4) \o v[2] \o v[3] \o BigEndian(v[4], 4) \o v[5]
    \o FlattenSeq([i \in DOMAIN v[6] |-> LogHash(v[6][i])]) \o BigEndian(v[7], 8)
=============================================================================

-------------------------------- MODULE Wire --------------------------------
(***************************************************************************)
(* A value on its way, in any of the formats: messages and SCALE, as       *)
(* MessageWire and ScaleWire describe them, Tars, the JSON form of         *)
(* transactions, and JSON text.  The transport may cut a value, the writer *)
(* may know more members than the reader, and a JSON document may lack a   *)
(* member or hold one of another type.                                     *)
(***************************************************************************)
EXTENDS ScaleWire, TxFormat

CONSTANT
    Extras      \* members only a newer writer knows, a sequence of [tag, type, value]

-----------------------------------------------------------------------------

EncodeValue(s) ==
    CASE s.format = "tars" -> TarsEncode(s.type, s.value)
      [] s.format = "json" -> WriteJson(s.type, s.value)
      [] s.format = "text" -> writeValue(s.value)

DecodeValue(s, d) ==
    CASE s.format = "tars" -> TarsDecode(s.type, d)
      [] s.format = "json" -> MembersFromJson(s.type, d)
      [] s.format = "text" -> FromText(d)

\* The struct and the value of a newer writer: one more member in its place.
Newer(t, extra) ==
    StructOf(t.name,
             SelectSeq(t.members, LAMBDA m : m.tag < extra.tag)
             \o <<Always(extra.tag, "extra", extra.type)>>
             \o SelectSeq(t.members, LAMBDA m : m.tag > extra.tag))

NewerValue(t, v, extra) ==
    LET n == Len(SelectSeq(t.members, LAMBDA m : m.tag < extra.tag))
    IN  InsertAt(v, n + 1, extra.value)

-----------------------------------------------------------------------------

OtherFormats == {"tars", "json", "text"}

Encode ==
    /\ data = NIL
    /\ sent.format \in OtherFormats
    /\ data' = EncodeValue(sent)
    /\ UNCHANGED <<sent, fault, object, outcome>>

EncodeNewer(extra) ==
    /\ data = NIL
    /\ sent.format = "tars"
    /\ \A i \in DOMAIN sent.type.members : sent.type.members[i].tag # extra.tag
    /\ data' = TarsEncode(Newer(sent.type, extra), NewerValue(sent.type, sent.value, extra))
    /\ fault' = <<"newer", extra.tag>>
    /\ UNCHANGED <<sent, object, outcome>>

Decode ==
    /\ Delivered
    /\ sent.format \in OtherFormats
    /\ Receive(DecodeValue(sent, data))

Next ==
    \/ MessageNext
    \/ ScaleNext
    \/ Encode
    \/ \E i \in DOMAIN Extras : EncodeNewer(Extras[i])
    \/ /\ Delivered /\ sent.format \in {"tars", "text"}
       /\ \E n \in 0..(Len(data) - 1) : Cut(n)
    \/ /\ Delivered /\ sent.format = "json"
       /\ \E name \in DOMAIN data.v : Damage(name)
    \/ Decode

Spec == Init /\ [][Next]_vars

-----------------------------------------------------------------------------

Format(f) == sent.format = f

\* A struct is read as it was written, members that are left out because they
\* have their default value included; a member that only a newer writer knows
\* is skipped, whatever its type and wherever it stands (Tars.h, Transaction.h,
\* TransactionReceipt.h, TarsInputStream::skipField).
TarsRoundTrip ==
    Format("tars") /\ outcome # "waiting" /\ fault[1] \in {"none", "newer"} =>
        outcome = "accepted" /\ object = sent.value

HashOf(t, v) ==
    CASE t.name = "TransactionData" -> TransactionHash(v)
      [] t.name = "Transaction" -> TransactionHash(v[1])
      [] t.name = "TransactionReceiptData" -> ReceiptHash(v)

\* What is read from the JSON form of a transaction or a receipt has the hash of
\* what was written (asserted by TransactionTest.cpp).  A document with a member
\* missing or of another type is refused, or only that member has its default,
\* which a required member never gets (writeToJson, readFromJson,
\* JsonInput::readJson).
JsonKeepsHash ==
    /\ Format("json") /\ Untouched =>
        outcome = "accepted" /\ HashOf(sent.type, object) = HashOf(sent.type, sent.value)
    /\ Format("json") /\ fault[1] \in {"dropped", "retyped"} /\ outcome = "accepted" =>
        LET i == CHOOSE k \in DOMAIN object : sent.type.members[k].name = fault[2]
            whole == MembersFromJson(sent.type, EncodeValue(sent))
        IN  /\ ~sent.type.members[i].jsonRequire
            /\ object = [whole EXCEPT ![i] = sent.type.members[i].type.default]

\* A JSON value is read from its text as it was written (tc_json.cpp).
TextRoundTrip ==
    Format("text") /\ Untouched => outcome = "accepted" /\ object = sent.value

\* Of a struct that was cut its first members are read as they were and the
\* others as defaults: no member is ever half read (TarsSkipToTag).
WholeMembers ==
    \E n \in 0..Len(sent.value) : \A i \in DOMAIN sent.value :
        object[i] = IF i <= n THEN sent.value[i] ELSE sent.type.members[i].type.default

\* The beginning of a value is refused or read as a beginning, never as another
\* value: the JSON reader refuses it (but for the first digits of a number), and
\* the Tars stream gives whole members (getString, TarsReadTypeBuf).
CutNeverMisread ==
    sent.format \in OtherFormats /\ fault[1] = "cut" /\ outcome = "accepted" =>
        CASE Format("tars") -> WholeMembers
          [] Format("text") -> sent.value.j = "num"
=============================================================================

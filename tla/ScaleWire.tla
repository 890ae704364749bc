------------------------------ MODULE ScaleWire ------------------------------
(***************************************************************************)
(* A value that one side writes to a SCALE encoder stream on its way to    *)
(* the decoder stream of the other, to which only the beginning of it may  *)
(* come.  The variables are those of MessageWire.                          *)
(***************************************************************************)
EXTENDS MessageWire, Scale

\* What is sent has a type that both streams have an operator for.
ASSUME ScaleCasesAssumption ==
    \A i \in DOMAIN Cases : Cases[i].format = "scale" =>
        /\ Cases[i].type \in DOMAIN Codec[MaxDepth]
        /\ Cases[i].value \in Codec[MaxDepth][Cases[i].type].val
        /\ ~Fails(Cases[i].value)

EncodeScale ==
    /\ data = NIL /\ fault = <<"none">>
    /\ sent.format = "scale"
    /\ data' = ScaleEncode(sent.type, sent.value)
    /\ UNCHANGED <<sent, fault, object, outcome>>

DecodeScale ==
    /\ Delivered
    /\ sent.format = "scale"
    /\ LET r == ScaleDecode(sent.type, data)
       IN  Receive(IF Fails(r.next) THEN r.next ELSE r.val)

ScaleNext ==
    \/ EncodeScale
    \/ sent.format = "scale" /\ Delivered /\ \E n \in 0..(Len(data) - 1) : Cut(n)
    \/ DecodeScale

ScaleSpec == Init /\ sent.format = "scale" /\ [][ScaleNext]_vars

-----------------------------------------------------------------------------

\* The types made of those of T that are read with hasMore before every byte: u256 and
\* vectors of bytes are not.
CheckedOver(T) ==
    {t \in TypesOver(T) :
        /\ t.t \notin {"u256", "s256"}
        /\ t.t = "map" => t.key.t \notin {"u256", "s256"}
        /\ t.t = "vector" => ~IsByte(t.of)}

CheckedTypes[depth \in 0..MaxDepth] ==
    CheckedOver(IF depth = 0 THEN {} ELSE CheckedTypes[depth - 1])

\* What the encoder stream wrote is bytes, as many as compactLen says (of a
\* number that has no byte for the length of its own), and is what the decoder
\* stream reads, to its end, for every type that both have an operator for
\* (ScaleEncoderStream.h, ScaleDecoderStream.h, Common.h).
ScaleRoundTrip ==
    sent.format = "scale" /\ Untouched =>
        /\ outcome = "accepted" /\ object = sent.value
        /\ ScaleDecode(sent.type, data).next = Len(data)
        /\ \A i \in DOMAIN data : data[i] \in 0..(Bytes(1) - 1)
        /\ sent.type.t = "compact" /\ sent.value < kMinBigInteger =>
                Len(data) = compactLen(sent.value)

\* The beginning of a value is never taken for a value, and is refused with an
\* exception unless there is a u256 or a vector of bytes in its type: these are
\* copied without hasMore (hasMore, nextByte, operator>>).
ScaleCutRefused ==
    sent.format = "scale" /\ fault[1] = "cut" /\ outcome # "waiting" =>
        \/ outcome = "refused"
        \/ outcome = "aborted" /\ sent.type \notin CheckedTypes[MaxDepth]
=============================================================================

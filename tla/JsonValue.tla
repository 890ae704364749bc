----------------------------- MODULE JsonValue -----------------------------
(***************************************************************************)
(* JSON values, those of TC_Json (tars/util/tc_json.h) and of jsoncpp: a   *)
(* record [j |-> type, v |-> value]; the value of an object is a function  *)
(* from its names.                                                         *)
(***************************************************************************)
EXTENDS ByteStream

CONSTANT NIL    \* a JsonValuePtr that is null

Js(type, v) == [j |-> type, v |-> v]
Null == Js("null", <<>>)

\* The member of an object.
Member(p, name) == IF name \in DOMAIN p.v THEN p.v[name] ELSE NIL

\* A record or sequence with all its parts, or the exception that one threw.
AllRead(parts) == \A f \in DOMAIN parts : ~Fails(parts[f])
Whole(parts) == IF AllRead(parts) THEN parts ELSE THROW
=============================================================================

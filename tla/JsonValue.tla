----------------------------- MODULE JsonValue -----------------------------
(***************************************************************************)
(* Decoded JSON, as encoding/json gives it to the router, the templates    *)
(* and the schema validator.  Numbers are counted in halves, which tells   *)
(* whole numbers from others.  An object is a function on its keys.        *)
(***************************************************************************)
EXTENDS Naturals, Sequences, TLC

Null == [is |-> "null"]
Bool(b) == [is |-> "boolean", bool |-> b]
Num(n) == [is |-> "number", halves |-> n]
Str(s) == [is |-> "string", text |-> s]
Arr(q) == [is |-> "array", items |-> q]
Obj(f) == [is |-> "object", fields |-> f]

Whole(n) == n % 2 = 0

\* stringify: a string without its quotes, null as nothing, a whole number
\* without a fraction.  What an object or an array is encoded as equals none of
\* the texts a condition is written with.
Stringify(v) ==
    CASE v.is = "null" -> ""
      [] v.is = "string" -> v.text
      [] v.is = "boolean" -> IF v.bool THEN "true" ELSE "false"
      [] v.is = "number" -> IF Whole(v.halves) THEN ToString(v.halves \div 2)
                            ELSE ToString(v.halves \div 2) \o ".5"
      [] OTHER -> "encoded JSON"
-----------------------------------------------------------------------------
(***************************************************************************)
(* What an agent answers: a document or no JSON, bare or in a code fence.  *)
(***************************************************************************)
Answer(fence, v) == [fence |-> fence, json |-> TRUE, doc |-> v]
Prose == [fence |-> FALSE, json |-> FALSE, doc |-> Null]

\* json.Unmarshal of the trimmed text: no fence is taken off.
Decodes(a) == a.json /\ ~a.fence

\* json.Unmarshal after stripCodeFence.
DecodesStripped(a) == a.json
=============================================================================

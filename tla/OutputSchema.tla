---------------------------- MODULE OutputSchema ----------------------------
(***************************************************************************)
(* The JSON schema validator of internal/schema, and what RunAgent accepts *)
(* from an agent with a schema.                                            *)
(*                                                                         *)
(* A schema is a record of its keywords.  type is the sequence of names    *)
(* (one for a string), properties a function, and every other keyword that *)
(* is not set, or not of the kind the code looks for, is the empty set.  A *)
(* value that is not an object where a schema should be is NotASchema.     *)
(*                                                                         *)
(* The recursion over the nodes goes by levels: encoding/json does not     *)
(* decode a schema that is nested deeper than its limit.  The order of the *)
(* calls decides only which error is reported.                             *)
(***************************************************************************)
EXTENDS JsonValue, FiniteSets, SequencesExt

CONSTANT MaxDepth       \* levels below the root that a schema can have

ASSUME DepthAssumption == MaxDepth \in Nat

NotASchema == [is |-> "other"]

\* No keyword is set.
AnySchema ==
    [is |-> "schema",
     type |-> << >>,
     required |-> {},
     properties |-> [name \in {} |-> NotASchema],
     closed |-> FALSE,      \* additionalProperties is false
     enum |-> {},           \* or a set with the set of values
     items |-> {},          \* or a set with a schema
     min |-> {},            \* pairs of a kind of value and its minimum,
     max |-> {}]            \* minLength or minItems, in halves

knownType == {"object", "array", "string", "number", "integer", "boolean", "null"}
-----------------------------------------------------------------------------
\* Mutant: the element schema of an array is not checked.
ChildrenNoItems(s) == {s.properties[name] : name \in DOMAIN s.properties} \ {NotASchema}

\* The nodes on which checkNode calls itself.
Children(s) == s.items \cup ({s.properties[name] : name \in DOMAIN s.properties} \ {NotASchema})

\* What the call for one node refuses.
CheckOwn(s) ==
    /\ ToSet(s.type) \subseteq knownType
    /\ \A name \in DOMAIN s.properties : s.properties[name] # NotASchema

\* The nodes at level n of schema s.
Nodes(s) ==
    LET at[n \in 0..MaxDepth] ==
            IF n = 0 THEN {s} ELSE UNION {Children(x) : x \in at[n - 1]}
    IN  at

\* checkNode: what Compile refuses.
CheckNode(s) == \A n \in 0..MaxDepth : \A x \in Nodes(s)[n] : CheckOwn(x)
-----------------------------------------------------------------------------
matchesType(name, v) ==
    \/ v.is = name
    \/ name = "integer" /\ v.is = "number" /\ Whole(v.halves)

checkType(s, v) == s.type = << >> \/ \E name \in ToSet(s.type) : matchesType(name, v)

checkEnum(s, v) == \A values \in s.enum : v \in values

\* checkNumber, and the bounds of checkString and checkArray on the length.
Measure(v) ==
    CASE v.is = "number" -> {v.halves}
      [] v.is = "string" -> {2 * Len(v.text)}
      [] v.is = "array" -> {2 * Len(v.items)}
      [] OTHER -> {}
checkBounds(s, v) ==
    \A n \in Measure(v) :
        /\ \A m \in s.min : m[1] = v.is => n >= m[2]
        /\ \A m \in s.max : m[1] = v.is => n <= m[2]

\* Mutant: a property that is declared need not be there.
checkObjectNotRequired(s, v) ==
    v.is = "object" => (s.closed => DOMAIN v.fields \subseteq DOMAIN s.properties)

checkObject(s, v) ==
    v.is = "object" =>
        /\ s.required \subseteq DOMAIN v.fields
        /\ s.closed => DOMAIN v.fields \subseteq DOMAIN s.properties

\* The calls that validate makes for the elements and for the properties; a
\* property that is no schema is passed over.
checkArray(s, v) ==
    IF v.is = "array" THEN {<<child, v.items[k]>> : child \in s.items, k \in 1..Len(v.items)}
    ELSE {}
checkProperties(s, v) ==
    IF v.is = "object"
    THEN {<<s.properties[name], v.fields[name]>> :
            name \in {name \in DOMAIN v.fields \cap DOMAIN s.properties :
                        s.properties[name] # NotASchema}}
    ELSE {}

\* The calls of validate at level n, each a node and the value it is held against.
Calls(s, v) ==
    LET at[n \in 0..MaxDepth] ==
            IF n = 0 THEN {<<s, v>>}
            ELSE UNION {checkArray(x[1], x[2]) \cup checkProperties(x[1], x[2]) : x \in at[n - 1]}
    IN  at

\* What one call looks at before it goes down.
ValidateOwn(s, v) ==
    /\ checkType(s, v)
    /\ checkEnum(s, v)
    /\ checkBounds(s, v)
    /\ checkObject(s, v)

\* validate: there is no error in any of its calls.
Validate(s, v) ==
    \A n \in 0..MaxDepth : \A x \in Calls(s, v)[n] : ValidateOwn(x[1], x[2])
-----------------------------------------------------------------------------
\* validateJSONObject and Validate in RunAgent, both without the code fence.
Accepted(s, a) ==
    /\ DecodesStripped(a)
    /\ a.doc.is = "object"
    /\ Validate(s, a.doc)
=============================================================================

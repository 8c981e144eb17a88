------------------------------ MODULE Routing ------------------------------
(***************************************************************************)
(* Paths into a JSON document and the conditions of a router               *)
(* (internal/pipeline/resolve.go, condition.go, model.Condition).          *)
(*                                                                         *)
(* A segment of a path is a name, a number in digits, or one with a minus  *)
(* sign.  A keyword of a condition that is not set is the empty set, one   *)
(* that is set a set with its operand.                                     *)
(***************************************************************************)
EXTENDS JsonValue, Integers, FiniteSets, SequencesExt

CONSTANT WordSize       \* bits of an int

\* What the provers need to know of powers of two.
ASSUME WordAssumption ==
    /\ WordSize \in Nat \ {0}
    /\ 2^(WordSize - 1) \in Nat \ {0}
    /\ 2^WordSize = 2 * 2^(WordSize - 1)

Name(s) == [is |-> "name", name |-> s]
Digits(n) == [is |-> "digits", num |-> n]
Minus(n) == [is |-> "minus", num |-> n]

Segments == [is : {"name"}, name : STRING] \cup [is : {"digits", "minus"}, num : Nat]

SegText(g) ==
    CASE g.is = "name" -> g.name
      [] g.is = "digits" -> ToString(g.num)
      [] g.is = "minus" -> "-" \o ToString(g.num)

\* The int that wraps around to n.
Wrap(n) ==
    LET m == n % 2^WordSize IN IF m < 2^(WordSize - 1) THEN m ELSE m - 2^WordSize

\* Mutant: the digits are added up.
AtoiSum(g) == IF g.is = "digits" THEN {(g.num % 10) + (g.num \div 10)} ELSE {}

\* atoi of condition.go takes digits only, and does not look for overflow.
Atoi(g) == IF g.is = "digits" THEN {Wrap(g.num)} ELSE {}

\* strconv.Atoi takes a sign and refuses what does not fit.
StrconvAtoi(g) ==
    CASE g.is = "name" -> {}
      [] g.is = "digits" -> {n \in {g.num} : n < 2^(WordSize - 1)}
      [] g.is = "minus" -> {-n : n \in {n \in {g.num} : n <= 2^(WordSize - 1)}}

\* One step down: the values at segment g of v, none or one.
Descend(v, g, indexes) ==
    CASE v.is = "object" -> {v.fields[k] : k \in DOMAIN v.fields \cap {SegText(g)}}
      [] v.is = "array" -> {v.items[n + 1] : n \in indexes \cap (0..(Len(v.items) - 1))}
      [] OTHER -> {}

\* walkPath: the value at a condition's field, if there is one.
WalkPath(v, path) ==
    LET at[n \in 0..Len(path)] ==
            IF n = 0 THEN {v}
            ELSE UNION {Descend(x, path[n], Atoi(path[n])) : x \in at[n - 1]}
    IN  at[Len(path)]

\* lookupPath: the value a reference names in a step's output, if there is one.
LookupPath(a, path) ==
    LET at[n \in 0..Len(path)] ==
            IF n = 0 THEN {a.doc}
            ELSE UNION {Descend(x, path[n], StrconvAtoi(path[n])) : x \in at[n - 1]}
    IN  IF Decodes(a) THEN at[Len(path)] ELSE {}
-----------------------------------------------------------------------------
(***************************************************************************)
(* Conditions.                                                             *)
(***************************************************************************)
\* Operator: the one keyword that is set.
Operators(c) ==
    {op \in {"equals", "not_equals", "in", "matches"} : c[op] # {}}
    \cup (IF c.exists THEN {"exists"} ELSE {})

\* looseEqual: a string operand is compared with the value's text.
LooseEqual(v, operand) ==
    IF operand.is = "string" THEN Stringify(v) = operand.text ELSE v = operand

Truth(b) == IF b THEN "yes" ELSE "no"

\* Mutant: a field that is absent is an error.
EvaluateStrict(c, doc) ==
    IF WalkPath(doc, c.field) = {} THEN "error"
    ELSE Truth(\E v \in WalkPath(doc, c.field) : \E x \in c.equals : LooseEqual(v, x))

\* EvaluateCondition, on a document: "yes", "no" or "error".
EvaluateCondition(c, doc) ==
    LET found == WalkPath(doc, c.field)
        Some(P(_)) == Truth(\E v \in found : P(v))
    IN
    CASE Operators(c) = {"exists"} -> Some(LAMBDA v : Stringify(v) # "")
      [] Operators(c) = {"equals"} ->
            Some(LAMBDA v : \E x \in c.equals : LooseEqual(v, x))
      [] Operators(c) = {"not_equals"} ->
            Some(LAMBDA v : \E x \in c.not_equals : ~LooseEqual(v, x))
      [] Operators(c) = {"in"} -> Some(LAMBDA v : \E x \in c.in : LooseEqual(v, x))
      [] Operators(c) = {"matches"} ->
            IF found # {} /\ \E re \in c.matches : ~re.valid THEN "error"
            ELSE Some(LAMBDA v : \E re \in c.matches : Stringify(v) \in re.texts)
      [] OTHER -> "error"

Failure == [goto |-> "none"]
Goto(s) == [goto |-> s]

\* What the condition of route r says of the router's input.
Met(r, a) ==
    IF Decodes(a) THEN EvaluateCondition(CHOOSE c \in r.when : TRUE, a.doc) ELSE "error"

\* The routes at which the walk ends: the condition holds or cannot be evaluated.
\* Without a condition the input is not decoded.
Stops(routes, a) ==
    {k \in 1..Len(routes) :
        ~routes[k].default /\ routes[k].when # {} /\ Met(routes[k], a) # "no"}

Defaults(routes) == {k \in 1..Len(routes) : routes[k].default}

\* Mutant: the default is taken where it stands.
PickRouteInPlace(routes, a) ==
    LET stops == Stops(routes, a) \cup Defaults(routes)
        first == routes[Min(stops)]
    IN  IF stops # {} /\ (first.default \/ Met(first, a) = "yes")
        THEN Goto(first.goto) ELSE Failure

\* PickRoute: walks the routes in order, remembers the last default, and stops at
\* the first condition that holds or cannot be evaluated.
PickRoute(routes, a) ==
    LET stops == Stops(routes, a)
        first == routes[Min(stops)]
    IN  IF stops # {} THEN IF Met(first, a) = "yes" THEN Goto(first.goto) ELSE Failure
        ELSE IF Defaults(routes) # {} THEN Goto(routes[Max(Defaults(routes))].goto)
        ELSE Failure

\* What validatePipeline asks of a router's routes.
ValidRoutes(routes) ==
    /\ routes # << >>
    /\ \A k \in 1..Len(routes) :
        routes[k].default
            \/ \E c \in routes[k].when : Cardinality(Operators(c)) = 1
    /\ Cardinality(Defaults(routes)) <= 1
=============================================================================

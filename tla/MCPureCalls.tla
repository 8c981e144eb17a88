---------------------------- MODULE MCPureCalls ----------------------------
(* Instances of PureCalls. *)
EXTENDS PureCalls

CONSTANTS a, b, c, ghost        \* step ids

(***************************************************************************)
(* Every pipeline of three steps in which a step needs any set of the      *)
(* others and has one reference or one route more, possibly to itself; and *)
(* steps with an input that does not parse, that name a step which does    *)
(* not exist, or that need themselves.                                     *)
(***************************************************************************)
Needs(S) == SelectSeq(<<Link("need", a), Link("need", b), Link("need", c)>>,
                      LAMBDA l : l.name \in S)

StepsOf(id) ==
    {[id |-> id, links |-> q] :
        q \in UNION {{Needs(S)} \cup {<<Link("ref", s)>> \o Needs(S) : s \in {a, b, c}}
                               \cup {Append(Needs(S), Link("goto", s)) : s \in {a, b, c}} :
                        S \in SUBSET ({a, b, c} \ {id})}
              \cup {<<Link("malformed", id)>>, <<Link("ref", ghost)>>,
                    Needs({id}), <<Link("goto", ghost)>>}}

MCPipelines == {<<x, y, z>> : x \in StepsOf(a), y \in StepsOf(b), z \in StepsOf(c)}

(***************************************************************************)
(* Schemas of a document with a property kind, an array tags and an object *)
(* info; some are wrong deep inside.                                       *)
(***************************************************************************)
One == Num(2)
Scalars == {Str("a"), Str("1"), Str(""), One, Num(3), Bool(TRUE), Null}

Leaves == {AnySchema,
           [AnySchema EXCEPT !.type = <<"string">>, !.min = {<<"string", 2>>}],
           [AnySchema EXCEPT !.type = <<"integer", "null">>, !.max = {<<"number", 2>>}],
           [AnySchema EXCEPT !.type = <<"string", "text">>],
           [AnySchema EXCEPT !.enum = {{Str("a"), One}}]}

Tags(leaf, n) ==
    [AnySchema EXCEPT !.type = <<"array">>, !.items = {leaf}, !.min = {<<"array", 2 * n>>}]
Object1(name, child, required, closed) ==
    [AnySchema EXCEPT !.type = <<"object">>, !.properties = (name :> child),
                      !.required = required, !.closed = closed]

MCSchemas ==
    {Object1("kind", x, R, closed) : x \in Leaves, R \in {{}, {"kind"}}, closed \in BOOLEAN}
    \cup {Object1("tags", Tags(x, n), {"tags"}, FALSE) : x \in Leaves, n \in 0..2}
    \cup {Object1("info", Object1("kind", x, R, FALSE), {"info"}, FALSE) :
            x \in Leaves \cup {NotASchema}, R \in {{}, {"kind"}}}

Documents ==
    Scalars \cup {Obj([x \in {} |-> Null])}
    \cup {Obj("kind" :> v) : v \in Scalars}
    \cup {Obj("kind" :> v @@ "0" :> One) : v \in {Str("a"), One}}
    \cup {Obj("tags" :> Arr(q)) : q \in UNION {[1..n -> {Str("a"), One, Num(4)}] : n \in 0..2}}
    \cup {Obj("tags" :> v) : v \in {Str("a"), Obj("0" :> One)}}
    \cup {Obj("info" :> Obj("kind" :> v)) : v \in Scalars}
    \cup {Obj("info" :> v) : v \in {Null, Arr(<<One, One>>), Obj("x" :> One)}}

MCAnswers == {Answer(fence, v) : fence \in BOOLEAN, v \in Documents} \cup {Prose}

MCPaths ==
    {<<Name("kind")>>, <<Name("tags")>>, <<Digits(0)>>, <<Name("info"), Name("kind")>>,
     <<Name("info"), Digits(1)>>, <<Name("kind"), Name("kind")>>}
    \cup {<<Name("tags"), g>> : g \in {Digits(0), Digits(1), Digits(10), Digits(32), Minus(0)}}

(***************************************************************************)
(* Routes on kind: one per value of an enum with a default anywhere, and   *)
(* pairs of conditions with every operator.                                *)
(***************************************************************************)
NoCond == [field |-> <<Name("kind")>>, equals |-> {}, not_equals |-> {}, in |-> {},
           matches |-> {}, exists |-> FALSE]
Rule(cond, goto) == [when |-> {cond}, default |-> FALSE, goto |-> goto]
Default == [when |-> {}, default |-> TRUE, goto |-> "other"]

Equal(v) == [NoCond EXCEPT !.equals = {v}]
Conditions ==
    {Equal(Str("1")), [NoCond EXCEPT !.not_equals = {Str("a")}],
     [NoCond EXCEPT !.in = {One, Null, Bool(TRUE)}], [NoCond EXCEPT !.exists = TRUE],
     [NoCond EXCEPT !.matches = {[valid |-> TRUE, texts |-> {"a", ""}]}],
     [NoCond EXCEPT !.matches = {[valid |-> FALSE, texts |-> {}]}],
     NoCond, [Equal(One) EXCEPT !.exists = TRUE]}

Around(q) == {q, <<Default>> \o q, q \o <<Default>>, <<q[1], Default, q[2]>>}

EnumRoutes == UNION {Around(<<Rule(Equal(v), "first"), Rule(Equal(w), "second")>>) :
                        v, w \in Scalars \ {Null}}
CondRoutes ==
    UNION {Around(<<Rule(x, "first"), Rule(y, "second")>>) : x, y \in Conditions}
    \cup {<< >>, <<Default, Default>>,
          <<[when |-> {}, default |-> FALSE, goto |-> "first"], Default>>}

Kinds == {Answer(fence, Obj("kind" :> v)) : fence \in BOOLEAN, v \in Scalars}
         \cup {Answer(FALSE, Obj("x" :> One)), Prose}
EnumSchemas ==
    {Object1("kind", [AnySchema EXCEPT !.enum = {V}], {"kind"}, FALSE) :
        V \in {{v, w} : v, w \in Scalars}}

MCFamilies ==
    {[schemas |-> MCSchemas, routes |-> {<< >>}, answers |-> MCAnswers, paths |-> MCPaths],
     [schemas |-> EnumSchemas, routes |-> EnumRoutes, answers |-> Kinds,
      paths |-> {<<Name("kind")>>}],
     [schemas |-> {AnySchema}, routes |-> CondRoutes, answers |-> Kinds,
      paths |-> {<<Name("kind")>>}]}

(***************************************************************************)
(* Every expression of up to four tokens, and longer ones that mix         *)
(* operators, signs and parentheses.                                       *)
(***************************************************************************)
Operations == {"+", "-", "*", "/"}
Tokens == {"0", "2", ".", "(", ")"} \cup Operations

MCExpressions ==
    UNION {[1..n -> Tokens] : n \in 0..4}
    \cup UNION {{<<x, o, y, p, z>>, <<"(", x, o, y, ")", p, z>>, <<x, o, "(", y, p, z, ")">>,
                 <<x, o, "-", y, p, z>>, <<"-", x, o, y, p, "(", "-", z, ")">>} :
                    x, y, z \in Literals, o, p \in Operations}

(***************************************************************************)
(* Requests for an agent and a pipeline, whose declaration may change.     *)
(***************************************************************************)
Bodies ==
    {<< >>, <<Broken>>, <<Object("input_data" :> "go"), Broken>>,
     <<Object([x \in {} |-> ""])>>}
    \cup {<<Object("input_data" :> v)>> : v \in {"go", " "}}
    \cup {<<Object("p" :> v)>> : v \in {"go", ""}}
    \cup {<<Object("p" :> v @@ "q" :> w)>> : v, w \in {"go", " "}}

MCRequests ==
    {[token |-> t, method |-> m, path |-> path, body |-> body] :
        t \in {"valid", "wrong"}, m \in {"POST", "GET"}, body \in Bodies,
        path \in {<<"agents", "clerk", "execute">>, <<"pipelines", "triage", "execute">>,
                  <<"pipelines", "nobody", "execute">>, <<"agents", "clerk">>,
                  <<"agents", "clerk", "run">>, <<"agents", "clerk", "execute", "now">>}}

MCDefinitions ==
    {[agents |-> {"clerk"}, pipelines |-> [x \in {} |-> {}]]}
    \cup {[agents |-> A, pipelines |-> ("triage" :> declared)] :
            A \in {{}, {"clerk"}}, declared \in SUBSET {"p", "q"}}
=============================================================================

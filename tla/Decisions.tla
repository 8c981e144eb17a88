----------------------------- MODULE Decisions -----------------------------
(***************************************************************************)
(* The calls that decide how a job goes on, one per behaviour: the answer  *)
(* of an agent, from the schema it is held to over what a router makes of  *)
(* it to the value a later step reads from it; and a request with the run  *)
(* of the job it leaves.                                                   *)
(***************************************************************************)
EXTENDS Routing, OutputSchema, Admission

CONSTANTS
    Families,       \* records of schemas, routes, answers and reference paths
    Requests,       \* execute requests
    Definitions     \* what the registry may hold

\* Paths have the segments of Routing, a route has at most one condition, no
\* schema is nested too deep, and lengths and bounds are numbers.
ASSUME FamilyAssumption ==
    \A f \in Families :
        /\ f.paths \subseteq Seq(Segments)
        /\ \A q \in f.routes :
            /\ Len(q) \in Nat
            /\ \A k \in 1..Len(q) : \A c, d \in q[k].when : c = d
        /\ \A s \in f.schemas :
            /\ s # NotASchema
            /\ \A x \in Nodes(s)[MaxDepth] : Children(x) = {}
            /\ \A a \in f.answers : \A n \in 0..MaxDepth : \A x \in Calls(s, a.doc)[n] :
                /\ x[2].is = "array" => Len(x[2].items) \in Nat
                /\ \A m \in x[1].min : m[2] \in Int

VARIABLES
    call,           \* a function and its arguments
    verdict,        \* what it returns
    check           \* what the schema says of an answer

NoVerdict == [of |-> "none"]
NoCheck == [compiled |-> FALSE, accepted |-> FALSE]

AnswerCall ==
    \E f \in Families : \E s \in f.schemas, q \in f.routes, x \in f.answers, t \in f.paths :
        call = [fn |-> "answer",
                case |-> [schema |-> s, routes |-> q, answer |-> x, path |-> t]]

RequestCall ==
    \E r \in Requests, d, e \in Definitions, o \in {"queued", "full", "failed"} :
        call = [fn |-> "execute", req |-> r, now |-> d, later |-> e, outcome |-> o]

Returns(fn, v) ==
    /\ call.fn = fn
    /\ verdict = NoVerdict
    /\ verdict' = v
    /\ UNCHANGED call

\* Compile at load time and RunAgent's check of the answer; then a router and a
\* reference of a later step read it.
TakeAnswer ==
    LET x == call.case IN
    /\ Returns("answer",
            [of |-> "answer",
             route |-> PickRoute(x.routes, x.answer),
             value |-> LookupPath(x.answer, x.path)])
    /\ check' = [compiled |-> CheckNode(x.schema),
                 accepted |-> CheckNode(x.schema) /\ Accepted(x.schema, x.answer)]

ExecuteRequest ==
    LET reply == HandleRequest(call.req, call.now, call.outcome) IN
    /\ Returns("execute",
            [of |-> "execute", reply |-> reply,
             runs |-> {[job |-> j, result |-> Execute(j, call.later)] : j \in reply.jobs}])
    /\ UNCHANGED check

DecideInit == (AnswerCall \/ RequestCall) /\ verdict = NoVerdict /\ check = NoCheck
DecideNext == TakeAnswer \/ ExecuteRequest
DecideSpec == DecideInit /\ [][DecideNext]_<<call, verdict, check>>
-----------------------------------------------------------------------------
(***************************************************************************)
(* Schemas.                                                                *)
(***************************************************************************)
\* "A bad schema fails at load time rather than on the first request"
\* (schema.go:22): whatever document a compiled schema is held against, no call
\* of validate, at any level, meets a type it does not know or has to pass over
\* a property that is no schema.
BadSchemaFailsAtLoad ==
    verdict.of = "answer" /\ check.compiled =>
        \A n \in 0..MaxDepth : \A x \in Calls(call.case.schema, call.case.answer.doc)[n] :
            CheckOwn(x[1])

\* The schema nodes for what is at the first n segments of a path.
ChildrenAt(s, g) ==
    CASE g.is = "name" ->
            {s.properties[name] : name \in DOMAIN s.properties \cap {g.name}} \ {NotASchema}
      [] g.is = "digits" -> s.items
      [] OTHER -> {}
Along(s, path) ==
    LET at[n \in 0..Len(path)] ==
            IF n = 0 THEN {s} ELSE UNION {ChildrenAt(x, path[n]) : x \in at[n - 1]}
    IN  at

\* What meets the schema is an object or an array with something at segment g.
Asks(s, g) ==
    CASE g.is = "name" -> s.type = <<"object">> /\ g.name \in s.required
      [] g.is = "digits" ->
            /\ s.type = <<"array">>
            /\ g.num < 2^(WordSize - 1)
            /\ \E m \in s.min : m[1] = "array" /\ 2 * g.num < m[2]
      [] OTHER -> FALSE

\* The schema asks for something at this path of every document.
Requires(s, path) ==
    \A n \in 1..Len(path) : \E x \in Along(s, path)[n - 1] : Asks(x, path[n])

\* A later step's reference into an accepted answer never fails when the
\* schema requires the path, object by object and element by element.  This is
\* for answers without a code fence.
RequiredPathResolves ==
    verdict.of = "answer" /\ check.accepted /\ ~call.case.answer.fence
        /\ Requires(call.case.schema, call.case.path) => verdict.value # {}

\* The same for whatever RunAgent accepts: "we strip fences but otherwise
\* require a clean object" (engine.go:221).
AcceptedOutputUsable ==
    verdict.of = "answer" /\ check.accepted
        /\ Requires(call.case.schema, call.case.path) => verdict.value # {}
-----------------------------------------------------------------------------
(***************************************************************************)
(* Routers and paths.                                                      *)
(***************************************************************************)
\* The routes decide by one required property of the schema: each value of its
\* enum, no two of which read the same, has a route.
Covers(s, name, routes) ==
    LET Whens(v) == {k \in 1..Len(routes) :
                        \E c \in routes[k].when : c.equals = {v} /\ ~routes[k].default}
        rules == {k \in 1..Len(routes) : ~routes[k].default}
    IN
    /\ name \in s.required \cap DOMAIN s.properties
    /\ s.type = <<"object">>
    /\ ValidRoutes(routes)
    /\ \A k \in rules : \A c \in routes[k].when :
        Operators(c) = {"equals"} /\ c.field = <<Name(name)>>
    /\ s.properties[name].enum # {}
    /\ \A values \in s.properties[name].enum :
        /\ \A v, w \in values : v # w => Stringify(v) # Stringify(w)
        /\ \A v \in values : Cardinality(Whens(v)) = 1
        /\ rules = UNION {Whens(v) : v \in values}

\* An answer that meets such a schema is always routed, and to the route of its
\* value, wherever the default stands and however the value is written (a
\* number or a text, true or "true").
EnumRouted ==
    verdict.of = "answer" /\ check.accepted /\ ~call.case.answer.fence =>
        LET x == call.case IN
        \A name \in DOMAIN x.schema.properties : Covers(x.schema, name, x.routes) =>
            \E k \in 1..Len(x.routes) : \E c \in x.routes[k].when :
                /\ ~x.routes[k].default
                /\ c.equals = {x.answer.doc.fields[name]}
                /\ verdict.route = Goto(x.routes[k].goto)

\* A router that validatePipeline accepts and that has a default picks a route
\* on every JSON input, whatever the input lacks, unless a pattern does not
\* compile; and it is the default only when no condition holds.
DefaultCatches ==
    verdict.of = "answer" /\ Decodes(call.case.answer) /\ ValidRoutes(call.case.routes) =>
        LET x == call.case
            rules == {k \in 1..Len(x.routes) : ~x.routes[k].default}
            held == {k \in rules : \E c \in x.routes[k].when :
                                    EvaluateCondition(c, x.answer.doc) = "yes"}
        IN  /\ rules # 1..Len(x.routes)
            /\ \A k \in rules : \A c \in x.routes[k].when : \A re \in c.matches : re.valid
            => verdict.route \in
                 {Goto(x.routes[k].goto) :
                    k \in IF held # {} THEN held ELSE (1..Len(x.routes)) \ rules}

\* A condition and a reference read the same value at the same path, although
\* one converts indexes with its own atoi and the other with strconv, as long
\* as an index has no sign and fits an int.
PathsAgree ==
    verdict.of = "answer" /\ Decodes(call.case.answer) =>
        LET x == call.case IN
        (\A k \in 1..Len(x.path) :
            x.path[k].is # "minus" /\ (x.path[k].is = "digits" => x.path[k].num < 2^(WordSize - 1)))
        => verdict.value = WalkPath(x.answer.doc, x.path)

-----------------------------------------------------------------------------
(***************************************************************************)
(* Requests.                                                               *)
(***************************************************************************)
\* A job that a request leaves does run when it is its turn, unless the
\* definitions changed in between; and an input that was declared at both
\* times is never blank in the run, although RunPipeline itself does not look.
AdmittedRuns ==
    verdict.of = "execute" => \A run \in verdict.runs :
        /\ call.now = call.later => run.result = "runs"
        /\ run.result = "runs" /\ run.job.kind = "pipeline" =>
            LET id == run.job.target IN
            \A name \in call.now.pipelines[id] \cap call.later.pipelines[id] :
                ParseJobInput(run.job.input)[name] \notin Blank
=============================================================================

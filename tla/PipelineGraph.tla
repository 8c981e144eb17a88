--------------------------- MODULE PipelineGraph ---------------------------
(***************************************************************************)
(* The dependency graph of a pipeline (internal/pipeline/graph.go).        *)
(*                                                                         *)
(* A pipeline is a sequence of steps, a step a record of its id and of its *)
(* links, in the order in which Deps reads them: "ref" for a step that its *)
(* input names, "need" for its needs, "goto" for the targets of a router.  *)
(* An input that does not parse is a first link "malformed".               *)
(***************************************************************************)
EXTENDS Naturals, Sequences, FiniteSets, SequencesExt

LinkKinds == {"malformed", "ref", "need", "goto"}
Link(kind, name) == [kind |-> kind, name |-> name]

Ids(q) == {q[k].id : k \in 1..Len(q)}

\* The links at which Deps returns an error.
BadLink(q, s, l) ==
    \/ l.kind = "malformed"
    \/ l.kind = "need" /\ l.name = s.id
    \/ l.name \notin Ids(q)

\* add: one edge, once.
Add(deps, from, to) ==
    IF from \in ToSet(deps[to]) THEN deps
    ELSE [deps EXCEPT ![to] = Append(@, from)]

\* The edge of a link: the target of a route waits for the router, and a step
\* for all else that it names.
AddLink(deps, s, l) ==
    IF l.kind = "goto" THEN Add(deps, s.id, l.name) ELSE Add(deps, l.name, s.id)
-----------------------------------------------------------------------------
(***************************************************************************)
(* What docs/SCHEMA.md says of a pipeline.                                 *)
(***************************************************************************)
BadName(q) ==
    \E k \in 1..Len(q) : \E l \in ToSet(q[k].links) : BadLink(q, q[k], l)

\* Step t waits for step s because of link l of step x.
Because(x, l, t, s) ==
    \/ l.kind \in {"ref", "need"} /\ x.id = t /\ l.name = s
    \/ l.kind = "goto" /\ x.id = s /\ l.name = t

\* What step t waits for: the steps its input names, its needs, and the routers
\* that lead to it.
WaitsFor(q, t) ==
    {s \in Ids(q) : \E k \in 1..Len(q) : \E l \in ToSet(q[k].links) : Because(q[k], l, t, s)}

\* The steps can be put in an order in which each comes after all it waits for.
Runnable(q) ==
    \E rank \in [Ids(q) -> 1..Len(q)] :
        \A t \in Ids(q) : \A s \in WaitsFor(q, t) : rank[s] < rank[t]
=============================================================================

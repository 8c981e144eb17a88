--------------------------- MODULE MCPipelineRun ---------------------------
(* Instances of PipelineRun.  A pipeline is given by its steps in declared  *)
(* order; the tables the scheduler works with are written out, and Tables   *)
(* says that they are the edges of PipelineGraph.                           *)
EXTENDS PipelineRun, TLC

CONSTANTS a, b, c, d, e, f, g, h

G == INSTANCE PipelineGraph

Links(kind, names) == [k \in 1..Len(names) |-> G!Link(kind, names[k])]
Agent(id, refs, needs) == [id |-> id, links |-> Links("ref", refs) \o Links("need", needs)]
Router(id, refs, routes) == [id |-> id, links |-> Links("ref", refs) \o Links("goto", routes)]

\* a classifies; routers b and c both lead to d, b also to e and c to f; d and
\* e use what leg g found; h reports on f and is declared first.
Triage ==
    << Agent(h, <<f>>, << >>), Agent(a, << >>, << >>), Agent(g, << >>, << >>),
       Router(b, <<a>>, <<d, e>>), Router(c, <<a>>, <<d, f>>),
       Agent(d, <<g>>, << >>), Agent(e, << >>, <<g>>), Agent(f, << >>, <<e>>) >>
TriageSteps == {a, b, c, d, e, f, g, h}
TriageOrder == <<h, a, g, b, c, d, e, f>>
TriageDeps == h :> <<f>> @@ a :> << >> @@ g :> << >> @@ b :> <<a>> @@ c :> <<a>>
              @@ d :> <<b, c, g>> @@ e :> <<b, g>> @@ f :> <<c, e>>
TriageRefs == h :> {f} @@ a :> {} @@ g :> {} @@ b :> {a} @@ c :> {a} @@ d :> {g}
              @@ e :> {} @@ f :> {}
TriageRoutes == h :> {} @@ a :> {} @@ g :> {} @@ b :> {d, e} @@ c :> {d, f}
                @@ d :> {} @@ e :> {} @@ f :> {}
TriageOutput == {h}

\* Two independent steps, both last.
Fork == << Agent(a, << >>, << >>), Agent(b, << >>, << >>) >>
ForkSteps == {a, b}
ForkOrder == <<a, b>>
ForkDeps == a :> << >> @@ b :> << >>
ForkRefs == a :> {} @@ b :> {}
ForkRoutes == a :> {} @@ b :> {}

\* The pipelines of agent-registry/: digest_flow combines two independent steps,
\* support_flow ends in one of three replies.
Digest == << Agent(a, << >>, << >>), Agent(b, << >>, << >>), Agent(c, <<a, b>>, <<a, b>>) >>
DigestDeps == a :> << >> @@ b :> << >> @@ c :> <<a, b>>
DigestRefs == a :> {} @@ b :> {} @@ c :> {a, b}
DigestRoutes == a :> {} @@ b :> {} @@ c :> {}
DigestFlow == INSTANCE PipelineRun WITH
    Steps <- {a, b, c}, Order <- <<a, b, c>>, deps <- DigestDeps,
    Refs <- DigestRefs, Routes <- DigestRoutes, OutputRefs <- {c}, HasOutput <- TRUE

Support ==
    << Agent(a, << >>, << >>), Router(b, <<a>>, <<c, d, e>>),
       Agent(c, << >>, << >>), Agent(d, << >>, << >>), Agent(e, << >>, << >>) >>
SupportDeps == a :> << >> @@ b :> <<a>> @@ c :> <<b>> @@ d :> <<b>> @@ e :> <<b>>
SupportRefs == a :> {} @@ b :> {a} @@ c :> {} @@ d :> {} @@ e :> {}
SupportRoutes == a :> {} @@ b :> {c, d, e} @@ c :> {} @@ d :> {} @@ e :> {}
SupportFlow == INSTANCE PipelineRun WITH
    Steps <- {a, b, c, d, e}, Order <- <<a, b, c, d, e>>, deps <- SupportDeps,
    Refs <- SupportRefs, Routes <- SupportRoutes, OutputRefs <- {}, HasOutput <- FALSE

\* The steps that s names in links of a kind.
Names(s, kind) == {l.name : l \in {l \in G!ToSet(s.links) : l.kind = kind}}

\* The edges, in the order in which the links are read.
DepsOf(q) ==
    LET ReadStep(edges, s) ==
            G!FoldLeft(LAMBDA now, l : G!AddLink(now, s, l), edges, s.links)
    IN  G!FoldLeft(ReadStep, [s \in G!Ids(q) |-> << >>], q)

\* The tables are those of q, which the registry accepts: its steps can be sorted.
Fits(q, order, edges, refs, routes, sorted) ==
    /\ ~G!BadName(q)
    /\ G!ToSet(sorted) = G!Ids(q)
    /\ \A k \in 1..Len(q) : G!WaitsFor(q, sorted[k]) \subseteq {sorted[m] : m \in 1..(k - 1)}
    /\ DepsOf(q) = edges
    /\ \A k \in 1..Len(q) :
        /\ order[k] = q[k].id
        /\ refs[q[k].id] = Names(q[k], "ref")
        /\ routes[q[k].id] = Names(q[k], "goto")

ASSUME Tables ==
    /\ Fits(Triage, TriageOrder, TriageDeps, TriageRefs, TriageRoutes,
            <<a, g, b, c, d, e, f, h>>)
    /\ Fits(Fork, ForkOrder, ForkDeps, ForkRefs, ForkRoutes, <<a, b>>)
    /\ Fits(Digest, <<a, b, c>>, DigestDeps, DigestRefs, DigestRoutes, <<a, b, c>>)
    /\ Fits(Support, <<a, b, c, d, e>>, SupportDeps, SupportRefs, SupportRoutes,
            <<a, b, c, d, e>>)

\* The theorem about pipelines with one end covers both; it does not cover Fork.
ASSUME ShippedHaveOneEnd == DigestFlow!OneEnd /\ SupportFlow!OneEnd
=============================================================================

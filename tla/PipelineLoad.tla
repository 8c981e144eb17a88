---------------------------- MODULE PipelineLoad ----------------------------
(***************************************************************************)
(* Deps and checkAcyclic (internal/pipeline/graph.go) on one pipeline: a   *)
(* loop over the links of its steps, then a depth-first search whose       *)
(* recursive calls of visit are a stack.                                   *)
(***************************************************************************)
EXTENDS PipelineGraph

CONSTANT Pipelines      \* pipelines to load

ASSUME LoadAssumption ==
    \A q \in Pipelines :
        /\ Len(q) \in Nat
        /\ \A k \in 1..Len(q) :
            /\ Len(q[k].links) \in Nat
            /\ DOMAIN q[k].links = 1..Len(q[k].links)
            /\ \A j \in 1..Len(q[k].links) : q[k].links[j].kind \in LinkKinds

VARIABLES
    pipeline,       \* the argument
    step, link,     \* where the loops are
    deps,           \* deps[t]: the steps t waits for
    color,
    visits,         \* the calls of visit: the step, and where the loop is
    loaded          \* "linking", "searching", or the result

loadVars == <<pipeline, step, link, deps, color, visits, loaded>>

\* A call of visit begins.
Enter(id) == [id |-> id, next |-> 1]

LoadInit ==
    /\ pipeline \in Pipelines
    /\ step = 1
    /\ link = 1
    /\ deps = [s \in Ids(pipeline) |-> << >>]
    /\ color = [s \in Ids(pipeline) |-> "white"]
    /\ visits = << >>
    /\ loaded = "linking"
-----------------------------------------------------------------------------
(***************************************************************************)
(* Deps.                                                                   *)
(***************************************************************************)
\* One round of the loops over references, needs and routes.
ReadLink ==
    /\ loaded = "linking"
    /\ step <= Len(pipeline)
    /\ link <= Len(pipeline[step].links)
    /\ LET s == pipeline[step]
           l == s.links[link]
       IN  IF BadLink(pipeline, s, l)
           THEN loaded' = "bad_name" /\ UNCHANGED <<link, deps>>
           ELSE deps' = AddLink(deps, s, l) /\ link' = link + 1 /\ UNCHANGED loaded
    /\ UNCHANGED <<pipeline, step, color, visits>>

NextStep ==
    /\ loaded = "linking"
    /\ step <= Len(pipeline)
    /\ link > Len(pipeline[step].links)
    /\ step' = step + 1
    /\ link' = 1
    /\ UNCHANGED <<pipeline, deps, color, visits, loaded>>

StartSearch ==
    /\ loaded = "linking"
    /\ step > Len(pipeline)
    /\ step' = 1
    /\ loaded' = "searching"
    /\ UNCHANGED <<pipeline, link, deps, color, visits>>
-----------------------------------------------------------------------------
(***************************************************************************)
(* checkAcyclic.                                                           *)
(***************************************************************************)
\* The loop over the steps.
NextRoot ==
    /\ loaded = "searching"
    /\ visits = << >>
    /\ step <= Len(pipeline)
    /\ LET id == pipeline[step].id IN
       IF color[id] = "white"
       THEN /\ color' = [color EXCEPT ![id] = "gray"]
            /\ visits' = <<Enter(id)>>
       ELSE UNCHANGED <<color, visits>>
    /\ step' = step + 1
    /\ UNCHANGED <<pipeline, link, deps, loaded>>

\* The innermost call of visit.
Top == visits[Len(visits)]

\* One round of its loop over the dependencies.
Look ==
    /\ loaded = "searching"
    /\ visits # << >>
    /\ Top.next <= Len(deps[Top.id])
    /\ LET dep == deps[Top.id][Top.next]
           moved == [visits EXCEPT ![Len(visits)].next = @ + 1]
       IN  CASE color[dep] = "gray" ->
                    loaded' = "cycle" /\ UNCHANGED <<color, visits>>
             [] color[dep] = "white" ->
                    /\ color' = [color EXCEPT ![dep] = "gray"]
                    /\ visits' = Append(moved, Enter(dep))
                    /\ UNCHANGED loaded
             [] OTHER -> visits' = moved /\ UNCHANGED <<color, loaded>>
    /\ UNCHANGED <<pipeline, step, link, deps>>

\* Mutant: a step that is done stays on the path.
LeaveGray ==
    /\ loaded = "searching"
    /\ visits # << >>
    /\ Top.next > Len(deps[Top.id])
    /\ visits' = SubSeq(visits, 1, Len(visits) - 1)
    /\ UNCHANGED <<pipeline, step, link, deps, color, loaded>>

\* The call of visit returns.
Leave ==
    /\ loaded = "searching"
    /\ visits # << >>
    /\ Top.next > Len(deps[Top.id])
    /\ color' = [color EXCEPT ![Top.id] = "black"]
    /\ visits' = SubSeq(visits, 1, Len(visits) - 1)
    /\ UNCHANGED <<pipeline, step, link, deps, loaded>>

EndSearch ==
    /\ loaded = "searching"
    /\ visits = << >>
    /\ step > Len(pipeline)
    /\ loaded' = "ok"
    /\ UNCHANGED <<pipeline, step, link, deps, color, visits>>

LoadNext ==
    \/ ReadLink \/ NextStep \/ StartSearch
    \/ NextRoot \/ Look \/ Leave \/ EndSearch

LoadSpec == LoadInit /\ [][LoadNext]_loadVars
-----------------------------------------------------------------------------
\* A pipeline is accepted exactly when its names exist and its steps can be
\* put in an order in which every step comes after all it waits for: the
\* search finds every cycle and reports no diamond as one.
AcceptedIffRunnable ==
    loaded \in {"ok", "bad_name", "cycle"} =>
        (loaded = "ok" <=> ~BadName(pipeline) /\ Runnable(pipeline))
=============================================================================

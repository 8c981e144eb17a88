---------------------------- MODULE PipelineRun ----------------------------
(***************************************************************************)
(* One call of Engine.RunPipeline: the scheduler's loop, which runs in the *)
(* calling goroutine, and the goroutine of each step it launches.  They    *)
(* share a semaphore of MaxParallel slots and the unbuffered channel done. *)
(*                                                                         *)
(* The call starts after its early returns (unknown pipeline, missing      *)
(* input), with a pipeline that the registry has validated.  What a step   *)
(* or a template evaluates to is a choice: an agent succeeds or fails, a   *)
(* router takes any of its routes or none, a JSON path exists or not.      *)
(***************************************************************************)
EXTENDS Naturals, Sequences, FiniteSets

CONSTANTS
    Steps,          \* step ids
    Order,          \* the steps in declared order
    deps,           \* deps[s]: the steps s waits for, in the order of Deps
    Refs,           \* Refs[s]: the steps whose output the input of s names
    Routes,         \* Routes[s]: the goto targets of s; {} unless a router
    OutputRefs,     \* the steps whose output the pipeline's output names
    HasOutput,      \* does the pipeline have an output template?
    MaxParallel,    \* number of steps that may run at a time
    NoStep

DepSet(s) == {deps[s][k] : k \in 1..Len(deps[s])}
Routers == {s \in Steps : Routes[s] # {}}

ASSUME PipelineAssumption ==
    /\ Order \in Seq(Steps)
    /\ IsFiniteSet(Steps)
    /\ \A s \in Steps : \E k \in 1..Len(Order) : Order[k] = s
    /\ \A k, m \in 1..Len(Order) : Order[k] = Order[m] => k = m
    /\ Len(Order) > 0
    /\ deps \in [Steps -> Seq(Steps)]
    /\ Refs \in [Steps -> SUBSET Steps]
    /\ Routes \in [Steps -> SUBSET Steps]
    /\ \A s \in Steps : Refs[s] \subseteq DepSet(s)
    /\ \A r \in Steps : \A t \in Routes[r] : r \in DepSet(t)
    /\ OutputRefs \subseteq Steps
    /\ HasOutput \in BOOLEAN
    /\ MaxParallel \in Nat \ {0}
    /\ NoStep \notin Steps

VARIABLES
    pc,             \* where the loop is
    i,              \* position in Order of the admission pass
    state,          \* state[s]: the map state, "none" while s has no entry
    results,        \* results[s]: the status in the map results, or "none"
    pending,        \* the map pending
    running,        \* the counter of steps in flight
    failure,        \* is failure set?
    outputs,        \* the keys of scope.Outputs
    result,         \* what the call returned, "none" before
    gpc,            \* gpc[s]: where the goroutine of s is
    gout,           \* gout[s]: the status it sends
    ggoto           \* ggoto[s]: the route a router picked

sched == <<pc, i, state, results, pending, running, failure, outputs, result>>
vars == <<pc, i, state, results, pending, running, failure, outputs, result,
          gpc, gout, ggoto>>

StepStatus == {"none", "COMPLETED", "FAILED", "SKIPPED"}
GoPC == {"none", "queued", "working", "sending", "releasing", "ended"}

Started(s) == gpc[s] # "none"
HoldsSlot(s) == gpc[s] \in {"working", "sending", "releasing"}
InFlight(s) == gpc[s] \in {"queued", "working", "sending"}
-----------------------------------------------------------------------------
(***************************************************************************)
(* depStatus walks the dependencies in order and decides at the first one  *)
(* that is not COMPLETED.                                                  *)
(***************************************************************************)
\* Mutant: a skipped dependency counts as satisfied.
ReadyAfterSkip(s) ==
    \A k \in 1..Len(deps[s]) : state[deps[s][k]] \in {"COMPLETED", "SKIPPED"}

Ready(s) == \A k \in 1..Len(deps[s]) : state[deps[s][k]] = "COMPLETED"

FirstOpenIs(s, statuses) ==
    \E k \in 1..Len(deps[s]) :
        /\ state[deps[s][k]] \in statuses
        /\ \A m \in 1..(k - 1) : state[deps[s][m]] = "COMPLETED"

\* Mutant: a step behind a skipped one is passed over.
BlockedBySkip(s) == FirstOpenIs(s, {"none", "SKIPPED"})

SkipDue(s) == FirstOpenIs(s, {"SKIPPED", "FAILED"})
Blocked(s) == FirstOpenIs(s, {"none"})
-----------------------------------------------------------------------------
(***************************************************************************)
(* The admission pass: one visit per step, in declared order, until a step *)
(* has failed.                                                             *)
(***************************************************************************)
Visiting(s) ==
    /\ pc = "admit"
    /\ ~failure
    /\ i <= Len(Order)
    /\ s = Order[i]

\* Launched or skipped before, or still waiting for a dependency.
PassOver(s) ==
    /\ Visiting(s)
    /\ s \notin pending \/ (state[s] # "SKIPPED" /\ Blocked(s))
    /\ i' = i + 1
    /\ UNCHANGED <<pc, state, results, pending, running, failure, outputs,
                   result, gpc, gout, ggoto>>

\* Skipped by a router's decision or because of a dependency.
Skip(s) ==
    /\ Visiting(s)
    /\ s \in pending
    /\ state[s] = "SKIPPED" \/ SkipDue(s)
    /\ i' = i + 1
    /\ state' = [state EXCEPT ![s] = "SKIPPED"]
    /\ results' = [results EXCEPT ![s] = "SKIPPED"]
    /\ pending' = pending \ {s}
    /\ UNCHANGED <<pc, running, failure, outputs, result, gpc, gout, ggoto>>

Launchable(s) ==
    /\ Visiting(s)
    /\ s \in pending
    /\ state[s] # "SKIPPED"
    /\ Ready(s)

\* Resolve finds every output that s refers to.
Resolves(s) == Refs[s] \subseteq outputs

\* Resolve may fail: an output is missing, is not JSON, or has no value at
\* the path of a reference.
MayNotResolve(s) == Refs[s] # {}

Launch(s) ==
    /\ Launchable(s)
    /\ Resolves(s)
    /\ i' = i + 1
    /\ pending' = pending \ {s}
    /\ running' = running + 1
    /\ gpc' = [gpc EXCEPT ![s] = "queued"]
    /\ UNCHANGED <<pc, state, results, failure, outputs, result, gout, ggoto>>

\* Mutant: running is incremented before Resolve.
LaunchFailsCounted(s) ==
    /\ Launchable(s)
    /\ MayNotResolve(s)
    /\ i' = i + 1
    /\ pending' = pending \ {s}
    /\ state' = [state EXCEPT ![s] = "FAILED"]
    /\ results' = [results EXCEPT ![s] = "FAILED"]
    /\ failure' = TRUE
    /\ running' = running + 1
    /\ UNCHANGED <<pc, outputs, result, gpc, gout, ggoto>>

LaunchFails(s) ==
    /\ Launchable(s)
    /\ MayNotResolve(s)
    /\ i' = i + 1
    /\ pending' = pending \ {s}
    /\ state' = [state EXCEPT ![s] = "FAILED"]
    /\ results' = [results EXCEPT ![s] = "FAILED"]
    /\ failure' = TRUE
    /\ UNCHANGED <<pc, running, outputs, result, gpc, gout, ggoto>>

PassEnds == pc = "admit" /\ (failure \/ i > Len(Order))

\* Mutant: the loop is left as soon as a step has failed.
LeaveLoopUndrained ==
    /\ PassEnds
    /\ (running = 0 /\ pending = {}) \/ failure
    /\ pc' = "finish"
    /\ UNCHANGED <<i, state, results, pending, running, failure, outputs,
                   result, gpc, gout, ggoto>>

\* Nothing is in flight and nothing is left to do, or a step has failed.
LeaveLoop ==
    /\ PassEnds
    /\ running = 0
    /\ pending = {} \/ failure
    /\ pc' = "finish"
    /\ UNCHANGED <<i, state, results, pending, running, failure, outputs,
                   result, gpc, gout, ggoto>>

\* "stalled (unresolved dependencies)".
Stall ==
    /\ PassEnds
    /\ running = 0
    /\ pending # {} /\ ~failure
    /\ pc' = "returned"
    /\ result' = "stalled"
    /\ UNCHANGED <<i, state, results, pending, running, failure, outputs,
                   gpc, gout, ggoto>>

\* Mutant: the loop waits for a completion also when none can come.
WaitAlways ==
    /\ PassEnds
    /\ pc' = "wait"
    /\ UNCHANGED <<i, state, results, pending, running, failure, outputs,
                   result, gpc, gout, ggoto>>

Wait ==
    /\ PassEnds
    /\ running > 0
    /\ pc' = "wait"
    /\ UNCHANGED <<i, state, results, pending, running, failure, outputs,
                   result, gpc, gout, ggoto>>
-----------------------------------------------------------------------------
(***************************************************************************)
(* A completion arrives.  The loop's condition is pending # {}: steps in   *)
(* flight do not keep the loop going.                                      *)
(***************************************************************************)
\* Mutants: no branch is skipped; the chosen branch is skipped too.
MarkedNone(s) == [state EXCEPT ![s] = gout[s]]
MarkedAll(s) ==
    [t \in Steps |-> IF t = s THEN gout[s]
                     ELSE IF t \in Routes[s] THEN "SKIPPED" ELSE state[t]]

\* The state map after the completion of s: a router's other targets are skipped.
Marked(s) ==
    [t \in Steps |-> IF t = s THEN gout[s]
                     ELSE IF gout[s] = "COMPLETED" /\ t \in Routes[s] \ {ggoto[s]}
                          THEN "SKIPPED"
                     ELSE state[t]]

Receive(s) ==
    /\ pc = "wait"
    /\ gpc[s] = "sending"
    /\ gpc' = [gpc EXCEPT ![s] = "releasing"]
    /\ running' = running - 1
    /\ results' = [results EXCEPT ![s] = gout[s]]
    /\ state' = Marked(s)
    /\ outputs' = IF gout[s] = "COMPLETED" THEN outputs \cup {s} ELSE outputs
    /\ failure' = (failure \/ gout[s] # "COMPLETED")
    /\ pc' = IF pending = {} THEN "finish" ELSE "admit"
    /\ i' = 1
    /\ UNCHANGED <<pending, result, gout, ggoto>>

\* finalOutput: the template's value, else the last completed agent step's.
HasResult ==
    IF HasOutput
    THEN OutputRefs \subseteq outputs
    ELSE \E s \in Steps \ Routers : state[s] = "COMPLETED"

Return ==
    /\ pc = "finish"
    /\ pc' = "returned"
    /\ \/ failure /\ result' = "failed"
       \/ ~failure /\ HasResult /\ result' = "ok"
       \/ /\ ~failure
          /\ ~HasResult \/ (HasOutput /\ OutputRefs # {})
          /\ result' = "no_output"
    /\ UNCHANGED <<i, state, results, pending, running, failure, outputs,
                   gpc, gout, ggoto>>

\* collectOutcomes: a step without a result is reported as SKIPPED.
Outcome(s) == IF results[s] = "none" THEN "SKIPPED" ELSE results[s]
-----------------------------------------------------------------------------
(***************************************************************************)
(* The goroutine of a step.                                                *)
(***************************************************************************)
Acquire(s) ==
    /\ gpc[s] = "queued"
    /\ Cardinality({t \in Steps : HoldsSlot(t)}) < MaxParallel
    /\ gpc' = [gpc EXCEPT ![s] = "working"]
    /\ UNCHANGED <<sched, gout, ggoto>>

\* What PickRoute may return: the routes' conditions test the router's input,
\* which may be anything.
Choices(s) == IF s \in Routers THEN Routes[s] ELSE {NoStep}

\* RunAgent succeeds, or PickRoute picks a route.
Succeed(s) ==
    /\ gpc[s] = "working"
    /\ gpc' = [gpc EXCEPT ![s] = "sending"]
    /\ gout' = [gout EXCEPT ![s] = "COMPLETED"]
    /\ \E t \in Choices(s) : ggoto' = [ggoto EXCEPT ![s] = t]
    /\ UNCHANGED sched

\* RunAgent fails (after another step's failure also because runCtx is
\* cancelled), or the router's input is not JSON, or no route matches.
Fail(s) ==
    /\ gpc[s] = "working"
    /\ gpc' = [gpc EXCEPT ![s] = "sending"]
    /\ gout' = [gout EXCEPT ![s] = "FAILED"]
    /\ UNCHANGED <<sched, ggoto>>

\* The deferred receive from sem.
Release(s) ==
    /\ gpc[s] = "releasing"
    /\ gpc' = [gpc EXCEPT ![s] = "ended"]
    /\ UNCHANGED <<sched, gout, ggoto>>
-----------------------------------------------------------------------------
Init ==
    /\ pc = "admit"
    /\ i = 1
    /\ state = [s \in Steps |-> "none"]
    /\ results = [s \in Steps |-> "none"]
    /\ pending = Steps
    /\ running = 0
    /\ failure = FALSE
    /\ outputs = {}
    /\ result = "none"
    /\ gpc = [s \in Steps |-> "none"]
    /\ gout = [s \in Steps |-> "none"]
    /\ ggoto = [s \in Steps |-> NoStep]

Scheduler ==
    \/ \E s \in Steps :
        PassOver(s) \/ Skip(s) \/ Launch(s) \/ LaunchFails(s) \/ Receive(s)
    \/ LeaveLoop \/ Stall \/ Wait \/ Return

Goroutine(s) == Acquire(s) \/ Succeed(s) \/ Fail(s) \/ Release(s)

Next == Scheduler \/ \E s \in Steps : Goroutine(s)

Spec == Init /\ [][Next]_vars

\* Every goroutine is scheduled, and RunAgent returns: a model call has a
\* deadline and the number of calls is bounded.
FairSpec ==
    Spec /\ WF_vars(Scheduler) /\ \A s \in Steps : WF_vars(Goroutine(s))
-----------------------------------------------------------------------------
(***************************************************************************)
(* Properties                                                              *)
(***************************************************************************)
\* Every variable has its type, and the loop waits only for a step in flight.
TypeOK ==
    /\ pc \in {"admit", "wait", "finish", "returned"}
    /\ i \in 1..(Len(Order) + 1)
    /\ state \in [Steps -> StepStatus]
    /\ results \in [Steps -> StepStatus]
    /\ pending \subseteq Steps
    /\ running \in Nat
    /\ pc = "wait" => running > 0
    /\ failure \in BOOLEAN
    /\ outputs \subseteq Steps
    /\ result \in {"none", "ok", "failed", "stalled", "no_output"}
    /\ gpc \in [Steps -> GoPC]
    /\ gout \in [Steps -> {"none", "COMPLETED", "FAILED"}]
    /\ ggoto \in [Steps -> Steps \cup {NoStep}]

\* A step that was launched had, and keeps, only COMPLETED dependencies, and
\* all the outputs its input names: no later decision of a router turns a
\* dependency of a running step into a skipped one.
DepsRespected ==
    \A s \in Steps : Started(s) =>
        /\ \A d \in DepSet(s) : state[d] = "COMPLETED"
        /\ Refs[s] \subseteq outputs

\* Of a router's targets at most one is ever launched, whatever other routers
\* and dependencies lead to it.
OneBranch ==
    \A r \in Steps : \A t, u \in Routes[r] : Started(t) /\ Started(u) => t = u

\* A step is marked SKIPPED only if a router chose another branch or a
\* dependency was itself skipped: no step is skipped for lack of attention.
SkipJustified ==
    \A s \in Steps : state[s] = "SKIPPED" =>
        \E d \in DepSet(s) :
            \/ state[d] = "SKIPPED"
            \/ state[d] = "COMPLETED" /\ s \in Routes[d] \ {ggoto[d]}

\* running counts the goroutines the loop has yet to hear from, so the loop
\* neither waits for a completion that cannot come nor gives up on one.
RunningCounts ==
    running = Cardinality({s \in Steps : InFlight(s)})

\* The outcome that the call returns for a step it started is how the step
\* ended ("Every step's outcome is returned"), never the SKIPPED of a step
\* without a result.
EveryOutcomeReturned ==
    pc = "returned" =>
        \A s \in Steps : Started(s) => Outcome(s) = gout[s]

\* A run without a failure never ends because the remaining steps are blocked
\* ("the dependency graph should have been validated acyclic").
NeverStalls == result # "stalled"

\* The call returns.
RunReturns == <>(pc = "returned")

\* Every goroutine that was started ends, so none is left blocked on done.
GoroutinesEnd == \A s \in Steps : Started(s) ~> gpc[s] = "ended"
-----------------------------------------------------------------------------
(***************************************************************************)
(* Why the maps stay consistent although goroutines end in any order: a    *)
(* step's status tells how far its goroutine is, and a router that has     *)
(* completed has marked all its other targets before any of them could     *)
(* have been launched.  PipeInv is inductive.                              *)
(***************************************************************************)
StatusFitsGoroutine ==
    \A s \in Steps :
        /\ s \in pending => ~Started(s) /\ state[s] \in {"none", "SKIPPED"}
        /\ InFlight(s) => state[s] = "none"
        /\ gpc[s] = "sending" => gout[s] # "none"
        /\ gpc[s] \in {"releasing", "ended"} =>
                state[s] = gout[s] /\ gout[s] # "none"
        /\ state[s] = "COMPLETED" => Started(s) /\ s \in outputs
        /\ state[s] = "FAILED" => failure
        /\ state[s] = "none" => s \in pending \/ InFlight(s)

BranchesMarked ==
    \A r \in Steps : state[r] = "COMPLETED" =>
        \A t \in Routes[r] \ {ggoto[r]} : state[t] = "SKIPPED"

\* The inductive invariant of a run: what is launched, skipped and received
\* agrees with the dependency graph and with the routers' choices.
PipeInv ==
    /\ TypeOK
    /\ StatusFitsGoroutine
    /\ BranchesMarked
    /\ DepsRespected
    /\ SkipJustified

\* Each step is declared after all it waits for.
DeclaredInOrder ==
    \A k \in 1..Len(Order) : \A d \in DepSet(Order[k]) :
        \E m \in 1..(k - 1) : Order[m] = d

\* The waiting-for graph has no cycle, which checkAcyclic sees to.
Acyclic ==
    \E h \in [Steps -> Nat] : \A s \in Steps : \A d \in DepSet(s) : h[d] < h[s]

\* Order[k] waits for t, which is declared later and was skipped.
SkippedLater(k, t) ==
    /\ t \in DepSet(Order[k])
    /\ state[t] = "SKIPPED"
    /\ \E m \in (k + 1)..Len(Order) : Order[m] = t

\* A step that the pass has visited and left pending waits for a step without
\* a status, or for one that the same pass skipped further down.
VisitedWaits ==
    pc = "admit" /\ ~failure =>
        \A k \in 1..(i - 1) : Order[k] \in pending =>
            \E t \in DepSet(Order[k]) : state[t] = "none" \/ SkippedLater(k, t)

\* The "should have been validated acyclic" of a stalled run is never what
\* happened: some step is left only because the step it waits for was skipped
\* later in the same pass, with nothing in flight to bring about another pass.
StallExplained ==
    result = "stalled" =>
        \E k \in 1..Len(Order) : \E t \in Steps :
            Order[k] \in pending /\ SkippedLater(k, t)
-----------------------------------------------------------------------------
\* Step t is not decided, launched or skipped, before u: whatever else t waits
\* for is firm, never skipped, and routes nowhere near t.
DecidedAfter(t, u, firm) ==
    /\ u \in DepSet(t)
    /\ \A d \in DepSet(t) \ {u} : d \in firm /\ t \notin Routes[d]

\* Pipelines with one end: all steps but one, or but the targets of one router,
\* are followed by a step that is decided after them.
OneEnd ==
    \E firm \in SUBSET Steps :
        /\ \A t \in firm : DepSet(t) \subseteq firm /\ \A r \in Steps : t \notin Routes[r]
        /\ \A y, z \in Steps :
            \/ y = z
            \/ \E r \in Steps : {y, z} \subseteq Routes[r]
            \/ \E t \in Steps : DecidedAfter(t, y, firm) \/ DecidedAfter(t, z, firm)
=============================================================================

------------------------- MODULE PipelineRunProofs -------------------------
(***************************************************************************)
(* Proofs about PipelineRun, for every pipeline that the registry accepts, *)
(* every declared order and every parallelism.                             *)
(***************************************************************************)
EXTENDS PipelineRun, FiniteSetTheorems, WellFoundedInduction, TLAPS

\* What the types need of the constants.
LEMMA ConstantTypes ==
  /\ Len(Order) \in Nat /\ Len(Order) > 0
  /\ \A k \in 1..Len(Order) : Order[k] \in Steps
  /\ \A s \in Steps : Routes[s] \subseteq Steps
  BY PipelineAssumption

\* The loop and the goroutines keep the types.
LEMMA TypeStep == TypeOK /\ [Next]_vars => TypeOK'
  <1> SUFFICES ASSUME TypeOK, [Next]_vars PROVE TypeOK'
    BY Zenon
  <1> USE ConstantTypes DEF TypeOK, StepStatus, GoPC
  <1>1. CASE UNCHANGED vars
    BY <1>1, Zenon DEF vars
  <1>2. ASSUME NEW s \in Steps, PassOver(s) PROVE TypeOK'
    BY <1>2 DEF PassOver, Visiting
  <1>3. ASSUME NEW s \in Steps, Skip(s) PROVE TypeOK'
    BY <1>3 DEF Skip, Visiting
  <1>4. ASSUME NEW s \in Steps, Launch(s) PROVE TypeOK'
    BY <1>4 DEF Launch, Launchable, Visiting
  <1>5. ASSUME NEW s \in Steps, LaunchFails(s) PROVE TypeOK'
    BY <1>5 DEF LaunchFails, Launchable, Visiting
  <1>6. ASSUME NEW s \in Steps, Receive(s) PROVE TypeOK'
    BY <1>6 DEF Receive, Marked
  <1>7. ASSUME NEW s \in Steps, Acquire(s) PROVE TypeOK'
    BY <1>7, Zenon DEF Acquire, sched
  <1>8. ASSUME NEW s \in Steps, Succeed(s) PROVE TypeOK'
    BY <1>8, Zenon DEF Succeed, Choices, sched, Routers
  <1>9. ASSUME NEW s \in Steps, Fail(s) PROVE TypeOK'
    BY <1>9, Zenon DEF Fail, sched
  <1>10. ASSUME NEW s \in Steps, Release(s) PROVE TypeOK'
    BY <1>10, Zenon DEF Release, sched
  <1>11. CASE LeaveLoop
    BY <1>11, Zenon DEF LeaveLoop, PassEnds
  <1>12. CASE Stall
    BY <1>12, Zenon DEF Stall, PassEnds
  <1>13. CASE Wait
    BY <1>13, Zenon DEF Wait, PassEnds
  <1>14. CASE Return
    BY <1>14, Zenon DEF Return
  <1> QED BY <1>1, <1>2, <1>3, <1>4, <1>5, <1>6, <1>7, <1>8, <1>9, <1>10,
             <1>11, <1>12, <1>13, <1>14, Zenon
          DEF Next, Scheduler, Goroutine

\* A call starts in a state of the right types.
LEMMA InitType == Init => TypeOK
  <1> SUFFICES ASSUME Init PROVE TypeOK
    BY Zenon
  <1>1. i \in 1..(Len(Order) + 1)
    BY ConstantTypes DEF Init
  <1> QED BY <1>1, Zenon DEF Init, TypeOK, StepStatus, GoPC

\* The loop and the goroutines keep to the types, and the loop never blocks on
\* done with nothing in flight.
THEOREM TypeCorrect == Spec => []TypeOK
  BY InitType, TypeStep, PTL DEF Spec

-----------------------------------------------------------------------------
\* What the invariant needs of the dependency graph.
LEMMA GraphFacts ==
  /\ \A s \in Steps : DepSet(s) \subseteq Steps /\ Refs[s] \subseteq DepSet(s)
  /\ \A r \in Steps : \A t \in Routes[r] : t \in Steps /\ r \in DepSet(t)
  <1>1. \A s \in Steps : DepSet(s) \subseteq Steps
    <2> SUFFICES ASSUME NEW s \in Steps PROVE DepSet(s) \subseteq Steps
      BY Zenon
    <2>1. deps[s] \in Seq(Steps)
      BY PipelineAssumption, Zenon
    <2> QED BY <2>1 DEF DepSet
  <1>2. \A r \in Steps : \A t \in Routes[r] : t \in Steps
    BY ConstantTypes, Zenon
  <1> QED BY <1>1, <1>2, PipelineAssumption, Zenon

\* What depStatus says about the dependencies as a set.
LEMMA DepStatus ==
  ASSUME NEW s \in Steps
  PROVE  /\ Ready(s) => \A d \in DepSet(s) : state[d] = "COMPLETED"
         /\ SkipDue(s) => \E d \in DepSet(s) : state[d] \in {"SKIPPED", "FAILED"}
         /\ Blocked(s) => \E d \in DepSet(s) : state[d] = "none"
  BY Zenon DEF Ready, SkipDue, Blocked, FirstOpenIs, DepSet

\* Skipping, launching and receiving keep the maps consistent.
LEMMA PipeStep == PipeInv /\ [Next]_vars => PipeInv'
  <1> SUFFICES ASSUME PipeInv, [Next]_vars PROVE PipeInv'
    BY Zenon
  <1>0. TypeOK /\ TypeOK'
    BY TypeStep, Zenon DEF PipeInv
  <1> USE <1>0, GraphFacts
      DEF PipeInv, StatusFitsGoroutine, BranchesMarked, DepsRespected,
          SkipJustified, Started, InFlight, TypeOK, StepStatus, GoPC
  <1>1. CASE UNCHANGED vars
    BY <1>1 DEF vars
  <1>2. ASSUME NEW s \in Steps, PassOver(s) PROVE PipeInv'
    BY <1>2 DEF PassOver, Visiting
  <1>3. ASSUME NEW s \in Steps, Skip(s) PROVE PipeInv'
    BY <1>3, DepStatus DEF Skip, Visiting
  <1>4. ASSUME NEW s \in Steps, Launch(s) PROVE PipeInv'
    BY <1>4, DepStatus DEF Launch, Launchable, Visiting
  <1>5. ASSUME NEW s \in Steps, LaunchFails(s) PROVE PipeInv'
    BY <1>5 DEF LaunchFails, Launchable, Visiting
  <1>6. ASSUME NEW s \in Steps, Receive(s) PROVE PipeInv'
    <2>1. /\ gpc[s] = "sending" /\ gout[s] \in {"COMPLETED", "FAILED"}
          /\ state[s] = "none" /\ s \notin pending
          /\ gpc' = [gpc EXCEPT ![s] = "releasing"]
          /\ UNCHANGED <<pending, gout, ggoto>>
          /\ outputs' = IF gout[s] = "COMPLETED" THEN outputs \cup {s} ELSE outputs
          /\ failure' = (failure \/ gout[s] # "COMPLETED")
          /\ state' = Marked(s)
      BY <1>6, Zenon DEF Receive
    <2>2. \A t \in Routes[s] : ~Started(t) /\ t # s
      BY <2>1
    <2>3. \A t \in Steps :
            state'[t] = IF t = s THEN gout[s]
                        ELSE IF gout[s] = "COMPLETED" /\ t \in Routes[s] \ {ggoto[s]}
                             THEN "SKIPPED" ELSE state[t]
      BY <2>1, Zenon DEF Marked
    <2>4. StatusFitsGoroutine'
      <3>1. /\ failure => failure'
            /\ gout[s] = "FAILED" => failure'
        BY <2>1, Zenon
      <3>2. ASSUME NEW t \in Steps, t # s
            PROVE  /\ gpc'[t] = gpc[t] /\ gout'[t] = gout[t]
                   /\ t \in outputs' <=> t \in outputs
                   /\ state'[t] # state[t] => state'[t] = "SKIPPED" /\ ~Started(t)
        BY <2>1, <2>2, <2>3, <3>2
      <3>3. /\ gpc'[s] = "releasing" /\ state'[s] = gout'[s] /\ gout'[s] = gout[s]
            /\ gout[s] = "COMPLETED" => s \in outputs'
        BY <2>1, <2>3
      <3> QED BY <2>1, <3>1, <3>2, <3>3
    <2>5. BranchesMarked'
      BY <2>1, <2>2, <2>3
    <2>6. DepsRespected'
      BY <2>1, <2>2, <2>3
    <2>7. SkipJustified'
      BY <2>1, <2>2, <2>3
    <2> QED BY <2>4, <2>5, <2>6, <2>7, Zenon
  <1>7. ASSUME NEW s \in Steps, Acquire(s) PROVE PipeInv'
    BY <1>7 DEF Acquire, sched
  <1>8. ASSUME NEW s \in Steps, Succeed(s) PROVE PipeInv'
    BY <1>8 DEF Succeed, Choices, sched, Routers
  <1>9. ASSUME NEW s \in Steps, Fail(s) PROVE PipeInv'
    BY <1>9 DEF Fail, sched
  <1>10. ASSUME NEW s \in Steps, Release(s) PROVE PipeInv'
    BY <1>10 DEF Release, sched
  <1>11. CASE LeaveLoop \/ Stall \/ Wait \/ Return
    BY <1>11 DEF LeaveLoop, Stall, Wait, Return
  <1> QED BY <1>1, <1>2, <1>3, <1>4, <1>5, <1>6, <1>7, <1>8, <1>9, <1>10, <1>11, Zenon
          DEF Next, Scheduler, Goroutine
\* The scheduler's maps agree with each other, with the dependency graph and
\* with the routers' choices in every state of a run.
THEOREM PipeSafe == Spec => []PipeInv
  <1>1. Init => PipeInv
    <2> SUFFICES ASSUME Init PROVE PipeInv
      BY Zenon
    <2>1. TypeOK
      BY InitType, Zenon
    <2> QED BY <2>1, Zenon DEF Init, PipeInv, StatusFitsGoroutine, BranchesMarked,
                        DepsRespected, SkipJustified, Started, InFlight
  <1> QED BY <1>1, PipeStep, PTL DEF Spec

\* A step starts only after all it waits for has completed, at most one target
\* of a router starts, and a step is skipped only by a router's choice or
\* behind a skipped step.
THEOREM BranchSafe == Spec => [](DepsRespected /\ OneBranch /\ SkipJustified)
  <1>1. PipeInv => DepsRespected /\ OneBranch /\ SkipJustified
    <2> SUFFICES ASSUME PipeInv,
                        NEW r \in Steps, NEW t \in Routes[r], NEW u \in Routes[r],
                        Started(t), Started(u)
                 PROVE  t = u
      BY Zenon DEF PipeInv, OneBranch
    <2>1. ASSUME NEW v \in Routes[r], Started(v) PROVE v = ggoto[r]
      <3>1. v \in Steps /\ r \in DepSet(v)
        BY GraphFacts, Zenon
      <3>2. state[r] = "COMPLETED"
        BY <2>1, <3>1, Zenon DEF PipeInv, DepsRespected
      <3>3. state[v] # "SKIPPED"
        BY <2>1, <3>1, Zenon DEF PipeInv, StatusFitsGoroutine, Started, InFlight, TypeOK,
                     GoPC
      <3> QED BY <3>2, <3>3, Zenon DEF PipeInv, BranchesMarked
    <2> QED BY <2>1, Zenon
  <1> QED BY <1>1, PipeSafe, PTL

\* No step runs on a dependency that has not completed, or that a router's
\* later decision takes away, in any pipeline.
COROLLARY LaunchesRespectDeps == Spec => []DepsRespected
  BY BranchSafe, PTL

\* Every skip goes back to a router that chose another branch.
COROLLARY SkipsAreJustified == Spec => []SkipJustified
  BY BranchSafe, PTL
-----------------------------------------------------------------------------
\* Launching and receiving keep the counter right.
LEMMA CountStep == PipeInv /\ RunningCounts /\ [Next]_vars => RunningCounts'
  <1> SUFFICES ASSUME PipeInv, RunningCounts, [Next]_vars PROVE RunningCounts'
    BY Zenon
  <1> DEFINE F == {s \in Steps : InFlight(s)}
  <1>1. TypeOK /\ IsFiniteSet(F)
    BY PipelineAssumption, FS_Subset, Zenon DEF PipeInv
  <1>2. ASSUME F' = F, UNCHANGED running PROVE RunningCounts'
    BY <1>2, Zenon DEF RunningCounts
  <1>3. CASE UNCHANGED vars
    BY <1>2, <1>3, Zenon DEF vars, InFlight
  <1>4. ASSUME NEW s \in Steps, Launch(s) PROVE RunningCounts'
    <2>1. s \notin F /\ F' = F \cup {s} /\ running' = running + 1
      BY <1>1, <1>4 DEF Launch, Launchable, PipeInv, StatusFitsGoroutine, Started,
                        InFlight, TypeOK
    <2> QED BY <1>1, <2>1, FS_AddElement, Zenon DEF RunningCounts
  <1>5. ASSUME NEW s \in Steps, Receive(s) PROVE RunningCounts'
    <2>1. s \in F /\ F' = F \ {s} /\ running' = running - 1
      BY <1>1, <1>5, Zenon DEF Receive, InFlight, TypeOK
    <2> QED BY <1>1, <2>1, FS_RemoveElement, Zenon DEF RunningCounts
  <1>6. ASSUME NEW s \in Steps, PassOver(s) \/ Skip(s) \/ LaunchFails(s)
        PROVE  RunningCounts'
    BY <1>2, <1>6, Zenon DEF PassOver, Skip, LaunchFails, InFlight
  <1>7. ASSUME NEW s \in Steps, Goroutine(s) PROVE RunningCounts'
    BY <1>1, <1>2, <1>7, Zenon DEF Goroutine, Acquire, Succeed, Choices, Fail, Release, sched,
                            InFlight, TypeOK
  <1>8. CASE LeaveLoop \/ Stall \/ Wait \/ Return
    BY <1>2, <1>8, Zenon DEF LeaveLoop, Stall, Wait, Return, InFlight
  <1> QED BY <1>3, <1>4, <1>5, <1>6, <1>7, <1>8, Zenon DEF Next, Scheduler

\* The loop's counter is the number of goroutines it has yet to hear from.
THEOREM CountCorrect == Spec => []RunningCounts
  <1>1. Init => RunningCounts
    <2> SUFFICES ASSUME Init PROVE RunningCounts
      BY Zenon
    <2>1. {s \in Steps : InFlight(s)} = {}
      BY Zenon DEF Init, InFlight
    <2> QED BY <2>1, FS_EmptySet, Zenon DEF Init, RunningCounts
  <1> QED BY <1>1, CountStep, PipeSafe, PTL DEF Spec

-----------------------------------------------------------------------------
\* A pass leaves a step pending only for a dependency without a status, and
\* only the rest of the same pass may give it one: SKIPPED.
LEMMA VisitStep == PipeInv /\ VisitedWaits /\ [Next]_vars => VisitedWaits'
  <1> SUFFICES ASSUME PipeInv, VisitedWaits, [Next]_vars PROVE VisitedWaits'
    BY Zenon
  <1>1. TypeOK
    BY Zenon DEF PipeInv
  <1> USE <1>1, ConstantTypes DEF VisitedWaits, SkippedLater, TypeOK
  <1>2. CASE UNCHANGED vars
    BY <1>2, Zenon DEF vars
  <1>3. ASSUME NEW s \in Steps, PassOver(s) PROVE VisitedWaits'
    <2>1. /\ pc = "admit" /\ ~failure /\ i' = i + 1 /\ i <= Len(Order)
          /\ s = Order[i]
          /\ UNCHANGED <<pending, state>>
      BY <1>3, Zenon DEF PassOver, Visiting
    <2>2. s \in pending => \E d \in DepSet(s) : state[d] = "none"
      BY <1>3, DepStatus, Zenon DEF PassOver
    <2> QED BY <2>1, <2>2
  <1>4. ASSUME NEW s \in Steps, Skip(s) PROVE VisitedWaits'
    <2>1. /\ pc = "admit" /\ ~failure /\ i' = i + 1 /\ i \in 1..Len(Order)
          /\ s = Order[i]
          /\ pending' = pending \ {s}
          /\ state' = [state EXCEPT ![s] = "SKIPPED"]
      BY <1>4 DEF Skip, Visiting
    <2> SUFFICES ASSUME NEW k \in 1..(i' - 1), Order[k] \in pending'
                 PROVE  \E t \in DepSet(Order[k]) :
                            state'[t] = "none" \/ SkippedLater(k, t)'
      BY Zenon
    <2>2. k \in 1..(i - 1) /\ Order[k] \in pending
      BY <2>1
    <2>3. PICK t \in DepSet(Order[k]) : state[t] = "none" \/ SkippedLater(k, t)
      BY <2>1, <2>2, Zenon
    <2>4. t \in Steps /\ state'[t] = IF t = s THEN "SKIPPED" ELSE state[t]
      BY <2>1, GraphFacts, Zenon
    <2>5. CASE t = s
      BY <2>1, <2>2, <2>4, <2>5
    <2>6. CASE t # s
      BY <2>3, <2>4, <2>6, Zenon
    <2> QED BY <2>5, <2>6, Zenon
  <1>5. ASSUME NEW s \in Steps, Launch(s) PROVE VisitedWaits'
    BY <1>5 DEF Launch, Launchable, Visiting
  <1>6. ASSUME NEW s \in Steps, LaunchFails(s) PROVE VisitedWaits'
    BY <1>6, Zenon DEF LaunchFails
  <1>7. ASSUME NEW s \in Steps, Receive(s) PROVE VisitedWaits'
    BY <1>7 DEF Receive
  <1>8. ASSUME NEW s \in Steps, Goroutine(s) PROVE VisitedWaits'
    <2>1. UNCHANGED <<pc, i, pending, failure, state>>
      BY <1>8, Zenon DEF Goroutine, Acquire, Succeed, Fail, Release, sched
    <2> QED BY <2>1, Zenon
  <1>9. CASE LeaveLoop \/ Stall \/ Wait \/ Return
    BY <1>9, Zenon DEF LeaveLoop, Stall, Wait, Return
  <1> QED BY <1>2, <1>3, <1>4, <1>5, <1>6, <1>7, <1>8, <1>9, Zenon DEF Next, Scheduler

\* A pass leaves a step pending only for a reason: a dependency without a
\* status, or one that the pass skipped after it had visited the step.
THEOREM WaitsExplained == Spec => []VisitedWaits
  <1>1. Init => VisitedWaits
    BY DEF Init, VisitedWaits
  <1> QED BY <1>1, VisitStep, PipeSafe, PTL DEF Spec

\* Of the pending steps of an acyclic pipeline, one waits for no other.
LEMMA FirstPending ==
  ASSUME Acyclic, NEW P, P \subseteq Steps, P # {}
  PROVE  \E s \in P : DepSet(s) \cap P = {}
  <1>1. PICK h \in [Steps -> Nat] : \A s \in Steps : \A d \in DepSet(s) : h[d] < h[s]
    BY Zenon DEF Acyclic
  <1> DEFINE H == {h[s] : s \in P}
  <1>2. H \subseteq Nat /\ H # {}
    BY <1>1, Zenon
  <1>3. PICK x \in H : \A y \in H : ~(<<y, x>> \in OpToRel(<, Nat))
    BY <1>2, WFMin, NatLessThanWellFounded, Zenon
  <1>4. \A y \in H : ~(y < x)
    BY <1>2, <1>3, Zenon DEF OpToRel
  <1>5. PICK s \in P : h[s] = x
    BY <1>3, Zenon
  <1>6. ASSUME NEW d \in DepSet(s), d \in P PROVE FALSE
    BY <1>1, <1>4, <1>5, <1>6, Zenon
  <1> QED BY <1>6, Zenon

\* When nothing is in flight and a full pass left steps pending, a step of an
\* acyclic pipeline waits for one that was skipped later in the pass.
LEMMA StallStep ==
  ASSUME Acyclic, PipeInv, RunningCounts, VisitedWaits, Stall
  PROVE  \E k \in 1..Len(Order) : \E t \in Steps :
            Order[k] \in pending /\ SkippedLater(k, t)
  <1>1. IsFiniteSet({u \in Steps : InFlight(u)})
    BY PipelineAssumption, FS_Subset, Zenon
  <1>2. {u \in Steps : InFlight(u)} = {}
    BY <1>1, FS_EmptySet, Zenon DEF Stall, RunningCounts
  <1>3. pending \subseteq Steps /\ pending # {}
    BY Zenon DEF Stall, PipeInv, TypeOK
  <1>4. PICK s \in pending : DepSet(s) \cap pending = {}
    BY <1>3, FirstPending, Zenon
  <1>5. PICK k \in 1..Len(Order) : Order[k] = s
    BY <1>3, PipelineAssumption, Zenon
  <1>6. PICK t \in DepSet(s) : state[t] = "none" \/ SkippedLater(k, t)
    BY <1>5, ConstantTypes DEF Stall, PassEnds, VisitedWaits, PipeInv, TypeOK
  <1>7. t \in Steps /\ t \notin pending /\ ~InFlight(t)
    BY <1>2, <1>3, <1>4, GraphFacts, Zenon
  <1>8. state[t] # "none"
    BY <1>7, Zenon DEF PipeInv, StatusFitsGoroutine
  <1> QED BY <1>5, <1>6, <1>7, <1>8, Zenon

\* A run of an acyclic pipeline that ends as "stalled" ends so because a skip
\* did not reach a step declared before the skipped one, and for no other
\* reason.
THEOREM StallsExplained == ASSUME Acyclic PROVE Spec => []StallExplained
  <1> DEFINE Ended == result # "none" => pc = "returned"
  <1>1. Init => StallExplained /\ Ended
    BY Zenon DEF Init, StallExplained
  <1>2. PipeInv /\ RunningCounts /\ VisitedWaits /\ StallExplained /\ Ended /\ [Next]_vars
            => StallExplained' /\ Ended'
    <2> SUFFICES ASSUME PipeInv, RunningCounts, VisitedWaits, StallExplained, Ended,
                        [Next]_vars
                 PROVE  StallExplained' /\ Ended'
      BY Zenon
    <2>1. CASE Stall
      <3>1. UNCHANGED <<pending, state>> /\ pc' = "returned"
        BY <2>1, Zenon DEF Stall
      <3>2. PICK k \in 1..Len(Order), t \in Steps :
                Order[k] \in pending /\ SkippedLater(k, t)
        BY <2>1, StallStep, Zenon
      <3>3. SkippedLater(k, t)'
        BY <3>1, <3>2, Zenon DEF SkippedLater
      <3> QED BY <3>1, <3>2, <3>3, Zenon DEF StallExplained
    <2>2. CASE Return
      BY <2>2, Zenon DEF Return, StallExplained
    <2>3. CASE UNCHANGED vars \/ \E s \in Steps : Goroutine(s)
      <3>1. UNCHANGED <<pc, result, pending, state>>
        BY <2>3, Zenon DEF vars, Goroutine, Acquire, Succeed, Fail, Release, sched
      <3>2. \A k, t : SkippedLater(k, t)' = SkippedLater(k, t)
        BY <3>1, Zenon DEF SkippedLater
      <3> QED BY <3>1, <3>2, Zenon DEF StallExplained
    <2>4. CASE LeaveLoop \/ Wait
                \/ \E s \in Steps : PassOver(s) \/ Skip(s) \/ Launch(s)
                                    \/ LaunchFails(s) \/ Receive(s)
      <3>1. pc \in {"admit", "wait"} /\ UNCHANGED result
        BY <2>4, Zenon DEF LeaveLoop, Wait, PassEnds, PassOver, Skip, Launch, LaunchFails,
                    Receive, Launchable, Visiting
      <3> QED BY <3>1, Zenon DEF StallExplained
    <2> QED BY <2>1, <2>2, <2>3, <2>4, Zenon DEF Next, Scheduler
  <1> QED BY <1>1, <1>2, PipeSafe, CountCorrect, WaitsExplained, PTL DEF Spec

\* A pipeline whose steps are declared after all they wait for never ends with
\* "stalled (unresolved dependencies)", however its routers choose.
THEOREM InOrderNeverStalls == ASSUME DeclaredInOrder PROVE Spec => []NeverStalls
  <1>1. Acyclic
    <2> DEFINE h == [s \in Steps |-> CHOOSE k \in 1..Len(Order) : Order[k] = s]
    <2>1. \A s \in Steps : h[s] \in 1..Len(Order) /\ Order[h[s]] = s
      BY PipelineAssumption, Zenon
    <2>2. h \in [Steps -> Nat]
      BY <2>1, ConstantTypes
    <2>3. ASSUME NEW s \in Steps, NEW d \in DepSet(s) PROVE h[d] < h[s]
      <3>1. PICK m \in 1..(h[s] - 1) : Order[m] = d
        <4> HIDE DEF h
        <4> QED BY <2>1, <2>3, Zenon DEF DeclaredInOrder
      <3>2. d \in Steps /\ m \in 1..Len(Order)
        BY <2>1, <2>3, <3>1, GraphFacts, ConstantTypes
      <3>3. h[d] = m
        BY <2>1, <3>1, <3>2, PipelineAssumption, Zenon
      <3> HIDE DEF h
      <3>4. h[s] \in 1..Len(Order)
        BY <2>1, Zenon
      <3> QED BY <3>1, <3>3, <3>4, ConstantTypes
    <2> QED BY <2>2, <2>3, Zenon DEF Acyclic
  <1>2. StallExplained => NeverStalls
    <2> SUFFICES ASSUME NEW k \in 1..Len(Order), NEW t \in Steps, SkippedLater(k, t)
                 PROVE  FALSE
      BY Zenon DEF StallExplained, NeverStalls
    <2>1. PICK m \in (k + 1)..Len(Order) : Order[m] = t
      BY Zenon DEF SkippedLater
    <2>2. PICK n \in 1..(k - 1) : Order[n] = t
      BY Zenon DEF SkippedLater, DeclaredInOrder
    <2>3. m \in 1..Len(Order) /\ n \in 1..Len(Order) /\ m # n
      BY <2>1, <2>2, ConstantTypes
    <2> QED BY <2>1, <2>2, <2>3, PipelineAssumption, Zenon
  <1> QED BY <1>1, <1>2, StallsExplained, PTL
-----------------------------------------------------------------------------
(***************************************************************************)
(* Which pipelines lose no outcome.  The loop ends with the first          *)
(* completion after the last launch, so all depends on how many steps can  *)
(* be in flight when nothing is pending: at most one, in a pipeline with   *)
(* one end.                                                                *)
(***************************************************************************)
\* A step that is no longer pending was skipped or had all it waits for.
DecidedFit ==
    \A t \in Steps \ pending :
        state[t] = "SKIPPED" \/ \A d \in DepSet(t) : state[d] = "COMPLETED"

\* No member of F is ever skipped.
NeverSkipped(F) == \A t \in F : state[t] # "SKIPPED"

\* What was received is in results, and what was started was received before
\* the call leaves its loop.
Drained ==
    /\ \A s \in Steps : gpc[s] \in {"releasing", "ended"} => results[s] = gout[s]
    /\ pc \in {"finish", "returned"} => \A s \in Steps : ~InFlight(s)

\* COMPLETED and SKIPPED are final.
LEMMA StatusStays ==
  ASSUME PipeInv, [Next]_vars
  PROVE  \A t \in Steps : state[t] \in {"COMPLETED", "SKIPPED"} => state'[t] = state[t]
  <1>0. TypeOK /\ StatusFitsGoroutine /\ DepsRespected
    BY Zenon DEF PipeInv
  <1>1. ASSUME NEW s \in Steps, Skip(s) \/ LaunchFails(s)
        PROVE  \A t \in Steps : state[t] \in {"COMPLETED", "SKIPPED"} => state'[t] = state[t]
    <2>1. s \in pending /\ (state' = [state EXCEPT ![s] = "SKIPPED"] \/ state[s] # "SKIPPED")
      BY <1>1, Zenon DEF Skip, LaunchFails, Launchable
    <2>2. state[s] \in {"none", "SKIPPED"}
      BY <1>0, <2>1, Zenon DEF StatusFitsGoroutine
    <2>3. \A t \in Steps : t # s => state'[t] = state[t]
      BY <1>0, <1>1, Zenon DEF TypeOK, Skip, LaunchFails
    <2> QED BY <1>0, <2>1, <2>2, <2>3, Zenon DEF TypeOK
  <1>2. ASSUME NEW s \in Steps, Receive(s)
        PROVE  \A t \in Steps : state[t] \in {"COMPLETED", "SKIPPED"} => state'[t] = state[t]
    <2>1. gpc[s] = "sending" /\ state' = Marked(s)
      BY <1>2, Zenon DEF Receive
    <2>2. InFlight(s) /\ state[s] = "none"
      BY <1>0, <2>1, Zenon DEF StatusFitsGoroutine, InFlight
    <2>3. \A t \in Routes[s] : t \in Steps /\ s \in DepSet(t)
      BY GraphFacts, Zenon
    <2>4. \A t \in Routes[s] : state[t] # "COMPLETED"
      BY <1>0, <2>2, <2>3, Zenon DEF StatusFitsGoroutine, DepsRespected
    <2>5. \A t \in Steps : t # s => state'[t] = state[t] \/ (state'[t] = "SKIPPED" /\ t \in Routes[s])
      BY <2>1, Zenon DEF Marked
    <2> QED BY <2>2, <2>4, <2>5, Zenon
  <1>3. ASSUME UNCHANGED state
        PROVE  \A t \in Steps : state[t] \in {"COMPLETED", "SKIPPED"} => state'[t] = state[t]
    BY <1>3, Zenon
  <1>4. ASSUME NEW s \in Steps, PassOver(s) \/ Launch(s) \/ Goroutine(s)
        PROVE  UNCHANGED state
    BY <1>4, Zenon DEF PassOver, Launch, Goroutine, Acquire, Succeed, Fail, Release, sched
  <1>5. LeaveLoop \/ Stall \/ Wait \/ Return \/ UNCHANGED vars => UNCHANGED state
    BY Zenon DEF LeaveLoop, Stall, Wait, Return, vars
  <1> QED BY <1>1, <1>2, <1>3, <1>4, <1>5, Zenon DEF Next, Scheduler

LEMMA DecidedStep ==
  ASSUME PipeInv, DecidedFit, [Next]_vars
  PROVE  DecidedFit'
  <1>1. \A t \in Steps : state[t] \in {"COMPLETED", "SKIPPED"} => state'[t] = state[t]
    BY StatusStays, Zenon
  <1>2. \A t \in Steps : DepSet(t) \subseteq Steps
    BY GraphFacts, Zenon
  <1>3. ASSUME NEW t \in Steps, t \notin pending
        PROVE  state'[t] = "SKIPPED" \/ \A d \in DepSet(t) : state'[d] = "COMPLETED"
    BY <1>1, <1>2, <1>3, Zenon DEF DecidedFit
  <1>4. ASSUME NEW t \in Steps, t \in pending, t \notin pending'
        PROVE  state'[t] = "SKIPPED" \/ \A d \in DepSet(t) : state'[d] = "COMPLETED"
    <2>1. ASSUME NEW s \in Steps, Launch(s) \/ LaunchFails(s)
          PROVE  t = s /\ Ready(s)
      BY <1>4, <2>1, Zenon DEF Launch, LaunchFails, Launchable
    <2>2. ASSUME NEW s \in Steps, Skip(s)
          PROVE  t = s /\ state'[s] = "SKIPPED"
      BY <1>4, <2>2, Zenon DEF Skip, PipeInv, TypeOK
    <2>3. ASSUME NEW s \in Steps, PassOver(s) \/ Receive(s) \/ Goroutine(s)
          PROVE  UNCHANGED pending
      BY <2>3, Zenon DEF PassOver, Receive, Goroutine, Acquire, Succeed, Fail, Release, sched
    <2>4. LeaveLoop \/ Stall \/ Wait \/ Return \/ UNCHANGED vars => UNCHANGED pending
      BY Zenon DEF LeaveLoop, Stall, Wait, Return, vars
    <2>5. (\E s \in Steps : Launch(s) \/ LaunchFails(s)) \/ (\E s \in Steps : Skip(s))
      BY <1>4, <2>3, <2>4, Zenon DEF Next, Scheduler
    <2>6. Ready(t) => \A d \in DepSet(t) : state'[d] = "COMPLETED"
      BY <1>1, <1>2, DepStatus, Zenon
    <2> QED BY <2>1, <2>2, <2>5, <2>6, Zenon
  <1> QED BY <1>3, <1>4, Zenon DEF DecidedFit

LEMMA FirmStep ==
  ASSUME NEW F \in SUBSET Steps,
         \A t \in F : DepSet(t) \subseteq F /\ \A r \in Steps : t \notin Routes[r],
         PipeInv, NeverSkipped(F), [Next]_vars
  PROVE  NeverSkipped(F)'
  <1>0. TypeOK
    BY Zenon DEF PipeInv
  <1> SUFFICES ASSUME NEW t \in F, state'[t] = "SKIPPED"
               PROVE  FALSE
    BY Zenon DEF NeverSkipped
  <1>1. state[t] # "SKIPPED" /\ t \in Steps
    BY Zenon DEF NeverSkipped
  <1>2. ASSUME NEW s \in Steps, Skip(s) PROVE FALSE
    <2>1. s = t
      BY <1>0, <1>1, <1>2, Zenon DEF Skip, TypeOK
    <2>2. SkipDue(t) /\ ~failure
      BY <1>1, <1>2, <2>1, Zenon DEF Skip, Visiting
    <2>3. PICK d \in DepSet(t) : state[d] \in {"SKIPPED", "FAILED"}
      BY <1>1, <2>2, DepStatus, Zenon
    <2>4. d \in F /\ d \in Steps
      BY <2>3, Zenon
    <2> QED BY <2>2, <2>3, <2>4, Zenon DEF NeverSkipped, PipeInv, StatusFitsGoroutine
  <1>3. ASSUME NEW s \in Steps, LaunchFails(s) PROVE FALSE
    BY <1>0, <1>1, <1>3, Zenon DEF LaunchFails, TypeOK
  <1>4. ASSUME NEW s \in Steps, Receive(s) PROVE FALSE
    <2>1. gpc[s] = "sending" /\ state' = Marked(s)
      BY <1>4, Zenon DEF Receive
    <2>2. gout[s] # "SKIPPED"
      BY <1>0, Zenon DEF TypeOK
    <2>3. state'[t] = state[t] \/ state'[t] = gout[s]
      BY <1>1, <2>1, Zenon DEF Marked
    <2> QED BY <1>1, <2>2, <2>3, Zenon
  <1>5. ASSUME NEW s \in Steps, PassOver(s) \/ Launch(s) \/ Goroutine(s)
        PROVE  FALSE
    BY <1>1, <1>5, Zenon DEF PassOver, Launch, Goroutine, Acquire, Succeed, Fail, Release, sched
  <1>6. ~(LeaveLoop \/ Stall \/ Wait \/ Return \/ UNCHANGED vars)
    BY <1>1, Zenon DEF LeaveLoop, Stall, Wait, Return, vars
  <1> QED BY <1>2, <1>3, <1>4, <1>5, <1>6, Zenon DEF Next, Scheduler

\* With nothing pending, a step in flight has no step that is decided after it.
LEMMA LastInFlight ==
  ASSUME PipeInv, DecidedFit, NEW F \in SUBSET Steps, NeverSkipped(F), pending = {},
         NEW u \in Steps, InFlight(u), NEW t \in Steps
  PROVE  ~DecidedAfter(t, u, F)
  <1> SUFFICES ASSUME DecidedAfter(t, u, F) PROVE FALSE
    BY Zenon
  <1>1. state[u] = "none" /\ u \in DepSet(t)
    BY Zenon DEF PipeInv, StatusFitsGoroutine, DecidedAfter
  <1>2. CASE state[t] = "SKIPPED"
    <2>1. PICK d \in DepSet(t) :
            state[d] = "SKIPPED" \/ (state[d] = "COMPLETED" /\ t \in Routes[d] \ {ggoto[d]})
      BY <1>2, Zenon DEF PipeInv, SkipJustified
    <2>2. d # u
      BY <1>1, <2>1, Zenon
    <2>3. d \in F /\ t \notin Routes[d]
      BY <2>1, <2>2, Zenon DEF DecidedAfter
    <2> QED BY <2>1, <2>3, Zenon DEF NeverSkipped
  <1>3. CASE state[t] # "SKIPPED"
    <2>1. state[u] = "COMPLETED"
      BY <1>1, <1>3, Zenon DEF DecidedFit
    <2> QED BY <1>1, <2>1, Zenon
  <1> QED BY <1>2, <1>3, Zenon

LEMMA DrainedStep ==
  ASSUME PipeInv, RunningCounts, Drained, [Next]_vars,
         pending = {} => \A y, z \in Steps : InFlight(y) /\ InFlight(z) => y = z
  PROVE  Drained'
  <1>0. TypeOK /\ StatusFitsGoroutine
    BY Zenon DEF PipeInv
  <1>1. ASSUME NEW s \in Steps, PassOver(s) PROVE Drained'
    BY <1>1, Zenon DEF PassOver, Visiting, Drained, InFlight
  <1>2. ASSUME NEW s \in Steps, Skip(s) \/ LaunchFails(s) PROVE Drained'
    <2>1. s \in pending /\ UNCHANGED <<pc, gpc, gout>> /\ pc = "admit"
      BY <1>2, Zenon DEF Skip, LaunchFails, Launchable, Visiting
    <2>2. gpc[s] = "none"
      BY <1>0, <2>1, Zenon DEF StatusFitsGoroutine, Started
    <2>3. \A t \in Steps : t # s => results'[t] = results[t]
      BY <1>0, <1>2, Zenon DEF TypeOK, Skip, LaunchFails
    <2> QED BY <2>1, <2>2, <2>3, Zenon DEF Drained
  <1>3. ASSUME NEW s \in Steps, Launch(s) PROVE Drained'
    <2>1. pc' = "admit" /\ UNCHANGED <<results, gout>> /\ gpc'[s] = "queued"
          /\ \A t \in Steps : t # s => gpc'[t] = gpc[t]
      BY <1>0, <1>3, Zenon DEF TypeOK, Launch, Launchable, Visiting
    <2> QED BY <2>1, Zenon DEF Drained
  <1>4. ASSUME NEW s \in Steps, Receive(s) PROVE Drained'
    <2>1. /\ gpc[s] = "sending" /\ gpc'[s] = "releasing" /\ results'[s] = gout'[s]
          /\ \A t \in Steps : t # s => gpc'[t] = gpc[t] /\ results'[t] = results[t]
          /\ pc' = (IF pending = {} THEN "finish" ELSE "admit") /\ UNCHANGED gout
      BY <1>0, <1>4, Zenon DEF TypeOK, Receive
    <2>2. \A t \in Steps : gpc'[t] \in {"releasing", "ended"} => results'[t] = gout'[t]
      BY <2>1, Zenon DEF Drained
    <2>3. ASSUME pc' \in {"finish", "returned"}, NEW t \in Steps PROVE ~InFlight(t)'
      <3>1. pending = {} /\ InFlight(s)
        BY <2>1, <2>3, Zenon DEF InFlight
      <3> QED BY <2>1, <3>1, Zenon DEF InFlight
    <2> QED BY <2>2, <2>3, Zenon DEF Drained
  <1>5. ASSUME NEW s \in Steps, Goroutine(s) PROVE Drained'
    <2>1. /\ UNCHANGED <<pc, results>>
          /\ \A t \in Steps : t # s => gpc'[t] = gpc[t] /\ gout'[t] = gout[t]
          /\ \/ InFlight(s) /\ gpc'[s] \in {"working", "sending"}
             \/ gpc[s] = "releasing" /\ gpc'[s] = "ended" /\ gout'[s] = gout[s]
      BY <1>0, <1>5, Zenon DEF TypeOK, Goroutine, Acquire, Succeed, Fail, Release, sched, InFlight
    <2> QED BY <2>1, Zenon DEF Drained, InFlight
  <1>6. CASE LeaveLoop \/ Stall
    <2>1. UNCHANGED <<results, gpc, gout>> /\ running = 0
      BY <1>6, Zenon DEF LeaveLoop, Stall
    <2>2. IsFiniteSet({s \in Steps : InFlight(s)})
      BY PipelineAssumption, FS_Subset, Zenon
    <2>3. {s \in Steps : InFlight(s)} = {}
      BY <2>1, <2>2, FS_EmptySet, Zenon DEF RunningCounts
    <2>4. \A s \in Steps : ~InFlight(s)'
      BY <2>1, <2>3, Zenon DEF InFlight
    <2> QED BY <2>1, <2>4, Zenon DEF Drained
  <1>7. CASE Wait \/ Return \/ UNCHANGED vars
    BY <1>7, Zenon DEF Wait, Return, vars, Drained, InFlight
  <1> QED BY <1>1, <1>2, <1>3, <1>4, <1>5, <1>6, <1>7, Zenon DEF Next, Scheduler

\* In a pipeline with one end the call returns, for each step it started, how
\* the step ended: the loop's early exit loses nothing.
THEOREM OneEndReturnsAll == ASSUME OneEnd PROVE Spec => []EveryOutcomeReturned
  <1>1. PICK F \in SUBSET Steps :
          /\ \A t \in F : DepSet(t) \subseteq F /\ \A r \in Steps : t \notin Routes[r]
          /\ \A y, z \in Steps :
              \/ y = z
              \/ \E r \in Steps : {y, z} \subseteq Routes[r]
              \/ \E t \in Steps : DecidedAfter(t, y, F) \/ DecidedAfter(t, z, F)
    BY Zenon DEF OneEnd
  <1> DEFINE EndInv == DecidedFit /\ NeverSkipped(F) /\ Drained
  <1>2. Init => EndInv
    BY Zenon DEF Init, DecidedFit, NeverSkipped, Drained
  <1>3. PipeInv /\ OneBranch /\ RunningCounts /\ EndInv /\ [Next]_vars => EndInv'
    <2> SUFFICES ASSUME PipeInv, OneBranch, RunningCounts, EndInv, [Next]_vars
                 PROVE  EndInv'
      BY Zenon
    <2>1. DecidedFit' /\ NeverSkipped(F)'
      BY <1>1, DecidedStep, FirmStep, Zenon
    <2>2. ASSUME pending = {}, NEW y \in Steps, NEW z \in Steps, InFlight(y), InFlight(z)
          PROVE  y = z
      <3>1. \A t \in Steps : ~DecidedAfter(t, y, F) /\ ~DecidedAfter(t, z, F)
        BY <2>2, LastInFlight, Zenon
      <3>2. Started(y) /\ Started(z)
        BY <2>2, Zenon DEF Started, InFlight
      <3> QED BY <1>1, <3>1, <3>2, Zenon DEF OneBranch
    <2>3. Drained'
      BY <2>2, DrainedStep, Zenon
    <2> QED BY <2>1, <2>3, Zenon
  <1>4. PipeInv /\ EndInv => EveryOutcomeReturned
    <2> SUFFICES ASSUME PipeInv, Drained, pc = "returned", NEW s \in Steps, Started(s)
                 PROVE  Outcome(s) = gout[s]
      BY Zenon DEF EveryOutcomeReturned
    <2>1. gpc[s] \in {"releasing", "ended"}
      BY Zenon DEF Drained, PipeInv, TypeOK, GoPC, Started, InFlight
    <2>2. results[s] = gout[s] /\ gout[s] # "none"
      BY <2>1, Zenon DEF Drained, PipeInv, StatusFitsGoroutine
    <2> QED BY <2>2, Zenon DEF Outcome
  <1> HIDE DEF EndInv
  <1> QED BY <1>2, <1>3, <1>4, PipeSafe, BranchSafe, CountCorrect, PTL DEF Spec
=============================================================================

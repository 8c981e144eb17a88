--------------------------- MODULE JobPoolProofs ---------------------------
(***************************************************************************)
(* Proofs about JobPool, for every number of jobs, workers and stops, every *)
(* queue capacity, and with or without store faults.                       *)
(***************************************************************************)
EXTENDS JobPool, FiniteSetTheorems, TLAPS

-----------------------------------------------------------------------------
\* The first process starts with every variable in its type.
LEMMA TypeInit == Init => TypeOK
  BY PoolAssumption DEF Init, TypeOK, JobStatus, Phase, Counters, NoMetrics,
       WorkerPC, Request, Busy

\* Creating a job, or failing to, keeps the types.
LEMMA TypeSubmit ==
  ASSUME TypeOK, NEW j \in Jobs, NEW r \in Replicas,
         SubmitCreate(r, j) \/ SubmitFails(r, j)
  PROVE  TypeOK'
  <1> USE PoolAssumption DEF TypeOK, Busy, store, main, worker, Request
  <1>1. CASE SubmitCreate(r, j)
    BY <1>1, Zenon DEF SubmitCreate, SetJobStatus, JobStatus
  <1>2. CASE SubmitFails(r, j)
    BY <1>2, Zenon DEF SubmitFails, SetJobStatus, JobStatus
  <1> QED BY <1>1, <1>2, Zenon

\* Counting keeps the type of the counters.
LEMMA CountType ==
  ASSUME NEW m \in [Replicas -> [Counters -> Nat]],
         NEW r \in Replicas, NEW c \in Counters
  PROVE  [m EXCEPT ![r][c] = @ + 1] \in [Replicas -> [Counters -> Nat]]
  <1>1. [m[r] EXCEPT ![c] = @ + 1] \in [Counters -> Nat]
    OBVIOUS
  <1> QED BY <1>1, Zenon

\* Accepting or refusing a created job keeps the types and the capacity.
LEMMA TypeEnqueue ==
  ASSUME TypeOK, NEW j \in Jobs, SubmitEnqueue(j) \/ SubmitQueueFull(j)
  PROVE  TypeOK'
  <1>1. via[j] \in Replicas /\ "submitted" \in Counters
    BY Zenon DEF TypeOK, SubmitEnqueue, SubmitQueueFull, Counters
  <1>2. metrics' \in [Replicas -> [Counters -> Nat]]
    <2>1. metrics' = [metrics EXCEPT ![via[j]]["submitted"] = @ + 1]
      BY Zenon DEF SubmitEnqueue, SubmitQueueFull
    <2>2. metrics \in [Replicas -> [Counters -> Nat]]
      BY Zenon DEF TypeOK
    <2> QED BY <1>1, <2>1, <2>2, CountType, Zenon
  <1>3. CASE SubmitEnqueue(j)
    <2>1. /\ queue' \in [Replicas -> Seq(Jobs)]
          /\ \A r \in Replicas : Len(queue'[r]) <= QueueCap
      BY <1>1, <1>3, PoolAssumption DEF TypeOK, SubmitEnqueue
    <2> QED BY <1>2, <1>3, <2>1
            DEF TypeOK, SubmitEnqueue, Busy, store, main, worker, Request
  <1>4. CASE SubmitQueueFull(j)
    BY <1>2, <1>4, Zenon DEF TypeOK, SubmitQueueFull, Busy, store, main, worker, Request
  <1> QED BY <1>3, <1>4, Zenon

\* Every step of a worker keeps the types.
LEMMA TypeWorker ==
  ASSUME TypeOK, NEW w \in Workers, WorkerStep(w)
  PROVE  TypeOK'
  <1> USE PoolAssumption DEF TypeOK, Busy, store, main, client, WorkerPC
  <1>1. CASE Dequeue(w)
    BY <1>1 DEF Dequeue
  <1>2. CASE Quit(w)
    BY <1>2, Zenon DEF Quit
  <1>3. CASE Load(w)
    BY <1>3, Zenon DEF Load
  <1>4. CASE LoadDrops(w)
    BY <1>4, Zenon DEF LoadDrops, Drop
  <1>5. CASE Claim(w)
    BY <1>5, Zenon DEF Claim, SetJobStatus, JobStatus
  <1>6. CASE ClaimFails(w)
    <2>1. wjob[w] \in Jobs
      BY <1>6, Zenon DEF ClaimFails
    <2> QED BY <1>6, <2>1, Zenon DEF ClaimFails, Drop, SetJobStatus, JobStatus
  <1>7. CASE Execute(w)
    BY <1>7 DEF Execute, Outcomes, Terminal
  <1>8. CASE AppendStepResult(w)
    <2>1. wjob[w] \in Jobs /\ wleft[w] - 1 \in Nat /\ rows[wjob[w]] + 1 \in Nat
      BY <1>8 DEF AppendStepResult
    <2>2. /\ rows \in [Jobs -> Nat] /\ wleft \in [Workers -> Nat]
          /\ rows' = [rows EXCEPT ![wjob[w]] = @ + 1] \/ rows' = rows
          /\ wleft' = [wleft EXCEPT ![w] = @ - 1]
      BY <1>8, Zenon DEF AppendStepResult
    <2>3. rows' \in [Jobs -> Nat] /\ wleft' \in [Workers -> Nat]
      <3> HIDE DEF TypeOK
      <3> QED BY <2>1, <2>2
    <2> QED BY <1>8, <2>3, Zenon DEF AppendStepResult
  <1>9. CASE Finish(w)
    <2>1. /\ wjob[w] \in Jobs /\ Home[w] \in Replicas
          /\ wout[w] \in JobStatus
          /\ (IF wout[w] = "FAILED" THEN "failed" ELSE "completed") \in Counters
      BY <1>9 DEF Finish, JobStatus, Counters
    <2>2. metrics' \in [Replicas -> [Counters -> Nat]]
      BY <1>9, <2>1, CountType, Zenon DEF Finish
    <2> QED BY <1>9, <2>1, <2>2, Zenon DEF Finish, Drop, SetJobStatus
  <1> QED BY <1>1, <1>2, <1>3, <1>4, <1>5, <1>6, <1>7, <1>8, <1>9, Zenon
          DEF WorkerStep

\* Start, requeue, shutdown and crash keep the types.
LEMMA TypeProcess ==
  ASSUME TypeOK, NEW r \in Replicas,
         Startup(r) \/ Close(r) \/ Exit(r) \/ Crash(r)
  PROVE  TypeOK'
  <1> USE PoolAssumption DEF TypeOK, Busy, store, worker, client, Phase
  <1>1. CASE NewPool(r)
    BY <1>1, Zenon DEF NewPool, WorkerPC
  <1>2. CASE ListOrphans(r)
    BY <1>2, Zenon DEF ListOrphans, Running
  <1>3. CASE ResetOrphan(r)
    BY <1>3 DEF ResetOrphan, SetJobStatus, JobStatus
  <1>4. CASE EnqueueOrphan(r)
    BY <1>4 DEF EnqueueOrphan
  <1>5. CASE RequeueFails(r)
    BY <1>5, Zenon DEF RequeueFails, SetJobStatus, JobStatus
  <1>6. CASE RequeueDone(r)
    BY <1>6, Zenon DEF RequeueDone
  <1>7. CASE Close(r)
    BY <1>7 DEF Close
  <1>8. ASSUME Halt(r), stops' \in 0..MaxStops PROVE TypeOK'
    BY <1>8 DEF Halt, NoMetrics, Counters, WorkerPC, Request
  <1>9. CASE Exit(r)
    BY <1>8, <1>9, Zenon DEF Exit
  <1>10. CASE Crash(r)
    BY <1>8, <1>10 DEF Crash
  <1> QED BY <1>1, <1>2, <1>3, <1>4, <1>5, <1>6, <1>7, <1>9, <1>10, Zenon
          DEF Startup

\* Type correctness, for any number of replicas: every action of the service
\* keeps every variable in its type and every queue within its capacity.
THEOREM TypeCorrect == Spec => []TypeOK
  <1>1. TypeOK /\ [Next]_vars => TypeOK'
    <2> SUFFICES ASSUME TypeOK, [Next]_vars PROVE TypeOK'
      BY Zenon
    <2>1. CASE UNCHANGED vars
      BY <2>1, Zenon DEF vars, TypeOK, Busy
    <2>2. CASE Next
      BY <2>2, TypeSubmit, TypeEnqueue, TypeWorker, TypeProcess, Zenon DEF Next
    <2> QED BY <2>1, <2>2, Zenon
  <1> QED BY <1>1, TypeInit, PTL DEF Spec

-----------------------------------------------------------------------------
(***************************************************************************)
(* PoolInv is inductive when all replicas are one and the same.  First what *)
(* the operations on the channel do to its contents.                       *)
(***************************************************************************)
SingleReplica == \A r, s \in Replicas : r = s

\* What is in a queue, and that it is there once, after a send.
LEMMA QueueAppend ==
  ASSUME TypeOK, NEW r \in Replicas, NEW j \in Jobs,
         queue' = [queue EXCEPT ![r] = Append(@, j)]
  PROVE  /\ \A k \in Jobs : InQueue(k)' => InQueue(k) \/ k = j
         /\ QueueDistinct /\ ~InQueue(j) => QueueDistinct'
  <1>1. queue \in [Replicas -> Seq(Jobs)]
    BY Zenon DEF TypeOK
  <1>2. \A s \in Replicas : s # r => queue'[s] = queue[s]
    BY <1>1, Zenon
  <1>3. /\ Len(queue'[r]) = Len(queue[r]) + 1
        /\ queue'[r][Len(queue[r]) + 1] = j
        /\ \A i \in 1..Len(queue[r]) : queue'[r][i] = queue[r][i]
        /\ Len(queue[r]) \in Nat
    BY <1>1
  <1>4. \A k \in Jobs : InQueue(k)' => InQueue(k) \/ k = j
    BY <1>2, <1>3 DEF InQueue
  <1>5. ASSUME QueueDistinct, ~InQueue(j) PROVE QueueDistinct'
    <2> SUFFICES ASSUME NEW s \in Replicas,
                        NEW i \in 1..Len(queue'[s]), NEW k \in 1..Len(queue'[s]),
                        queue'[s][i] = queue'[s][k]
                 PROVE  i = k
      BY Zenon DEF QueueDistinct
    <2>1. CASE s = r
      BY <1>3, <1>5, <2>1 DEF QueueDistinct, InQueue
    <2>2. CASE s # r
      BY <1>2, <1>5, <2>2, Zenon DEF QueueDistinct
    <2> QED BY <2>1, <2>2, Zenon
  <1> QED BY <1>4, <1>5, Zenon

\* What is in a queue, and that it is there once, after a receive.
LEMMA QueueTail ==
  ASSUME TypeOK, NEW r \in Replicas, queue[r] # << >>,
         NEW j, j = Head(queue[r]),
         queue' = [queue EXCEPT ![r] = Tail(@)]
  PROVE  /\ j \in Jobs
         /\ InQueue(j)
         /\ \A k \in Jobs : InQueue(k)' => InQueue(k)
         /\ QueueDistinct => QueueDistinct'
         /\ SingleReplica /\ QueueDistinct => ~InQueue(j)'
  <1>1. queue \in [Replicas -> Seq(Jobs)]
    BY Zenon DEF TypeOK
  <1>2. \A s \in Replicas : s # r => queue'[s] = queue[s]
    BY <1>1, Zenon
  <1>3. /\ Len(queue[r]) \in Nat /\ Len(queue[r]) > 0
        /\ Len(queue'[r]) = Len(queue[r]) - 1
        /\ \A i \in 1..Len(queue'[r]) : queue'[r][i] = queue[r][i + 1]
        /\ j = queue[r][1]
        /\ j \in Jobs
    BY <1>1
  <1>4. InQueue(j)
    BY <1>3 DEF InQueue
  <1>5. \A k \in Jobs : InQueue(k)' => InQueue(k)
    BY <1>2, <1>3 DEF InQueue
  <1>6. ASSUME QueueDistinct PROVE QueueDistinct'
    <2> SUFFICES ASSUME NEW s \in Replicas,
                        NEW i \in 1..Len(queue'[s]), NEW k \in 1..Len(queue'[s]),
                        queue'[s][i] = queue'[s][k]
                 PROVE  i = k
      BY Zenon DEF QueueDistinct
    <2>1. CASE s = r
      <3>1. queue[r][i + 1] = queue[r][k + 1]
        BY <1>3, <2>1, Zenon
      <3> QED BY <1>3, <1>6, <2>1, <3>1 DEF QueueDistinct
    <2>2. CASE s # r
      BY <1>2, <1>6, <2>2, Zenon DEF QueueDistinct
    <2> QED BY <2>1, <2>2, Zenon
  <1>7. ASSUME SingleReplica, QueueDistinct PROVE ~InQueue(j)'
    BY <1>3, <1>7 DEF SingleReplica, QueueDistinct, InQueue
  <1> QED BY <1>3, <1>4, <1>5, <1>6, <1>7, Zenon

\* Nothing changes for a step that leaves the queues alone.
LEMMA QueueSame ==
  ASSUME UNCHANGED queue
  PROVE  /\ \A k \in Jobs : InQueue(k)' => InQueue(k)
         /\ QueueDistinct => QueueDistinct'
  BY Zenon DEF InQueue, QueueDistinct

\* The parts of PoolInv that are about where a job is.
Places == ExclusiveRun /\ WaitingIsPending /\ OnePlace /\ OrphansUnowned

\* A step that touches neither the workers nor the queues leaves every job in
\* the queue or with the worker it was with.
LEMMA WorkersSame ==
  ASSUME PoolInv, UNCHANGED <<queue, wpc, wjob>>
  PROVE  /\ \A k \in Jobs : InQueue(k)' <=> InQueue(k)
         /\ \A w \in Workers : /\ Busy(w)' <=> Busy(w)
                               /\ Executing(w)' <=> Executing(w)
                               /\ \A k \in Jobs : HeldBy(w, k)' <=> HeldBy(w, k)
         /\ QueueDistinct' /\ ExclusiveRun'
  <1>1. /\ \A k \in Jobs : InQueue(k)' <=> InQueue(k)
        /\ QueueDistinct'
    BY Zenon DEF PoolInv, OnePlace, InQueue, QueueDistinct
  <1>2. \A w \in Workers : /\ Busy(w)' <=> Busy(w)
                           /\ Executing(w)' <=> Executing(w)
                           /\ \A k \in Jobs : HeldBy(w, k)' <=> HeldBy(w, k)
    BY Zenon DEF Busy, Executing, HeldBy
  <1>3. ExclusiveRun'
    BY Zenon DEF PoolInv, ExclusiveRun, Busy
  <1> QED BY <1>1, <1>2, <1>3, Zenon

\* A worker's job is with the worker only.
LEMMA HeldAlone ==
  ASSUME PoolInv, NEW w \in Workers, Busy(w)
  PROVE  /\ wjob[w] \in Jobs /\ HeldBy(w, wjob[w])
         /\ request[wjob[w]] \notin {"none", "created"} /\ ~InQueue(wjob[w])
         /\ \A r \in Replicas : orphan[r] # wjob[w] /\ wjob[w] \notin todo[r]
         /\ \A v \in Workers : HeldBy(v, wjob[w]) => v = w
  <1>1. wjob[w] \in Jobs /\ HeldBy(w, wjob[w])
    BY Zenon DEF PoolInv, TypeOK, HeldBy
  <1>2. status[wjob[w]] # "ABSENT"
    BY <1>1, Zenon DEF PoolInv, WaitingIsPending
  <1>3. request[wjob[w]] \notin {"none", "created"} /\ ~InQueue(wjob[w])
    BY <1>1, <1>2, Zenon DEF PoolInv, WaitingIsPending, OnePlace
  <1>4. \A r \in Replicas : orphan[r] # wjob[w]
    BY <1>1, Zenon DEF PoolInv, OnePlace
  <1>5. \A r \in Replicas : wjob[w] \notin todo[r]
    BY <1>1, Zenon DEF PoolInv, OrphansUnowned
  <1>6. \A v \in Workers : HeldBy(v, wjob[w]) => v = w
    BY Zenon DEF PoolInv, ExclusiveRun, HeldBy
  <1> QED BY <1>1, <1>3, <1>4, <1>5, <1>6, Zenon

\* A busy worker goes on to p: it goes back to the select, or keeps its job
\* with the status that belongs to p.  No other job's status changes.
LEMMA WorkerMoves ==
  ASSUME PoolInv, NEW w \in Workers, NEW p, Busy(w),
         UNCHANGED <<queue, phase, todo, orphan, request, via>>,
         wpc' = [wpc EXCEPT ![w] = p],
         \A v \in Workers \ {w} : wjob'[v] = wjob[v],
         \A k \in Jobs : k # wjob[w] => status'[k] = status[k],
         \/ p = "idle"
         \/ /\ wjob'[w] = wjob[w]
            /\ \/ p = "claim" /\ status'[wjob[w]] = "PENDING"
               \/ p \in {"exec", "record"} /\ status'[wjob[w]] = "RUNNING"
  PROVE  Places'
  <1>1. /\ wpc'[w] = p
        /\ \A v \in Workers \ {w} : wpc'[v] = wpc[v]
    BY Zenon DEF PoolInv, TypeOK
  <1>2. /\ \A k \in Jobs : InQueue(k)' => InQueue(k)
        /\ QueueDistinct'
    BY QueueSame, Zenon DEF PoolInv, OnePlace
  <1>3. \A v \in Workers : Busy(v)' => Busy(v) /\ wjob'[v] = wjob[v]
    BY <1>1, Zenon DEF Busy
  <1>4. \A v \in Workers, k \in Jobs : HeldBy(v, k)' => HeldBy(v, k)
    BY <1>3, Zenon DEF HeldBy
  <1>5. ExclusiveRun'
    BY <1>3, Zenon DEF PoolInv, ExclusiveRun
  <1>6. ASSUME NEW v \in Workers, NEW k \in Jobs, HeldBy(v, k)'
        PROVE  status'[k] = IF Executing(v)' THEN "RUNNING" ELSE "PENDING"
    <2>1. CASE v = w
      <3>1. k = wjob[w] /\ p # "idle"
        BY <1>1, <1>3, <1>6, <2>1, Zenon DEF HeldBy, Busy
      <3> QED BY <1>1, <2>1, <3>1, Zenon DEF Executing
    <2>2. CASE v # w
      <3>1. HeldBy(v, k) /\ k # wjob[w]
        BY <1>4, <1>6, <2>2, HeldAlone
      <3>2. Executing(v)' <=> Executing(v)
        BY <1>1, <2>2, Zenon DEF Executing
      <3>3. status[k] = IF Executing(v) THEN "RUNNING" ELSE "PENDING"
        BY <3>1, Zenon DEF PoolInv, WaitingIsPending
      <3>4. status'[k] = status[k]
        BY <3>1, Zenon
      <3> QED BY <3>2, <3>3, <3>4, Zenon
    <2> QED BY <2>1, <2>2, Zenon
  <1>7. WaitingIsPending'
    <2>1. ASSUME NEW k \in Jobs,
                 \/ request[k] \in {"none", "created"} \/ InQueue(k)
                 \/ \E r \in Replicas : orphan[r] = k
          PROVE  status'[k] = status[k]
      BY <2>1, HeldAlone, Zenon
    <2> QED BY <1>2, <1>6, <2>1 DEF PoolInv, WaitingIsPending
  <1>8. OnePlace'
    BY <1>2, <1>4, Zenon DEF PoolInv, OnePlace
  <1>9. OrphansUnowned'
    <2> SUFFICES ASSUME NEW r \in Replicas
                 PROVE  /\ \A k \in todo[r] :
                             /\ status'[k] = "RUNNING"
                             /\ \A v \in Workers : ~HeldBy(v, k)'
                        /\ phase[r] # "requeueing" => todo[r] = {} /\ orphan[r] = NoJob
                        /\ phase[r] \in {"down", "listing"} =>
                             queue[r] = << >> /\ \A v \in WorkersOf(r) : ~Busy(v)'
      BY Zenon DEF OrphansUnowned, WorkersOf
    <2>1. \A k \in todo[r] : k \in Jobs /\ k # wjob[w]
      BY HeldAlone DEF PoolInv, TypeOK
    <2> QED BY <1>3, <1>4, <2>1, Zenon DEF PoolInv, OrphansUnowned, WorkersOf
  <1> QED BY <1>5, <1>7, <1>8, <1>9, Zenon DEF Places

\* A new job has no place but its handler.
LEMMA PlacesSubmit ==
  ASSUME PoolInv, NEW j \in Jobs, NEW r \in Replicas,
         SubmitCreate(r, j) \/ SubmitFails(r, j)
  PROVE  Places'
  <1>1. /\ UNCHANGED <<queue, phase, todo, orphan, wpc, wjob>>
        /\ request[j] = "none" /\ phase[r] \in {"serving", "closing"}
        /\ \A k \in Jobs : k # j => /\ status'[k] = status[k]
                                    /\ request'[k] = request[k]
                                    /\ via'[k] = via[k]
        /\ \/ request'[j] = "created" /\ status'[j] = "PENDING" /\ via'[j] = r
           \/ request'[j] = "error" /\ status'[j] \in {status[j], "PENDING"}
    BY DEF PoolInv, TypeOK, SubmitCreate, SubmitFails, SetJobStatus, main,
           worker, store
  <1>2. status[j] = "ABSENT"
    BY <1>1, Zenon DEF PoolInv, WaitingIsPending
  <1>3. /\ ~InQueue(j)
        /\ \A s \in Replicas : orphan[s] # j /\ j \notin todo[s]
        /\ \A w \in Workers : ~HeldBy(w, j)
    BY <1>2, Zenon DEF PoolInv, WaitingIsPending, OrphansUnowned
  <1>4. /\ \A k \in Jobs : InQueue(k)' <=> InQueue(k)
        /\ \A w \in Workers : /\ Busy(w)' <=> Busy(w)
                              /\ Executing(w)' <=> Executing(w)
                              /\ \A k \in Jobs : HeldBy(w, k)' <=> HeldBy(w, k)
        /\ QueueDistinct' /\ ExclusiveRun'
    BY <1>1, WorkersSame, Zenon
  <1>5. WaitingIsPending'
    <2> SUFFICES ASSUME NEW k \in Jobs PROVE WaitingIsPending!(k)'
      BY Zenon DEF WaitingIsPending
    <2>1. CASE k = j
      BY <1>1, <1>2, <1>3, <1>4, <2>1, Zenon
    <2>2. CASE k # j
      BY <1>1, <1>4, <2>2, ZenonT(60) DEF PoolInv, WaitingIsPending
    <2> QED BY <2>1, <2>2, Zenon
  <1>6. OnePlace'
    BY <1>1, <1>3, <1>4, Zenon DEF PoolInv, OnePlace
  <1>7. OrphansUnowned'
    <2>1. \A s \in Replicas : \A k \in todo[s] : k \in Jobs /\ k # j
      BY <1>3, Zenon DEF PoolInv, TypeOK
    <2> QED BY <1>1, <1>4, <2>1, ZenonT(60) DEF PoolInv, OrphansUnowned, WorkersOf
  <1> QED BY <1>4, <1>5, <1>6, <1>7, Zenon DEF Places

\* Submit hands the job from the handler to the queue, or leaves it PENDING.
LEMMA PlacesEnqueue ==
  ASSUME SingleReplica, PoolInv, NEW j \in Jobs,
         SubmitEnqueue(j) \/ SubmitQueueFull(j)
  PROVE  Places'
  <1>1. /\ UNCHANGED <<status, phase, todo, orphan, wpc, wjob, via>>
        /\ request[j] = "created" /\ request'[j] \in {"accepted", "queue_full"}
        /\ \A k \in Jobs : k # j => request'[k] = request[k]
        /\ via[j] \in Replicas
    BY Zenon DEF PoolInv, TypeOK, SubmitEnqueue, SubmitQueueFull, main, worker, store
  <1>2. /\ status[j] = "PENDING" /\ phase[via[j]] \in {"serving", "closing"}
        /\ ~InQueue(j) /\ QueueDistinct
        /\ \A w \in Workers : ~HeldBy(w, j)
        /\ \A r \in Replicas : orphan[r] # j
    BY <1>1, Zenon DEF PoolInv, WaitingIsPending, OnePlace
  <1>3. /\ \A k \in Jobs : InQueue(k)' => InQueue(k) \/ k = j
        /\ QueueDistinct'
    <2>1. \/ queue' = [queue EXCEPT ![via[j]] = Append(@, j)]
          \/ UNCHANGED queue
      BY Zenon DEF SubmitEnqueue, SubmitQueueFull
    <2>2. TypeOK
      BY Zenon DEF PoolInv
    <2> QED BY <1>1, <1>2, <2>1, <2>2, QueueAppend, QueueSame, Zenon
  <1>4. \A w \in Workers : /\ Busy(w)' <=> Busy(w)
                           /\ Executing(w)' <=> Executing(w)
                           /\ \A k \in Jobs : HeldBy(w, k)' <=> HeldBy(w, k)
    BY <1>1, Zenon DEF Busy, Executing, HeldBy
  <1>5. ExclusiveRun'
    BY <1>1, <1>4, Zenon DEF PoolInv, ExclusiveRun
  <1>6. WaitingIsPending'
    BY <1>1, <1>2, <1>3, <1>4 DEF PoolInv, WaitingIsPending
  <1>7. OnePlace'
    BY <1>1, <1>2, <1>3, <1>4, Zenon DEF PoolInv, OnePlace
  <1>8. OrphansUnowned'
    <2>1. \A r \in Replicas : phase[r] \in {"serving", "closing"}
      BY <1>1, <1>2, Zenon DEF SingleReplica
    <2> QED BY <1>1, <1>4, <2>1, Zenon DEF PoolInv, OrphansUnowned
  <1> QED BY <1>5, <1>6, <1>7, <1>8, Zenon DEF Places

\* A worker takes a job out of the queue, claims it, runs it and lets it go.
LEMMA PlacesWorker ==
  ASSUME SingleReplica, PoolInv, NEW w \in Workers, WorkerStep(w)
  PROVE  Places'
  <1>1. CASE Dequeue(w)
    <2> DEFINE r == Home[w]
               j == Head(queue[r])
    <2>0. /\ r \in Replicas /\ queue[r] # << >>
          /\ queue' = [queue EXCEPT ![r] = Tail(@)]
      BY <1>1, PoolAssumption, Zenon DEF Dequeue
    <2>1. /\ wpc[w] = "idle"
          /\ UNCHANGED <<status, phase, todo, orphan, request, via>>
          /\ wpc'[w] = "load" /\ wjob'[w] = j
          /\ \A v \in Workers \ {w} : wpc'[v] = wpc[v] /\ wjob'[v] = wjob[v]
      BY <1>1, Zenon DEF PoolInv, TypeOK, Dequeue, store, main, client
    <2>2. /\ j \in Jobs /\ InQueue(j)
          /\ \A k \in Jobs : InQueue(k)' => InQueue(k) /\ k # j
          /\ QueueDistinct'
      <3>1. TypeOK /\ QueueDistinct
        BY Zenon DEF PoolInv, OnePlace
      <3> QED BY <2>0, <3>1, QueueTail, Zenon
    <2> HIDE DEF j
    <2>3. /\ status[j] = "PENDING" /\ request[j] # "created"
          /\ \A v \in Workers : ~HeldBy(v, j)
          /\ \A s \in Replicas : orphan[s] # j
      BY <2>2, Zenon DEF PoolInv, WaitingIsPending, OnePlace
    <2>4. \A v \in Workers, k \in Jobs :
             HeldBy(v, k)' => HeldBy(v, k) \/ (v = w /\ k = j)
      <3>1. ASSUME NEW v \in Workers, NEW k \in Jobs, HeldBy(v, k)', v # w
            PROVE  HeldBy(v, k)
        <4>1. wpc'[v] = wpc[v] /\ wjob'[v] = wjob[v]
          BY <2>1, <3>1, Zenon
        <4> QED BY <3>1, <4>1, Zenon DEF HeldBy, Busy
      <3>2. ASSUME NEW v \in Workers, NEW k \in Jobs, HeldBy(v, k)', v = w
            PROVE  k = j
        <4>1. wjob'[w] = k
          BY <3>2, Zenon DEF HeldBy
        <4> QED BY <2>1, <4>1, Zenon
      <3> QED BY <3>1, <3>2, Zenon
    <2>5. \A v \in Workers : Executing(v)' <=> Executing(v)
      BY <2>1, Zenon DEF Executing
    <2>6. ExclusiveRun'
      <3>1. \A v \in Workers : Busy(v) => wjob[v] # j
        BY <2>3, Zenon DEF HeldBy
      <3>2. \A v \in Workers : Busy(v)' => v = w \/ Busy(v)
        BY <2>1, Zenon DEF Busy
      <3> QED BY <2>1, <3>1, <3>2, Zenon DEF PoolInv, ExclusiveRun
    <2>7. WaitingIsPending'
      <3>1. ~Executing(w)
        BY <2>1, Zenon DEF Executing
      <3> QED BY <2>1, <2>2, <2>3, <2>4, <2>5, <3>1
              DEF PoolInv, WaitingIsPending
    <2>8. OnePlace'
      BY <2>1, <2>2, <2>3, <2>4, Zenon DEF PoolInv, OnePlace
    <2>9. OrphansUnowned'
      <3>1. \A s \in Replicas : s = r /\ phase[s] \notin {"down", "listing"}
        BY <2>0 DEF PoolInv, OrphansUnowned, SingleReplica
      <3>2. \A s \in Replicas : \A k \in todo[s] : k \in Jobs /\ k # j
        BY <2>3, Zenon DEF PoolInv, TypeOK, OrphansUnowned
      <3> QED BY <2>1, <2>4, <3>1, <3>2, Zenon DEF PoolInv, OrphansUnowned
    <2> QED BY <2>6, <2>7, <2>8, <2>9, Zenon DEF Places
  <1>2. CASE Quit(w)
    <2>1. /\ UNCHANGED <<status, queue, phase, todo, orphan, wjob, request, via>>
          /\ \A v \in Workers : /\ Busy(v)' <=> Busy(v)
                                /\ Executing(v)' <=> Executing(v)
      BY <1>2, Zenon DEF PoolInv, TypeOK, Quit, store, main, client, Busy, Executing
    <2>2. /\ \A k \in Jobs : InQueue(k)' => InQueue(k)
          /\ QueueDistinct'
      BY <2>1, QueueSame, Zenon DEF PoolInv, OnePlace
    <2>3. \A v \in Workers, k \in Jobs : HeldBy(v, k)' <=> HeldBy(v, k)
      BY <2>1, Zenon DEF HeldBy
    <2>4. ExclusiveRun'
      BY <2>1, Zenon DEF PoolInv, ExclusiveRun
    <2>5. WaitingIsPending'
      BY <2>1, <2>2, <2>3, Zenon DEF PoolInv, WaitingIsPending
    <2>6. OnePlace'
      BY <2>1, <2>2, <2>3, Zenon DEF PoolInv, OnePlace
    <2>7. OrphansUnowned'
      BY <2>1, <2>3, Zenon DEF PoolInv, TypeOK, OrphansUnowned, WorkersOf
    <2> QED BY <2>4, <2>5, <2>6, <2>7, Zenon DEF Places
  <1>3. ASSUME Busy(w) PROVE wjob[w] \in Jobs
               /\ status[wjob[w]] = IF Executing(w) THEN "RUNNING" ELSE "PENDING"
    BY <1>3, HeldAlone, Zenon DEF PoolInv, WaitingIsPending
  <1>4. CASE Load(w)
    <2>1. Busy(w) /\ ~Executing(w)
      BY <1>4, Zenon DEF Load, Busy, Executing
    <2> QED BY <1>3, <1>4, <2>1, WorkerMoves, Zenon
            DEF Load, store, main, client
  <1>5. CASE LoadDrops(w) \/ ClaimFails(w)
    <2>1. Busy(w)
      BY <1>5, Zenon DEF LoadDrops, ClaimFails, Busy
    <2>2. /\ UNCHANGED <<queue, phase, todo, orphan, request, via>>
          /\ wpc' = [wpc EXCEPT ![w] = "idle"]
          /\ \A v \in Workers \ {w} : wjob'[v] = wjob[v]
          /\ \A k \in Jobs : k # wjob[w] => status'[k] = status[k]
      BY <1>3, <1>5, <2>1 DEF PoolInv, TypeOK, LoadDrops, ClaimFails, Drop, store,
                  main, client, SetJobStatus
    <2> QED BY <2>1, <2>2, WorkerMoves, Zenon
  <1>6. CASE Claim(w)
    <2>1. Busy(w)
      BY <1>6, Zenon DEF Claim, Busy
    <2>2. /\ UNCHANGED <<queue, phase, todo, orphan, request, via, wjob>>
          /\ wpc' = [wpc EXCEPT ![w] = "exec"]
          /\ status'[wjob[w]] = "RUNNING"
          /\ \A k \in Jobs : k # wjob[w] => status'[k] = status[k]
      BY <1>3, <1>6, <2>1, Zenon DEF PoolInv, TypeOK, Claim, SetJobStatus, main, client
    <2> QED BY <2>1, <2>2, WorkerMoves, Zenon
  <1>7. CASE Execute(w)
    <2>1. Busy(w) /\ Executing(w)
      BY <1>7, Zenon DEF Execute, Busy, Executing
    <2>2. /\ UNCHANGED <<queue, phase, todo, orphan, request, via, wjob, status>>
          /\ wpc' = [wpc EXCEPT ![w] = "record"]
      BY <1>7, Zenon DEF Execute, store, main, client
    <2> QED BY <1>3, <2>1, <2>2, WorkerMoves, Zenon
  <1>8. CASE AppendStepResult(w)
    <2>1. Busy(w) /\ Executing(w)
      BY <1>8, Zenon DEF AppendStepResult, Busy, Executing
    <2>2. /\ UNCHANGED <<queue, phase, todo, orphan, request, via, wjob, status>>
          /\ wpc' = [wpc EXCEPT ![w] = "record"]
      BY <1>8, Zenon DEF PoolInv, TypeOK, AppendStepResult, main, client
    <2> QED BY <1>3, <2>1, <2>2, WorkerMoves, Zenon
  <1>9. CASE Finish(w)
    <2>1. Busy(w)
      BY <1>9, Zenon DEF Finish, Busy
    <2>2. /\ UNCHANGED <<queue, phase, todo, orphan, request, via>>
          /\ wpc' = [wpc EXCEPT ![w] = "idle"]
          /\ \A v \in Workers \ {w} : wjob'[v] = wjob[v]
          /\ \A k \in Jobs : k # wjob[w] => status'[k] = status[k]
      BY <1>9, Zenon DEF PoolInv, TypeOK, Finish, Drop, SetJobStatus, main, client
    <2> QED BY <2>1, <2>2, WorkerMoves, Zenon
  <1> QED BY <1>1, <1>2, <1>4, <1>5, <1>6, <1>7, <1>8, <1>9, Zenon DEF WorkerStep

\* A start takes over only jobs that nobody has.
LEMMA PlacesStart ==
  ASSUME SingleReplica, PoolInv, NEW r \in Replicas,
         \/ ListOrphans(r) \/ ResetOrphan(r) \/ RequeueFails(r)
         \/ RequeueDone(r) \/ Close(r)
  PROVE  Places'
  <1>1. /\ UNCHANGED <<queue, wpc, wjob, request, via>>
        /\ \A s \in Replicas : s = r
    BY Zenon DEF ListOrphans, ResetOrphan, RequeueFails, RequeueDone, Close, store,
           worker, client, SingleReplica
  <1>2. /\ \A k \in Jobs : InQueue(k)' <=> InQueue(k)
        /\ \A w \in Workers : /\ Busy(w)' <=> Busy(w)
                              /\ Executing(w)' <=> Executing(w)
                              /\ \A k \in Jobs : HeldBy(w, k)' <=> HeldBy(w, k)
        /\ QueueDistinct' /\ ExclusiveRun'
    BY <1>1, WorkersSame, Zenon
  <1>3. ASSUME UNCHANGED <<status, orphan>>,
               phase'[r] \in {"serving", "closing"} \/ phase[r] = "listing"
        PROVE  WaitingIsPending' /\ OnePlace'
    <2>1. \A k \in Jobs : request[k] = "created" => via[k] = r
      BY <1>1, Zenon DEF PoolInv, TypeOK
    <2>2. WaitingIsPending'
      BY <1>1, <1>2, <1>3, <2>1, Zenon DEF PoolInv, WaitingIsPending
    <2>3. OnePlace'
      BY <1>1, <1>2, <1>3, Zenon DEF PoolInv, OnePlace
    <2> QED BY <2>2, <2>3, Zenon
  <1>4. CASE ListOrphans(r)
    <2>1. /\ UNCHANGED <<status, orphan>> /\ phase[r] = "listing"
          /\ phase'[r] = "requeueing" /\ todo'[r] = Running
      BY <1>4, Zenon DEF PoolInv, TypeOK, ListOrphans, store
    <2>2. \A w \in Workers : ~Busy(w)
      <3>1. \A w \in WorkersOf(r) : ~Busy(w)
        BY <2>1, Zenon DEF PoolInv, OrphansUnowned
      <3> QED BY <1>1, <3>1, PoolAssumption, Zenon DEF WorkersOf
    <2>3. OrphansUnowned'
      BY <1>1, <1>2, <2>1, <2>2, Zenon DEF OrphansUnowned, Running, HeldBy
    <2> QED BY <1>2, <1>3, <2>1, <2>3, Zenon DEF Places
  <1>5. CASE ResetOrphan(r)
    <2>1. PICK j \in todo[r] :
             /\ phase[r] = "requeueing" /\ orphan[r] = NoJob
             /\ SetJobStatus(j, "PENDING")
             /\ todo' = [todo EXCEPT ![r] = @ \ {j}]
             /\ orphan' = [orphan EXCEPT ![r] = j]
             /\ UNCHANGED phase
      BY <1>5, Zenon DEF ResetOrphan
    <2>2. /\ j \in Jobs /\ orphan'[r] = j /\ status'[j] = "PENDING"
          /\ todo'[r] = todo[r] \ {j}
          /\ \A k \in Jobs : k # j => status'[k] = status[k]
      BY <2>1, Zenon DEF PoolInv, TypeOK, SetJobStatus
    <2>3. status[j] = "RUNNING" /\ \A w \in Workers : ~HeldBy(w, j)
      BY Zenon DEF PoolInv, OrphansUnowned
    <2>4. request[j] \notin {"none", "created"} /\ ~InQueue(j)
      BY <2>2, <2>3, Zenon DEF PoolInv, WaitingIsPending
    <2>5. WaitingIsPending'
      <3> SUFFICES ASSUME NEW k \in Jobs PROVE WaitingIsPending!(k)'
        BY Zenon DEF WaitingIsPending
      <3>1. CASE k = j
        BY <1>1, <1>2, <2>2, <2>3, <2>4, <3>1, Zenon
      <3>2. CASE k # j
        BY <1>1, <1>2, <2>1, <2>2, <3>2, Zenon DEF PoolInv, WaitingIsPending
      <3> QED BY <3>1, <3>2, Zenon
    <2>6. OnePlace'
      <3>1. \A k \in Jobs : orphan'[r] = k => k = j
        BY <2>2, Zenon
      <3> QED BY <1>1, <1>2, <2>3, <2>4, <3>1, Zenon DEF PoolInv, OnePlace
    <2>7. OrphansUnowned'
      <3>1. \A k \in todo'[r] : /\ k \in Jobs /\ status'[k] = "RUNNING"
                                /\ \A w \in Workers : ~HeldBy(w, k)
        BY <2>2, Zenon DEF PoolInv, TypeOK, OrphansUnowned
      <3> QED BY <1>1, <1>2, <2>1, <3>1, Zenon DEF OrphansUnowned
    <2> QED BY <1>2, <2>5, <2>6, <2>7, Zenon DEF Places
  <1>6. CASE (RequeueFails(r) /\ UNCHANGED status) \/ RequeueDone(r) \/ Close(r)
    <2>1. /\ UNCHANGED <<status, orphan>>
          /\ phase'[r] \in {"serving", "closing"}
          /\ todo'[r] = {} /\ orphan[r] = NoJob
      BY <1>6, Zenon DEF PoolInv, TypeOK, OrphansUnowned, RequeueFails, RequeueDone,
                  Close, store
    <2>2. OrphansUnowned'
      BY <1>1, <2>1, Zenon DEF OrphansUnowned
    <2> QED BY <1>2, <1>3, <2>1, <2>2, Zenon DEF Places
  <1>7. CASE RequeueFails(r) /\ \E j \in todo[r] : SetJobStatus(j, "PENDING")
    <2>1. PICK j \in todo[r] : SetJobStatus(j, "PENDING")
      BY <1>7, Zenon
    <2>2. /\ j \in Jobs /\ status'[j] = "PENDING"
          /\ \A k \in Jobs : k # j => status'[k] = status[k]
          /\ phase'[r] = "serving" /\ todo'[r] = {} /\ orphan' = orphan
      BY <1>7, <2>1, Zenon DEF PoolInv, TypeOK, SetJobStatus, RequeueFails
    <2>3. status[j] = "RUNNING" /\ \A w \in Workers : ~HeldBy(w, j)
      BY Zenon DEF PoolInv, OrphansUnowned
    <2>4. phase[r] = "requeueing" /\ orphan[r] = NoJob
      BY <1>7, <2>1, Zenon DEF PoolInv, OrphansUnowned, RequeueFails
    <2>5. request[j] \notin {"none", "created"} /\ ~InQueue(j)
      BY <2>2, <2>3, Zenon DEF PoolInv, WaitingIsPending
    <2>6. WaitingIsPending'
      <3> SUFFICES ASSUME NEW k \in Jobs PROVE WaitingIsPending!(k)'
        BY Zenon DEF WaitingIsPending
      <3>1. CASE k = j
        BY <1>1, <1>2, <2>2, <2>3, <2>5, <3>1, Zenon
      <3>2. CASE k # j
        <4>1. request[k] = "created" => via[k] = r
          BY <1>1, Zenon DEF PoolInv, TypeOK
        <4> QED BY <1>1, <1>2, <2>2, <3>2, <4>1, ZenonT(60) DEF PoolInv, WaitingIsPending
      <3> QED BY <3>1, <3>2, Zenon
    <2>7. OnePlace'
      BY <1>1, <1>2, <2>2, Zenon DEF PoolInv, OnePlace
    <2>8. OrphansUnowned'
      BY <1>1, <2>2, <2>4, Zenon DEF OrphansUnowned
    <2> QED BY <1>2, <2>6, <2>7, <2>8, Zenon DEF Places
  <1>8. RequeueFails(r) => UNCHANGED status \/ \E j \in todo[r] : SetJobStatus(j, "PENDING")
    BY Zenon DEF RequeueFails
  <1> QED BY <1>4, <1>5, <1>6, <1>7, <1>8, Zenon

\* An orphan goes from RequeueOrphans to the queue, once.
LEMMA PlacesOrphan ==
  ASSUME SingleReplica, PoolInv, NEW r \in Replicas, EnqueueOrphan(r)
  PROVE  Places'
  <1> DEFINE j == orphan[r]
  <1>1. /\ UNCHANGED <<status, phase, todo, wpc, wjob, request, via>>
        /\ j \in Jobs /\ orphan'[r] = NoJob
        /\ \A s \in Replicas : s = r
    BY Zenon DEF PoolInv, TypeOK, EnqueueOrphan, store, worker, client, SingleReplica
  <1>2. \/ queue' = [queue EXCEPT ![r] = Append(@, j)]
        \/ UNCHANGED queue
    BY Zenon DEF EnqueueOrphan
  <1>3. phase[r] = "requeueing"
    BY <1>1, PoolAssumption, Zenon DEF PoolInv, OrphansUnowned
  <1>4. /\ status[j] = "PENDING" /\ request[j] # "created"
        /\ ~InQueue(j) /\ QueueDistinct
        /\ \A w \in Workers : ~HeldBy(w, j)
    BY <1>1, Zenon DEF PoolInv, WaitingIsPending, OnePlace
  <1> HIDE DEF j
  <1>5. /\ \A k \in Jobs : InQueue(k)' => InQueue(k) \/ k = j
        /\ QueueDistinct'
    <2>1. TypeOK
      BY Zenon DEF PoolInv
    <2> QED BY <1>1, <1>2, <1>4, <2>1, QueueAppend, QueueSame, Zenon
  <1>6. \A w \in Workers : /\ Busy(w)' <=> Busy(w)
                           /\ Executing(w)' <=> Executing(w)
                           /\ \A k \in Jobs : HeldBy(w, k)' <=> HeldBy(w, k)
    BY <1>1, Zenon DEF Busy, Executing, HeldBy
  <1>7. ExclusiveRun'
    BY <1>1, <1>6, Zenon DEF PoolInv, ExclusiveRun
  <1>8. \A s \in Replicas, k \in Jobs : orphan'[s] # k
    BY <1>1, PoolAssumption, Zenon
  <1>9. WaitingIsPending'
    BY <1>1, <1>4, <1>5, <1>6, <1>8, Zenon DEF PoolInv, WaitingIsPending
  <1>10. OnePlace'
    BY <1>1, <1>4, <1>5, <1>6, <1>8, Zenon DEF PoolInv, OnePlace
  <1>11. OrphansUnowned'
    BY <1>1, <1>3, <1>6, Zenon DEF PoolInv, TypeOK, OrphansUnowned
  <1> QED BY <1>7, <1>9, <1>10, <1>11, Zenon DEF Places

\* A new pool starts with idle workers; a stop empties every place.
LEMMA PlacesProcess ==
  ASSUME SingleReplica, PoolInv, NEW r \in Replicas, NewPool(r) \/ Halt(r)
  PROVE  Places'
  <1>1. /\ \A s \in Replicas : s = r
        /\ \A w \in Workers : Home[w] = r
    BY PoolAssumption, Zenon DEF SingleReplica
  <1>2. /\ UNCHANGED <<status, via>>
        /\ phase'[r] \in {"down", "listing"} /\ queue'[r] = << >>
        /\ todo'[r] = {} /\ orphan'[r] = NoJob
        /\ \A k \in Jobs : /\ request'[k] # "created"
                           /\ request'[k] = "none" => request[k] = "none"
    <2>1. CASE NewPool(r)
      <3>1. /\ UNCHANGED <<status, via, queue, todo, orphan, request>>
            /\ phase[r] = "down" /\ phase'[r] = "listing"
        BY <2>1, Zenon DEF PoolInv, TypeOK, NewPool, store, client
      <3>2. queue[r] = << >> /\ todo[r] = {} /\ orphan[r] = NoJob
        BY <3>1, Zenon DEF PoolInv, OrphansUnowned
      <3>3. \A k \in Jobs : request[k] # "created"
        BY <1>1, <3>1, Zenon DEF PoolInv, TypeOK, WaitingIsPending
      <3> QED BY <3>1, <3>2, <3>3, Zenon
    <2>2. CASE Halt(r)
      <3>1. \A k \in Jobs : request[k] = "created" => via[k] = r
        BY <1>1, Zenon DEF PoolInv, TypeOK
      <3>2. /\ phase'[r] = "down" /\ queue'[r] = << >>
            /\ todo'[r] = {} /\ orphan'[r] = NoJob
            /\ UNCHANGED <<status, via>>
        BY <2>2, Zenon DEF PoolInv, TypeOK, Halt, store
      <3>3. request' = [k \in Jobs |-> IF request[k] = "created" /\ via[k] = r
                                       THEN "lost" ELSE request[k]]
        BY <2>2, Zenon DEF Halt
      <3> QED BY <3>1, <3>2, <3>3, Zenon
    <2> QED BY <2>1, <2>2, Zenon
  <1>3. \A w \in Workers : ~Busy(w)'
    <2>1. \A w \in Workers : wpc'[w] \in {"idle", "off"}
      BY <1>1, Zenon DEF NewPool, Halt
    <2> QED BY <2>1, Zenon DEF Busy
  <1>4. /\ \A k \in Jobs : ~InQueue(k)'
        /\ QueueDistinct'
    <2>1. \A s \in Replicas : queue'[s] = << >>
      BY <1>1, <1>2, Zenon
    <2>2. 1..Len(<< >>) = {}
      OBVIOUS
    <2> QED BY <2>1, <2>2, Zenon DEF InQueue, QueueDistinct
  <1>5. ExclusiveRun'
    BY <1>3, Zenon DEF ExclusiveRun
  <1>6. \A w \in Workers, k \in Jobs : ~HeldBy(w, k)'
    BY <1>3, Zenon DEF HeldBy
  <1>7. \A s \in Replicas, k \in Jobs : orphan'[s] # k
    BY <1>1, <1>2, PoolAssumption
  <1>8. WaitingIsPending'
    <2>1. \A k \in Jobs : request'[k] = "none" => status'[k] = "ABSENT"
      BY <1>2, Zenon DEF PoolInv, WaitingIsPending
    <2> QED BY <1>2, <1>4, <1>6, <1>7, <2>1, Zenon DEF WaitingIsPending
  <1>9. OnePlace'
    BY <1>2, <1>4, <1>6, <1>7, Zenon DEF OnePlace
  <1>10. OrphansUnowned'
    BY <1>1, <1>2, <1>3, Zenon DEF OrphansUnowned, WorkersOf
  <1> QED BY <1>5, <1>8, <1>9, <1>10, Zenon DEF Places

\* One replica never loses track of a job: PoolInv holds in every state,
\* whatever the store, crashes and shutdowns do.
THEOREM PoolSafe == ASSUME SingleReplica PROVE Spec => []PoolInv
  <1>1. Init => PoolInv
    <2> SUFFICES ASSUME Init PROVE PoolInv
      BY Zenon
    <2>1. /\ \A k \in Jobs : ~InQueue(k)
          /\ QueueDistinct
      BY DEF Init, InQueue, QueueDistinct
    <2>2. ExclusiveRun /\ WaitingIsPending /\ OnePlace
      BY <2>1, PoolAssumption, Zenon
         DEF Init, ExclusiveRun, WaitingIsPending, OnePlace, HeldBy, Busy
    <2>3. OrphansUnowned
      BY Zenon DEF Init, OrphansUnowned, Busy, WorkersOf
    <2> QED BY <2>2, <2>3, TypeInit, Zenon DEF PoolInv
  <1>2. PoolInv /\ [Next]_vars => PoolInv'
    <2> SUFFICES ASSUME PoolInv, [Next]_vars PROVE PoolInv'
      BY Zenon
    <2>1. CASE UNCHANGED vars
      <3>1. TypeOK'
        BY <2>1, Zenon DEF vars, PoolInv, TypeOK, Busy
      <3>2. /\ \A k \in Jobs : InQueue(k)' <=> InQueue(k)
            /\ \A w \in Workers : /\ Busy(w)' <=> Busy(w)
                                  /\ Executing(w)' <=> Executing(w)
                                  /\ \A k \in Jobs : HeldBy(w, k)' <=> HeldBy(w, k)
            /\ QueueDistinct' /\ ExclusiveRun'
        BY <2>1, WorkersSame, Zenon DEF vars
      <3>3. WaitingIsPending' /\ OnePlace'
        BY <2>1, <3>2, Zenon DEF vars, PoolInv, WaitingIsPending, OnePlace
      <3>4. OrphansUnowned'
        BY <2>1, <3>2, Zenon DEF vars, PoolInv, TypeOK, OrphansUnowned, WorkersOf
      <3> QED BY <3>1, <3>2, <3>3, <3>4, Zenon DEF PoolInv
    <2>2. CASE Next
      <3>1. TypeOK
        BY Zenon DEF PoolInv
      <3>2. TypeOK'
        BY <2>2, <3>1, TypeSubmit, TypeEnqueue, TypeWorker, TypeProcess, Zenon DEF Next
      <3>3. Places'
        BY <2>2, PlacesSubmit, PlacesEnqueue, PlacesWorker, PlacesStart,
           PlacesOrphan, PlacesProcess, Zenon
           DEF Next, Startup, Exit, Crash
      <3> QED BY <3>2, <3>3, Zenon DEF PoolInv, Places
    <2> QED BY <2>1, <2>2, Zenon
  <1> QED BY <1>1, <1>2, PTL DEF Spec

\* A job is never with two workers, and the store says RUNNING of a job for as
\* long as it is being executed.
THEOREM OneOwner ==
  ASSUME SingleReplica
  PROVE  Spec => [](ExclusiveRun /\ OwnerSeesRunning /\ OnlyOrphansReset)
  <1>1. PoolInv => ExclusiveRun /\ OwnerSeesRunning /\ OnlyOrphansReset
    BY Zenon DEF PoolInv, TypeOK, ExclusiveRun, WaitingIsPending, OnePlace,
           OwnerSeesRunning, OnlyOrphansReset, HeldBy, Busy, Executing
  <1> QED BY <1>1, PoolSafe, PTL

-----------------------------------------------------------------------------
(***************************************************************************)
(* The lifecycle a client sees.                                            *)
(***************************************************************************)
\* Each step of the service is a step of the lifecycle, or leaves it alone.
LEMMA StepIsLifecycle ==
  ASSUME SingleReplica, PoolInv, [Next]_vars
  PROVE  [L!Next]_(L!lvars)
  <1> USE DEF L!lvars
  <1>1. ASSUME NEW r \in Replicas, NEW j \in Jobs, SubmitCreate(r, j)
        PROVE  L!Next
    BY <1>1, Zenon DEF PoolInv, TypeOK, WaitingIsPending, SubmitCreate, SetJobStatus,
                L!Next, L!Create, L!Move
  <1>2. ASSUME NEW w \in Workers, Claim(w) PROVE L!Next
    BY <1>2, Zenon DEF PoolInv, TypeOK, WaitingIsPending, HeldBy, Busy, Executing,
                Claim, SetJobStatus, L!Next, L!Claim, L!Move
  <1>3. ASSUME NEW w \in Workers, AppendStepResult(w)
        PROVE  L!Next \/ UNCHANGED L!lvars
    BY <1>3, Zenon DEF PoolInv, TypeOK, WaitingIsPending, HeldBy, Busy, Executing,
                AppendStepResult, L!Next, L!Record
  <1>4. ASSUME NEW w \in Workers, Finish(w)
        PROVE  L!Next \/ UNCHANGED L!lvars
    <2>1. /\ wjob[w] \in Jobs /\ status[wjob[w]] = "RUNNING"
          /\ wout[w] \in Terminal
          /\ SetJobStatus(wjob[w], wout[w]) \/ UNCHANGED status
          /\ UNCHANGED rows
      BY <1>4, Zenon DEF PoolInv, TypeOK, WaitingIsPending, HeldBy, Busy, Executing,
                  Finish
    <2> QED BY <2>1, Zenon DEF SetJobStatus, Terminal, L!Next, L!Finish, L!Move,
                        L!Terminal
  <1>5. ASSUME NEW r \in Replicas, ResetOrphan(r) PROVE L!Next
    BY <1>5, Zenon DEF PoolInv, TypeOK, OrphansUnowned, ResetOrphan, SetJobStatus,
                L!Next, L!Requeue, L!Move
  <1>6. ASSUME NEW j \in Jobs, SubmitEnqueue(j) \/ SubmitQueueFull(j)
        PROVE  UNCHANGED L!lvars
    BY <1>6, Zenon DEF SubmitEnqueue, SubmitQueueFull, store
  <1>7. ASSUME NEW w \in Workers,
               Dequeue(w) \/ Quit(w) \/ Load(w) \/ LoadDrops(w) \/ Execute(w)
        PROVE  UNCHANGED L!lvars
    BY <1>7, Zenon DEF Dequeue, Quit, Load, LoadDrops, Execute, store
  <1>8. ASSUME NEW r \in Replicas,
               \/ NewPool(r) \/ ListOrphans(r) \/ EnqueueOrphan(r)
               \/ RequeueDone(r) \/ Close(r) \/ Exit(r) \/ Crash(r)
        PROVE  UNCHANGED L!lvars
    BY <1>8, Zenon DEF NewPool, ListOrphans, EnqueueOrphan, RequeueDone,
                Close, Exit, Crash, Halt, store
  <1>9. CASE UNCHANGED vars
    BY <1>9, Zenon DEF vars
  <1>10. ASSUME NEW r \in Replicas, NEW j \in Jobs, SubmitFails(r, j)
         PROVE  L!Next \/ UNCHANGED L!lvars
    <2>1. UNCHANGED rows /\ status[j] = "ABSENT"
      BY <1>10, Zenon DEF PoolInv, WaitingIsPending, SubmitFails
    <2>2. CASE SetJobStatus(j, "PENDING")
      BY <2>1, <2>2, Zenon DEF SetJobStatus, L!Next, L!Create, L!Move
    <2> QED BY <1>10, <2>1, <2>2, Zenon DEF SubmitFails
  <1>11. ASSUME NEW w \in Workers, ClaimFails(w)
         PROVE  L!Next \/ UNCHANGED L!lvars
    <2>1. UNCHANGED rows /\ wjob[w] \in Jobs /\ status[wjob[w]] = "PENDING"
      BY <1>11, Zenon DEF PoolInv, TypeOK, WaitingIsPending, HeldBy, Busy, Executing, ClaimFails
    <2>2. CASE SetJobStatus(wjob[w], "RUNNING")
      BY <2>1, <2>2, Zenon DEF SetJobStatus, L!Next, L!Claim, L!Move
    <2> QED BY <1>11, <2>1, <2>2, Zenon DEF ClaimFails
  <1>12. ASSUME NEW r \in Replicas, RequeueFails(r)
         PROVE  L!Next \/ UNCHANGED L!lvars
    <2>1. UNCHANGED rows
      BY <1>12, Zenon DEF RequeueFails
    <2>2. ASSUME NEW j \in todo[r], SetJobStatus(j, "PENDING")
          PROVE  L!Next
      BY <2>1, <2>2, Zenon DEF PoolInv, TypeOK, OrphansUnowned, SetJobStatus, L!Next, L!Requeue, L!Move
    <2> QED BY <1>12, <2>1, <2>2, Zenon DEF RequeueFails
  <1> QED BY <1>1, <1>2, <1>3, <1>4, <1>5, <1>6, <1>7, <1>8, <1>9, <1>10, <1>11, <1>12, Zenon
          DEF Next, WorkerStep, Startup

\* One replica's store follows the lifecycle PENDING -> RUNNING -> COMPLETED |
\* FAILED, with the requeue of an orphan as the only step back.
THEOREM Implements == ASSUME SingleReplica PROVE Spec => Lifecycle
  <1>1. Init => L!Init
    BY Zenon DEF Init, L!Init
  <1>2. PoolInv /\ [Next]_vars => [L!Next]_(L!lvars)
    BY StepIsLifecycle, Zenon
  <1> QED BY <1>1, <1>2, PoolSafe, PTL DEF Spec, Lifecycle, L!Spec

\* A client may stop polling at the first terminal status it reads.
THEOREM TerminalIsFinal == ASSUME SingleReplica PROVE Spec => TerminalFrozen
  <1> DEFINE Frozen == \A j \in Jobs : status[j] \in Terminal =>
                          status'[j] = status[j] /\ rows'[j] = rows[j]
  <1>1. PoolInv /\ [Next]_vars => Frozen
    <2> SUFFICES ASSUME PoolInv, [L!Next]_(L!lvars) PROVE Frozen
      BY StepIsLifecycle, Zenon
    <2>1. status \in [Jobs -> JobStatus] /\ rows \in [Jobs -> Nat]
      BY Zenon DEF PoolInv, TypeOK
    <2>2. CASE UNCHANGED L!lvars
      BY <2>2, Zenon DEF L!lvars
    <2>3. CASE L!Next
      BY <2>1, <2>3, Zenon DEF L!Next, L!Create, L!Claim, L!Finish, L!Requeue,
                        L!Record, L!Move, Terminal
    <2> QED BY <2>2, <2>3, Zenon
  <1> QED BY <1>1, PoolSafe, PTL DEF Spec, TerminalFrozen

-----------------------------------------------------------------------------
(***************************************************************************)
(* A reliable store: no job is left RUNNING, and no step result is lost.   *)
(***************************************************************************)
\* Once RequeueOrphans has its list, a RUNNING job is on it or being executed.
RunningHeld ==
    \A r \in Replicas : phase[r] \in {"requeueing", "serving", "closing"} =>
        \A j \in Jobs : status[j] = "RUNNING" =>
            j \in todo[r] \/ \E w \in Workers : Executing(w) /\ wjob[w] = j

\* A job that completes has, or is about to get, a result for each step.
StepsOwed ==
    /\ \A w \in Workers : wpc[w] = "record" /\ wout[w] = "COMPLETED" =>
        rows[wjob[w]] + wleft[w] >= StepCount(wjob[w])
    /\ \A j \in Jobs : status[j] = "COMPLETED" => rows[j] >= StepCount(j)

\* Before the first stop there is nothing to requeue, and no job runs twice.
FirstRun ==
    /\ \A r \in Replicas :
        /\ phase[r] # "closing" /\ todo[r] = {} /\ orphan[r] = NoJob
        /\ phase[r] \in {"down", "listing"} => \A j \in Jobs : request[j] = "none"
    /\ \A j \in Jobs : status[j] \in {"ABSENT", "PENDING"} => rows[j] = 0
    /\ \A w \in Workers : wpc[w] = "exec" => rows[wjob[w]] = 0
    /\ \A w \in Workers : wpc[w] = "record" /\ wout[w] = "COMPLETED" =>
        rows[wjob[w]] + wleft[w] = StepCount(wjob[w])
    /\ \A j \in Jobs : status[j] = "COMPLETED" => rows[j] = StepCount(j)

ReliableInv == RunningHeld /\ StepsOwed /\ (stops = 0 => FirstRun)

\* What PoolInv says of the workers' jobs.
LEMMA WorkersJobs ==
  ASSUME PoolInv
  PROVE  /\ \A w \in Workers : Busy(w) =>
                wjob[w] \in Jobs /\ status[wjob[w]] = IF Executing(w) THEN "RUNNING" ELSE "PENDING"
         /\ \A v, w \in Workers : Busy(v) /\ Busy(w) /\ wjob[v] = wjob[w] => v = w
         /\ \A w \in Workers : Executing(w) => Busy(w)
  <1>1. \A w \in Workers : Busy(w) => wjob[w] \in Jobs
    BY Zenon DEF PoolInv, TypeOK
  <1>2. \A w \in Workers : Busy(w) =>
            status[wjob[w]] = IF Executing(w) THEN "RUNNING" ELSE "PENDING"
    BY <1>1, Zenon DEF PoolInv, WaitingIsPending, HeldBy
  <1> QED BY <1>1, <1>2, Zenon DEF PoolInv, ExclusiveRun, Busy, Executing

LEMMA RunningHeldStep ==
  ASSUME SingleReplica, ~StoreFaults, PoolInv, RunningHeld, [Next]_vars
  PROVE  RunningHeld'
  <1>0. TypeOK
    BY Zenon DEF PoolInv
  <1>1. ASSUME \A j \in Jobs : status'[j] = "RUNNING" => status[j] = "RUNNING",
               \A w \in Workers : Executing(w) => wpc'[w] = wpc[w] /\ wjob'[w] = wjob[w],
               UNCHANGED todo,
               \A r \in Replicas : phase'[r] \in {"requeueing", "serving", "closing"} =>
                                   phase[r] \in {"requeueing", "serving", "closing"}
        PROVE  RunningHeld'
    BY <1>1 DEF RunningHeld, Executing
  <1>2. ASSUME NEW r \in Replicas, NEW j \in Jobs, SubmitCreate(r, j) \/ SubmitFails(r, j)
        PROVE  RunningHeld'
    BY <1>0, <1>1, <1>2, Zenon DEF TypeOK, SubmitCreate, SubmitFails, SetJobStatus, main, worker
  <1>3. ASSUME NEW j \in Jobs, SubmitEnqueue(j) \/ SubmitQueueFull(j)
        PROVE  RunningHeld'
    BY <1>1, <1>3, Zenon DEF SubmitEnqueue, SubmitQueueFull, store, main, worker
  <1>4. ASSUME NEW w \in Workers, Dequeue(w) \/ Quit(w) \/ Load(w) \/ LoadDrops(w)
        PROVE  RunningHeld'
    BY <1>0, <1>1, <1>4, Zenon DEF TypeOK, Dequeue, Quit, Load, LoadDrops, Drop, store, main, Executing
  <1>5. ASSUME NEW w \in Workers, Claim(w)
        PROVE  RunningHeld'
    <2>1. /\ UNCHANGED <<phase, todo, wjob>> /\ wpc[w] = "claim" /\ wjob[w] \in Jobs
          /\ \A j \in Jobs : j # wjob[w] => status'[j] = status[j]
          /\ wpc'[w] = "exec" /\ \A v \in Workers : v # w => wpc'[v] = wpc[v]
      BY <1>0, <1>5, Zenon DEF TypeOK, Claim, SetJobStatus, main, Busy
    <2> QED BY <2>1 DEF RunningHeld, Executing
  <1>6. ASSUME NEW w \in Workers, ClaimFails(w)
        PROVE  FALSE
    BY <1>6, Zenon DEF ClaimFails
  <1>7. ASSUME NEW w \in Workers, Execute(w) \/ AppendStepResult(w)
        PROVE  RunningHeld'
    <2>1. /\ UNCHANGED <<phase, todo, wjob, status>>
          /\ wpc'[w] = "record" /\ \A v \in Workers : v # w => wpc'[v] = wpc[v]
      BY <1>0, <1>7, Zenon DEF TypeOK, Execute, AppendStepResult, main, store
    <2> QED BY <2>1 DEF RunningHeld, Executing
  <1>8. ASSUME NEW w \in Workers, Finish(w)
        PROVE  RunningHeld'
    <2>1. /\ UNCHANGED <<phase, todo>> /\ wjob[w] \in Jobs
          /\ \A j \in Jobs : j # wjob[w] => status'[j] = status[j]
          /\ status'[wjob[w]] # "RUNNING"
          /\ \A v \in Workers : v # w => wpc'[v] = wpc[v] /\ wjob'[v] = wjob[v]
      BY <1>0, <1>8, Zenon DEF TypeOK, Finish, Drop, SetJobStatus, main, Busy, Terminal
    <2> QED BY <2>1 DEF RunningHeld, Executing
  <1>9. ASSUME NEW r \in Replicas, NewPool(r)
        PROVE  RunningHeld'
    BY <1>0, <1>1, <1>9, Zenon DEF TypeOK, NewPool, store, Executing, PoolInv, OrphansUnowned, WorkersOf, Busy
  <1>10. ASSUME NEW r \in Replicas, ListOrphans(r)
         PROVE  RunningHeld'
    BY <1>0, <1>10, Zenon DEF TypeOK, ListOrphans, store, worker, Running, RunningHeld, SingleReplica
  <1>11. ASSUME NEW r \in Replicas, ResetOrphan(r)
         PROVE  RunningHeld'
    <2>1. PICK j \in todo[r] : SetJobStatus(j, "PENDING") /\ todo' = [todo EXCEPT ![r] = @ \ {j}]
      BY <1>11, Zenon DEF ResetOrphan
    <2>2. UNCHANGED <<phase, wpc, wjob>>
      BY <1>11, Zenon DEF ResetOrphan, worker
    <2>3. /\ j \in Jobs /\ status'[j] = "PENDING"
          /\ \A k \in Jobs : k # j => status'[k] = status[k]
          /\ todo'[r] = todo[r] \ {j} /\ \A s \in Replicas : s # r => todo'[s] = todo[s]
      BY <1>0, <2>1, Zenon DEF TypeOK, SetJobStatus
    <2> QED BY <2>2, <2>3 DEF RunningHeld, Executing
  <1>12. ASSUME NEW r \in Replicas, RequeueFails(r)
         PROVE  FALSE
    BY <1>12, Zenon DEF RequeueFails
  <1>13. ASSUME NEW r \in Replicas, EnqueueOrphan(r) \/ RequeueDone(r) \/ Close(r)
         PROVE  RunningHeld'
    BY <1>0, <1>1, <1>13, Zenon DEF TypeOK, EnqueueOrphan, RequeueDone, Close, store, worker
  <1>14. ASSUME NEW r \in Replicas, Exit(r) \/ Crash(r)
         PROVE  RunningHeld'
    <2>1. phase'[r] = "down"
      BY <1>0, <1>14, Zenon DEF TypeOK, Exit, Crash, Halt
    <2> QED BY <2>1, Zenon DEF RunningHeld, SingleReplica
  <1>15. CASE UNCHANGED vars
    BY <1>1, <1>15, Zenon DEF vars
  <1> QED BY <1>2, <1>3, <1>4, <1>5, <1>6, <1>7, <1>8, <1>9, <1>10, <1>11, <1>12, <1>13,
             <1>14, <1>15, Zenon DEF Next, WorkerStep, Startup

\* How an execution ends: with COMPLETED, all steps are to be recorded.
LEMMA OutcomeSteps ==
  ASSUME NEW w \in Workers, Execute(w), TypeOK
  PROVE  /\ wjob[w] \in Jobs /\ wpc[w] = "exec" /\ wpc'[w] = "record"
         /\ wout'[w] = "COMPLETED" => wleft'[w] = StepCount(wjob[w])
         /\ StepCount(wjob[w]) \in Nat /\ wleft'[w] \in Nat
         /\ UNCHANGED <<status, rows, wjob, phase, todo, orphan, request, stops>>
         /\ \A v \in Workers : v # w =>
                wpc'[v] = wpc[v] /\ wout'[v] = wout[v] /\ wleft'[v] = wleft[v]
  <1>1. wjob[w] \in Jobs /\ wpc[w] = "exec" /\ wpc' = [wpc EXCEPT ![w] = "record"]
    BY Zenon DEF Execute, TypeOK, Busy
  <1>2. PICK o \in Outcomes(wjob[w]) : /\ wout' = [wout EXCEPT ![w] = o[1]]
                                       /\ wleft' = [wleft EXCEPT ![w] = o[2]]
    BY Zenon DEF Execute
  <1>3. /\ o[1] = "COMPLETED" => o[2] = StepCount(wjob[w])
        /\ StepCount(wjob[w]) \in Nat /\ o[2] \in Nat
    BY PoolAssumption DEF Outcomes, StepCount
  <1>4. UNCHANGED <<status, rows, wjob, phase, todo, orphan, request, stops>>
    BY Zenon DEF Execute, store, main, client
  <1> QED BY <1>1, <1>2, <1>3, <1>4, Zenon DEF TypeOK

\* A recorded result moves one from what is left to what is there.
LEMMA AppendSteps ==
  ASSUME NEW w \in Workers, AppendStepResult(w), PoolInv, ~StoreFaults
  PROVE  /\ wjob[w] \in Jobs /\ wpc[w] = "record" /\ UNCHANGED <<status, wpc, wjob, wout>>
         /\ UNCHANGED <<phase, todo, orphan, request, stops>>
         /\ rows[wjob[w]] \in Nat /\ wleft[w] \in Nat \ {0}
         /\ rows'[wjob[w]] = rows[wjob[w]] + 1 /\ wleft'[w] = wleft[w] - 1
         /\ \A j \in Jobs : j # wjob[w] => rows'[j] = rows[j]
         /\ \A v \in Workers : v # w => wleft'[v] = wleft[v]
         /\ \A v \in Workers : v # w /\ Busy(v) => wjob[v] \in Jobs /\ wjob[v] # wjob[w]
         /\ status[wjob[w]] = "RUNNING"
  <1>1. /\ wpc[w] = "record" /\ UNCHANGED <<status, wpc, wjob, wout>>
        /\ UNCHANGED <<phase, todo, orphan, request, stops>>
        /\ wleft[w] > 0 /\ wleft' = [wleft EXCEPT ![w] = @ - 1]
        /\ rows' = [rows EXCEPT ![wjob[w]] = @ + 1]
    BY Zenon DEF AppendStepResult, main, client
  <1>2. Busy(w) /\ Executing(w)
    BY <1>1, Zenon DEF Busy, Executing
  <1>3. /\ wjob[w] \in Jobs /\ status[wjob[w]] = "RUNNING"
        /\ \A v \in Workers : v # w /\ Busy(v) => wjob[v] \in Jobs /\ wjob[v] # wjob[w]
    BY <1>2, WorkersJobs, Zenon
  <1> QED BY <1>1, <1>3 DEF PoolInv, TypeOK

LEMMA StepsOwedStep ==
  ASSUME ~StoreFaults, PoolInv, StepsOwed, [Next]_vars
  PROVE  StepsOwed'
  <1>0. TypeOK
    BY Zenon DEF PoolInv
  <1>1. ASSUME UNCHANGED rows,
               \A j \in Jobs : status'[j] = "COMPLETED" => status[j] = "COMPLETED",
               \A w \in Workers : wpc'[w] = "record" =>
                   /\ wpc[w] = "record" /\ wjob'[w] = wjob[w]
                   /\ wout'[w] = wout[w] /\ wleft'[w] = wleft[w]
        PROVE  StepsOwed'
    BY <1>1 DEF StepsOwed, StepCount
  <1>2. ASSUME NEW r \in Replicas, NEW j \in Jobs, SubmitCreate(r, j) \/ SubmitFails(r, j)
        PROVE  StepsOwed'
    BY <1>0, <1>1, <1>2, Zenon DEF TypeOK, SubmitCreate, SubmitFails, SetJobStatus, worker
  <1>3. ASSUME NEW j \in Jobs, SubmitEnqueue(j) \/ SubmitQueueFull(j)
        PROVE  StepsOwed'
    BY <1>1, <1>3, Zenon DEF SubmitEnqueue, SubmitQueueFull, store, worker
  <1>4. ASSUME NEW w \in Workers,
               Dequeue(w) \/ Quit(w) \/ Load(w) \/ LoadDrops(w) \/ Claim(w) \/ ClaimFails(w)
        PROVE  StepsOwed'
    <2>1. UNCHANGED <<rows, wleft>> /\ (Claim(w) \/ UNCHANGED status)
      BY <1>4, Zenon DEF Dequeue, Quit, Load, LoadDrops, Claim, ClaimFails, store
    <2>2. Claim(w) => wjob[w] \in Jobs
      BY <1>0, Zenon DEF TypeOK, Claim, Busy
    <2>3. \A j \in Jobs : status'[j] = "COMPLETED" => status[j] = "COMPLETED"
      BY <1>0, <2>1, <2>2, Zenon DEF TypeOK, Claim, SetJobStatus
    <2>4. /\ wpc'[w] # "record"
          /\ \A v \in Workers : v # w =>
                 wpc'[v] = wpc[v] /\ wjob'[v] = wjob[v] /\ wout'[v] = wout[v]
      BY <1>0, <1>4, Zenon DEF TypeOK, Dequeue, Quit, Load, LoadDrops, Claim, ClaimFails, Drop
    <2> QED BY <1>1, <2>1, <2>3, <2>4, Zenon
  <1>5. ASSUME NEW w \in Workers, Execute(w)
        PROVE  StepsOwed'
    <2>1. /\ wjob[w] \in Jobs /\ UNCHANGED <<status, rows, wjob>>
          /\ wout'[w] = "COMPLETED" => wleft'[w] = StepCount(wjob[w])
          /\ StepCount(wjob[w]) \in Nat /\ wleft'[w] \in Nat
          /\ \A v \in Workers : v # w =>
                 wpc'[v] = wpc[v] /\ wout'[v] = wout[v] /\ wleft'[v] = wleft[v]
      BY <1>0, <1>5, OutcomeSteps, Zenon
    <2>2. rows[wjob[w]] \in Nat
      BY <1>0, <2>1, Zenon DEF TypeOK
    <2>3. wout'[w] = "COMPLETED" => rows[wjob[w]] + wleft'[w] >= StepCount(wjob[w])
      BY <2>1, <2>2
    <2> QED BY <2>1, <2>3, Zenon DEF StepsOwed, StepCount
  <1>6. ASSUME NEW w \in Workers, AppendStepResult(w)
        PROVE  StepsOwed'
    <2>1. \A j \in Jobs : rows'[j] >= rows[j] /\ rows[j] \in Nat /\ StepCount(j) \in Nat
      BY <1>0, <1>6, AppendSteps, PoolAssumption DEF TypeOK, StepCount
    <2>2. \A v \in Workers : v # w /\ wpc[v] = "record" => wjob[v] \in Jobs /\ wjob[v] # wjob[w]
      BY <1>6, AppendSteps, Zenon DEF Busy
    <2> QED BY <1>6, <2>1, <2>2, AppendSteps DEF StepsOwed, StepCount
  <1>7. ASSUME NEW w \in Workers, Finish(w)
        PROVE  StepsOwed'
    <2>1. /\ wjob[w] \in Jobs /\ wpc[w] = "record" /\ wleft[w] = 0 /\ UNCHANGED <<rows, wleft>>
          /\ status' = [status EXCEPT ![wjob[w]] = wout[w]]
          /\ wpc'[w] = "idle"
          /\ \A v \in Workers : v # w => wpc'[v] = wpc[v] /\ wjob'[v] = wjob[v] /\ wout'[v] = wout[v]
      BY <1>0, <1>7, Zenon DEF TypeOK, Finish, Drop, SetJobStatus, Busy
    <2>2. \A j \in Jobs : rows[j] \in Nat
      BY <1>0, Zenon DEF TypeOK
    <2>3. status'[wjob[w]] = wout[w] /\ \A j \in Jobs : j # wjob[w] => status'[j] = status[j]
      BY <1>0, <2>1, Zenon DEF TypeOK
    <2> QED BY <2>1, <2>2, <2>3 DEF StepsOwed, StepCount
  <1>8. ASSUME NEW r \in Replicas, NewPool(r)
        PROVE  StepsOwed'
    BY <1>0, <1>1, <1>8, Zenon DEF TypeOK, NewPool, store
  <1>9. ASSUME NEW r \in Replicas,
               \/ ListOrphans(r) \/ EnqueueOrphan(r) \/ RequeueDone(r) \/ Close(r)
        PROVE  StepsOwed'
    BY <1>1, <1>9, Zenon DEF ListOrphans, EnqueueOrphan, RequeueDone, Close, store, worker
  <1>10. ASSUME NEW r \in Replicas, ResetOrphan(r) \/ RequeueFails(r)
         PROVE  StepsOwed'
    <2>1. ResetOrphan(r)
      BY <1>10, Zenon DEF RequeueFails
    <2>2. UNCHANGED rows /\ UNCHANGED worker /\ \E j \in todo[r] : SetJobStatus(j, "PENDING")
      BY <2>1, Zenon DEF ResetOrphan
    <2> QED BY <1>0, <1>1, <2>2, Zenon DEF TypeOK, SetJobStatus, worker
  <1>11. ASSUME NEW r \in Replicas, Exit(r) \/ Crash(r)
         PROVE  StepsOwed'
    <2>1. Halt(r)
      BY <1>11, Zenon DEF Exit, Crash
    <2> QED BY <1>0, <1>1, <2>1, Zenon DEF TypeOK, Halt, store
  <1>12. CASE UNCHANGED vars
    BY <1>1, <1>12, Zenon DEF vars
  <1> QED BY <1>2, <1>3, <1>4, <1>5, <1>6, <1>7, <1>8, <1>9, <1>10, <1>11, <1>12, Zenon
          DEF Next, WorkerStep, Startup

LEMMA FirstRunStep ==
  ASSUME SingleReplica, ~StoreFaults, PoolInv, RunningHeld, stops = 0 => FirstRun, [Next]_vars,
         stops' = 0
  PROVE  FirstRun'
  <1>0. TypeOK
    BY Zenon DEF PoolInv
  <1>1. stops = 0 /\ FirstRun
    <2>1. stops = stops' \/ stops' = stops + 1
      BY Zenon DEF Next, vars, SubmitCreate, SubmitFails, SubmitEnqueue, SubmitQueueFull, WorkerStep,
             Dequeue, Quit, Load, LoadDrops, Claim, ClaimFails, Execute, AppendStepResult, Finish,
             Startup, NewPool, ListOrphans, ResetOrphan, EnqueueOrphan, RequeueFails, RequeueDone,
             Close, Exit, Crash
    <2> QED BY <1>0, <2>1 DEF TypeOK
  <1>2. ASSUME UNCHANGED rows, UNCHANGED <<todo, orphan>>,
               \A r \in Replicas : phase'[r] # "closing"
                   /\ (phase'[r] \in {"down", "listing"} => phase[r] \in {"down", "listing"}),
               (\E r \in Replicas : phase'[r] \in {"down", "listing"}) => UNCHANGED request,
               \A j \in Jobs : /\ status'[j] \in {"ABSENT", "PENDING"} => status[j] \in {"ABSENT", "PENDING"}
                               /\ status'[j] = "COMPLETED" => status[j] = "COMPLETED",
               \A w \in Workers :
                   /\ wpc'[w] \in {"exec", "record"} => wjob'[w] = wjob[w] /\ wpc'[w] = wpc[w]
                   /\ wpc'[w] = "record" => wout'[w] = wout[w] /\ wleft'[w] = wleft[w]
        PROVE  FirstRun'
    BY <1>1, <1>2 DEF FirstRun, StepCount
  <1>3. ASSUME NEW r \in Replicas, NEW j \in Jobs, SubmitCreate(r, j) \/ SubmitFails(r, j)
        PROVE  FirstRun'
    <2>1. /\ phase[r] \in {"serving", "closing"} /\ request[j] = "none"
          /\ SetJobStatus(j, "PENDING") \/ UNCHANGED status
          /\ UNCHANGED <<rows, phase, todo, orphan, wpc, wjob, wout, wleft>>
      BY <1>3, Zenon DEF SubmitCreate, SubmitFails, main, worker
    <2>2. status[j] = "ABSENT"
      BY <2>1, Zenon DEF PoolInv, WaitingIsPending
    <2>3. \A s \in Replicas : s = r
      BY Zenon DEF SingleReplica
    <2>4. \A i \in Jobs : /\ status'[i] \in {"ABSENT", "PENDING"} => status[i] \in {"ABSENT", "PENDING"}
                          /\ status'[i] = "COMPLETED" => status[i] = "COMPLETED"
      BY <1>0, <2>1, <2>2, Zenon DEF TypeOK, SetJobStatus
    <2>5. \A s \in Replicas : phase'[s] \in {"serving", "closing"} /\ phase'[s] # "closing"
      BY <1>1, <2>1, <2>3, Zenon DEF FirstRun
    <2> QED BY <1>2, <2>1, <2>4, <2>5, Zenon
  <1>4. ASSUME NEW j \in Jobs, SubmitEnqueue(j) \/ SubmitQueueFull(j)
        PROVE  FirstRun'
    <2>1. request[j] = "created" /\ UNCHANGED <<status, rows, phase, todo, orphan, wpc, wjob, wout, wleft>>
      BY <1>4, Zenon DEF SubmitEnqueue, SubmitQueueFull, store, main, worker
    <2>2. \A r \in Replicas : phase[r] \notin {"down", "listing"} /\ phase[r] # "closing"
      BY <1>1, <2>1, Zenon DEF FirstRun
    <2> QED BY <1>2, <2>1, <2>2, Zenon
  <1>5. ASSUME NEW w \in Workers, Dequeue(w) \/ Quit(w) \/ Load(w) \/ LoadDrops(w)
        PROVE  FirstRun'
    <2>1. UNCHANGED <<rows, wleft, status, phase, todo, orphan, request>>
      BY <1>5, Zenon DEF Dequeue, Quit, Load, LoadDrops, store, main, client
    <2>2. /\ wpc'[w] \notin {"exec", "record"}
          /\ \A v \in Workers : v # w =>
                 wpc'[v] = wpc[v] /\ wjob'[v] = wjob[v] /\ wout'[v] = wout[v]
      BY <1>0, <1>5, ZenonT(60) DEF TypeOK, Dequeue, Quit, Load, LoadDrops, Drop
    <2>3. \A r \in Replicas : phase[r] # "closing"
      BY <1>1, Zenon DEF FirstRun
    <2> QED BY <1>2, <2>1, <2>2, <2>3, Zenon
  <1>6. ASSUME NEW w \in Workers, Claim(w) \/ ClaimFails(w)
        PROVE  FirstRun'
    <2>1. Claim(w) /\ wpc[w] = "claim"
      BY <1>6, Zenon DEF ClaimFails, Claim
    <2>2. wjob[w] \in Jobs /\ status[wjob[w]] = "PENDING"
      BY <2>1, WorkersJobs, Zenon DEF Busy, Executing
    <2>3. rows[wjob[w]] = 0
      BY <1>1, <2>2, Zenon DEF FirstRun
    <2>4. /\ UNCHANGED <<rows, phase, todo, orphan, request, wjob, wout, wleft>>
          /\ status'[wjob[w]] = "RUNNING"
          /\ \A j \in Jobs : j # wjob[w] => status'[j] = status[j]
          /\ wpc'[w] = "exec" /\ \A v \in Workers : v # w => wpc'[v] = wpc[v]
      BY <1>0, <2>1, <2>2, Zenon DEF TypeOK, Claim, SetJobStatus, main, client
    <2> QED BY <1>1, <2>3, <2>4, SMTT(30) DEF FirstRun, StepCount
  <1>7. ASSUME NEW w \in Workers, Execute(w)
        PROVE  FirstRun'
    <2>1. /\ wjob[w] \in Jobs /\ wpc[w] = "exec" /\ wpc'[w] = "record"
          /\ wout'[w] = "COMPLETED" => wleft'[w] = StepCount(wjob[w])
          /\ StepCount(wjob[w]) \in Nat
          /\ UNCHANGED <<status, rows, wjob, phase, todo, orphan, request>>
          /\ \A v \in Workers : v # w =>
                wpc'[v] = wpc[v] /\ wout'[v] = wout[v] /\ wleft'[v] = wleft[v]
      BY <1>0, <1>7, OutcomeSteps, ZenonT(60)
    <2>2. wout'[w] = "COMPLETED" => rows[wjob[w]] + wleft'[w] = StepCount(wjob[w])
      <3>1. rows[wjob[w]] = 0
        BY <1>1, <2>1, Zenon DEF FirstRun
      <3> QED BY <2>1, <3>1
    <2> QED BY <1>1, <2>1, <2>2 DEF FirstRun, StepCount
  <1>8. ASSUME NEW w \in Workers, AppendStepResult(w)
        PROVE  FirstRun'
    <2>1. \A v \in Workers : v # w /\ wpc[v] \in {"exec", "record"} => wjob[v] \in Jobs /\ wjob[v] # wjob[w]
      BY <1>8, AppendSteps, Zenon DEF Busy
    <2> QED BY <1>1, <1>8, <2>1, AppendSteps DEF FirstRun, StepCount
  <1>9. ASSUME NEW w \in Workers, Finish(w)
        PROVE  FirstRun'
    <2>1. /\ wjob[w] \in Jobs /\ wpc[w] = "record" /\ wleft[w] = 0 /\ wout[w] \in Terminal
          /\ UNCHANGED <<rows, wleft, phase, todo, orphan, request>>
          /\ status' = [status EXCEPT ![wjob[w]] = wout[w]]
          /\ wpc'[w] = "idle"
          /\ \A v \in Workers : v # w => wpc'[v] = wpc[v] /\ wjob'[v] = wjob[v] /\ wout'[v] = wout[v]
      BY <1>0, <1>9, Zenon DEF TypeOK, Finish, Drop, SetJobStatus, Busy, main, client
    <2>2. rows[wjob[w]] \in Nat
      BY <1>0, <2>1, Zenon DEF TypeOK
    <2>3. status'[wjob[w]] = wout[w] /\ \A j \in Jobs : j # wjob[w] => status'[j] = status[j]
      BY <1>0, <2>1, Zenon DEF TypeOK
    <2>4. wout[w] = "COMPLETED" => rows[wjob[w]] = StepCount(wjob[w])
      BY <1>1, <2>1, <2>2 DEF FirstRun
    <2> QED BY <1>1, <2>1, <2>3, <2>4 DEF FirstRun, StepCount, Terminal
  <1>10. ASSUME NEW r \in Replicas, NewPool(r)
         PROVE  FirstRun'
    <2>1. /\ UNCHANGED <<status, rows, todo, orphan, wjob, wout, wleft, request>>
          /\ phase'[r] = "listing" /\ phase[r] = "down"
          /\ \A s \in Replicas : s = r
          /\ \A w \in Workers : wpc'[w] \in {"idle", wpc[w]}
      BY <1>0, <1>10, Zenon DEF TypeOK, NewPool, store, client, SingleReplica
    <2> QED BY <1>2, <2>1, Zenon
  <1>11. ASSUME NEW r \in Replicas, ListOrphans(r)
         PROVE  FirstRun'
    <2>1. /\ UNCHANGED <<status, rows, orphan, wpc, wjob, wout, wleft, request>>
          /\ phase'[r] = "requeueing" /\ phase[r] = "listing" /\ todo'[r] = Running
          /\ \A s \in Replicas : s = r
      BY <1>0, <1>11, Zenon DEF TypeOK, ListOrphans, store, worker, client, SingleReplica
    <2>2. \A j \in Jobs : status[j] = "ABSENT"
      BY <1>1, <2>1, Zenon DEF FirstRun, PoolInv, WaitingIsPending
    <2>3. Running = {}
      BY <2>2, Zenon DEF Running
    <2> QED BY <1>1, <2>1, <2>3, Zenon DEF FirstRun, StepCount
  <1>12. ASSUME NEW r \in Replicas, ResetOrphan(r) \/ RequeueFails(r) \/ EnqueueOrphan(r)
         PROVE  FALSE
    BY <1>1, <1>12, Zenon DEF ResetOrphan, RequeueFails, EnqueueOrphan, FirstRun
  <1>13. ASSUME NEW r \in Replicas, RequeueDone(r)
         PROVE  FirstRun'
    <2>1. /\ UNCHANGED <<status, rows, todo, orphan, wpc, wjob, wout, wleft, request>>
          /\ phase'[r] = "serving" /\ \A s \in Replicas : s = r
      BY <1>0, <1>13, Zenon DEF TypeOK, RequeueDone, store, worker, client, SingleReplica
    <2> QED BY <1>2, <2>1, Zenon
  <1>14. ASSUME NEW r \in Replicas, Close(r) \/ Exit(r) \/ Crash(r)
         PROVE  FALSE
    BY <1>1, <1>14 DEF Close, Exit, Crash, FirstRun
  <1>15. CASE UNCHANGED vars
    <2>1. \A r \in Replicas : phase[r] # "closing"
      BY <1>1, Zenon DEF FirstRun
    <2> QED BY <1>2, <1>15, <2>1, Zenon DEF vars
  <1> QED BY <1>3, <1>4, <1>5, <1>6, <1>7, <1>8, <1>9, <1>10, <1>11, <1>12, <1>13, <1>14, <1>15, Zenon
          DEF Next, WorkerStep, Startup

LEMMA Reliable ==
  ASSUME SingleReplica, ~StoreFaults
  PROVE  Spec => []ReliableInv
  <1>1. Init => ReliableInv
    BY DEF Init, ReliableInv, RunningHeld, StepsOwed, FirstRun
  <1>2. PoolInv /\ ReliableInv /\ [Next]_vars => ReliableInv'
    BY RunningHeldStep, StepsOwedStep, FirstRunStep, Zenon DEF ReliableInv
  <1> QED BY <1>1, <1>2, PoolSafe, PTL DEF Spec

\* While a worker executes a job nothing else writes its status.
THEOREM OwnerIsAlone == ASSUME SingleReplica PROVE Spec => []OwnerSeesRunning
  BY OneOwner, PTL

\* With a reliable store a process that serves requests has found every job an
\* earlier one left RUNNING.
THEOREM NoZombies == ASSUME SingleReplica PROVE Spec => []NoZombie
  <1>1. CASE StoreFaults
    <2>1. NoZombie
      BY <1>1, Zenon DEF NoZombie
    <2> QED BY <2>1, PTL
  <1>2. CASE ~StoreFaults
    <2>1. PoolInv /\ ReliableInv => NoZombie
      BY Zenon DEF PoolInv, OrphansUnowned, ReliableInv, RunningHeld, NoZombie
    <2> QED BY <1>2, <2>1, Reliable, PoolSafe, PTL
  <1> QED BY <1>1, <1>2, Zenon

\* With a reliable store a COMPLETED job has all its step results, and none
\* twice unless a process stopped.
THEOREM StepsAreThere == ASSUME SingleReplica PROVE Spec => []CompletedHasSteps
  <1>1. CASE StoreFaults
    <2>1. CompletedHasSteps
      BY <1>1, Zenon DEF CompletedHasSteps
    <2> QED BY <2>1, PTL
  <1>2. CASE ~StoreFaults
    <2>1. ReliableInv => CompletedHasSteps
      BY Zenon DEF ReliableInv, StepsOwed, FirstRun, CompletedHasSteps
    <2> QED BY <1>2, <2>1, Reliable, PTL
  <1> QED BY <1>1, <1>2, Zenon
-----------------------------------------------------------------------------
(***************************************************************************)
(* Room for the orphans.  A process that stops leaves at most one RUNNING  *)
(* job per worker, and until requests are served again no other job is     *)
(* queued: what the queue has to hold is bounded by the number of workers. *)
(***************************************************************************)
\* The jobs that are RUNNING, on their way to the queue, in it or with a worker.
InPlay ==
    {j \in Jobs : \/ status[j] = "RUNNING"
                  \/ InQueue(j)
                  \/ \E r \in Replicas : orphan[r] = j
                  \/ \E w \in Workers : HeldBy(w, j)}

\* No request has reached the process yet.
Early == \E r \in Replicas : phase[r] \in {"down", "listing", "requeueing"}

RoomInv ==
    Early => IsFiniteSet(InPlay) /\ Cardinality(InPlay) <= Cardinality(Workers)

\* A set within one that has at most as many members as there are workers.
LEMMA RoomWithin ==
  ASSUME NEW S, IsFiniteSet(S), Cardinality(S) <= Cardinality(Workers),
         NEW T, T \subseteq S
  PROVE  IsFiniteSet(T) /\ Cardinality(T) <= Cardinality(Workers)
  <1>1. /\ IsFiniteSet(T) /\ Cardinality(T) <= Cardinality(S)
    BY FS_Subset, Zenon
  <1>2. /\ Cardinality(T) \in Nat /\ Cardinality(S) \in Nat
        /\ Cardinality(Workers) \in Nat
    BY <1>1, FS_CardinalityType, PoolAssumption, Zenon
  <1> QED BY <1>1, <1>2

\* Before requests are served, jobs only leave the set.
LEMMA RoomShrinks ==
  ASSUME RoomInv, Early' => Early /\ InPlay' \subseteq InPlay
  PROVE  RoomInv'
  <1> SUFFICES ASSUME Early'
               PROVE  IsFiniteSet(InPlay') /\ Cardinality(InPlay') <= Cardinality(Workers)
    BY Zenon DEF RoomInv
  <1>1. /\ IsFiniteSet(InPlay) /\ Cardinality(InPlay) <= Cardinality(Workers)
        /\ InPlay' \subseteq InPlay
    BY Zenon DEF RoomInv
  <1> QED BY <1>1, RoomWithin, Zenon

\* A job each for the workers that execute one: no more jobs than workers.
LEMMA ExecutedFit ==
  ASSUME NEW S, \A j \in S : \E w \in Workers : Executing(w) /\ wjob[w] = j
  PROVE  IsFiniteSet(S) /\ Cardinality(S) <= Cardinality(Workers)
  <1> DEFINE E == {w \in Workers : Executing(w)}
             T == {wjob[w] : w \in E}
             f == [w \in E |-> wjob[w]]
  <1>1. IsFiniteSet(E) /\ Cardinality(E) <= Cardinality(Workers)
    BY FS_Subset, PoolAssumption, Zenon
  <1>2. f \in Surjection(E, T)
    BY Zenon DEF Surjection
  <1>3. IsFiniteSet(T) /\ Cardinality(T) <= Cardinality(E)
    BY <1>1, <1>2, FS_Surjection, Zenon
  <1>4. Cardinality(T) <= Cardinality(Workers)
    <2>1. /\ Cardinality(T) \in Nat /\ Cardinality(E) \in Nat
          /\ Cardinality(Workers) \in Nat
      BY <1>1, <1>3, FS_CardinalityType, PoolAssumption, Zenon
    <2> QED BY <1>1, <1>3, <2>1
  <1>5. S \subseteq T
    BY Zenon
  <1> QED BY <1>3, <1>4, <1>5, RoomWithin, Zenon

\* A queue without repetition is no longer than the set its jobs are from.
LEMMA DistinctFit ==
  ASSUME NEW q \in Seq(Jobs), NEW T, IsFiniteSet(T),
         \A k \in 1..Len(q) : q[k] \in T,
         \A k, m \in 1..Len(q) : q[k] = q[m] => k = m
  PROVE  Len(q) <= Cardinality(T) /\ Len(q) \in Nat
  <1> DEFINE D == 1..Len(q)
             f == [k \in D |-> q[k]]
  <1>1. Len(q) \in Nat
    OBVIOUS
  <1>2. Cardinality(D) = Len(q)
    <2>1. 1 \in Int /\ Len(q) \in Int
      BY <1>1
    <2>2. Cardinality(1..Len(q)) = IF 1 > Len(q) THEN 0 ELSE Len(q) - 1 + 1
      BY <2>1, FS_Interval, Zenon
    <2> QED BY <1>1, <2>2
  <1> HIDE DEF D
  <1>3. f \in Injection(D, T)
    <2>1. f \in [D -> T] /\ \A k, m \in D : f[k] = f[m] => k = m
      BY Zenon DEF D
    <2> HIDE DEF f
    <2> QED BY <2>1, Zenon DEF Injection, IsInjective
  <1>4. Cardinality(D) <= Cardinality(T)
    BY <1>3, FS_Injection, Zenon
  <1> QED BY <1>1, <1>2, <1>4, Zenon

\* A step that leaves the queue and the places of the workers alone.
LEMMA RoomSame ==
  ASSUME PoolInv, RoomInv, UNCHANGED <<queue, wpc, wjob>>,
         Early' => Early,
         \A j \in Jobs : status'[j] = "RUNNING" => j \in InPlay,
         \A r \in Replicas : \A j \in Jobs : orphan'[r] = j => j \in InPlay
  PROVE  RoomInv'
  <1>1. InPlay' \subseteq InPlay
    <2>1. \A j \in Jobs : (InQueue(j)' => j \in InPlay)
                          /\ \A w \in Workers : HeldBy(w, j)' => j \in InPlay
      BY WorkersSame, Zenon DEF InPlay
    <2> QED BY <2>1, Zenon DEF InPlay
  <1> QED BY <1>1, RoomShrinks, Zenon

\* A step of a worker.
LEMMA RoomWorker ==
  ASSUME SingleReplica, ~StoreFaults, PoolInv, RoomInv, NEW w \in Workers, WorkerStep(w)
  PROVE  RoomInv'
  <1>0. TypeOK
    BY Zenon DEF PoolInv
  <1>1. /\ UNCHANGED <<phase, orphan>>
        /\ \A v \in Workers : v # w => wpc'[v] = wpc[v] /\ wjob'[v] = wjob[v]
    BY <1>0, Zenon DEF WorkerStep, Dequeue, Quit, Load, LoadDrops, Claim, ClaimFails, Execute,
                AppendStepResult, Finish, Drop, main, TypeOK
  <1>2. Early' => Early
    BY <1>1, Zenon DEF Early
  <1>3. ASSUME \A j \in Jobs : InQueue(j)' => InQueue(j),
               \A j \in Jobs : status'[j] = "RUNNING" => j \in InPlay,
               \A j \in Jobs : HeldBy(w, j)' => j \in InPlay
        PROVE  RoomInv'
    <2>1. \A v \in Workers : \A j \in Jobs : HeldBy(v, j)' => j \in InPlay
      BY <1>1, <1>3, Zenon DEF HeldBy, Busy, InPlay
    <2>2. \A j \in Jobs : InQueue(j)' => j \in InPlay
      BY <1>3, Zenon DEF InPlay
    <2>3. \A j \in Jobs : \A r \in Replicas : orphan'[r] = j => j \in InPlay
      BY <1>1, Zenon DEF InPlay
    <2>4. InPlay' \subseteq InPlay
      BY <1>3, <2>1, <2>2, <2>3, Zenon DEF InPlay
    <2> QED BY <1>2, <2>4, RoomShrinks, Zenon
  <1>4. \A j \in Jobs : status[j] = "RUNNING" => j \in InPlay
    BY Zenon DEF InPlay
  <1>5. ASSUME Busy(w), wjob[w] \in Jobs
        PROVE  wjob[w] \in InPlay
    BY <1>5, Zenon DEF InPlay, HeldBy
  <1>6. CASE Dequeue(w)
    <2> DEFINE r == Home[w]
               j == Head(queue[r])
    <2>1. /\ r \in Replicas /\ queue[r] # << >> /\ queue' = [queue EXCEPT ![r] = Tail(@)]
          /\ wjob' = [wjob EXCEPT ![w] = j] /\ UNCHANGED status
      BY <1>6, PoolAssumption, Zenon DEF Dequeue, store
    <2>2. wjob'[w] = j
      BY <1>0, <2>1, Zenon DEF TypeOK
    <2> HIDE DEF r, j
    <2>3. /\ j \in Jobs /\ InQueue(j)
          /\ \A k \in Jobs : InQueue(k)' => InQueue(k)
      BY <1>0, <2>1, QueueTail, Zenon DEF j
    <2>4. j \in InPlay
      BY <2>3, Zenon DEF InPlay
    <2> QED BY <1>3, <1>4, <2>1, <2>2, <2>3, <2>4, Zenon DEF HeldBy
  <1>7. CASE Quit(w) \/ Load(w) \/ LoadDrops(w) \/ Claim(w) \/ Execute(w)
             \/ AppendStepResult(w) \/ Finish(w)
    <2>1. UNCHANGED queue
      BY <1>7, Zenon DEF Quit, Load, LoadDrops, Claim, Execute, AppendStepResult, Finish
    <2>2. \A j \in Jobs : InQueue(j)' => InQueue(j)
      BY <2>1, QueueSame, Zenon
    <2>3. Busy(w)' => Busy(w) /\ wjob[w] \in Jobs /\ wjob'[w] = wjob[w]
      BY <1>0, <1>7, Zenon DEF Quit, Load, LoadDrops, Claim, Execute, AppendStepResult, Finish,
                        Drop, HeldBy, Busy, TypeOK
    <2>4. \A j \in Jobs : status'[j] = "RUNNING" =>
              status[j] = "RUNNING" \/ (Busy(w) /\ wjob[w] = j)
      BY <1>0, <1>7, Zenon DEF Quit, Load, LoadDrops, Claim, Execute, AppendStepResult, Finish,
                        SetJobStatus, store, Busy, TypeOK, Terminal
    <2>5. \A j \in Jobs : HeldBy(w, j)' => j \in InPlay
      BY <1>5, <2>3, Zenon DEF HeldBy
    <2>6. \A j \in Jobs : status'[j] = "RUNNING" => j \in InPlay
      BY <1>4, <1>5, <2>4, Zenon
    <2> QED BY <1>3, <2>2, <2>5, <2>6, Zenon
  <1>8. ~ClaimFails(w)
    BY Zenon DEF ClaimFails
  <1> QED BY <1>6, <1>7, <1>8, Zenon DEF WorkerStep

\* A process that stops leaves the jobs its workers execute, and no others.
LEMMA RoomHalt ==
  ASSUME SingleReplica, PoolInv, RunningHeld, RoomInv, NEW r \in Replicas, Halt(r)
  PROVE  RoomInv'
  <1>0. TypeOK /\ \A s \in Replicas : s = r
    BY Zenon DEF PoolInv, SingleReplica
  <1>1. /\ UNCHANGED status /\ orphan'[r] = NoJob /\ queue'[r] = << >>
        /\ \A w \in Workers : ~Busy(w)'
    BY <1>0, PoolAssumption, Zenon DEF Halt, TypeOK, store, Busy
  <1>2. InPlay' = {j \in Jobs : status[j] = "RUNNING"}
    <2>1. \A j \in Jobs : ~InQueue(j)'
      BY <1>0, <1>1 DEF InQueue
    <2>2. \A j \in Jobs : \A s \in Replicas : orphan'[s] # j
      BY <1>0, <1>1, PoolAssumption, Zenon
    <2> QED BY <1>1, <2>1, <2>2, Zenon DEF InPlay, HeldBy
  <1>3. CASE Early
    <2>1. InPlay' \subseteq InPlay
      BY <1>2, Zenon DEF InPlay
    <2> QED BY <1>3, <2>1, RoomShrinks, Zenon
  <1>4. CASE ~Early
    <2>1. phase[r] \in {"serving", "closing"} /\ todo[r] = {}
      BY <1>0, <1>4, Zenon DEF Early, TypeOK, Phase, PoolInv, OrphansUnowned
    <2>2. \A j \in InPlay' : \E w \in Workers : Executing(w) /\ wjob[w] = j
      BY <1>2, <2>1, Zenon DEF RunningHeld
    <2>3. IsFiniteSet(InPlay') /\ Cardinality(InPlay') <= Cardinality(Workers)
      BY <2>2, ExecutedFit, Zenon
    <2> QED BY <2>3, Zenon DEF RoomInv
  <1> QED BY <1>3, <1>4, Zenon

LEMMA RoomStep ==
  ASSUME SingleReplica, ~StoreFaults, PoolInv, RunningHeld, RoomInv, [Next]_vars
  PROVE  RoomInv'
  <1>0. TypeOK
    BY Zenon DEF PoolInv
  <1>1. \A j \in Jobs : status[j] = "RUNNING" => j \in InPlay
    BY Zenon DEF InPlay
  <1>2. \A r \in Replicas : \A j \in Jobs : orphan[r] = j => j \in InPlay
    BY Zenon DEF InPlay
  <1>3. ASSUME NEW r \in Replicas, phase'[r] \in {"serving", "closing"}
        PROVE  RoomInv'
    BY <1>3, Zenon DEF RoomInv, Early, SingleReplica
  <1>4. ASSUME NEW r \in Replicas, NEW j \in Jobs, SubmitCreate(r, j) \/ SubmitFails(r, j)
        PROVE  RoomInv'
    BY <1>3, <1>4, Zenon DEF SubmitCreate, SubmitFails, main
  <1>5. ASSUME NEW j \in Jobs, SubmitEnqueue(j) \/ SubmitQueueFull(j)
        PROVE  RoomInv'
    <2>1. request[j] = "created" /\ UNCHANGED phase
      BY <1>5, Zenon DEF SubmitEnqueue, SubmitQueueFull, main
    <2>2. via[j] \in Replicas /\ phase[via[j]] \in {"serving", "closing"}
      BY <1>0, <2>1, Zenon DEF TypeOK, PoolInv, WaitingIsPending
    <2> QED BY <1>3, <2>1, <2>2, Zenon
  <1>6. ASSUME NEW r \in Replicas, NewPool(r)
        PROVE  RoomInv'
    <2>1. /\ phase[r] = "down" /\ UNCHANGED <<status, queue, orphan>>
          /\ \A w \in Workers : Busy(w)' => Busy(w) /\ wjob'[w] = wjob[w]
      BY <1>0, <1>6, Zenon DEF NewPool, TypeOK, HeldBy, Busy, store
    <2>2. InPlay' \subseteq InPlay
      <3>1. \A j \in Jobs : InQueue(j)' => InQueue(j)
        BY <2>1, QueueSame, Zenon
      <3>2. \A j \in Jobs : \A w \in Workers : HeldBy(w, j)' => HeldBy(w, j)
        BY <2>1, Zenon DEF HeldBy
      <3> QED BY <2>1, <3>1, <3>2, Zenon DEF InPlay
    <2>3. Early
      BY <2>1, Zenon DEF Early
    <2> QED BY <2>2, <2>3, RoomShrinks, Zenon
  <1>7. ASSUME NEW r \in Replicas, ListOrphans(r)
        PROVE  RoomInv'
    <2>1. phase[r] = "listing" /\ UNCHANGED <<status, queue, wpc, wjob, orphan>>
      BY <1>7, Zenon DEF ListOrphans, store, worker
    <2>2. Early
      BY <2>1, Zenon DEF Early
    <2> QED BY <1>1, <1>2, <2>1, <2>2, RoomSame, Zenon
  <1>8. ASSUME NEW r \in Replicas, ResetOrphan(r)
        PROVE  RoomInv'
    <2>1. PICK j \in todo[r] : /\ SetJobStatus(j, "PENDING")
                               /\ orphan' = [orphan EXCEPT ![r] = j]
      BY <1>8, Zenon DEF ResetOrphan
    <2>2. UNCHANGED <<phase, queue, wpc, wjob>>
      BY <1>8, Zenon DEF ResetOrphan, worker
    <2>3. j \in Jobs /\ status[j] = "RUNNING"
      BY <1>0, <2>1, Zenon DEF TypeOK, PoolInv, OrphansUnowned
    <2>4. /\ \A k \in Jobs : status'[k] = "RUNNING" => status[k] = "RUNNING"
          /\ \A s \in Replicas : orphan'[s] = orphan[s] \/ orphan'[s] = j
      BY <1>0, <2>1, <2>3, Zenon DEF SetJobStatus, TypeOK
    <2>5. Early' => Early
      BY <2>2, Zenon DEF Early
    <2> QED BY <1>1, <1>2, <2>2, <2>3, <2>4, <2>5, RoomSame, Zenon
  <1>9. ASSUME NEW r \in Replicas, EnqueueOrphan(r)
        PROVE  RoomInv'
    <2>1. /\ UNCHANGED <<status, phase, wpc, wjob>> /\ orphan[r] \in Jobs
          /\ \/ queue' = [queue EXCEPT ![r] = Append(@, orphan[r])]
             \/ UNCHANGED queue
          /\ \A s \in Replicas : orphan'[s] = orphan[s] \/ orphan'[s] = NoJob
      BY <1>0, <1>9, Zenon DEF EnqueueOrphan, TypeOK, store, worker
    <2>2. \A k \in Jobs : InQueue(k)' => InQueue(k) \/ k = orphan[r]
      BY <1>0, <2>1, QueueAppend, QueueSame, Zenon
    <2>3. InPlay' \subseteq InPlay
      <3>1. \A k \in Jobs : InQueue(k)' => k \in InPlay
        BY <1>2, <2>2, Zenon DEF InPlay
      <3>2. \A k \in Jobs : \A w \in Workers : HeldBy(w, k)' => k \in InPlay
        BY <2>1, Zenon DEF HeldBy, Busy, InPlay
      <3>3. \A k \in Jobs : \A s \in Replicas : orphan'[s] = k => k \in InPlay
        BY <1>2, <2>1, PoolAssumption, Zenon
      <3>4. \A k \in Jobs : status'[k] = "RUNNING" => k \in InPlay
        BY <1>1, <2>1, Zenon
      <3> QED BY <3>1, <3>2, <3>3, <3>4, Zenon DEF InPlay
    <2>4. Early' => Early
      BY <2>1, Zenon DEF Early
    <2> QED BY <2>3, <2>4, RoomShrinks, Zenon
  <1>10. ASSUME NEW r \in Replicas, RequeueFails(r) \/ RequeueDone(r) \/ Close(r)
         PROVE  RoomInv'
    <2>1. phase'[r] \in {"serving", "closing"}
      BY <1>0, <1>10, Zenon DEF RequeueFails, RequeueDone, Close, TypeOK
    <2> QED BY <1>3, <2>1, Zenon
  <1>11. ASSUME NEW r \in Replicas, Exit(r) \/ Crash(r)
         PROVE  RoomInv'
    BY <1>11, RoomHalt, Zenon DEF Exit, Crash
  <1>12. CASE UNCHANGED vars
    <2>1. UNCHANGED <<status, phase, queue, orphan, wpc, wjob>>
      BY <1>12, Zenon DEF vars
    <2>2. Early' => Early
      BY <2>1, Zenon DEF Early
    <2> QED BY <1>1, <1>2, <2>1, <2>2, RoomSame, Zenon
  <1> QED BY <1>4, <1>5, <1>6, <1>7, <1>8, <1>9, <1>10, <1>11, <1>12, RoomWorker, Zenon
          DEF Next, Startup

\* With a reliable store RequeueOrphans finds room for every job an earlier
\* process left RUNNING, if the queue is no shorter than the workers are many.
THEOREM OrphansFit == ASSUME SingleReplica PROVE Spec => []RequeueHasRoom
  <1>1. CASE StoreFaults
    <2>1. RequeueHasRoom
      BY <1>1, Zenon DEF RequeueHasRoom
    <2> QED BY <2>1, PTL
  <1>2. CASE ~StoreFaults
    <2>1. Init => RoomInv
      <3> SUFFICES ASSUME Init PROVE RoomInv
        BY Zenon
      <3>1. InPlay = {}
        BY PoolAssumption DEF Init, InPlay, InQueue, HeldBy, Busy
      <3>2. IsFiniteSet({}) /\ Cardinality({}) = 0 /\ Cardinality(Workers) \in Nat
        BY FS_EmptySet, FS_CardinalityType, PoolAssumption, Zenon
      <3> QED BY <3>1, <3>2 DEF RoomInv
    <2>2. PoolInv /\ ReliableInv /\ RoomInv /\ [Next]_vars => RoomInv'
      BY <1>2, RoomStep, Zenon DEF ReliableInv
    <2>3. PoolInv /\ RoomInv => RequeueHasRoom
      <3> SUFFICES ASSUME PoolInv, RoomInv, QueueCap >= Cardinality(Workers),
                          NEW r \in Replicas, orphan[r] # NoJob
                   PROVE  Len(queue[r]) < QueueCap
        BY Zenon DEF RequeueHasRoom
      <3> DEFINE q == queue[r]
                 T == InPlay \ {orphan[r]}
      <3>1. /\ orphan[r] \in Jobs /\ q \in Seq(Jobs) /\ phase[r] = "requeueing"
        BY Zenon DEF PoolInv, TypeOK, OrphansUnowned
      <3>2. /\ IsFiniteSet(InPlay) /\ Cardinality(InPlay) <= Cardinality(Workers)
            /\ orphan[r] \in InPlay
        BY <3>1, Zenon DEF RoomInv, Early, InPlay
      <3>3. /\ IsFiniteSet(T)
            /\ Cardinality(T) = IF orphan[r] \in InPlay THEN Cardinality(InPlay) - 1
                                ELSE Cardinality(InPlay)
        BY <3>2, FS_RemoveElement, Zenon
      <3>4. \A k \in 1..Len(q) : q[k] \in T
        <4>1. \A k \in 1..Len(q) : q[k] \in Jobs /\ InQueue(q[k])
          BY <3>1 DEF InQueue
        <4>2. ~InQueue(orphan[r])
          BY <3>1, Zenon DEF PoolInv, OnePlace
        <4> QED BY <4>1, <4>2, Zenon DEF InPlay
      <3>5. \A k, m \in 1..Len(q) : q[k] = q[m] => k = m
        BY Zenon DEF PoolInv, OnePlace, QueueDistinct
      <3> HIDE DEF T, q
      <3>6. Len(q) <= Cardinality(T) /\ Len(q) \in Nat
        BY <3>1, <3>3, <3>4, <3>5, DistinctFit, Zenon
      <3>7. /\ Cardinality(InPlay) \in Nat /\ Cardinality(Workers) \in Nat
            /\ QueueCap \in Nat
        BY <3>2, FS_CardinalityType, PoolAssumption, Zenon
      <3>8. Len(q) < QueueCap
        BY <3>2, <3>3, <3>6, <3>7
      <3> QED BY <3>8, Zenon DEF q
    <2> QED BY <1>2, <2>1, <2>2, <2>3, Reliable, PoolSafe, PTL DEF Spec
  <1> QED BY <1>1, <1>2, Zenon
=============================================================================

------------------------------ MODULE JobPool ------------------------------
(***************************************************************************)
(* The asynchronous job service: the execute handlers of internal/api,     *)
(* the worker pool of internal/engine, the job store behind the            *)
(* store.Store interface, and the start, shutdown and crash of a process   *)
(* (cmd/harness).  Each replica is one harness process with its own queue  *)
(* and workers; all replicas share the store, and a single replica is the  *)
(* default deployment.  What outlives a process is status and rows.        *)
(*                                                                         *)
(* Every call of the store is one atomic step, as JobStore says: one SQL   *)
(* statement of the SQLite store, and RedisStore shows it of the Redis     *)
(* one.  With StoreFaults a call may also return an error, and then it may *)
(* have written or not: a connection can break before the answer.          *)
(***************************************************************************)
EXTENDS Naturals, Sequences, FiniteSets

CONSTANTS
    Jobs,           \* session ids; newSessionID never repeats one
    Replicas,       \* harness processes that share the store
    Workers,        \* worker goroutines of all replicas
    Home,           \* Home[w]: the replica that worker w belongs to
    Kind,           \* Kind[j]: what job j runs, "agent" or "pipeline"
    PipelineSteps,  \* number of steps of a pipeline
    QueueCap,       \* capacity of a replica's queue channel
    MaxStops,       \* bound on crashes and shutdowns, of all replicas
    StoreFaults,    \* may a call of the store fail?
    NoJob, NoReplica

ASSUME PoolAssumption ==
    /\ Home \in [Workers -> Replicas]
    /\ Kind \in [Jobs -> {"agent", "pipeline"}]
    /\ PipelineSteps \in Nat \ {0}
    /\ QueueCap \in Nat \ {0}
    /\ MaxStops \in Nat
    /\ StoreFaults \in BOOLEAN
    /\ IsFiniteSet(Workers)
    /\ NoJob \notin Jobs
    /\ NoReplica \notin Replicas

VARIABLES
    status,         \* status[j]: the job's row in the store
    rows,           \* rows[j]: number of step results stored for j
    phase,          \* phase[r]: where main is; the queue and the workers
                    \* exist unless it is "down"; "closing": quit is closed
    queue,          \* queue[r]: the channel of session ids
    todo,           \* todo[r]: jobs RequeueOrphans listed and has yet to reset
    orphan,         \* orphan[r]: the job it reset and has yet to enqueue
    metrics,        \* metrics[r]: the job counters of the process
    wpc,            \* wpc[w]: where worker w is
    wjob,           \* wjob[w]: the job it took from the queue
    wout,           \* wout[w]: the terminal status it is about to write
    wleft,          \* wleft[w]: step results it has yet to append
    request,        \* request[j]: the execute request that submits j
    via,            \* via[j]: the replica that handles that request
    stops           \* crashes and shutdowns so far

store == <<status, rows>>
main == <<phase, todo, orphan>>
worker == <<wpc, wjob, wout, wleft>>
client == <<request, via>>
vars == <<status, rows, phase, queue, todo, orphan, metrics,
          wpc, wjob, wout, wleft, request, via, stops>>

Terminal == {"COMPLETED", "FAILED"}
JobStatus == {"ABSENT", "PENDING", "RUNNING"} \cup Terminal
Phase == {"down", "listing", "requeueing", "serving", "closing"}
WorkerPC == {"off", "idle", "load", "claim", "exec", "record", "stopped"}
Request == {"none", "created", "accepted", "queue_full", "error", "lost"}
Counters == {"submitted", "completed", "failed"}
NoMetrics == [c \in Counters |-> 0]

WorkersOf(r) == {w \in Workers : Home[w] = r}
Busy(w) == wpc[w] \in {"load", "claim", "exec", "record"}
Executing(w) == wpc[w] \in {"exec", "record"}
Queued(r) == {queue[r][i] : i \in 1..Len(queue[r])}

SetJobStatus(j, s) == status' = [status EXCEPT ![j] = s]
-----------------------------------------------------------------------------
(***************************************************************************)
(* Submitting a job: handleExecuteAgent / handleExecutePipeline call       *)
(* Pool.Submit.  A request that is in flight at shutdown and outlives      *)
(* srv.Shutdown's ten seconds still reaches Submit in phase "closing".     *)
(***************************************************************************)
\* Mutant: requests are served before RequeueOrphans is done.
SubmitCreateEarly(r, j) ==
    /\ phase[r] # "down"
    /\ request[j] = "none"
    /\ SetJobStatus(j, "PENDING")
    /\ request' = [request EXCEPT ![j] = "created"]
    /\ via' = [via EXCEPT ![j] = r]
    /\ UNCHANGED <<rows, main, queue, metrics, worker, stops>>

SubmitCreate(r, j) ==
    /\ phase[r] \in {"serving", "closing"}
    /\ request[j] = "none"
    /\ SetJobStatus(j, "PENDING")
    /\ request' = [request EXCEPT ![j] = "created"]
    /\ via' = [via EXCEPT ![j] = r]
    /\ UNCHANGED <<rows, main, queue, metrics, worker, stops>>

\* CreateJob returns an error: 500, and nobody runs the job if there is one.
SubmitFails(r, j) ==
    /\ StoreFaults
    /\ phase[r] \in {"serving", "closing"}
    /\ request[j] = "none"
    /\ SetJobStatus(j, "PENDING") \/ UNCHANGED status
    /\ request' = [request EXCEPT ![j] = "error"]
    /\ UNCHANGED <<rows, main, queue, metrics, worker, via, stops>>

\* Mutant: the job is answered with 202 and not queued.
SubmitEnqueueLost(j) ==
    /\ request[j] = "created"
    /\ metrics' = [metrics EXCEPT ![via[j]]["submitted"] = @ + 1]
    /\ request' = [request EXCEPT ![j] = "accepted"]
    /\ UNCHANGED <<store, main, queue, worker, via, stops>>

SubmitEnqueue(j) ==
    LET r == via[j] IN
    /\ request[j] = "created"
    /\ Len(queue[r]) < QueueCap
    /\ metrics' = [metrics EXCEPT ![r]["submitted"] = @ + 1]
    /\ queue' = [queue EXCEPT ![r] = Append(@, j)]
    /\ request' = [request EXCEPT ![j] = "accepted"]
    /\ UNCHANGED <<store, main, worker, via, stops>>

\* ErrQueueFull, answered with 503: the job stays PENDING in the store.
SubmitQueueFull(j) ==
    LET r == via[j] IN
    /\ request[j] = "created"
    /\ Len(queue[r]) >= QueueCap
    /\ metrics' = [metrics EXCEPT ![r]["submitted"] = @ + 1]
    /\ request' = [request EXCEPT ![j] = "queue_full"]
    /\ UNCHANGED <<store, main, queue, worker, via, stops>>
-----------------------------------------------------------------------------
(***************************************************************************)
(* A worker: select on quit and queue, then run and execute.               *)
(***************************************************************************)
Dequeue(w) ==
    LET r == Home[w] IN
    /\ wpc[w] = "idle"
    /\ queue[r] # << >>
    /\ wpc' = [wpc EXCEPT ![w] = "load"]
    /\ wjob' = [wjob EXCEPT ![w] = Head(queue[r])]
    /\ queue' = [queue EXCEPT ![r] = Tail(@)]
    /\ UNCHANGED <<store, main, metrics, wout, wleft, client, stops>>

Quit(w) ==
    /\ wpc[w] = "idle"
    /\ phase[Home[w]] = "closing"
    /\ wpc' = [wpc EXCEPT ![w] = "stopped"]
    /\ UNCHANGED <<store, main, queue, metrics, wjob, wout, wleft, client, stops>>

\* run returns: the worker forgets the job and goes back to the select.
Drop(w) ==
    /\ wpc' = [wpc EXCEPT ![w] = "idle"]
    /\ wjob' = [wjob EXCEPT ![w] = NoJob]
    /\ wout' = [wout EXCEPT ![w] = "none"]

\* GetJob, and the test that the job is still PENDING.
Load(w) ==
    /\ wpc[w] = "load"
    /\ status[wjob[w]] = "PENDING"
    /\ wpc' = [wpc EXCEPT ![w] = "claim"]
    /\ UNCHANGED <<store, main, queue, metrics, wjob, wout, wleft, client, stops>>

\* GetJob fails, or another worker was faster.
LoadDrops(w) ==
    /\ wpc[w] = "load"
    /\ StoreFaults \/ status[wjob[w]] # "PENDING"
    /\ Drop(w)
    /\ UNCHANGED <<store, main, queue, metrics, wleft, client, stops>>

\* Mutant: run goes on when RUNNING could not be written.
ClaimIgnoringError(w) ==
    /\ wpc[w] = "claim"
    /\ \/ SetJobStatus(wjob[w], "RUNNING")
       \/ StoreFaults /\ UNCHANGED status
    /\ wpc' = [wpc EXCEPT ![w] = "exec"]
    /\ UNCHANGED <<rows, main, queue, metrics, wjob, wout, wleft, client, stops>>

\* SetJobStatus RUNNING, whatever the status is by now.
Claim(w) ==
    /\ wpc[w] = "claim"
    /\ SetJobStatus(wjob[w], "RUNNING")
    /\ wpc' = [wpc EXCEPT ![w] = "exec"]
    /\ UNCHANGED <<rows, main, queue, metrics, wjob, wout, wleft, client, stops>>

\* The write returns an error: run returns, and the job is in no queue, PENDING
\* or RUNNING.
ClaimFails(w) ==
    /\ StoreFaults
    /\ wpc[w] = "claim"
    /\ SetJobStatus(wjob[w], "RUNNING") \/ UNCHANGED status
    /\ Drop(w)
    /\ UNCHANGED <<rows, main, queue, metrics, wleft, client, stops>>

\* How an execution can end, and how many step results it leaves to append.
\* A pipeline that cannot start (unknown id, missing input) has no steps.
Outcomes(j) ==
    IF Kind[j] = "agent"
    THEN {<<"COMPLETED", 1>>, <<"FAILED", 1>>}
    ELSE {<<"COMPLETED", PipelineSteps>>, <<"FAILED", PipelineSteps>>,
          <<"FAILED", 0>>}

Execute(w) ==
    /\ wpc[w] = "exec"
    /\ \E o \in Outcomes(wjob[w]) :
        /\ wout' = [wout EXCEPT ![w] = o[1]]
        /\ wleft' = [wleft EXCEPT ![w] = o[2]]
    /\ wpc' = [wpc EXCEPT ![w] = "record"]
    /\ UNCHANGED <<store, main, queue, metrics, wjob, client, stops>>

\* An error of AppendStepResult is ignored.
AppendStepResult(w) ==
    /\ wpc[w] = "record"
    /\ wleft[w] > 0
    /\ wleft' = [wleft EXCEPT ![w] = @ - 1]
    /\ \/ rows' = [rows EXCEPT ![wjob[w]] = @ + 1]
       \/ StoreFaults /\ UNCHANGED rows
    /\ UNCHANGED <<status, main, queue, metrics, wpc, wjob, wout, client, stops>>

\* Mutant: the terminal status is written before the step results.
FinishBeforeSteps(w) ==
    /\ wpc[w] = "record"
    /\ SetJobStatus(wjob[w], wout[w])
    /\ Drop(w)
    /\ wleft' = [wleft EXCEPT ![w] = 0]
    /\ UNCHANGED <<rows, main, queue, metrics, client, stops>>

\* The counter moves even when writing the terminal status fails.
Finish(w) ==
    LET r == Home[w] IN
    /\ wpc[w] = "record"
    /\ wleft[w] = 0
    /\ LET c == IF wout[w] = "FAILED" THEN "failed" ELSE "completed"
       IN  metrics' = [metrics EXCEPT ![r][c] = @ + 1]
    /\ \/ SetJobStatus(wjob[w], wout[w])
       \/ StoreFaults /\ UNCHANGED status
    /\ Drop(w)
    /\ UNCHANGED <<rows, main, queue, wleft, client, stops>>
-----------------------------------------------------------------------------
(***************************************************************************)
(* The process.  main builds the pool (the workers run from then on),      *)
(* calls RequeueOrphans once, and only then serves requests.               *)
(***************************************************************************)
NewPool(r) ==
    /\ phase[r] = "down"
    /\ phase' = [phase EXCEPT ![r] = "listing"]
    /\ wpc' = [w \in Workers |-> IF Home[w] = r THEN "idle" ELSE wpc[w]]
    /\ UNCHANGED <<store, queue, todo, orphan, metrics, wjob, wout, wleft,
                   client, stops>>

\* Mutants: RequeueOrphans lists the wrong jobs.
ListPending == {j \in Jobs : status[j] = "PENDING"}
ListFailedToo == {j \in Jobs : status[j] \in {"RUNNING", "FAILED"}}
ListUnfinished == {j \in Jobs : status[j] \in {"RUNNING", "PENDING"}}

\* The jobs ListJobsByStatus(RUNNING) returns.
Running == {j \in Jobs : status[j] = "RUNNING"}

ListOrphans(r) ==
    /\ phase[r] = "listing"
    /\ phase' = [phase EXCEPT ![r] = "requeueing"]
    /\ todo' = [todo EXCEPT ![r] = Running]
    /\ UNCHANGED <<store, queue, orphan, metrics, worker, client, stops>>

\* The jobs are visited oldest first; created_at is a millisecond clock and
\* ties fall back to the random session id, so any order can occur.
ResetOrphan(r) ==
    /\ phase[r] = "requeueing"
    /\ orphan[r] = NoJob
    /\ \E j \in todo[r] :
        /\ SetJobStatus(j, "PENDING")
        /\ todo' = [todo EXCEPT ![r] = @ \ {j}]
        /\ orphan' = [orphan EXCEPT ![r] = j]
    /\ UNCHANGED <<rows, phase, queue, metrics, worker, client, stops>>

\* The listing or a reset fails: RequeueOrphans returns, and main logs the
\* error and serves all the same.
RequeueFails(r) ==
    /\ StoreFaults
    /\ \/ phase[r] = "listing" /\ UNCHANGED status
       \/ /\ phase[r] = "requeueing" /\ orphan[r] = NoJob
          /\ \E j \in todo[r] : SetJobStatus(j, "PENDING") \/ UNCHANGED status
    /\ phase' = [phase EXCEPT ![r] = "serving"]
    /\ todo' = [todo EXCEPT ![r] = {}]
    /\ UNCHANGED <<rows, queue, orphan, metrics, worker, client, stops>>

\* Mutant: the orphan is reset and not enqueued.
ForgetOrphan(r) ==
    /\ orphan[r] # NoJob
    /\ orphan' = [orphan EXCEPT ![r] = NoJob]
    /\ UNCHANGED <<store, phase, queue, todo, metrics, worker, client, stops>>

\* Enqueue never blocks: with the queue full the job stays PENDING, unqueued.
EnqueueOrphan(r) ==
    /\ orphan[r] # NoJob
    /\ orphan' = [orphan EXCEPT ![r] = NoJob]
    /\ queue' = IF Len(queue[r]) < QueueCap
                THEN [queue EXCEPT ![r] = Append(@, orphan[r])]
                ELSE queue
    /\ UNCHANGED <<store, phase, todo, metrics, worker, client, stops>>

RequeueDone(r) ==
    /\ phase[r] = "requeueing"
    /\ todo[r] = {}
    /\ orphan[r] = NoJob
    /\ phase' = [phase EXCEPT ![r] = "serving"]
    /\ UNCHANGED <<store, queue, todo, orphan, metrics, worker, client, stops>>

\* SIGTERM: srv.Shutdown, then the deferred pool.Close closes quit.
Close(r) ==
    /\ phase[r] = "serving"
    /\ stops < MaxStops
    /\ stops' = stops + 1
    /\ phase' = [phase EXCEPT ![r] = "closing"]
    /\ UNCHANGED <<store, queue, todo, orphan, metrics, worker, client>>

\* The process ends: everything but the store is gone.
Halt(r) ==
    /\ phase' = [phase EXCEPT ![r] = "down"]
    /\ queue' = [queue EXCEPT ![r] = << >>]
    /\ todo' = [todo EXCEPT ![r] = {}]
    /\ orphan' = [orphan EXCEPT ![r] = NoJob]
    /\ metrics' = [metrics EXCEPT ![r] = NoMetrics]
    /\ wpc' = [w \in Workers |-> IF Home[w] = r THEN "off" ELSE wpc[w]]
    /\ wjob' = [w \in Workers |-> IF Home[w] = r THEN NoJob ELSE wjob[w]]
    /\ wout' = [w \in Workers |-> IF Home[w] = r THEN "none" ELSE wout[w]]
    /\ wleft' = [w \in Workers |-> IF Home[w] = r THEN 0 ELSE wleft[w]]
    /\ request' = [j \in Jobs |-> IF request[j] = "created" /\ via[j] = r
                                  THEN "lost" ELSE request[j]]
    /\ UNCHANGED <<store, via>>

\* Close returns once every worker has left its loop, and main returns.
Exit(r) ==
    /\ phase[r] = "closing"
    /\ \A w \in WorkersOf(r) : wpc[w] = "stopped"
    /\ Halt(r)
    /\ UNCHANGED stops

Crash(r) ==
    /\ phase[r] # "down"
    /\ stops < MaxStops
    /\ stops' = stops + 1
    /\ Halt(r)
-----------------------------------------------------------------------------
Init ==
    /\ status = [j \in Jobs |-> "ABSENT"]
    /\ rows = [j \in Jobs |-> 0]
    /\ phase = [r \in Replicas |-> "down"]
    /\ queue = [r \in Replicas |-> << >>]
    /\ todo = [r \in Replicas |-> {}]
    /\ orphan = [r \in Replicas |-> NoJob]
    /\ metrics = [r \in Replicas |-> NoMetrics]
    /\ wpc = [w \in Workers |-> "off"]
    /\ wjob = [w \in Workers |-> NoJob]
    /\ wout = [w \in Workers |-> "none"]
    /\ wleft = [w \in Workers |-> 0]
    /\ request = [j \in Jobs |-> "none"]
    /\ via = [j \in Jobs |-> NoReplica]
    /\ stops = 0

WorkerStep(w) ==
    \/ Dequeue(w) \/ Quit(w) \/ Load(w) \/ LoadDrops(w) \/ Claim(w)
    \/ ClaimFails(w) \/ Execute(w) \/ AppendStepResult(w) \/ Finish(w)

Startup(r) ==
    \/ NewPool(r) \/ ListOrphans(r) \/ ResetOrphan(r)
    \/ EnqueueOrphan(r) \/ RequeueFails(r) \/ RequeueDone(r)

Next ==
    \/ \E r \in Replicas, j \in Jobs : SubmitCreate(r, j) \/ SubmitFails(r, j)
    \/ \E j \in Jobs : SubmitEnqueue(j) \/ SubmitQueueFull(j)
    \/ \E w \in Workers : WorkerStep(w)
    \/ \E r \in Replicas : Startup(r) \/ Close(r) \/ Exit(r) \/ Crash(r)

Spec == Init /\ [][Next]_vars

(***************************************************************************)
(* The Go scheduler runs every goroutine; RunAgent and RunPipeline return  *)
(* (every model call has a deadline), the supervisor restarts a process    *)
(* that ended.  Requests, crashes and shutdowns need never happen.         *)
(***************************************************************************)
Fairness ==
    /\ \A w \in Workers : WF_vars(WorkerStep(w))
    /\ \A r \in Replicas : WF_vars(Startup(r)) /\ WF_vars(Exit(r))
    /\ \A j \in Jobs : WF_vars(SubmitEnqueue(j) \/ SubmitQueueFull(j))

FairSpec == Spec /\ Fairness
-----------------------------------------------------------------------------
(***************************************************************************)
(* Properties                                                              *)
(***************************************************************************)
\* Every variable has its type and no queue holds more than its capacity.
TypeOK ==
    /\ status \in [Jobs -> JobStatus]
    /\ rows \in [Jobs -> Nat]
    /\ phase \in [Replicas -> Phase]
    /\ queue \in [Replicas -> Seq(Jobs)]
    /\ \A r \in Replicas : Len(queue[r]) <= QueueCap
    /\ todo \in [Replicas -> SUBSET Jobs]
    /\ orphan \in [Replicas -> Jobs \cup {NoJob}]
    /\ metrics \in [Replicas -> [Counters -> Nat]]
    /\ wpc \in [Workers -> WorkerPC]
    /\ wjob \in [Workers -> Jobs \cup {NoJob}]
    /\ \A w \in Workers : Busy(w) => wjob[w] \in Jobs
    /\ wout \in [Workers -> Terminal \cup {"none"}]
    /\ \A w \in Workers : wpc[w] = "record" => wout[w] \in Terminal
    /\ wleft \in [Workers -> Nat]
    /\ request \in [Jobs -> Request]
    /\ via \in [Jobs -> Replicas \cup {NoReplica}]
    /\ \A j \in Jobs : request[j] = "created" => via[j] \in Replicas
    /\ stops \in 0..MaxStops

\* No two workers hold the same job: run's test of the status and its write
\* of RUNNING are two calls of the store, and nothing else keeps a second
\* worker out.
ExclusiveRun ==
    \A v, w \in Workers : Busy(v) /\ Busy(w) /\ wjob[v] = wjob[w] => v = w

\* While a worker executes a job, the store says RUNNING: no other step
\* (RequeueOrphans, another worker) writes the job's status meanwhile.
OwnerSeesRunning ==
    \A w \in Workers : Executing(w) => status[wjob[w]] = "RUNNING"

\* A job that is COMPLETED or FAILED keeps its status and its step results:
\* a client that has read a terminal status may stop polling.
TerminalFrozen ==
    [][\A j \in Jobs : status[j] \in Terminal =>
            status'[j] = status[j] /\ rows'[j] = rows[j]]_vars

\* The store's view of every job follows the lifecycle of JobLifecycle.
L == INSTANCE JobLifecycle
Lifecycle == L!Spec

\* With a reliable store a process that serves requests has no RUNNING job
\* nobody runs: RequeueOrphans found every one of them.
NoZombie ==
    (~StoreFaults /\ \E r \in Replicas : phase[r] \in {"serving", "closing"}) =>
        \A j \in Jobs : status[j] = "RUNNING" =>
            \E w \in Workers : Executing(w) /\ wjob[w] = j

\* With a reliable store and a queue no shorter than the number of workers
\* (NewPool's default is four times that), RequeueOrphans never drops a job
\* because the queue is full.
RequeueHasRoom ==
    (~StoreFaults /\ QueueCap >= Cardinality(Workers)) =>
        \A r \in Replicas : orphan[r] # NoJob => Len(queue[r]) < QueueCap

StepCount(j) == IF Kind[j] = "agent" THEN 1 ELSE PipelineSteps

\* With a reliable store a COMPLETED job has a result for each of its steps,
\* and exactly one each when no process stopped: a client that sees COMPLETED
\* finds the whole list under /steps.
CompletedHasSteps ==
    ~StoreFaults => \A j \in Jobs : status[j] = "COMPLETED" =>
        /\ rows[j] >= StepCount(j)
        /\ stops = 0 => rows[j] = StepCount(j)

\* A job answered with 202 reaches a terminal status.
AcceptedFinishes ==
    \A j \in Jobs : request[j] = "accepted" ~> status[j] \in Terminal

\* As long as no process stops, a job answered with 202 reaches a terminal
\* status: no wakeup of a worker is lost and none of them stops for good.
UndisturbedFinishes == [](stops = 0) => AcceptedFinishes

\* A job that was RUNNING reaches a terminal status, also if its process
\* stops once meanwhile: the restarted process requeues and runs it.
RunningFinishes ==
    [](stops <= 1) => \A j \in Jobs : status[j] = "RUNNING" ~> status[j] \in Terminal

\* A job that RequeueOrphans resets was left over by a process that died: no
\* worker of a live replica is executing it.
OnlyOrphansReset ==
    \A r \in Replicas : \A w \in Workers :
        ~(Executing(w) /\ wjob[w] = orphan[r])
-----------------------------------------------------------------------------
(***************************************************************************)
(* Why a single replica is safe although run's test and write are two      *)
(* steps: a job that is in flight is in exactly one place, and its status  *)
(* tells which kind of place that is.  PoolInv is inductive for one        *)
(* replica.                                                                *)
(***************************************************************************)
InQueue(j) == \E r \in Replicas : \E i \in 1..Len(queue[r]) : queue[r][i] = j
QueueDistinct ==
    \A r \in Replicas : \A i, k \in 1..Len(queue[r]) :
        queue[r][i] = queue[r][k] => i = k
HeldBy(w, j) == Busy(w) /\ wjob[w] = j

\* A job is PENDING from its creation until a worker claims it.
WaitingIsPending ==
    \A j \in Jobs :
        /\ request[j] = "none" => status[j] = "ABSENT"
        /\ request[j] = "created" =>
            status[j] = "PENDING" /\ phase[via[j]] \in {"serving", "closing"}
        /\ InQueue(j) => status[j] = "PENDING"
        /\ \A r \in Replicas : orphan[r] = j => status[j] = "PENDING"
        /\ \A w \in Workers : HeldBy(w, j) =>
                status[j] = IF Executing(w) THEN "RUNNING" ELSE "PENDING"

\* The handler that has yet to enqueue a job, the queue, RequeueOrphans and
\* the workers never have the same job, and the queue has it once.
OnePlace ==
    /\ \A j \in Jobs :
        /\ request[j] = "created" =>
            ~InQueue(j) /\ \A w \in Workers : ~HeldBy(w, j)
        /\ \A r \in Replicas : orphan[r] = j =>
            /\ request[j] # "created"
            /\ ~InQueue(j)
            /\ \A w \in Workers : ~HeldBy(w, j)
        /\ InQueue(j) => \A w \in Workers : ~HeldBy(w, j)
    /\ QueueDistinct

\* What RequeueOrphans has yet to reset is RUNNING and nobody runs it; it has
\* something to do only before requests are served, and it takes its list
\* before any worker has anything to do.
OrphansUnowned ==
    \A r \in Replicas :
        /\ \A j \in todo[r] :
            status[j] = "RUNNING" /\ \A w \in Workers : ~HeldBy(w, j)
        /\ phase[r] # "requeueing" => todo[r] = {} /\ orphan[r] = NoJob
        /\ phase[r] \in {"down", "listing"} =>
            queue[r] = << >> /\ \A w \in WorkersOf(r) : ~Busy(w)

\* The inductive invariant of one replica: types, one place per job, status
\* matching the place, and orphans that really are orphans.
PoolInv ==
    TypeOK /\ ExclusiveRun /\ WaitingIsPending /\ OnePlace /\ OrphansUnowned
=============================================================================

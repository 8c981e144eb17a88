# j-harness: a TLA+ model of the job service

j-harness is a server that runs *agents* (a prompt, a model endpoint, an output
format) and *pipelines* of agents.  A request to execute one is stored as a
*job*, answered with 202 and executed by a pool of workers; clients poll for the
result.  This directory models the parts of it that run concurrently, fail half
way or survive a restart, and the functions without state that they rely on.
TLC checks the models on small instances; TLAPS proves the central invariants
for every value of the constants.

1. [Inventory](#1-inventory)
2. [Modules and how they correspond to the code](#2-modules)
3. [Runs](#3-runs)
4. [Where the code and what it says of itself disagree](#4-disagreements)
5. [Fairness](#5-fairness)
6. [Proofs](#6-proofs)
7. [Not modelled, and what was seen on the way](#7-not-modelled)
8. [What could come next](#8-what-could-come-next)

To repeat a run: `tlc -config MCJobPoolSafety.cfg MCJobPool`; to check the
proofs of a module: `tlapm JobPoolProofs.tla`.

## 1. Inventory

| Component | State | Operations | Talks to | What is hard |
|---|---|---|---|---|
| Job pool, `internal/engine/worker.go` | the channel `queue`, the workers, `quit` | `Submit`, `Enqueue`, `RequeueOrphans`, `Close`, `worker`, `run`, `execute` | store, engine, metrics | test and write of a job's status are two store calls; the queue is in memory and the status on disk; each store call may fail on its own |
| Process, `cmd/harness/main.go` | start-up and shutdown order | load, build the pool, requeue, serve, shut down | all | workers run before the requeue is done; requests outlive the shutdown |
| Pipeline scheduler, `internal/engine/pipeline.go` | maps `state`, `results`, `pending`, counter `running`, channel `done`, semaphore | `RunPipeline`, `depStatus`, `launch`, `finalOutput`, `collectOutcomes` | agent runs, templates, graph | completions in any order, routers that rewrite other steps' status, an unbuffered channel |
| Pipeline graph, `internal/pipeline/graph.go` | none | `Deps`, `checkAcyclic` | registry, scheduler | a depth-first search with three colours |
| Templates and conditions, `internal/pipeline/{template,resolve,condition}.go` | none | `Resolve`, `lookupPath`, `EvaluateCondition`, `PickRoute` | scheduler, registry | two decoders and two ways to read an index; comparison as text or as JSON |
| Schema validator, `internal/schema/schema.go` | none | `Compile`, `Validate` | registry, agent run | what it lets through, later steps rely on |
| Agent run, `internal/engine/{engine,tools}.go` | one conversation | `RunAgent`, the tool loop, the repair turn | limiter | nested loops, each with its own bound |
| Limiter, `internal/ratelimit/ratelimit.go` | a token bucket and a semaphore per key | `Complete` | retry decorator | slots must come back on every path; settings from three sources |
| Retry decorator and client, `internal/llm/{retry,openai}.go` | attempt | `Complete`, `backoff`, `Retryable` | the model's endpoint | a deadline during a sleep |
| Registry, `internal/registry/{registry,write}.go` | JSON, prompt and schema files | `Load`, `WriteBlueprint`, `WritePipeline`, `atomicWrite` | disk | an agent is two files, and `prompt_path` may name any file |
| Registry API, `internal/api/{api,registry}.go` | lock, snapshot | create and update, `mutate` | registry, engine | write, reload and two snapshots are separate steps |
| SQLite store, `internal/store/sqlite.go` | jobs, step results | `CreateJob`, `GetJob`, `SetJobStatus`, `ListJobsByStatus`, `AppendStepResult`, `ListStepResults` | SQLite | one statement or transaction per method |
| Redis store, `internal/store/redis/{redis,client}.go` | a hash per job, a sorted set per status, a list per session; a pool of connections | the same | Redis | several commands per method; a reply is known by its place in the stream only |
| Built-in tools, `internal/tools/{tools,eval}.go` | none | `math_eval` and others | tool loop | an evaluator written by hand |
| Metrics, `docscheck`, test doubles | counters, or none | | | |

What makes each part correct:

* **Pool**: a job is executed by one worker at a time; what a client has read as
  final stays; a job that was accepted ends; a start takes over exactly the jobs
  that nobody runs; COMPLETED jobs have their step results.
* **Scheduler**: a step runs after what it waits for; one branch of a router runs;
  a step is skipped only for a reason; the call returns, with the outcome of each
  step, and leaves nothing behind.
* **Graph**: exactly the pipelines that can be run are accepted.
* **Stores**: each operation takes effect at one instant between its call and its
  return; an id is created once; jobs are listed oldest first.
* **Answers**: what the schema check lets through, routers and references can
  read; a router with a default always decides.
* **Agent runs**: slots come back; a backend sees no more requests at a time than
  its limits allow; the number of requests is bounded; a run that is cancelled stops.
* **Registry**: the files can be loaded at every moment, unless one was overwritten
  by a file of another kind; what is served is what is on disk, one write at a time.

`PROJECT.json` lists the components with their state of modelling, and under
`hazards` each place of the code where one of these can go wrong in a way that a
test would hardly reach, with the properties that cover it.

## 2. Modules

| Module | Models | EXTENDS / instantiates |
|---|---|---|
| `JobLifecycle` | what a client may rely on: the life of a job in the store | |
| `JobPool` | pool, process, execute handlers, any number of replicas on one store | `L == INSTANCE JobLifecycle` |
| `JobPoolProofs` | theorems about `JobPool` | `JobPool` |
| `JobStore` | what the interface `store.Store` promises | |
| `RedisClient` | the pooled RESP client | |
| `RedisStore` | the Redis store's operations and the Redis they talk to | `RedisClient` |
| `RedisStoreAbstract` | the refinement mapping | `RedisStore`; `Abstract == INSTANCE JobStore WITH ...` |
| `RedisStoreSteps`, `RedisStoreProofs` | lemmas and theorems about `RedisStore` | `RedisStore`; `RedisStoreSteps` and `RedisStoreAbstract` |
| `PipelineGraph` | the links of a pipeline's steps, the edges they stand for, and when a pipeline can be run | |
| `PipelineLoad` | `Deps` and `checkAcyclic` on one pipeline | `PipelineGraph` |
| `PipelineLoadProofs` | theorem about `PipelineLoad` | `PipelineLoad` |
| `JsonValue`, `Routing`, `OutputSchema` | JSON values; paths, conditions and routes; the schema validator | |
| `MathEval` | the evaluator of `math_eval` | |
| `Admission` | from an execute request to the job and its run | |
| `Decisions` | one call per behaviour: an answer, from the schema it is held to over a router to a reference that reads it; a request with the run of its job | `Routing`, `OutputSchema`, `Admission` |
| `DecisionsProofs` | theorems about `Decisions` | `Decisions` |
| `PureCalls` | the calls of `Decisions`, the load of a pipeline, and expressions | `Decisions`, `PipelineLoad`, `MathEval` |
| `PipelineRun` | one call of `RunPipeline` with its goroutines | |
| `PipelineRunProofs` | theorems about `PipelineRun` | `PipelineRun` |
| `AgentRun` | calls of `RunAgent`, limiter, retries, client | |
| `AgentRunProofs` | theorems about `AgentRun` | `AgentRun` |
| `RegistryEdit` | registry files, snapshots, write requests, jobs in flight | |
| `RegistryEditProofs` | theorems about `RegistryEdit` | `RegistryEdit` |
| `MCJobPool`, `MCPipelineRun`, `MCAgentRun`, `MCRegistryEdit`, `MCRedisStore`, `MCPureCalls` | instances for TLC | the module of the name |

`MCPipelineRun` also instantiates `PipelineGraph`: the scheduler's tables are
written out there, and the assumption `Tables` says that they are what the steps of
the pipeline they stand for wait for.  It also instantiates `PipelineRun` for
the two pipelines of `agent-registry/`, to evaluate the hypothesis of a theorem.

A definition next to a model's action whose comment starts with "Mutant" is a
plausible mistake in the code that the action models.  None is used by a
specification.  `PROJECT.json` pairs each of them with the property that
rejects it.

### JobPool

`status` and `rows` are the store: the status of each job and the number of its
step results.  Everything else is lost when a replica stops: `queue` is the
channel, `wpc`/`wjob`/`wout`/`wleft` are a worker's position in `run`, its job,
the status it is about to write and the step results it has yet to append;
`todo`/`orphan` are the loop of `RequeueOrphans`; `metrics` the job counters.
`request`/`via` are the HTTP request that submits a job and its replica, and
`phase` is how far `main` is.

Each call of the store is a step of its own: `Load` and `Claim` are the two
halves of `run`'s test-and-set, `ResetOrphan` and `EnqueueOrphan` those of
`RequeueOrphans`, `AppendStepResult` is one step result and `Finish` the counter
and the terminal write.  With `StoreFaults` any of these calls may fail, before or
after it took effect (a reply that is lost, see `RedisStore`), and the
action does what the code does with the error: return, drop the job, log and
serve all the same, or ignore it.  `Crash` may happen anywhere; `Close` and
`Exit` are a shutdown that waits for the workers.  A worker leaves the `select`
either way when both `quit` and the queue are ready, as Go does.

What execution does is a choice of an outcome and of the number of step results
(`Outcomes`); the inside of it is `PipelineRun` and `AgentRun`, whose properties
`RunReturns` and `RunEnds` are what lets `JobPool` assume that `Execute` ends.

### JobStore, RedisClient and RedisStore

`JobStore` is the store that `JobPool` assumes.  A call is invoked, takes effect,
and returns; it may fail before or after it took effect.  Ranks are given out by a
clock that moves on its own, and a job's rank is later than the invocation of its
creation.  Two things the interface's comments leave open are settled there as
the Redis store has them: a listing fixes which jobs it names at one instant and
reads their rows later, and `GetJob` may answer with a job without a status while a
creation is under way or after one failed half-way.

`RedisClient` is `cmd`, `multi`, `do`, `doMulti` and the pool.  `req[k]` and `rep[k]`
are the two directions of connection `k`; `want[c]` is how many replies caller `c`
is going to read, whatever they say.  `RedisStore` is the six operations: `call`
is the operation, `stage` the command it sends or waits for, `mem` what it has
read.  `Batch` is the command or transaction of a stage, `Exec...` what Redis does
with it, `Got...` what the operation does with the reply.  `Refuse` is an error
reply; `BreakConn` loses a connection with what is in flight, before or after
Redis executed it; `Crash` stops the process anywhere.  `start` and `ans` are
history variables: the sequence number when a creation was invoked, and the
answer at the instant an operation took effect.

`MayCall` is how the pool and the API use a store: two calls that write one job's
status do not overlap, step results of a job are appended one at a time, and only
a job that was created is updated.  `JobPoolProofs` is where that comes from: a job
is in one place at a time (`OnePlace`).  Creations may overlap, also of one id.

### PipelineRun

The loop of `RunPipeline` is one process (`pc`, `i`, and the Go maps and
counters under their names), each launched step another (`gpc`).  An admission
pass is one step per visited pipeline step, in declared order; `PassOver`,
`Skip`, `Launch` and `LaunchFails` are the four ways a visit ends.
`LeaveLoop`, `Stall` and `Wait` are the tests after the pass.  `Receive` is the
receive from `done` with everything up to the next test of the loop's condition,
which looks at `pending` only.  Whether an agent succeeds, which route a router
takes and whether a template can be resolved are choices; what a router does with
an answer is `Routing`.  The early returns
before the loop (unknown pipeline, missing input) are outcomes of `Execute` in
`JobPool`.

### PipelineGraph, PipelineLoad

A step has its links in the order in which `Deps` reads them: the references in
its input, its needs, and the targets of a router.  `ReadLink` is one round of those
loops, with the edge it adds (`AddLink`) or the error it returns (`BadLink`).  The
search of `checkAcyclic` is a machine as well: `color` is the code's map, and the
recursive calls of `visit` are the stack `visits`, each call with its step and its
place in the loop over that step's dependencies.  `NextRoot` is the loop over the
steps, `Look` one round of the innermost call (gray: a cycle; white: a further
call; black: nothing), `Leave` its return.  `Runnable` has neither order nor
colours: the steps can be ranked so that each comes after all it waits for.

### JsonValue, Routing, OutputSchema, MathEval, Admission, Decisions, PureCalls

Functions of their arguments, written as operators in the shape of the code: the
walk along a path with either of the two conversions of an index (`Atoi` wraps
around at `WordSize` bits, `StrconvAtoi` refuses), `EvaluateCondition` and
`PickRoute`, `CheckNode` and `Validate`, the three levels of the expression parser,
and the handlers of an execute request with the check that `execute` makes later.
`checkNode` and `validate` call themselves on the nodes of a schema.  `Nodes` and
`Calls` collect those calls level by level, down to `MaxDepth` levels;
`encoding/json` refuses to decode what is nested deeper than a limit of its own, so
there is such a number, and the order of the calls decides only which error is
reported.  Numbers of a document are counted in halves, which is
enough to tell integers; a regular expression is the set of texts it matches, and
may not compile; the numbers of an expression are exact fractions, so rounding is
left out.  `Decisions` and `PureCalls` make a state of the arguments and of the
result, and state what the results mean for whoever uses them.  The two are apart
because the prover cannot work in a module that reaches a recursive operator, as
the parser's are; `PureCalls` takes the actions and properties of `Decisions` and
`PipelineLoad` as they are.

### AgentRun

A run's calls of `Limiter.Complete` are its turns.  `rate`, `slot`, `http` and
`backoff` are the places inside a turn; `tools` and `check` those of `RunAgent`
between turns.  Semaphores and buckets are kept by the keys that the code builds,
including the truncation of the rate in a bucket's key.  A key is not a backend:
`EndpointKey` is `endpointKey`, which makes a key of its own, "default", of a blank
`base_url`, and `Backend` is where the client sends the requests, `OPENAI_BASE_URL` in
that case.  `Cancel` is a blueprint's timeout or the cancellation by a pipeline, and
can happen at any time.  A request whose context was done when it began is counted
in `late` and has no answer: `net/http` returns the context's error.  A sleep that
begins with such a context ends at once (`Retry` needs `late[r] = 0`).  An answer is
prose, an object, or an object that matches the schema, as far as the checks of the
blueprint tell them apart.  The first answer is checked by `RunAgent` (`Accept`,
`InvalidJSON`, `RepairSchema`) and the corrected one by `repairSchema`
(`AcceptRepaired`, `RepairFails`).

### RegistryEdit

`disk` is the files below the root.  A file is that of a blueprint or of a pipeline,
or one of `Others`: prompts and output schemas.  What a file holds is one of
`Contents`, and the constants say what a content is: of which agent or pipeline it is
a definition that is valid in itself (`Defines`: version, id, formats, templates and
an acyclic graph), which prompt and schema file it names, which agents it uses, and
whether it compiles as a schema.  Prompt and schema file may be any files, also those
of definitions, since `safeRel` asks only that a path stays below the root.
`LoadsBlueprint` and `LoadsPipeline` are the checks of `Load`, within a file and
across files; `ValidBlueprint` and `ValidPipeline` those of a write request, which
differ from them: a write looks for the prompt file only if it sends no prompt, and
for the agents of a pipeline in the API's snapshot.

`Check` is the look at the snapshot before the lock, `Begin` to `Reload` what `mutate`
does under it, one step per file.  `WritePrompt` writes to whatever file
`prompt_path` names.  Every file is kept with the request that wrote it.  `torn` and
`overwritten` are history variables: the agents of which a write stopped between its
two files, and the definitions and schemas that were written as a file of another
kind.  Jobs read the engine's snapshot as the code does: once for the pipeline and
once more for each agent.

## 3. Runs

Twelve runs; five of them end in the counterexample that section 4 explains.

| Run | Instance | What it shows |
|---|---|---|
| `pool_safety` | 3 jobs (2 agents, a 2-step pipeline), 2 workers, queue of 1, failing store, 1 stop | one worker per job, terminal jobs frozen, `JobLifecycle` implemented, `PoolInv` |
| `pool_restart` | 3 agent jobs, 2 workers, queue of 2, 2 stops | no RUNNING job without a worker once a process serves, the requeue never overflows, COMPLETED means all step results, jobs end |
| `pool_durable` (counterexample) | 2 jobs, 1 worker, 1 stop | an accepted job that is in the queue at a stop |
| `pool_replicas` (counterexample) | 1 job, 2 replicas | a start takes a job from a live replica |
| `redis` | 2 callers, 3 connections, a pool of 1, 2 jobs, 1 fault | replies go to whom they belong, no more connections are open than there are callers, index and hashes agree, ranks are distinct, `JobStore` is implemented |
| `triage` | 8 steps, two routers with a common target, a chain declared backwards, 2 slots | dependencies, branches, skips, the counter, the one cause of a stall, every outcome reported, goroutines end, the call returns |
| `fork` (counterexample) | 2 independent steps | an outcome is dropped |
| `pure` | all pipelines of 3 steps with any `needs` and one reference or route each; schemas with documents, routes and paths; all expressions of up to 4 tokens and longer ones; requests with changing definitions | graphs accepted iff runnable; bad schemas found at load time; required paths can be read; routers decide as their conditions say; `eval` computes what the grammar says; admitted jobs run |
| `fenced` (counterexample) | the answers of `pure` | an accepted answer cannot be read |
| `agents` | 3 runs on one backend, two of them with one key and one with the key "default", 2 attempts, 2 tool rounds | `AgentInv` (slots, accounting), bound of the backend, bound of the requests, a cancelled run stops, runs end |
| `registry` | 2 agents, 1 pipeline, 4 writes (an update with a schema, two creations of one agent, an update of the pipeline), 1 job, 1 crash, failing files, 9 initial registries | `RegInv` (files load), agents whole, snapshots match, requests end |
| `snapshot` (counterexample) | the same without faults | a job sees an update that is later than itself |

**Bounds.**  A queue shorter than the number of jobs makes it overflow, in
`pool_restart` too, where a start that requeued any job it finds unfinished would not
have the room; two workers and three jobs let one worker hold a job while another is
queued and a third is submitted; two stops let a restart be interrupted.  Two callers
of the Redis store meet in every pair of operations, a third connection lets more of
them be open than there are callers, a pool of one makes one of the callers'
connections superfluous, and one fault is enough to leave an operation half done
with others after it.  The pipelines were
chosen for their shapes: a shared router target, a step behind a skipped one, a
declaration against the direction of the edges, two last steps.  Three steps are
enough for a diamond, a cycle of each length and an edge to a name that does not
exist.  Two levels (`MaxDepth`) hold an array in an object and the elements of
the array.  With five bits an index of 32 wraps around.  Two agent runs compete for one
slot and one token, and a third reaches their backend through another semaphore.
The requests on agents and the one on the pipeline write what the others read: one
creation relies on a prompt file that may be absent, the other sends a prompt and
names the blueprint of the first agent as its prompt file, the update relies on a
schema file that may be there, be no schema, or be absent.  Only `redis` uses symmetry, of callers, connections and jobs: it
checks safety, and nothing tells these apart.  Elsewhere jobs differ in kind,
steps and requests in their role, and several runs check liveness.

**Deadlock** is not checked: a service without requests, a finished pipeline, a
finished run and a function that has returned may stop.  What must not stop is
stated as liveness.

**Stated conditions.**  `NoZombie`, `RequeueHasRoom` and `CompletedHasSteps` are
about a store that does not fail: the code answers a failing store with a log
line, after which a RUNNING job may well be nobody's until the next start.
`RunningFinishes` covers one stop: a job that was requeued and not yet claimed is
PENDING and shares the fate of queued jobs if the process stops again.
`BackendBound` is about keys on whose limit all their blueprints agree: otherwise
each size has a semaphore of its own.  `DiskLoads` (in `RegInv`) excepts what section
7 describes: a file of a definition or a schema that was written as something else.
`WholeAgents` is about agents whose requests all send a prompt, whose prompt file no
other request writes, and whose writes were not interrupted between the two files.  `EveryOutcomeReturned`, `GoroutinesEnd` and
`RunReturns` are checked on a pipeline of whose last steps only one can run;
`fork` shows why.
`PathsAgree` is about indexes without a sign that fit an int, `RequiredPathResolves`
and `EnumRouted` about answers without a code fence.

## 4. Disagreements

Each is a run whose property is a sentence of the repository and which TLC
refutes; `PROJECT.json` quotes the sentence.

* **pool_durable**: "Jobs are durable".  Only RUNNING jobs are requeued at a
  start.  A job that was accepted and still in the channel when the process
  stopped stays PENDING.  The same holds of a job refused because the queue was
  full, of which `Submit`'s comment says that "a later RequeueOrphans/Submit can
  pick it up".
* **pool_replicas**: several processes may share a Redis, and `RequeueOrphans`
  resets "RUNNING jobs left over from a process that died".  It cannot tell them
  from the jobs of a live replica, and resets those too; they run twice.
* **fork**: "Every step's outcome is returned".  The loop ends when no step is
  pending, with steps still in flight.  Their outcome is reported as SKIPPED, a
  failure among them goes unnoticed, their goroutines block on `done` for ever.
* **fenced**: "we strip fences but otherwise require a clean object".  The fence is
  stripped for the two checks only.  `RunAgent` returns the answer with it, and the
  router or reference that reads the answer fails: it is no JSON.
* **snapshot**: "In-flight jobs finish against the snapshot they started with".
  A pipeline's agents are looked up one by one while it runs.

## 5. Fairness

* `JobPool`: weak fairness of each worker, of the start-up and of the end of a
  shutdown, and of a handler between `CreateJob` and its enqueue.  The Go
  scheduler runs every goroutine, `Execute` ends because runs do, and a supervisor
  restarts the process (`docker-compose.yml`: `restart: unless-stopped`).  Requests, crashes
  and shutdowns are not fair: they need not happen.
* `PipelineRun`: weak fairness of the loop and of each goroutine.
* `AgentRun`: weak fairness of each run and of each bucket's refill.  That a
  request ends is the HTTP client's timeout (`internal/llm/openai.go:35-43`).
  A run that waits for a slot is not starved in the instance because the others
  make finitely many calls; nothing stronger than weak fairness is assumed.
* `RegistryEdit`: weak fairness of each handler and of the restart.
* `RedisStore` and `PureCalls`: none; their runs check safety only.

## 6. Proofs

All theorems hold for every value of the constants that satisfies the module's
assumptions (`PoolAssumption`, `PipelineAssumption`, `AgentAssumption`,
`RegistryAssumption`, `ClientAssumption`, `FiniteClient`, `RedisAssumption`,
`WordAssumption`, `DepthAssumption`, `FamilyAssumption`, `LoadAssumption`), which say what the constants are and nothing
about the behaviour: capacities are positive, workers are finitely many, tables
have their types, routes are among the dependencies, a route has at most one
condition, no schema is nested deeper than `MaxDepth`; and what the provers do not know of powers of two.  TLC evaluates them
in every run.

**JobPoolProofs.**  `TypeCorrect` holds for any number of replicas and includes
the queue's capacity.  The other theorems assume `SingleReplica`; `pool_replicas`
shows why.  `ExclusiveRun` is not inductive: the code tests and writes the status
in two steps, so nothing local keeps a second worker out.  The reason it holds is
that a session id is in at most one place.  `PoolInv` says so: a job is with its
handler, in the queue once, in the hands of the requeue, or with one worker
(`OnePlace`, `ExclusiveRun`); its status tells which (`WaitingIsPending`); and the
requeue's list holds only jobs of no worker (`OrphansUnowned`), because the list
is made before any worker of the new process has a job.  `PoolSafe` proves it
inductive, with one lemma per group of actions; the steps of a busy worker are
instances of one lemma, `WorkerMoves`.  From it follow `OneOwner` and
`OwnerIsAlone`, the refinement `Implements` (every step is a step of
`JobLifecycle` or a stutter) and `TerminalIsFinal`.  With a store that does not
fail a second invariant, `ReliableInv`, is inductive relative to the first: a
RUNNING job is with its worker, on the requeue's list, or the process is not up yet;
and a worker that is about to write COMPLETED has appended what it owes.
`NoZombies` and `StepsAreThere` follow from it.  `OrphansFit` is about the same
store and is an argument by counting (`RoomInv`): until a process serves, the jobs
that are RUNNING, in the queue, or in the hands of the requeue or of a worker are
no more than the workers are many.  A process that stops leaves RUNNING only jobs
that each had a worker of its own, or that were so left to it; its queue is gone;
and a start, interrupted or not, moves these jobs and adds none.

**RedisStoreSteps, RedisStoreProofs.**  For any number of callers,
connections, jobs and faults.  `StoreInvariant` proves `StoreInv`.  The part about
connections is `Aligned`: a connection is with at most one caller and owes it
exactly the replies to its current batch.  The part about the data says what a
caller may count on between two of its commands: a number it drew is later than
its call, belongs to no other caller and to no job yet (`TicketsFresh`); a claim is
its own and its job not there yet (`ClaimsExclusive`); a status it read for
`SetJobStatus` is still the status (`SetExclusive`, which is where `MayCall` is
needed); and the answer it will give is the one of the instant it took effect
(`AnswersHeld`).  There is one lemma per action.  Most steps change one caller and
leave Redis alone, or the other way round; `LocalStep` and the frame lemmas
(`ReadFrame`, `AnswerFrame`, `CreatedFrame`) carry what does not change.
`RepliesAligned`, `IndexesAgree` and `RanksAreDistinct` are conjuncts.
`PoolIsBounded` has its own invariant: a connection that is open is idle or with a
caller, and one is dialled only when none is idle, so that a caller that dials is one
of those that had no connection.

`RedisImplementsJobStore`: under the mapping of `Abstract`, each step of
`RedisStore` is a step of `JobStore` or a stutter.  A creation and a change of
status take effect in their transaction, a listing with `ZRANGE`, the others with
their one command; `INCR` is a tick of the clock.

**PipelineRunProofs.**  For every pipeline, acyclic or not.  `PipeSafe` proves
`PipeInv`: a step's status tells how far its goroutine is, and a router that
completed has marked its other targets before any could be launched.
`BranchSafe` (dependencies, one branch, justified skips) and `CountCorrect`
(`running` is the number of goroutines in flight) follow.  `WaitsExplained` proves
that a pass leaves a step pending only for a dependency without a status or for one
skipped further down in the same pass.  `StallsExplained` concludes, for an acyclic
pipeline, that a stalled run has a step of the second kind: if all waited for
steps without a status, the first of them in a topological order would wait for
nothing.  `InOrderNeverStalls` is the case in which the second kind cannot occur.
`OneEndReturnsAll` assumes `OneEnd`, a condition on the pipeline alone: of any two
steps that are not targets of one router, one is followed by a step that is
launched or skipped only after it ended (`DecidedAfter`).  Then the last step to be
decided leaves nobody in flight when the loop finds `pending` empty, except
itself, and the loop's early exit drops nothing.  `MCPipelineRun` evaluates `OneEnd`:
both pipelines of `agent-registry/` satisfy it.  The pipeline of `fork` does not;
neither does that of `triage`, where the theorem's condition is stronger than need be.

**AgentRunProofs.**  `AgentInvariant` proves `AgentInv`: who holds a slot
(`SlotsHeld`), that no semaphore exceeds its size, and the accounting of turns and
requests (`TurnsCounted`, `RequestsCounted`).  The bound on the requests of a run
is not inductive without the accounting, since three loops are nested.
`SlotsAreHeld`, `RequestsBounded` and `TypeCorrect` follow.  `BackendsBounded` counts:
the requests at a backend are those that came under its host and, if blank base URLs
lead to it, those that came under the key "default"; where a key has one size, each
group holds slots of one semaphore.  Why `CancelledRunsStop` holds is `LateLast`: a
run with a late request is still in it, sleeps, or has failed; it has neither an
answer nor another round, and its sleep is cut off.

**RegistryEditProofs.**  For any agents, pipelines, files, requests and initial
registries that load.  `RegistryInvariant` proves `RegInv`.  That the files load is not
inductive, and once a file has been overwritten by one of another kind it does not
even hold; yet other definitions are written afterwards.  `FilesFit` is therefore
stated for one definition at a time: a definition file that was not overwritten
holds a definition of its own name whose prompt is there, whose schema compiles or
was overwritten, and whose agents are there.  It is kept because files are never
removed (`Saved`), because a request that is about to write has found all it needs
and holds the lock (`ReadyToWrite`), and because the agents that the API knows, which
are those a pipeline is checked against, stay on disk (`AgentsStay`).  With nothing
overwritten, `FilesFit` for all definitions is `Loadable` (`FitLoads`), so that
`RegistryLoads` follows: a process that stops between any two file writes can start
again.  `AgentsAreWhole` compares the requests that wrote the two files of an agent:
only a request for the agent writes either, it writes both under the lock, and a
snapshot is taken when it has (`LockStep`, `WholeLoaded`).  `DiskIsServed` needs to
know what the snapshots have not yet seen of a request under way.

**PipelineLoadProofs.**  For pipelines of any length and shape.  `SearchDecides` is
about a result, and rests on what holds on the way there (`LoadInv`).  While the links are
read, the lists of `deps` hold exactly the edges of the links read so far
(`Linked`), and none of these is bad; at the start of the search they are therefore
what `WaitsFor` says (`LinkedWires`).  During the search, `Searched` says that the
stack is a path (each call was made for the dependency its caller is looking at),
that the gray steps are exactly those on the stack, once each, that the steps
that a call's loop has passed are black, but for the one it is at, and that the
black steps have ranks, each above those of all it waits for (`Sorted`).  No
variable of the code holds the ranks: they are the order in which steps turn black.
`Leave` gives the next rank to one step, all of whose dependencies are black by then.
When the roots are through, all steps are black, so the pipeline is runnable.  The
other direction is `LookGray`: a gray dependency closes a path along the stack into a
cycle, and ranks cannot fall at every edge of a cycle.  The path may be of any
length; in place of an induction along it the proof looks at the first place on it
with a rank above that of the cycle's first step, which exists because a set of naturals has a
least member (`LeastMember`).

**DecisionsProofs.**  For every schema, document, path, router, request and
definition.  A recursive function is only usable once it is known to exist, and the
induction theorems of the library are out of the provers' reach.  `LevelsExist` and
`LevelsUnfold` get there by least numbers: if some level had no function up to it,
the least such level would extend the function of the one below.  `NodesUnfold`,
`CallsUnfold`, `AlongUnfold`, `LookupUnfold` and `WalkUnfold` are its instances.
In the same way what holds at level 0 and passes from each level to the next holds
at all.
`BadSchemasFail`: every call of `validate` is for a node that `checkNode` has seen
(`CallsAreNodes`).  `RequiredPathsResolve`: at the first n segments of a required
path there is a value, and it is held against the schema's node for those
segments; since the node asks for the next segment and the value meets the node,
the value has it (`AskedIsThere`, `RequiredResolves`).  `EnumsRouted`: the value of
the property is there and among the enum's values, exactly one route has it, and
no other route's condition holds, because no two values read the same
(`LooselyEqual`, `EnumDecides`).
`ReadersAgree`: the two walks along a path differ in the conversion of an index.
The conversions agree on the indexes in question (`ConversionsAgree`), so the walks
are given by one and the same equation.  `DefaultsCatch`: a condition with one operator
whose pattern compiles can be evaluated (`Evaluates`), so the walk over the routes
ends at the least one that holds, if there is one, and otherwise at the default,
of which `ValidRoutes` leaves only one (`RouterDecides`).  `AdmittedJobsRun` follows a
request through its handlers (`Leaves`): what they check when a job is admitted is
what `execute` asks for when it runs.

**Only model-checked.**  Liveness (`UndisturbedFinishes`, `RunningFinishes`,
`RunReturns`, `GoroutinesEnd`, `RunEnds`, `RequestsEnd`), which is out of the
reach of the prover; `EvalExact`, because the parser's operators are recursive in
each other and what they compute would be an induction over expressions; and
`EveryOutcomeReturned` for pipelines outside `OneEnd`, of which it holds or not case
by case.

## 7. Not modelled

* The grammar of templates (`ParseRefs`): a text is scanned for references; the
  model has the references.
* The time and word-count tools, and how `math_eval` rounds and formats.
* SQL, the encoding of rows, timestamps.  `JobPool` takes a method of the store as
  one step, which is what SQLite does and what Redis is shown to do.
* HTTP details, read-only handlers, logging, text of errors, token counts,
  durations, the metrics' text format, flags and environment variables.
* A `prompt_path` that names a directory.  `os.Stat` is content with it, and `Load`
  then fails to read it; the files of `RegistryEdit` are regular ones.
* Lengths of time: sleeps end, deadlines may expire at any moment, buckets
  refill at some time.
* `docscheck`, the fake client and the stub server: build and test only.

What the abstract store leaves open, no property of `RedisStore` can show: `JobStore`
answers a listing with the ids and not with the rows, which the code reads later and
whose status may have changed by then; a list of step results is a number, so their
order (`RPUSH` and `LRANGE` keep it) is not compared; and a job may be read without a
status, where `store.go:20` knows a job or `ErrNotFound`.  `MayCall` rules out that two
status writes of a job overlap, which is right for one process and not for several.

Assumed of Redis: it executes one batch at a time, in the order of its connection; a
command that was in flight on a connection that broke is either executed before the
failure is noticed or never; `EXEC` is not nil (there is no `WATCH`) and holds no
error (no key has the wrong type).

Seen while reading, with no run of its own:

* `harness_jobs_submitted_total` counts a job that is then refused with 503;
  `docs/API.md` calls it "jobs accepted into the queue".
* Two POSTs for one new agent can both pass the existence check, which is outside
  the lock, and both are answered with 200; the `registry` run has such a pair.
* A valid write can leave a registry that does not load.  `prompt_path` may be the
  file of another definition, or of a schema, and the prompt replaces it
  (`write.go:26-33`); a blueprint may also be written over the file that it or
  another one names as its schema.  The reload answers 500, the process goes on with
  its snapshots, and the next start fails.  The comment at `write.go:18-20` has the
  schema compiled first so that nothing is "persisted and then rejected by the
  post-write reload (which would leave the registry unserveable until fixed)".
  `DiskLoads` says that this is the only way.
* `WriteBlueprint` replaces the prompt and can then fail to write the blueprint;
  its comment says that existing files are replaced only on success.
* For the concurrency the setting of the environment comes before the blueprint's
  (`ratelimit.go:137-143`), for the rate after it.  `docs/API.md:205` says of both
  that "Per-blueprint `concurrency` and `rate_limit` JSON fields take precedence over
  both", and `docs/DEPLOY.md:125-127` says so too.  The model has the code's order.
* A blank `base_url` has the key "default", while its requests go to
  `OPENAI_BASE_URL`.  A blueprint that names that URL has the key of its host, so the
  backend can see the sum of two limits (`BackendBound`), where `docs/API.md:197`
  says "max in-flight requests per backend endpoint".  The setting of the key
  "default" is `HARNESS_CONCURRENCY_DEFAULT` itself, which therefore comes before the
  `concurrency` of a blueprint without a `base_url`.
* Semaphores are kept by key *and* size, so blueprints with different settings on a
  key without a setting of its own add up.
* A bucket's key holds the rate truncated to an integer, so "1/2" and "1/60" on
  one endpoint share the bucket that was made first.
* A retry takes no token of the rate limit; the slot is kept during the sleep.
* A 4xx whose body is not JSON is a decoding error and is retried.
* The comment at `internal/ratelimit/ratelimit.go:19` reads "5/2" as five requests
  a second with a burst of two; `parseRate` makes it five in two seconds with a
  burst of five.
* An acyclic pipeline can end as "stalled": a skip that has to travel against the
  declared order needs another pass, and there is none if nothing is in flight.
  `internal/engine/pipeline.go:38-39` says that "the other branch targets, and anything
  that only depends on them, are skipped for this run", and `:198-199` blames a cycle
  ("the dependency graph should have been validated acyclic").  `StallExplained` says
  that this is the only way, and in the `triage` run it happens.
* A creation in Redis that fails between its claim and its transaction burns the id:
  `GetJob` returns a job without a status, and a second `CreateJob` refuses.
* Two replicas on one Redis that write a job's status at the same time (as in
  `pool_replicas`) both read the old status; the job can end up in two index sets.
* A pooled connection that broke while it was idle is noticed by the next caller,
  whose call fails; the caller after that may pop another stale one, where the
  comment on `pool` says that "the next caller dials a fresh one".
* `scoreOrDefault`'s fresh score is for a job whose hash lacks `seq`, and no job the
  store wrote lacks it.
* A router's index is converted without a test for overflow: an index of 2^64 reads
  element 0, where `walkPath`'s comment says that found is false when an index is
  absent.  "-0" is an index for a reference and none for a router.
* `matches` is compiled when a router runs, not when the pipeline is loaded.
  `equals: null` counts as no operator.  An operand that is a text is compared with
  the text of the value, so the routes for 1 and "1" shadow each other.
* An execute request for a pipeline without declared inputs still needs one:
  `{}` is refused.
* A pipeline that is redefined between a job's admission and its run can make the
  job fail for an input that nobody asked of it, and `RunPipeline` accepts a blank
  one.

## 8. What could come next

1. A composition of pool and scheduler: a pipeline job's step results and
   terminal status from the scheduler's own outcomes, to state `fork` as what a
   client reads.
2. Several processes on one Redis, with the index sets as they then are.
3. The grammar of templates against a reference definition.

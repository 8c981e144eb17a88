----------------------------- MODULE Admission -----------------------------
(***************************************************************************)
(* From a request to execute an agent or a pipeline to the job it leaves   *)
(* and the run of that job (internal/api/api.go, Pool.execute and          *)
(* RunPipeline's check of its inputs).                                     *)
(*                                                                         *)
(* A request has a token ("valid" also where none is asked for), a method, *)
(* the segments of its path behind /v1/, and a body: the JSON values in    *)
(* it, in order.  An object of a body is a function from names to texts; a *)
(* null counts as the empty text.                                          *)
(* Definitions are a record of the agents and, for each pipeline, the      *)
(* inputs it declares.                                                     *)
(***************************************************************************)
EXTENDS Naturals, Sequences, TLC

\* strings.TrimSpace leaves nothing.
Blank == {"", " "}

Object(f) == [is |-> "object", fields |-> f]
Broken == [is |-> "broken"]             \* not JSON, or a member is not a string

\* Decode, then Decode again: exactly one value, and it is an object.
Single(body) == Len(body) = 1 /\ body[1].is = "object"

\* decodeExecuteRequest: input_data is the one field there is.
AgentInput(body) ==
    IF /\ Single(body)
       /\ DOMAIN body[1].fields = {"input_data"}
       /\ body[1].fields["input_data"] \notin Blank
    THEN {body[1].fields["input_data"]} ELSE {}

\* Mutant: the declared inputs are not looked for.
PipelineInputsAny(body, declared) ==
    IF Single(body) /\ DOMAIN body[1].fields # {} THEN {body[1].fields} ELSE {}

\* decodePipelineRequest, and the check of the declared inputs.
PipelineInputs(body, declared) ==
    IF /\ Single(body)
       /\ DOMAIN body[1].fields # {}
       /\ \A name \in declared :
            name \in DOMAIN body[1].fields /\ body[1].fields[name] \notin Blank
    THEN {body[1].fields} ELSE {}

\* The job that handleExecuteAgent and handleExecutePipeline submit.  The input
\* of a pipeline is encoded: a text that begins with a brace.
Raw(text) == [json |-> FALSE, text |-> text]
Encoded(f) == [json |-> TRUE, named |-> f]
Job(kind, target, input) == [kind |-> kind, target |-> target, input |-> input]

Reply(code, jobs) == [code |-> code, jobs |-> jobs]
Refuse(code) == Reply(code, {})

\* Submit, with the jobs that are going to run: none when the queue is full or
\* the store reports an error, although either may leave a row that stays
\* PENDING.
Submit(jobs, outcome) ==
    CASE outcome = "queued" -> Reply(202, jobs)
      [] outcome = "full" -> Refuse(503)
      [] outcome = "failed" -> Refuse(500)

HandleExecute(kind, id, body, defs, outcome) ==
    IF kind = "agents"
    THEN IF id \notin defs.agents THEN Refuse(404)
         ELSE IF AgentInput(body) = {} THEN Refuse(400)
         ELSE Submit({Job("agent", id, Raw(t)) : t \in AgentInput(body)}, outcome)
    ELSE IF id \notin DOMAIN defs.pipelines THEN Refuse(404)
         ELSE LET f == PipelineInputs(body, defs.pipelines[id]) IN
              IF f = {} THEN Refuse(400)
              ELSE Submit({Job("pipeline", id, Encoded(g)) : g \in f}, outcome)

\* handleAgents and handlePipelines behind authenticate: {kind}/{id}/execute.
HandleRequest(r, defs, outcome) ==
    IF r.token # "valid" THEN Refuse(401)
    ELSE IF ~(Len(r.path) = 3 /\ r.path[3] = "execute" /\ r.path[2] # "") THEN Refuse(404)
    ELSE IF r.method # "POST" THEN Refuse(405)
    ELSE HandleExecute(r.path[1], r.path[2], r.body, defs, outcome)
-----------------------------------------------------------------------------
\* parseJobInput: what is not an object is the input called "input".
ParseJobInput(input) == IF input.json THEN input.named ELSE ("input" :> input.text)

\* execute: the first checks of RunAgent and RunPipeline, with the definitions
\* of that moment.  RunPipeline asks that an input is there, not that it says
\* anything.
Execute(job, defs) ==
    CASE job.kind = "agent" -> IF job.target \in defs.agents THEN "runs" ELSE "unknown"
      [] job.kind = "pipeline" ->
            IF job.target \notin DOMAIN defs.pipelines THEN "unknown"
            ELSE IF defs.pipelines[job.target] \subseteq DOMAIN ParseJobInput(job.input)
            THEN "runs" ELSE "missing_input"
=============================================================================

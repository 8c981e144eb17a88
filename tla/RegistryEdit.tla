---------------------------- MODULE RegistryEdit ----------------------------
(***************************************************************************)
(* The registry of agents and pipelines: the files below its root, the     *)
(* snapshot that a process loaded from them (the API and the engine hold   *)
(* one each), the write requests of /v1/registry, which change files and   *)
(* reload, and the jobs that read the engine's snapshot meanwhile.         *)
(*                                                                         *)
(* A file is named by the definition it holds (an agent's blueprint or a   *)
(* pipeline) or is one of Others (prompts, output schemas).  A blueprint   *)
(* names its prompt file and its schema file, which may be any file below  *)
(* the root, also the file of a definition.  Nothing but the requests      *)
(* changes the files, and no request deletes one.  With IOFaults a write   *)
(* of a file may fail, and a reload may fail to read one.                  *)
(***************************************************************************)
EXTENDS Naturals, FiniteSets

CONSTANTS
    Agents, Pipelines,
    Others,             \* files that hold no definition
    Contents,           \* contents of a file
    Defines,            \* Defines[c]: the agent or the pipeline of which c is a
                        \* definition, valid in itself, or NoName
    PromptPath,         \* PromptPath[c]: the prompt file that blueprint c names
    SchemaPath,         \* SchemaPath[c]: its schema file, or NoFile
    Schemas,            \* contents that compile as an output schema
    Uses,               \* Uses[c]: the agents that pipeline definition c names
    Originals,          \* the files before the first start
    Requests,           \* write requests
    Method,             \* Method[q]: "POST" or "PUT"
    Target,             \* Target[q]: the agent or the pipeline q writes
    Body,               \* Body[q]: the definition that q sends
    Prompt,             \* Prompt[q]: the prompt that q sends, or NoPrompt
    Jobs,               \* pipeline jobs
    JobPipeline,        \* JobPipeline[j]: the pipeline that job j runs
    MaxCrashes,
    IOFaults,
    Absent, NoName, NoFile, NoPrompt, NoRequest

Names == Agents \cup Pipelines
Files == Names \cup Others

\* A file is kept with the request that wrote it (NoRequest: before the start).
Written == [text : Contents, by : Requests \cup {NoRequest}]

ASSUME RegistryAssumption ==
    /\ Agents \cap Pipelines = {}
    /\ Defines \in [Contents -> Names \cup {NoName}]
    /\ PromptPath \in [Contents -> Files]
    /\ SchemaPath \in [Contents -> Files \cup {NoFile}]
    /\ Uses \in [Contents -> SUBSET Agents]
    /\ Originals \subseteq [Files -> Contents \cup {Absent}]
    /\ Method \in [Requests -> {"POST", "PUT"}]
    /\ Target \in [Requests -> Names]
    /\ Body \in [Requests -> Contents]
    /\ Prompt \in [Requests -> Contents \cup {NoPrompt}]
    /\ \A q \in Requests : Target[q] \in Pipelines => Prompt[q] = NoPrompt
    /\ JobPipeline \in [Jobs -> Pipelines]
    /\ MaxCrashes \in Nat
    /\ IOFaults \in BOOLEAN
    /\ Absent \notin Written
    /\ NoName \notin Names
    /\ NoFile \notin Files
    /\ NoPrompt \notin Contents
    /\ NoRequest \notin Requests

VARIABLES
    disk,               \* disk[f]: what file f holds
    up,                 \* is the process running?
    api,                \* the snapshot of the API
    engine,             \* the snapshot of the engine
    lock,               \* the request that holds the API's write lock
    pc,                 \* where the handler of request q is
    response,           \* its status code, 0 before
    torn,               \* agents of which a write stopped between its files
    overwritten,        \* files of a definition or a schema that were written as
                        \* a file of another kind
    jpc,                \* where job j is
    started,            \* started[j]: the engine's snapshot when j started
    ran,                \* ran[j]: the definitions of the agents j has run
    crashes

process == <<up, api, engine>>
handlers == <<lock, pc, response>>
history == <<torn, overwritten>>
jobs == <<jpc, started, ran>>
vars == <<disk, up, api, engine, lock, pc, response, torn, overwritten,
          jpc, started, ran, crashes>>

Stored == Written \cup {Absent}
Snapshots == [prompts : [Agents -> Stored], definitions : [Names -> Stored]]
Empty == [prompts |-> [a \in Agents |-> Absent],
          definitions |-> [x \in Names |-> Absent]]
-----------------------------------------------------------------------------
(***************************************************************************)
(* Load: every definition file holds a definition of its own name, every   *)
(* blueprint finds its prompt and its schema, and every pipeline finds the *)
(* blueprints of its steps.                                                *)
(***************************************************************************)
\* compileOutputSchema, for blueprint c.
Compiles(c) ==
    SchemaPath[c] # NoFile =>
        disk[SchemaPath[c]] # Absent /\ disk[SchemaPath[c]].text \in Schemas

LoadsBlueprint(a) ==
    disk[a] # Absent =>
        /\ Defines[disk[a].text] = a
        /\ disk[PromptPath[disk[a].text]] # Absent
        /\ Compiles(disk[a].text)

LoadsPipeline(p) ==
    disk[p] # Absent =>
        /\ Defines[disk[p].text] = p
        /\ \A a \in Uses[disk[p].text] : disk[a] # Absent

Loadable ==
    /\ \A a \in Agents : LoadsBlueprint(a)
    /\ \A p \in Pipelines : LoadsPipeline(p)

Loaded ==
    [prompts |-> [a \in Agents |-> IF disk[a] = Absent THEN Absent
                                   ELSE disk[PromptPath[disk[a].text]]],
     definitions |-> [x \in Names |-> disk[x]]]

Exists(x) == api.definitions[x] # Absent
-----------------------------------------------------------------------------
(***************************************************************************)
(* A write request: handleRegistryAgent and handleRegistryPipeline, then   *)
(* mutate.  The existence of the target is read before the lock is taken.  *)
(***************************************************************************)
Respond(q, code) ==
    /\ pc' = [pc EXCEPT ![q] = "done"]
    /\ response' = [response EXCEPT ![q] = code]

\* Conflict or not found.
Refuse(q) ==
    /\ up /\ lock = NoRequest
    /\ pc[q] = "new"
    /\ Exists(Target[q]) <=> Method[q] = "POST"
    /\ Respond(q, IF Method[q] = "POST" THEN 409 ELSE 404)
    /\ UNCHANGED <<disk, process, lock, history, jobs, crashes>>

Check(q) ==
    /\ up /\ lock = NoRequest
    /\ pc[q] = "new"
    /\ Exists(Target[q]) <=> Method[q] = "PUT"
    /\ pc' = [pc EXCEPT ![q] = "checked"]
    /\ UNCHANGED <<disk, process, lock, response, history, jobs, crashes>>

\* Mutant: WriteBlueprint does not look for the prompt file.
ValidBlueprintUnseen(q) ==
    /\ Defines[Body[q]] = Target[q]
    /\ Compiles(Body[q])

\* WriteBlueprint: the schema compiles, and the prompt is sent or on disk.
ValidBlueprint(q) ==
    /\ Defines[Body[q]] = Target[q]
    /\ Compiles(Body[q])
    /\ Prompt[q] # NoPrompt \/ disk[PromptPath[Body[q]]] # Absent

\* validatePipeline: the agents of the steps are in the snapshot of the API.
ValidPipeline(q) ==
    /\ Defines[Body[q]] = Target[q]
    /\ \A a \in Uses[Body[q]] : Exists(a)

Valid(q) == IF Target[q] \in Agents THEN ValidBlueprint(q) ELSE ValidPipeline(q)

\* Nothing is written.
Invalid(q) ==
    /\ pc[q] = "checked"
    /\ lock = NoRequest
    /\ ~Valid(q)
    /\ Respond(q, 400)
    /\ UNCHANGED <<disk, process, lock, history, jobs, crashes>>

\* Mutant: mutate does not take the lock.
BeginUnlocked(q) ==
    /\ pc[q] = "checked"
    /\ Valid(q)
    /\ lock' = q
    /\ pc' = [pc EXCEPT ![q] = IF Prompt[q] # NoPrompt
                               THEN "prompt" ELSE "definition"]
    /\ UNCHANGED <<disk, process, response, history, jobs, crashes>>

Begin(q) ==
    /\ pc[q] = "checked"
    /\ lock = NoRequest
    /\ Valid(q)
    /\ lock' = q
    /\ pc' = [pc EXCEPT ![q] = IF Prompt[q] # NoPrompt
                               THEN "prompt" ELSE "definition"]
    /\ UNCHANGED <<disk, process, response, history, jobs, crashes>>

Save(f, c, q) == disk' = [disk EXCEPT ![f] = [text |-> c, by |-> q]]

\* The schema files of the blueprints on disk and of the one that q writes.
SchemaFiles(q) ==
    {SchemaPath[disk[a].text] : a \in {a \in Agents : disk[a] # Absent}}
        \cup {SchemaPath[Body[q]]}

\* atomicWrite of the prompt, to whatever file prompt_path names.
WritePrompt(q) ==
    /\ pc[q] = "prompt"
    /\ Save(PromptPath[Body[q]], Prompt[q], q)
    /\ overwritten' = overwritten
            \cup ({PromptPath[Body[q]]} \cap (Names \cup SchemaFiles(q)))
    /\ pc' = [pc EXCEPT ![q] = "definition"]
    /\ UNCHANGED <<process, lock, response, torn, jobs, crashes>>

\* atomicWrite of the JSON file: readers see the old one or the new one.
WriteDefinition(q) ==
    /\ pc[q] = "definition"
    /\ Save(Target[q], Body[q], q)
    /\ overwritten' = overwritten \cup ({Target[q]} \cap SchemaFiles(q))
    /\ pc' = [pc EXCEPT ![q] = "reload"]
    /\ UNCHANGED <<process, lock, response, torn, jobs, crashes>>

\* A request that wrote a prompt and not the blueprint.
Tears(q) == pc[q] = "definition" /\ Prompt[q] # NoPrompt

\* A write fails; a prompt that is already written stays.
WriteFails(q) ==
    /\ IOFaults
    /\ pc[q] \in {"prompt", "definition"}
    /\ torn' = IF Tears(q) THEN torn \cup {Target[q]} ELSE torn
    /\ Respond(q, 400)
    /\ lock' = NoRequest
    /\ UNCHANGED <<disk, process, overwritten, jobs, crashes>>

\* Mutant: the engine keeps its snapshot.
ReloadApiOnly(q) ==
    /\ pc[q] = "reload"
    /\ Loadable
    /\ api' = Loaded
    /\ Respond(q, 200)
    /\ lock' = NoRequest
    /\ UNCHANGED <<disk, up, engine, history, jobs, crashes>>

Reload(q) ==
    /\ pc[q] = "reload"
    /\ Loadable
    /\ api' = Loaded
    /\ engine' = Loaded
    /\ Respond(q, 200)
    /\ lock' = NoRequest
    /\ UNCHANGED <<disk, up, history, jobs, crashes>>

\* Mutant: the lock is not released when the reload fails.
ReloadFailsLocked(q) ==
    /\ pc[q] = "reload"
    /\ IOFaults \/ ~Loadable
    /\ Respond(q, 500)
    /\ UNCHANGED <<disk, process, lock, history, jobs, crashes>>

\* The files are written and the snapshots stay as they are.
ReloadFails(q) ==
    /\ pc[q] = "reload"
    /\ IOFaults \/ ~Loadable
    /\ Respond(q, 500)
    /\ lock' = NoRequest
    /\ UNCHANGED <<disk, process, history, jobs, crashes>>
-----------------------------------------------------------------------------
(***************************************************************************)
(* The process: Load at the start (a registry that does not load ends it), *)
(* and a crash, which loses all requests and jobs in progress.             *)
(***************************************************************************)
Start ==
    /\ ~up
    /\ Loadable
    /\ up' = TRUE
    /\ api' = Loaded
    /\ engine' = Loaded
    /\ UNCHANGED <<disk, handlers, history, jobs, crashes>>

Crash ==
    /\ up
    /\ crashes < MaxCrashes
    /\ crashes' = crashes + 1
    /\ up' = FALSE
    /\ api' = Empty
    /\ engine' = Empty
    /\ lock' = NoRequest
    /\ torn' = torn \cup {Target[q] : q \in {q \in Requests : Tears(q)}}
    /\ pc' = [q \in Requests |-> IF pc[q] = "new" THEN "new" ELSE "done"]
    /\ jpc' = [j \in Jobs |-> IF jpc[j] = "new" THEN "new" ELSE "done"]
    /\ UNCHANGED <<disk, response, overwritten, started, ran>>
-----------------------------------------------------------------------------
(***************************************************************************)
(* A job: RunPipeline reads the pipeline, and each step's RunAgent reads   *)
(* the registry anew.                                                      *)
(***************************************************************************)
RunPipeline(j) ==
    /\ up
    /\ jpc[j] = "new"
    /\ engine.definitions[JobPipeline[j]] # Absent
    /\ jpc' = [jpc EXCEPT ![j] = "running"]
    /\ started' = [started EXCEPT ![j] = engine]
    /\ UNCHANGED <<disk, process, handlers, history, ran, crashes>>

RunAgent(j) ==
    /\ jpc[j] = "running"
    /\ \E a \in Uses[started[j].definitions[JobPipeline[j]].text] :
        ran' = [ran EXCEPT ![j] = @ \cup {<<a, engine.definitions[a]>>}]
    /\ UNCHANGED <<disk, process, handlers, history, jpc, started, crashes>>

EndJob(j) ==
    /\ jpc[j] = "running"
    /\ jpc' = [jpc EXCEPT ![j] = "done"]
    /\ UNCHANGED <<disk, process, handlers, history, started, ran, crashes>>
-----------------------------------------------------------------------------
Init ==
    /\ \E o \in Originals :
        disk = [f \in Files |-> IF o[f] = Absent THEN Absent
                               ELSE [text |-> o[f], by |-> NoRequest]]
    /\ Loadable
    /\ up = FALSE
    /\ api = Empty
    /\ engine = Empty
    /\ lock = NoRequest
    /\ pc = [q \in Requests |-> "new"]
    /\ response = [q \in Requests |-> 0]
    /\ torn = {}
    /\ overwritten = {}
    /\ jpc = [j \in Jobs |-> "new"]
    /\ started = [j \in Jobs |-> Empty]
    /\ ran = [j \in Jobs |-> {}]
    /\ crashes = 0

Handler(q) ==
    \/ Refuse(q) \/ Check(q) \/ Invalid(q) \/ Begin(q) \/ WritePrompt(q)
    \/ WriteDefinition(q) \/ WriteFails(q) \/ Reload(q) \/ ReloadFails(q)

Next ==
    \/ \E q \in Requests : Handler(q)
    \/ Start \/ Crash
    \/ \E j \in Jobs : RunPipeline(j) \/ RunAgent(j) \/ EndJob(j)

Spec == Init /\ [][Next]_vars

\* Every handler is scheduled, and the supervisor restarts the process.
FairSpec == Spec /\ WF_vars(Start) /\ \A q \in Requests : WF_vars(Handler(q))
-----------------------------------------------------------------------------
(***************************************************************************)
(* Properties                                                              *)
(***************************************************************************)
\* Every variable has its type, and a request is past its validation exactly
\* while it holds the lock.
TypeOK ==
    /\ disk \in [Files -> Stored]
    /\ up \in BOOLEAN
    /\ api \in Snapshots
    /\ engine \in Snapshots
    /\ lock \in Requests \cup {NoRequest}
    /\ pc \in [Requests -> {"new", "checked", "prompt", "definition", "reload", "done"}]
    /\ \A q \in Requests : pc[q] \in {"prompt", "definition", "reload"} <=> lock = q
    /\ response \in [Requests -> {0, 200, 400, 404, 409, 500}]
    /\ torn \subseteq Names
    /\ overwritten \subseteq Files
    /\ jpc \in [Jobs -> {"new", "running", "done"}]
    /\ started \in [Jobs -> Snapshots]
    /\ ran \in [Jobs -> SUBSET (Agents \X Stored)]
    /\ crashes \in 0..MaxCrashes

\* The files load at every moment, also between the two writes of a request
\* and after one that failed, so that a process that crashes can start again,
\* unless a prompt was written over a definition, or a prompt or a definition
\* over a schema: prompt_path and output_schema may name any file.
DiskLoads == overwritten = {} => Loadable

\* Every request for agent a sends a prompt, and no request for another agent
\* or pipeline writes its prompt file f.
Prompted(a, f) ==
    /\ f \notin Names
    /\ \A q \in Requests :
        IF Target[q] = a THEN Prompt[q] # NoPrompt
        ELSE Prompt[q] # NoPrompt => PromptPath[Body[q]] # f

\* The API and the engine never serve a blueprint with the prompt of another
\* write, unless a failure or a crash stopped a write between the two files,
\* or the two files are shared with other definitions.
WholeAgents ==
    \A s \in {api, engine} : \A a \in Agents \ (torn \cup overwritten) :
        s.definitions[a] # Absent /\ Prompted(a, PromptPath[s.definitions[a].text]) =>
            s.prompts[a].by = s.definitions[a].by

\* Between requests both snapshots are what a fresh start would load, unless
\* a request failed after it had changed a file.
ServedIsDisk ==
    up /\ lock = NoRequest /\ torn = {} /\ (\A q \in Requests : response[q] # 500) =>
        api = Loaded /\ engine = Loaded

\* A request that waits for the lock is answered, or lost with its process.
RequestsEnd == \A q \in Requests : pc[q] = "checked" ~> pc[q] = "done"

-----------------------------------------------------------------------------
(***************************************************************************)
(* Why the files load: none is ever removed, a blueprint is written after  *)
(* its prompt and its schema, and a pipeline after the agents it names.    *)
(***************************************************************************)
\* What the API has loaded is still on disk.
AgentsStay == \A a \in Agents : api.definitions[a] # Absent => disk[a] # Absent

SchemaFits(c) == SchemaPath[c] \in overwritten \/ Compiles(c)

\* A definition file that was not overwritten holds a definition that finds
\* its files and its agents, whatever happened to other files.
FilesFit ==
    \A x \in Names \ overwritten :
        disk[x] # Absent =>
            /\ Defines[disk[x].text] = x
            /\ x \in Agents => disk[PromptPath[disk[x].text]] # Absent /\ SchemaFits(disk[x].text)
            /\ x \in Pipelines => \A a \in Uses[disk[x].text] : disk[a] # Absent

\* A request that is about to write a definition has all that it needs.
ReadyToWrite ==
    \A q \in Requests :
        /\ pc[q] = "prompt" => Prompt[q] # NoPrompt
        /\ pc[q] \in {"prompt", "definition"} =>
            /\ Defines[Body[q]] = Target[q]
            /\ Target[q] \in Agents => SchemaFits(Body[q])
            /\ Target[q] \in Pipelines => \A a \in Uses[Body[q]] : disk[a] # Absent
        /\ pc[q] = "definition" /\ Target[q] \in Agents => disk[PromptPath[Body[q]]] # Absent

\* A running job has found its pipeline in the snapshot it started with.
JobsFound ==
    \A j \in Jobs : jpc[j] = "running" => started[j].definitions[JobPipeline[j]] # Absent

\* The inductive invariant of the registry.
RegInv == TypeOK /\ DiskLoads /\ AgentsStay /\ FilesFit /\ ReadyToWrite /\ JobsFound
-----------------------------------------------------------------------------
\* A job runs its agents as the snapshot it started with defines them
\* ("In-flight jobs finish against the snapshot they started with").
SnapshotKept ==
    \A j \in Jobs : \A x \in ran[j] : x[2] = started[j].definitions[x[1]]
=============================================================================

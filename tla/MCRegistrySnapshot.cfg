\* A job in flight while an agent is updated.
SPECIFICATION Spec
CONSTANTS
    a1 = a1  a2 = a2  p1 = p1  t1 = t1  t2 = t2  s1 = s1  b1 = b1  b1s = b1s
    b2 = b2  b2x = b2x  d1 = d1  d2 = d2  text = text  schema = schema
    put = put  post = post  over = over  pipe = pipe  j1 = j1
    Absent = Absent  NoName = NoName  NoFile = NoFile  NoPrompt = NoPrompt
    NoRequest = NoRequest
    Agents <- MCAgents
    Pipelines <- MCPipelines
    Others <- MCOthers
    Contents <- MCContents
    Defines <- MCDefines
    PromptPath <- MCPromptPath
    SchemaPath <- MCSchemaPath
    Schemas <- MCSchemas
    Uses <- MCUses
    Originals <- MCOriginals
    Requests <- MCRequests
    Method <- MCMethod
    Target <- MCTarget
    Body <- MCBody
    Prompt <- MCPrompt
    Jobs <- MCJobs
    JobPipeline <- MCJobPipeline
    MaxCrashes = 0
    IOFaults = FALSE
INVARIANTS SnapshotKept
CHECK_DEADLOCK FALSE

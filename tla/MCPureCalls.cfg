\* Pipeline graphs, answers, expressions and requests.
CONSTANTS
    a = a
    b = b
    c = c
    ghost = ghost
    WordSize = 5
    MaxDepth = 2
    Pipelines <- MCPipelines
    Families <- MCFamilies
    Expressions <- MCExpressions
    Requests <- MCRequests
    Definitions <- MCDefinitions
SPECIFICATION Spec
INVARIANTS
    AcceptedIffRunnable
    BadSchemaFailsAtLoad
    RequiredPathResolves
    EnumRouted
    DefaultCatches
    PathsAgree
    EvalExact
    AdmittedRuns
CHECK_DEADLOCK FALSE

\* An answer in a code fence is accepted and cannot be read.
CONSTANTS
    a = a
    b = b
    c = c
    ghost = ghost
    WordSize = 5
    MaxDepth = 2
    Pipelines <- MCPipelines
    Families <- MCFamilies
    Expressions <- MCExpressions
    Requests <- MCRequests
    Definitions <- MCDefinitions
SPECIFICATION Spec
INVARIANT AcceptedOutputUsable
CHECK_DEADLOCK FALSE

\* Two routers that share a target, three steps for two slots, a step declared
\* before the one it waits for.
SPECIFICATION FairSpec
CONSTANTS
    a = a  b = b  c = c  d = d  e = e  f = f  g = g  h = h  NoStep = NoStep
    Steps <- TriageSteps
    Order <- TriageOrder
    deps <- TriageDeps
    Refs <- TriageRefs
    Routes <- TriageRoutes
    OutputRefs <- TriageOutput
    HasOutput = TRUE
    MaxParallel = 2
INVARIANTS DepsRespected OneBranch SkipJustified RunningCounts PipeInv StallExplained EveryOutcomeReturned
PROPERTIES GoroutinesEnd RunReturns
CHECK_DEADLOCK FALSE

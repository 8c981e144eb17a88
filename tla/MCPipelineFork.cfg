\* Two independent last steps.
SPECIFICATION Spec
CONSTANTS
    a = a  b = b  c = c  d = d  e = e  f = f  g = g  h = h  NoStep = NoStep
    Steps <- ForkSteps
    Order <- ForkOrder
    deps <- ForkDeps
    Refs <- ForkRefs
    Routes <- ForkRoutes
    OutputRefs = {}
    HasOutput = FALSE
    MaxParallel = 2
INVARIANTS EveryOutcomeReturned
CHECK_DEADLOCK FALSE

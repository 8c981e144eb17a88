\* One replica, a store that may fail on any call, one stop.
SPECIFICATION Spec
CONSTANTS
    j1 = j1  j2 = j2  j3 = j3  w1 = w1  w2 = w2  r1 = r1  r2 = r2
    NoJob = NoJob  NoReplica = NoReplica
    Jobs <- ThreeJobs
    Workers <- TwoWorkers
    Replicas <- OneReplica
    Home <- HomeOne
    Kind <- OnePipeline
    PipelineSteps = 2
    QueueCap = 1
    MaxStops = 1
    StoreFaults = TRUE
INVARIANTS ExclusiveRun PoolInv
PROPERTIES TerminalFrozen Lifecycle
CHECK_DEADLOCK FALSE

\* Two replicas share the store.
SPECIFICATION Spec
CONSTANTS
    j1 = j1  j2 = j2  j3 = j3  w1 = w1  w2 = w2  r1 = r1  r2 = r2
    NoJob = NoJob  NoReplica = NoReplica
    Jobs <- OneJob
    Workers <- TwoWorkers
    Replicas <- TwoReplicas
    Home <- HomeTwo
    Kind <- AllAgents
    PipelineSteps = 1
    QueueCap = 1
    MaxStops = 0
    StoreFaults = FALSE
INVARIANTS OnlyOrphansReset
CHECK_DEADLOCK FALSE

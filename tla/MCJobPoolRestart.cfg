\* One replica, a reliable store, up to two stops; more jobs than the queue holds.
SPECIFICATION FairSpec
CONSTANTS
    j1 = j1  j2 = j2  j3 = j3  w1 = w1  w2 = w2  r1 = r1  r2 = r2
    NoJob = NoJob  NoReplica = NoReplica
    Jobs <- ThreeJobs
    Workers <- TwoWorkers
    Replicas <- OneReplica
    Home <- HomeOne
    Kind <- AllAgents
    PipelineSteps = 2
    QueueCap = 2
    MaxStops = 2
    StoreFaults = FALSE
INVARIANTS NoZombie RequeueHasRoom CompletedHasSteps
PROPERTIES UndisturbedFinishes RunningFinishes
CHECK_DEADLOCK FALSE

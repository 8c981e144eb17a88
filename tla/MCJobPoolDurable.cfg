\* One stop loses the jobs of the queue.
SPECIFICATION FairSpec
CONSTANTS
    j1 = j1  j2 = j2  j3 = j3  w1 = w1  w2 = w2  r1 = r1  r2 = r2
    NoJob = NoJob  NoReplica = NoReplica
    Jobs <- TwoJobs
    Workers <- OneWorker
    Replicas <- OneReplica
    Home <- HomeOne
    Kind <- AllAgents
    PipelineSteps = 1
    QueueCap = 2
    MaxStops = 1
    StoreFaults = FALSE
PROPERTIES AcceptedFinishes
CHECK_DEADLOCK FALSE

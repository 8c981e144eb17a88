SPECIFICATION Spec
CONSTANTS
    Callers = {c1, c2}
    Conns = {k1, k2, k3}
    NoConn = NoConn
    MaxIdle = 1
    MaxFaults = 1
    Jobs = {j1, j2}
    Status = {"PENDING", "RUNNING"}
    NoJob = NoJob
    MaxSeq = 2
    MaxRows = 1
    MaxOther = 1
SYMMETRY Alike
INVARIANTS
    Aligned
    PoolBounded
    IndexAgrees
    RanksDistinct
PROPERTIES
    ImplementsJobStore
CHECK_DEADLOCK FALSE

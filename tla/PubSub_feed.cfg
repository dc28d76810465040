SPECIFICATION Spec
CONSTANTS
    Workers = {w1, w2}
    MaxPublished = 2
    MaxInserts = 2
    MaxLapses = 1
    MaxFaults = 1
    Free = Free
    Dead = Dead
    None = None
INVARIANT DeviationsPaidFor
PROPERTIES NothingLost ReplayForward RenewedEventKept
SYMMETRY WorkerSymmetry
CHECK_DEADLOCK FALSE

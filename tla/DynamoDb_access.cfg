SPECIFICATION Spec
CONSTANTS
    Writers = {w1, w2}
    Readers = {r1}
    Keys <- MCKeys
    Limits = {2}
    Now = 10
    AtWidth = 2
    TenantWidth = 1
    MaxJobs = 2
    MaxFaults = 1
    None = None
SYMMETRY WriterSymmetry
INVARIANTS OneWinner  ReadsCover
CHECK_DEADLOCK FALSE

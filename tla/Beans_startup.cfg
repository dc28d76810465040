SPECIFICATION BeansSpec
CONSTANTS
    Threads = {t1, t2}
    MaxCalls = 1
    MaxFaults = 1
SYMMETRY ThreadSymmetry
INVARIANTS MadeOnceFromWhole FailuresPaidFor CallsEnd
CHECK_DEADLOCK FALSE

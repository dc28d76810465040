SPECIFICATION Spec
CONSTANTS
    Pollers = {p1, p2}
    Slots = {a, b}
    Events = {e1}
    MaxWorking = 1
    MaxQueue = 1
    MaxFaults = 1
    Free = Free
    Dead = Dead
INVARIANTS OnePollPerUser WorkerOwnsEvent CountsCover
SYMMETRY GroupSymmetry
CHECK_DEADLOCK FALSE

SPECIFICATION FairSpec
CONSTANTS
    Workers = {w1, w2}
    MaxNotes = 2
    MaxFaults = 1
    MaxQueue = 2
    Free = Free
    Dead = Dead
INVARIANTS NothingSkipped NoFreeDuplicates
PROPERTIES DeliveredInOrder EventuallyReceived
CHECK_DEADLOCK FALSE

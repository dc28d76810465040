SPECIFICATION FairSpec
CONSTANTS
    Clients = {c1, c2}
    Refreshers = {c1}
    Blocking = {c2}
    LeaseSeconds = 1
    Tries = 2
    MaxSkew = 2
    MaxTime = 8
INVARIANTS LeaseExclusive 
PROPERTIES LeasePromised AbandonedLockRecovered

SPECIFICATION FairSpec
CONSTANTS
    Sids = {s1}
    Requests = {r1, r2}
    Connectors = {k1, k2}
    Handlers = {h1}
    Tokens = {t1, t2}
    Devices = {d1}
    MaxRetries = 1
    Tries = 2
    None = None
PROPERTIES FailedNeverActive 
CHECK_DEADLOCK FALSE

SPECIFICATION Spec
CONSTANTS
    Sids = {s1, s2}
    Requests = {r1, r2}
    Connectors = {}
    Handlers = {h1}
    Tokens = {t1, t2}
    Devices = {d1, d2}
    MaxRetries = 1
    Tries = 1
    None = None
SYMMETRY ActorSymmetry
INVARIANTS TypeOK PointerTarget 
CHECK_DEADLOCK FALSE

SPECIFICATION Spec
CONSTANTS
    Users = {u1, u2}
    Targets = {t1}
    Plain = {}
    Requests = {q1, q2}
    Flaws = {"path", "name", "token", "user", "body", "target"}
    MaxRequests = 2
    MaxFaults = 1
    Free = Free
    Dead = Dead
    None = None
    Polled = u1
    MaxWork = 2
    Texts = {"chat", "log"}
    Supported = {"chat"}
INVARIANTS NumbersPaidFor  AnswersHonest RepeatsPaidFor 
PROPERTY NoMessageLost
SYMMETRY RequestSymmetry
CHECK_DEADLOCK FALSE

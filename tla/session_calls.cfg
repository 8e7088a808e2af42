CONSTANTS
    Tab = {a}
    Call = {c1, c2, c3}
    Token = {n1, n2}
    None = None
SPECIFICATION FairSpec
CHECK_DEADLOCK FALSE
INVARIANTS
    QueueIsDrained
    ResendsBounded
PROPERTIES
    EveryBurstSettles

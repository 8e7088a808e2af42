CONSTANTS
    Token = {t1, t2}
    User = {u1}
    Req = {r1, r2}
    None = None
    AccessTTL = 1
    RefreshTTL = 1
    MaxTime = 0
    Attempt = {l1, l2, l3}
    MaxAttempts = 2
    LockoutSeconds = 2
    MaxOutages = 1
SPECIFICATION MCSpec
INVARIANTS
    OvershootBounded
PROPERTIES
    
    LockoutEnds

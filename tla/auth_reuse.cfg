CONSTANTS
    Token = {t1, t2, t3}
    User = {u1, u2}
    Req = {r1, r2}
    None = None
    AccessTTL = 1
    RefreshTTL = 1
    MaxTime = 0
SPECIFICATION Spec
SYMMETRY Symmetry
INVARIANTS
    ReuseRevokesFamily

CONSTANTS
    Token = {t1, t2, t3}
    User = {u1, u2}
    Req = {r1, r2}
    None = None
    AccessTTL = 2
    RefreshTTL = 3
    MaxTime = 3
    Site = {x1, x2}
    FirstSite = x1
    ClaimTTL = 1
    LastTick = 2
    NoClaims = NoClaims
SPECIFICATION MCSpec
SYMMETRY Symmetry
INVARIANTS
    TypeOK
    FamilyOneOwner
    SuccessorSpendsParent
    AloneOneLivePerFamily
    AloneReuseRevokesFamily
    AloneLogoutRevokesUser
    BlacklistOutlivesToken
    GrantsAreRecent
PROPERTIES
    DeadFamilyStaysDead
    InactiveGainsNothing
    NoServiceAfterLogout

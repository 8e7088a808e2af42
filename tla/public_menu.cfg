CONSTANTS
    Req = {r1, r2}
    None = None
    TTL = 2
    MaxAge = 1
    MaxBuild = 1
    MaxVersion = 2
    MaxTime = 5
    p1 = p1
    b1 = b1
    b2 = b2
    bd = bd
    bf = bf
    Product = {p1}
    LiveBranch = {b1, b2}
    DeletedBranch = {bd}
    ForeignBranch = {bf}
    Desk = {d1, d2}
    Null = Null
    Unset = Unset
    MaxPrice = 2
    MaxWrites = 2
    BasePrice <- Base
    StartRows <- Starts
    Bodies <- BulkBodies
    Amounts = {1, 50}
    Worker = {w1, w2}
    Key = {k1, k2}
    Orden = {0, 1}
    Omitted = Omitted
    Taste = {v1, v2}
    MaxLength = 2
    MaxRequests = 3
    Shop = {h1, h2}
    LastPage = 2
    Flight = {f1, f2}
    Landed = Landed
    MaxSaves = 2
SPECIFICATION MCSpec
SYMMETRY Symmetry
CHECK_DEADLOCK FALSE
INVARIANTS
    TypeOK
    
    UnionOnlyByOverlap
    WholeLists
    SettledListIsRight
    SkeletonEnds
PROPERTIES
    ImplementsApi
    
    ColumnsApart

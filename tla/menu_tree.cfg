CONSTANTS
    Branch = {b1, b2}
    Category = {c1, c2}
    Subcategory = {s1, s2}
    Product = {p1}
    Req = {r1, r2}
    None = None
    SeedBranch = b1
    SeedHome = c1
SPECIFICATION Spec
SYMMETRY Symmetry
CONSTRAINT Explored
CHECK_DEADLOCK FALSE
INVARIANTS
    TypeOK
    OrphansOnlyByRace
PROPERTIES
    OrphansStayPut
    HomeFallsOnlyWithBranch

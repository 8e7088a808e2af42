CONSTANTS
    Branch = {b1, b2}
    Category = {c1, c2, c3}
    Subcategory = {s1, s2}
    Product = {p1}
    Req = {r1}
    None = None
    SeedBranch = b1
    SeedHome = c1
SPECIFICATION Spec
SYMMETRY Symmetry
CHECK_DEADLOCK FALSE
PROPERTIES
    ProductKeepsBranch

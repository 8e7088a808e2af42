CONSTANTS
    Branch = {b1, b2}
    Category = {c1, c2, c3}
    Subcategory = {s1, s2}
    Product = {p1}
    Req = {r1}
    None = None
    SeedBranch = b1
    SeedHome = c1
    a1 = a1
    a2 = a2
    k1 = k1
    Dish = {x1, x2}
    Allergen = {a1, a2}
    AllergenCode = {k1}
    CodeOf <- Codes
    Diet = {v1}
    MaxWritten = 3
    Absent = Absent
    Tenant = {t1, t2}
    NoTenant = NoTenant
    Code = {k1}
    Label = {l1}
    MaxItem = 3
    SystemItems = 1
    Slot = {q1, q2}
    Nothing = Nothing
    Seeder = {d1, d2}
    MaxEdits = 1
SPECIFICATION MCSpec
SYMMETRY Symmetry
CHECK_DEADLOCK FALSE
INVARIANTS
    ShownAsFiltered
    LegendComplete
    
    RefusedOnlyIfThere
    OneOfEach
    SystemCodesUnique
PROPERTIES
    SubcategoryKeepsBranch

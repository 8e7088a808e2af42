CONSTANTS
    Seeder = {s1}
    MaxEdits = 1
SPECIFICATION SeedSpec
INVARIANTS
    SeedMakesNoDuplicates

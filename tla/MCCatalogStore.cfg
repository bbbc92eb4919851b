SPECIFICATION Spec
CONSTANTS
    Clients = {c1, c2}
    Maintainers = {c1, c2}
    MaxMade = 2
    MaxSnapshots = 2
    Keep = 1
    c1 = c1
    c2 = c2
INVARIANTS TypeOK CatalogIntact
PROPERTIES ScansComplete
CONSTRAINT Undisturbed
SYMMETRY ClientsAreAlike

SPECIFICATION Spec
CONSTANTS
    Clients = {c1, c2}
    Maintainers = {c1}
    MaxMade = 2
    MaxSnapshots = 1
    Keep = 1
    c1 = c1
    c2 = c2
INVARIANT ReadersFind
CONSTRAINT OwnContents

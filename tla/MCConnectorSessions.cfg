CONSTANTS
    s1 = s1  s2 = s2  s3 = s3  a1 = a1  a2 = a2  x = x  y = y
    Saves = {s1, s2, s3}
    NoSave = NoSave
    Attachments = {a1, a2}
    Ids = {x, y}
    NoId = NoId
    Unimportable = {s3}
    MaxCompleted = 1
    MaxFaults = 1
SPECIFICATION Spec
SYMMETRY Symmetry
CHECK_DEADLOCK FALSE
INVARIANTS TypeOK CreatedIsSaved RightItem NothingDropped WindowBounded

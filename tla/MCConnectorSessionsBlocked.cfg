CONSTANTS
    s1 = s1  s2 = s2  s3 = s3  a1 = a1  a2 = a2  x = x  y = y
    Saves = {s1, s3}
    NoSave = NoSave
    Attachments = {a1}
    Ids = {x, y}
    NoId = NoId
    Unimportable = {s3}
    MaxCompleted = 1
    MaxFaults = 0
SPECIFICATION Spec
CHECK_DEADLOCK FALSE
PROPERTY EverySessionTried

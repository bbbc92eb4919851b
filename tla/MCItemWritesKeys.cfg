CONSTANTS
    r1 = r1  r2 = r2  r3 = r3  f1 = f1  f2 = f2
    Requests = {r1, r2}
    Files = {f1}
    Operations = {"extra", "patch"}
    NoFile = NoFile  NoOne = NoOne
    MaxFaults = 0
SPECIFICATION Spec
CHECK_DEADLOCK FALSE
INVARIANT WritesSerialized

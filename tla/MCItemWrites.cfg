CONSTANTS
    r1 = r1  r2 = r2  r3 = r3  f1 = f1  f2 = f2
    Requests = {r1, r2, r3}
    Files = {f1, f2}
    Operations = {"extra", "cats", "delete", "patch", "addFile", "upload", "attach", "archive"}
    NoFile = NoFile  NoOne = NoOne
    MaxFaults = 1
SPECIFICATION Spec
SYMMETRY Symmetry
CHECK_DEADLOCK FALSE
INVARIANTS TypeOK SameKeyNoOverwrite EditsSurvive NeverTorn ListedFilesExist NothingLeaks
PROPERTIES PatchIsCompareAndSwap PublishesItsOwn

CONSTANTS
    t1 = t1  t2 = t2  t3 = t3
    Calls = {t1, t2, t3}
    Kinds = {"write", "addFile", "attach", "scan", "archive", "refresh"}
    MaxPauses = 2
SPECIFICATION Spec
SYMMETRY Symmetry
CHECK_DEADLOCK FALSE
INVARIANTS TypeOK IndexFresh StatusSettles
PROPERTY EventAfterIndex

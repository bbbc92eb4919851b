CONSTANTS
    i1 = i1  i2 = i2  a = a  b = b  c1 = c1  c2 = c2  c3 = c3
    Items = {i1, i2}
    Unmatched = Unmatched
    Categories = {a, Unmatched}
    EntryNames = {i1, i2}
    DirName <- MCDirName
    Calls = {c1, c2}
    Commands = {"add", "remove", "scan", "rename", "merge", "create"}
    MaxHandEdits = 1
SPECIFICATION Spec
SYMMETRY Symmetry
CHECK_DEADLOCK FALSE
INVARIANTS TypeOK RemovalSticks
PROPERTIES ScanConverges CommandsKeepAgreement FilingLeavesUnmatched

CONSTANTS
    i1 = i1  i2 = i2  a = a  b = b  c1 = c1  c2 = c2  c3 = c3
    Items = {i1}
    Unmatched = Unmatched
    Categories = {a, b, Unmatched}
    EntryNames = {i1}
    DirName <- MCDirName
    Calls = {c1, c2, c3}
    Commands = {"add", "scan"}
    MaxHandEdits = 1
SPECIFICATION Spec
SYMMETRY Symmetry
CHECK_DEADLOCK FALSE
PROPERTY AdoptsOnlyHandMade

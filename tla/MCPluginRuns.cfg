SPECIFICATION Spec
CONSTANTS
    Actions = {a1}
    Tasks = {t1}
    Values = {f1, f2}
    Default = f1
    NoForm = NoForm
    MaxPreviews = 2
    Refreshes = TRUE
INVARIANTS TypeOK Tracked NoneOutlivesRuntime
PROPERTIES PreviewSettles KeepsContract
CHECK_DEADLOCK FALSE

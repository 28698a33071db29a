SPECIFICATION Spec
CONSTANTS
    Callers = {c1, c2}
    Paths <- PathsApart
    NoObject = NoObject
    MaxPuts = 2
    MaxCalls = 3
SYMMETRY Symmetric
INVARIANTS
    TypeOK
    RenameKeepsContents
    RenameIsComplete
PROPERTIES
    RemoveIsExact
CHECK_DEADLOCK FALSE

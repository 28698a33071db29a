SPECIFICATION Spec
CONSTANTS
    Callers = {c1, c2}
    Paths <- PathsTwoLevels
    Ids = {i1, i2}
    Root = Root
    NoId = NoId
    Keep = Keep
    MaxCalls = 3
INVARIANTS TypeOK StaleOnlyBelowMoved
PROPERTIES UploadHitsItsPath
CONSTRAINTS OnCourse InBounds
SYMMETRY Symmetric
CHECK_DEADLOCK FALSE

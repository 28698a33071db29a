SPECIFICATION FairSpec
CONSTANTS
    MaxBytes = 2
    MaxClients = 2
INVARIANTS
    TypeOK
    EndMeansAll
    PanicOnlyWhenLate
PROPERTIES
    UploadSpec
    NobodyIsStuck
CHECK_DEADLOCK FALSE

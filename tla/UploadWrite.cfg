SPECIFICATION FairWriterSpec
CONSTANTS
    MemCap = 3
    ChunkSize = 4
    Align = 2
    ChunkRetries = 2
    MaxBytes = 15
INVARIANTS
    WriterTypeOK
    NothingLeftBehind
PROPERTIES
    UploadSpec
    CloseReturns
CHECK_DEADLOCK FALSE

SPECIFICATION FairSpec
CONSTANTS
    Callers = {c1}
    Paths = {p, q}
    Handles = {h1, h2, h3}
    NoHandle = NoHandle
    Flavours = {"ftp", "sftp", "smb"}
    Host = {"remount", "unmount"}
INVARIANTS
    TypeOK
    SingleConnection
    UnmountCloses
    PanicOnlyInFallback
PROPERTIES
    FileSystemSpec
    CallReturns

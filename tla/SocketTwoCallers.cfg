SPECIFICATION Spec
CONSTANTS
    Callers = {c1, c2}
    Paths = {p}
    Handles = {h1, h2, h3}
    NoHandle = NoHandle
    Flavours = {"ftp", "sftp", "smb"}
    Host = {}
SYMMETRY Symmetric
INVARIANTS
    SingleConnection

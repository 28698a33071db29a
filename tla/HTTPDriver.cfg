SPECIFICATION Spec
CONSTANTS
    Callers = {c1, c2}
    Paths = {p, q}
    Flavours = {"dropbox", "webdav"}
SYMMETRY Symmetric
INVARIANTS
    TypeOK
    PanicOnlyWhenOvertaken
PROPERTIES
    FileSystemSpec

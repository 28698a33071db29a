SPECIFICATION Spec
CONSTANTS
    Callers = {c1}
    MountIDs = {m1}
    Drivers = {d1}
    NoDriver = NoDriver
    Chunks = 2
SYMMETRY Symmetric
PROPERTIES
    WriteSuccessMeansStored

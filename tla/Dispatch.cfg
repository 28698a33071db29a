SPECIFICATION Spec
CONSTANTS
    Callers = {c1, c2}
    MountIDs = {m1, m2}
    Drivers = {d1, d2, d3}
    NoDriver = NoDriver
    Chunks = 1
SYMMETRY Symmetric
INVARIANTS
    TypeOK
    ActiveIsTracked
    MountedMeansUsable

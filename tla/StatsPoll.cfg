SPECIFICATION StatsSpec
CONSTANTS
    Requests = {r1, r2}
    MaxOps = 3
    MaxBytes = 2
SYMMETRY Symmetric
INVARIANTS
    StatsTypeOK
    SnapshotAgrees
    SnapshotsMonotonic

CONSTANTS
    Obj = {1, 2}
    MaxValue = 2
    Feasible <- MCFeasible
    Worker = {w1, w2}
    NoWorker = NoWorker
    MAX_SOLUTIONS = 2
    MaxArchive = 3
    MaxBatch = 2
SPECIFICATION Spec
SYMMETRY WorkerSymmetry
INVARIANTS
    IInv
    EmptyIsTruthful
    PullsAreExact
    SnapshotIsAntichain
    QuietSnapshotIsExact
PROPERTIES
    FrontSpec

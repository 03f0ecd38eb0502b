CONSTANTS
    Worker = {w1, w2, w3}
    MaxBatch = 2
    MaxClauses = 4
SPECIFICATION Spec
INVARIANTS
    IInv
    ExactlyOnceInOrder
    NothingReadByAllIsKept
PROPERTIES
    BroadcastSpec

\* Four flushes bring the writer round all three buffers and once more.
CONSTANTS
    MaxPositions = 2
    Assets = {"cash", "share"}
    Clients = {"none", "c1", "c2"}
    NoAsset = "cash"
    NoClient = "none"
    Deltas <- MCDeltas
    Snapshots <- MCSnapshots
    MaxCalls = 2
    MaxFlushes = 4
SPECIFICATION Spec
INVARIANTS TypeOK PublishedIsAccount WorkCatchesUp CopyIsConsistent
PROPERTIES PublishedUntouched
CHECK_DEADLOCK FALSE

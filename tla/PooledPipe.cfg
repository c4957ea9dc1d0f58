\* A ring smaller than its pool (the engine's order batches): pushes are refused.
CONSTANTS
    Objects = {o1, o2, o3}
    QueueSize = 2
    BatchSize = 2
    Modes = {"TryConsume", "ConsumeTimed"}
    MaxMessages = 5
SPECIFICATION FairSpec
INVARIANTS TypeOK OwnedOnce NeverTerminates HandledInOrder
PROPERTIES EventuallyHandled ObjectsReturn

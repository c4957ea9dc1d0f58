\* A ring as large as its pool (reports, book updates), an unbatched consumer.
CONSTANTS
    Objects = {o1, o2}
    QueueSize = 2
    BatchSize = 0
    Modes = {"TryConsume", "Consume", "ConsumeTimed"}
    MaxMessages = 5
SPECIFICATION FairSpec
INVARIANTS NothingDropped
CHECK_DEADLOCK FALSE

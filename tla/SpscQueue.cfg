CONSTANTS
    Items = {a, b}
    Size = 2
    NoItem = NoItem
    MaxPushes = 4
SPECIFICATION FairSpec
INVARIANTS TypeOK NoSlotRace
PROPERTIES ImplementsFifo PushCompletes PublishedIsPopped
CHECK_DEADLOCK TRUE

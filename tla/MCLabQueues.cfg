\* Two labs, three changes, three threads: one that dies or leaves, one that
\* takes over, and another lab's; no ended operation is kept over the first.
SPECIFICATION FairSpec
CONSTANTS
    Labs = {lab1, lab2}
    MaxChanges = 3
    Keep = 0
    Queues = 3
    None = None
INVARIANTS NoWorkLost InOrder
PROPERTIES UnfinishedIsListed ImplementsMutex EveryChangeEnds
CHECK_DEADLOCK FALSE

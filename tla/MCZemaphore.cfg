CONSTANTS
    ZemThreads = {"taker1", "taker2", "giver", "mixed"}
    InitValue = 0
    NoThread = NoThread
    Program <- MCProgram
SPECIFICATION ZemSpec
INVARIANT NoLostSignal
PROPERTY ImplementsSemaphore

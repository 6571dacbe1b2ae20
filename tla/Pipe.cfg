CONSTANTS
    Readers = {r1, r2}
    Writers = {w1, w2}
    PIPESIZE = 2
    UINT = 4
    WriteSize = 2
    ReadSize = 2
    NWrites = 1
    Killable = {w1, r1}
    NoProc = NoProc
SPECIFICATION FairSpec
INVARIANTS FIFO NoUseAfterFree
PROPERTY SleepersGoOn

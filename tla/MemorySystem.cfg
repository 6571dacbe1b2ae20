CONSTANTS
    NPAGE = 60
    PGSIZE = 8
    FANOUT = 4
    NPROC = 6
    PIPESIZE = 2
    MAXPATH = 6
    MAXARG = 4
    Procs = {p1, p2, p3}
    NPages = 2
    Text = {0}
    Frames = {f1, f2, f3, f4}
    Values = {0, 1}
    NoFrame = NoFrame
    NoProc = NoProc
    Junk = Junk
    MaxCore = 14
    MinCore = 4
    MaxAsked = 5
SPECIFICATION MemSpec
INVARIANTS NoPanic TestsPass PagesExact SizeIsMapped HeapTiled RefcntExact
PROPERTY ImplementsPrivateMemory
CHECK_DEADLOCK FALSE

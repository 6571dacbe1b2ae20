SPECIFICATION Spec
CONSTANTS
    NBLOCKS = 24
    BSIZE = 4
    NDIRECT = 4
    NINODES = 14
    NINODE = 7
    IPB = 4
    NPROC = 7
    NOFILE = 8
    NFILE = 10
    NPIPE = 2
    PIPESIZE = 2
    MAXOPBLOCKS = 7
    Only = {}
INVARIANTS
    NoPanic
    TestsPass
    OpFits
    RefsExact
    CacheCoherent
    DiskConsistent

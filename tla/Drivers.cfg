CONSTANTS
    Users = {u1, u2}
    Blocknos = {k1, k2, k3}
    NBUF = 2
    NUM = 4
    Procs = {p1, p2}
    Blocks = {b1, b2, b3}
    Values = {0, 1}
    InitValue = 0
    NoBuf = NoBuf
    MAXOPBLOCKS = 2
    LOGSIZE = 4
    logSize = 4
    OpBlocks = 1
    Readers = {r1, r2}
    Writers = {w1, w2}
    INPUT_BUF_SIZE = 2
    UART_TX_BUF_SIZE = 2
    UINT = 4
    Before = 3
    Keys = {"a", "CR", "^D", "^U", "^H", "^P"}
    MaxKeys = 3
    MaxRead = 2
    NReads = 2
    WriteSize = 2
    Mortal = {r1}
    Sleepers = {1, 2}
    TICKMAX = 8
    LongNap = 3
    CPUs = {c1, c2}
    Hart0 = c1
    Threads = {t1, t2}
    Shared = {tickslock}
    tickslock = tickslock
SPECIFICATION Spec
INVARIANTS NoPanic NobodySleepsForever QuiescentOnDisk HolderSeesLatest InOrder SleepsLongEnough InterruptsRestored
PROPERTY ImplementsAtomicDisk

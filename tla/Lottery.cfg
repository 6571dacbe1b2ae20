CONSTANTS
    NCPU = 2
    NPROC = 3
    MaxTickets = 2
    MaxDebt = 1
SPECIFICATION LotteryFairSpec
INVARIANT OneCPU
PROPERTY NoStarvation

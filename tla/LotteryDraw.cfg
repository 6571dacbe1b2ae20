CONSTANTS
    NCPU = 1
    NPROC = 3
    MaxTickets = 2
    MaxDebt = 1
SPECIFICATION LotterySpec
INVARIANT DrawHasWinner

CONSTANTS
    NPROC = 4
    MaxPid = 5
    KillPids = {2, 3}
    NoSlot = NoSlot
SPECIFICATION FairSpec
INVARIANTS RightProcess ZombieNoticed NoFreeOnStack
PROPERTY OrphansReaped

CONSTANTS
    NUM_THREADS = 5
    NUM_ITER = 10
SPECIFICATION Spec
CHECK_DEADLOCK FALSE
INVARIANT TurnNotLost

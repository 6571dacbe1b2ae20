CONSTANTS
    Procs = {p1, p2}
    NPages = 2
    Text = {0}
    Frames = {f1, f2, f3}
    Values = {0, 1}
    NoFrame = NoFrame
    NoProc = NoProc
    Junk = Junk
SPECIFICATION Spec
PROPERTY EveryPagePrivate
CHECK_DEADLOCK FALSE

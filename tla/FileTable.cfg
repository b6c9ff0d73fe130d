CONSTANTS
    p1 = p1
    p2 = p2
    f1 = f1
    f2 = f2
    Proc = {p1, p2}
    InitProc = p1
    Files = {f1, f2}
    Console = Console
    None = None
    StdFds = 1
    MaxFd = 3
SYMMETRY MCSymmetry
SPECIFICATION Spec
CHECK_DEADLOCK FALSE
INVARIANTS ClosedIsUnused LastReferenceCloses
PROPERTIES NoDescriptorLost ForkInherits

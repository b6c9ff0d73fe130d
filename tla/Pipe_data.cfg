CONSTANTS
    p1 = p1
    p2 = p2
    Proc = {p1, p2}
    None = None
    PIPE_SIZE = 2
    MaxLen = 2
    MaxBytes = 4
    KernelPreemption = FALSE
SPECIFICATION FairSpec
CHECK_DEADLOCK FALSE
PROPERTY SuspendedReaderSeesData

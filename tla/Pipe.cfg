CONSTANTS
    p1 = p1
    p2 = p2
    p3 = p3
    Proc = {p1, p2, p3}
    None = None
    PIPE_SIZE = 2
    MaxLen = 2
    MaxBytes = 5
    KernelPreemption = TRUE
SYMMETRY MCSymmetry
SPECIFICATION Spec
CHECK_DEADLOCK FALSE
INVARIANTS RingHoldsLastBytes FifoUnlessLapped NobodyYieldsWithLock

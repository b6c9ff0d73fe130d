CONSTANTS
    Threads = {t1, t2}
    Locks = {l1, l2}
    None = None
    MaxNest = 1
SPECIFICATION Spec
SYMMETRY MCSymmetry
CHECK_DEADLOCK FALSE
INVARIANTS GuardsAreNotPreempted SieRestored PopNeverPanics

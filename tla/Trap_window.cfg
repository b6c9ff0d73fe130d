CONSTANTS
    p1 = p1
    p2 = p2
    Proc = {p1, p2}
    InitProc = p1
    Worker = Worker
    None = None
    MaxExec = 1
    MaxNest = 2
SPECIFICATION Spec
INVARIANTS ContextIsOwn
CHECK_DEADLOCK FALSE

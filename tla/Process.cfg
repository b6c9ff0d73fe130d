CONSTANTS
    Proc = {init, a, b}
    InitProc = init
    None = None
    WaitPids <- MCWaitPids
    Sleepers = {a}
    SleepArgs = {2}
SPECIFICATION FairSpec
CHECK_DEADLOCK FALSE
INVARIANTS LocksLeftOnlyByTimer EveryProcessHasAReaper PidsUnique StrongCountsAsExpected SuspendedOnItsCondvar OnlyCurrentIsRunning
PROPERTIES ZombieIsFinal OnlyReapedByParent PidAllocatorStep NoStarvation SleepReturns WaitReturns

CONSTANTS
    p1 = p1
    p2 = p2
    p3 = p3
    f1 = f1
    f2 = f2
    Proc = {p1, p2, p3}
    Worker = Worker
    File = {f1, f2}
    Device = Device
    Opened <- MCOpened
    Clusters <- MCClusters
    ClusterSize = 4
    Length <- MCLength
    SECTOR_SIZE = 2
    DeviceSize = 12
    Irq = 1
    Lens = {1, 5, 6}
    Offsets <- MCOffsets
    MaxReads = 3
SPECIFICATION FairSpec
INVARIANTS HandlerFindsDeviceIdle ReadsOwnBytes
PROPERTIES InterruptIsServiced
CHECK_DEADLOCK FALSE

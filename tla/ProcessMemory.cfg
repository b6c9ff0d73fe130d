CONSTANTS
    PAGE_SIZE = 2
    StackPage = 8
    MmapPage = 6
    MaxCalls = 5
    Lengths = {1, 2, 4, 13}
    Programs <- MCPrograms
SPECIFICATION Spec
CHECK_DEADLOCK FALSE
INVARIANTS UsableMemoryIsMapped RegionsInBounds MmapTakesFreePages MmapFindsRoom

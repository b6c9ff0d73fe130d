CONSTANTS
    s1 = s1
    s2 = s2
    Space = {s1, s2}
    InitSpace = s1
    Kernel = Kernel
    FrameCount = 24
    Fanout = 3
    KernelIndex = 1
    Trampoline = 18
    PAGE_SIZE = 2
    Vpn <- MCVpn
    ImagePages = {0}
    UserStack = 3
    StackPages = 2
    BufferPages = {3}
    TlbSize = 1
    MaxCalls = 3
SPECIFICATION Spec
INVARIANTS FramesAccounted MapsMatchTable TranslationIsCurrent
PROPERTIES ImplementsAddressSpaces
CHECK_DEADLOCK FALSE

CONSTANTS
    Names = {1, 2}
    Disk <- MCDisk
    FatRoot = "fat"
    FileInode = {"f0", "f1", "f2"}
    EmptyFile = {"f0"}
    Blk = "blk"
    VFS = "vfs"
    Slots = {1}
    Paths <- MCPaths
    Links <- MCLinks
    MaxDentry = 8
    MaxCalls = 7
SPECIFICATION Spec
INVARIANTS ChildrenAreOfTheVolume FullpathLeadsBack ListingMissesNothing
PROPERTIES ReadDirectoryIsStable
CHECK_DEADLOCK FALSE

SPECIFICATION Spec
CONSTANTS
    Names <- MCNames
    Parents <- MCParents
    Journal = "b"
    InodesCount = 5
    FirstInode = 3
    BlocksCount = 5
    FirstData = 1
    NDirect = 2
    NTable = 1
    PerBlock = 3
    Writes <- MCWrites
    CrashOps = {}
INVARIANT FullDirsStayNamed

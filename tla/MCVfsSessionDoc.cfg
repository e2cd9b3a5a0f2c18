CONSTANTS
    UFS_NDADDR = 2
    Files = {}
    Radix = 32
    Byte <- MCByte
    Addr <- MCAddr
    Ino = {0, 2, 3, 4, 5, 6, 7}
    RootIno = 2
    Name <- MCName
    Volumes <- MCVolumes
    MaxTrail = 2
    Windows = {0, 3, 40}
    Deliveries = {1, 2, 3, 4, 5, 7, 9, 13, 15, 21, 24, 25}
SPECIFICATION Spec
INVARIANTS
    DocResidentHasNoRuns
CHECK_DEADLOCK FALSE

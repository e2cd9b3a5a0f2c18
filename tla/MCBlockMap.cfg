CONSTANTS
    UFS_NDADDR = 12
    Files <- MCFiles
    Addr <- MCAddr
    Byte <- MCByte
SPECIFICATION Spec
INVARIANTS
    TypeOK
    CountersAgree
PROPERTIES
    ImplementsFileStream

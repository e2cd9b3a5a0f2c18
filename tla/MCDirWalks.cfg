CONSTANTS
    Ino <- MCIno
    RootIno = 2
    Name <- MCName
    InvalidUtf8 <- MCInvalidUtf8
    Images <- MCImages
    Budget = 3
    Ipg = 2
    Ncg = 3
SPECIFICATION WalksSpec
INVARIANTS
    TypeOK
    OnlyNamedInodes
    DrainedWalkIsReachability
    BreakMeansManyDirectories
    NoDirectoryTwice
    OrphansExact
    EachSlotCollectedOnce
    BreakMeansManySlots
PROPERTIES
    SweepReturns
    ImplementsSearch
    CollectReturns
    CollectImplementsSearch

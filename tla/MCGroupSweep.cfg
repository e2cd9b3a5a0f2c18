CONSTANTS
    Volumes <- MCVolumes
    U64Max = 65535
    SB_MIN_LEN = 1376
    CG_HEAD_LEN = 8
    CG_MIN_LEN = 124
    RootIno = 2
SPECIFICATION SweepSpec
INVARIANTS
    SweepTypeOK
    GeometryVerdictExact
    GroupFindingsExact
    DinodeAddressExact
    BitsReadAsWritten
    InodesJudgedOnce
    SilentSkipsExplained

CONSTANTS
    BlockSizes <- MCBlockSizes
    FragSizes <- MCFragSizes
    GroupCounts <- MCGroupCounts
SPECIFICATION SearchSpec
INVARIANT DocNotUfsMeansNoSuperblock

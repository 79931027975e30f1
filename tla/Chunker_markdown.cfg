SPECIFICATION FairSpec
CONSTANTS
    Documents <- MCDocuments
    Count <- MCCount
    SoftLimit = 3
    HardLimit = 5
CHECK_DEADLOCK FALSE
INVARIANTS TypeOK TextKept HeadingsRight WellFilled NoEmptyChunk OrdersContinuous LinksRight RefusedForRoom
PROPERTY ChunkingEnds

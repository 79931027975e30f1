SPECIFICATION MCJobSpec
CONSTANTS
    Chunk = {1, 2, 3, 4}
    Indexes <- MCIndexes
    Similarities <- MCSimilarities
    NoParent = "-"
    Scale = 12
    Unit = 10
    CandidateTopK = 3
    RankConstant = 1
    DenseWeight = 2
    Bm25Weight = 1
    Lambda = 7
    TopKMax = 3
    NoExpandThreshold = 5
    ContextBudget = 8
    SearchFaults = TRUE
    CaseFiles <- MCCaseFiles
    NoResult = NoResult
INVARIANTS TypeOK RankedByBoth Diverse EnoughCores NoChunkTwice BudgetKept NothingMissed ResultWhole MetricsConsistent

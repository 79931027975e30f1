SPECIFICATION Spec
CONSTANTS
    Versions = {"full", "empty"}
    Docs = {"a", "b"}
    Plan <- MCPlan
    Runs = {p1, p2, p3}
    BatchSize = 2
    RunnerFaults = TRUE
    Servers = {s1}
    NoVersion = NoVersion
    PageSize = 1
    ScrollRank <- MCScrollRank
    ServerFaults = TRUE
SYMMETRY Symmetry
CHECK_DEADLOCK FALSE
INVARIANTS TypeOK ActiveComplete SearchConsistent RealRunComplete CountMatches
PROPERTY ImplementsIndexService

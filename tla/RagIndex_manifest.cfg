SPECIFICATION Spec
CONSTANTS
    Versions = {"full", "empty"}
    Docs = {"a", "b"}
    Plan <- MCPlan
    Runs = {p1, p2}
    BatchSize = 2
    RunnerFaults = FALSE
    Servers = {s1}
    NoVersion = NoVersion
    PageSize = 1
    ScrollRank <- MCScrollRank
    ServerFaults = FALSE
CHECK_DEADLOCK FALSE
INVARIANT FailedRunWritesNoManifest

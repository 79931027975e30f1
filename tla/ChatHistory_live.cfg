SPECIFICATION FairSpec
CONSTANTS
    Requests = {r1, r2}
    Users = {u1, u2}
    Sessions = {s1, s2}
    NewSession = NewSession
    NoUser = NoUser
    NoHistory = NoHistory
    Rounds = {2}
    Faults = {"redisGet", "redisSet", "db", "lostAck", "model", "expiry", "deadline", "crash"}
CHECK_DEADLOCK FALSE
INVARIANT HistoryIsolated
PROPERTY EveryRequestEnds

SPECIFICATION Spec
CONSTANTS
    Requests = {r1, r2, r3}
    Users = {u1}
    Sessions = {s1}
    NewSession = NewSession
    NoUser = NoUser
    NoHistory = NoHistory
    Rounds = {0, 1, 2}
    Faults = {"redisGet", "redisSet", "db", "lostAck", "model", "expiry", "deadline", "crash", "redeploy"}
SYMMETRY Symmetry
CHECK_DEADLOCK FALSE
INVARIANTS TypeOK HistoryInOrder ExchangeWhole
PROPERTY ImplementsService

SPECIFICATION PageSpec
CONSTANTS
    Requests = {r1, r2, r3}
    Users = {u1, u2}
    Sessions = {s1, s2}
    NewSession = NewSession
    NoUser = NoUser
    NoHistory = NoHistory
    Rounds = {1, 2}
    Faults = {"redisGet", "db", "lostAck", "model", "expiry", "deadline", "crash", "redeploy"}
    RepliesLost = TRUE
SYMMETRY Symmetry
INVARIANTS OneConversation ShownRemembered

SPECIFICATION Spec
CONSTANTS
    Requests = {r1, r2, r3}
    Users = {u1}
    Sessions = {s1}
    NewSession = NewSession
    NoUser = NoUser
    NoHistory = NoHistory
    Rounds = {1}
    Faults = {}
CHECK_DEADLOCK FALSE
INVARIANT CacheFresh

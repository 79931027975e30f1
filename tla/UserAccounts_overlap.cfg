SPECIFICATION CanonicalSpec
CONSTANTS
    Requests = {1, 2, 3}
    Mobiles = {m1, m2}
    Passwords = {w1, w2}
    Absent = Absent
    Placeholder = Placeholder
    Faults = {"redis", "db", "lostAck", "token", "expiry", "crash"}
CHECK_DEADLOCK FALSE
INVARIANTS TypeOK TokenRight OneAccount
PROPERTY FoundInTheEnd

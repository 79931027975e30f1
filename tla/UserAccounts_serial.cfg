SPECIFICATION SerialSpec
CONSTANTS
    Requests = {r1, r2, r3, r4}
    Mobiles = {m1, m2}
    Passwords = {w1}
    Absent = Absent
    Placeholder = Placeholder
    Faults = {"redis", "db", "token", "expiry"}
SYMMETRY Symmetry
CHECK_DEADLOCK FALSE
INVARIANT FoundWhenQuiet

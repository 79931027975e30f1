--------------------------- MODULE MCUserAccounts ---------------------------
(* Instances of UserAccounts for TLC.                                      *)
EXTENDS UserAccounts, TLC

\* Requests, mobiles and passwords are interchangeable.  For the liveness run,
\* where TLC takes no symmetry set: the requests are sent in order, and the
\* first names the first mobile and password.
MCMobile == CHOOSE m \in Mobiles : TRUE
MCPassword == CHOOSE p \in Passwords : TRUE
Canonical == /\ \A q, r \in Requests : q < r /\ At(q, "unsent") => At(r, "unsent")
             /\ \A r \in Requests : r = 1 \/ At(r, "unsent") =>
                   mobile[r] = MCMobile /\ password[r] = MCPassword

CanonicalInit == Init /\ Canonical

CanonicalNext == Next /\ Canonical'

CanonicalSpec == CanonicalInit /\ [][CanonicalNext]_vars /\ Fairness

Symmetry == Permutations(Requests) \cup Permutations(Mobiles) \cup Permutations(Passwords)
=============================================================================

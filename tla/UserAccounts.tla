---------------------------- MODULE UserAccounts ----------------------------
(***************************************************************************)
(* Register, Login and GetUserInfo of the user RPC service, over the users *)
(* table in MySQL and the cache that go-zero keeps in Redis in front of    *)
(* it: an index key per mobile that names a row or says "not found", and a *)
(* key per row.  Rows are never updated or deleted by this program, so a   *)
(* cached row is known by its id.  Calls that look up the same key in one  *)
(* process share one lookup (singleflight); several processes may run.     *)
(***************************************************************************)
EXTENDS Integers, Sequences, FiniteSets

CONSTANTS Requests, Mobiles, Passwords,
          Absent,       \* an index key that Redis does not hold
          Placeholder,  \* the mark "not found" in an index key
          Faults        \* the failures the environment may show

FaultKinds == {"redis", "db", "lostAck", "token", "expiry", "crash"}

ASSUME AccountsAssumption == /\ Absent \notin Nat /\ Placeholder \notin Nat
                             /\ Absent # Placeholder
                             /\ Faults \subseteq FaultKinds

VARIABLES pc,          \* where the handler of each request is
          kind,        \* "register", "login" or "info"
          mobile,      \* the mobile number it names
          password,    \* the password it gives
          id,          \* the row it looks for or has found, 0 for none
          token,       \* the user id in the token it returned, 0 for none
          users,       \* users table: the row with id i
          index,       \* Redis: cache:users:mobile:<mobile>
          cachedRows,  \* Redis: the ids with a key cache:users:id:<id>
          retries      \* index keys go-zero will try again to delete

request == <<kind, mobile, password>>
redis == <<index, cachedRows, retries>>
vars == <<pc, request, id, token, users, redis>>

Ended == {"replied", "failed"}
Labels == {"unsent", "index", "indexDb", "placeholder", "setRow", "setIndex", "row",
           "rowDb", "storeRow", "answer", "insert", "delete"} \cup Ended
InFlight == {r \in Requests : pc[r] \notin {"unsent"} \cup Ended}

At(r, label) == pc[r] = label
Goto(R, label) == pc' = [r \in Requests |-> IF r \in R THEN label ELSE pc[r]]

Holders(m) == {i \in 1 .. Len(users) : users[i].mobile = m}

Init ==
    /\ pc = [r \in Requests |-> "unsent"]
    /\ kind \in [Requests -> {"login"}]
    /\ mobile \in {[r \in Requests |-> m] : m \in Mobiles}
    /\ password \in {[r \in Requests |-> p] : p \in Passwords}
    /\ id = [r \in Requests |-> 0]
    /\ token = [r \in Requests |-> 0]
    /\ users = <<>>
    /\ index = [m \in Mobiles |-> Absent]
    /\ cachedRows = {}
    /\ retries = {}

-----------------------------------------------------------------------------
(* Clients.                                                                *)

\* Register and Login begin with FindOneByMobile.
Ask(r, k, m, p) ==
    /\ At(r, "unsent")
    /\ Goto({r}, "index")
    /\ kind' = [kind EXCEPT ![r] = k]
    /\ mobile' = [mobile EXCEPT ![r] = m]
    /\ password' = [password EXCEPT ![r] = p]
    /\ UNCHANGED <<id, token, users, redis>>

\* The gateway takes the id from a token the service has issued to q.
AskInfo(r, q) ==
    /\ At(r, "unsent")
    /\ token[q] # 0
    /\ Goto({r}, "row")
    /\ kind' = [kind EXCEPT ![r] = "info"]
    /\ mobile' = [mobile EXCEPT ![r] = mobile[q]]
    /\ id' = [id EXCEPT ![r] = token[q]]
    /\ UNCHANGED <<password, token, users, redis>>

-----------------------------------------------------------------------------
(* FindOneByMobile.                                                        *)

\* Requests of the same process that wait for the index lookup r makes.
Waiting(r) == {q \in Requests : At(q, "index") /\ mobile[q] = mobile[r]}

\* No user has the mobile: Register goes on, Login ends.
NotFound(R) ==
    pc' = [q \in Requests |-> IF q \notin R THEN pc[q]
                              ELSE IF kind[q] = "register" THEN "insert" ELSE "failed"]

ReadIndex(r) ==
    /\ At(r, "index")
    /\ \/ index[mobile[r]] = Absent /\ Goto({r}, "indexDb") /\ UNCHANGED id
       \/ index[mobile[r]] = Placeholder /\ NotFound({r}) /\ UNCHANGED id
       \/ /\ index[mobile[r]] \notin {Absent, Placeholder}
          /\ id' = [id EXCEPT ![r] = index[mobile[r]]]
          /\ Goto({r}, "row")
       \/ "redis" \in Faults /\ Goto({r}, "failed") /\ UNCHANGED id
    /\ UNCHANGED <<request, token, users, redis>>

\* The index query; its error goes to all that wait.
QueryIndex(r) ==
    /\ At(r, "indexDb")
    /\ \/ Holders(mobile[r]) = {} /\ Goto({r}, "placeholder") /\ UNCHANGED id
       \/ \E i \in Holders(mobile[r]) : id' = [id EXCEPT ![r] = i] /\ Goto({r}, "setRow")
       \/ /\ "db" \in Faults
          /\ \E W \in SUBSET Waiting(r) : Goto(W \cup {r}, "failed")
          /\ UNCHANGED id
    /\ UNCHANGED <<request, token, users, redis>>

\* SETNX of the placeholder: it does not replace an answer.
StorePlaceholder(r) ==
    /\ At(r, "placeholder")
    /\ \/ index' = [index EXCEPT ![mobile[r]] = IF @ = Absent THEN Placeholder ELSE @]
       \/ "redis" \in Faults /\ UNCHANGED index
    /\ \E W \in SUBSET Waiting(r) : NotFound(W \cup {r})
    /\ UNCHANGED <<request, id, token, users, cachedRows, retries>>

\* The row is cached before the index that leads to it.
SetRow(r) ==
    /\ At(r, "setRow")
    /\ \/ cachedRows' = cachedRows \cup {id[r]} /\ Goto({r}, "setIndex")
       \/ /\ "redis" \in Faults
          /\ \E W \in SUBSET Waiting(r) : Goto(W \cup {r}, "failed")
          /\ UNCHANGED cachedRows
    /\ UNCHANGED <<request, id, token, users, index, retries>>

\* Mutant of SetIndex: those that wait are given what Redis held before.
SetIndexStale(r) ==
    /\ At(r, "setIndex")
    /\ index' = [index EXCEPT ![mobile[r]] = id[r]]
    /\ \E W \in SUBSET Waiting(r) :
          /\ pc' = [q \in Requests |-> IF q = r THEN "answer"
                                       ELSE IF q \in W THEN "row" ELSE pc[q]]
          /\ id' = [q \in Requests |-> IF q \in W THEN index[mobile[r]] ELSE id[q]]
    /\ UNCHANGED <<request, token, users, cachedRows, retries>>

\* Those that wait are given the id and read the row themselves.
SetIndex(r) ==
    /\ At(r, "setIndex")
    /\ \/ index' = [index EXCEPT ![mobile[r]] = id[r]]
       \/ "redis" \in Faults /\ UNCHANGED index
    /\ \E W \in SUBSET Waiting(r) :
          /\ pc' = [q \in Requests |-> IF q = r THEN "answer"
                                       ELSE IF q \in W THEN "row" ELSE pc[q]]
          /\ id' = [q \in Requests |-> IF q \in W THEN id[r] ELSE id[q]]
    /\ UNCHANGED <<request, token, users, cachedRows, retries>>

-----------------------------------------------------------------------------
(* The row of an id: FindOne, and the second half of FindOneByMobile.      *)

WaitingForRow(r) == {q \in Requests : At(q, "row") /\ id[q] = id[r]}

ReadRow(r) ==
    /\ At(r, "row")
    /\ \/ Goto({r}, IF id[r] \in cachedRows THEN "answer" ELSE "rowDb")
       \/ "redis" \in Faults /\ Goto({r}, "failed")
    /\ UNCHANGED <<request, id, token, users, redis>>

\* Ids come from tokens and index keys, so the row is there.
QueryRow(r) ==
    /\ At(r, "rowDb")
    /\ \/ Goto({r}, "storeRow")
       \/ /\ "db" \in Faults
          /\ \E W \in SUBSET WaitingForRow(r) : Goto(W \cup {r}, "failed")
    /\ UNCHANGED <<request, id, token, users, redis>>

StoreRow(r) ==
    /\ At(r, "storeRow")
    /\ \/ cachedRows' = cachedRows \cup {id[r]}
       \/ "redis" \in Faults /\ UNCHANGED cachedRows
    /\ \E W \in SUBSET WaitingForRow(r) : Goto(W \cup {r}, "answer")
    /\ UNCHANGED <<request, id, token, users, index, retries>>

-----------------------------------------------------------------------------
(* The rest of the handlers.                                               *)

\* Mutant of Answer: Login does not compare the password.
AnswerAnyone(r) ==
    /\ At(r, "answer")
    /\ \/ kind[r] = "info" /\ Goto({r}, "replied") /\ UNCHANGED token
       \/ /\ kind[r] = "login"
          /\ token' = [token EXCEPT ![r] = id[r]]
          /\ Goto({r}, "replied")
       \/ kind[r] = "register" /\ Goto({r}, "failed") /\ UNCHANGED token
    /\ UNCHANGED <<request, id, users, redis>>

\* A row was found: Register refuses, Login compares the password and issues
\* a token (or fails to), GetUserInfo returns the row.
Answer(r) ==
    /\ At(r, "answer")
    /\ \/ kind[r] = "info" /\ Goto({r}, "replied") /\ UNCHANGED token
       \/ /\ kind[r] = "login" /\ users[id[r]].password = password[r]
          /\ token' = [token EXCEPT ![r] = id[r]]
          /\ Goto({r}, "replied")
       \/ /\ \/ kind[r] = "register"
             \/ kind[r] = "login" /\ users[id[r]].password # password[r]
             \/ kind[r] = "login" /\ "token" \in Faults
          /\ Goto({r}, "failed")
          /\ UNCHANGED token
    /\ UNCHANGED <<request, id, users, redis>>

\* Mutant of Insert: the table has no unique key on mobile.
InsertAnyway(r) ==
    /\ At(r, "insert")
    /\ users' = Append(users, [mobile |-> mobile[r], password |-> password[r]])
    /\ id' = [id EXCEPT ![r] = Len(users) + 1]
    /\ Goto({r}, "delete")
    /\ UNCHANGED <<request, token, redis>>

\* Insert: uniq_mobile refuses a second row of a mobile.  An error, also one
\* after the row was inserted, ends ExecCtx before it deletes the keys.
Insert(r) ==
    /\ At(r, "insert")
    /\ \/ /\ Holders(mobile[r]) = {}
          /\ users' = Append(users, [mobile |-> mobile[r], password |-> password[r]])
          /\ id' = [id EXCEPT ![r] = Len(users) + 1]
          /\ \/ Goto({r}, "delete")
             \/ "lostAck" \in Faults /\ Goto({r}, "failed")
       \/ /\ Holders(mobile[r]) # {} \/ "db" \in Faults
          /\ Goto({r}, "failed")
          /\ UNCHANGED <<users, id>>
    /\ UNCHANGED <<request, token, redis>>

\* Mutant of DeleteKeys: only cache:users:id:0 is deleted.
DeleteNothing(r) ==
    /\ At(r, "delete")
    /\ token' = [token EXCEPT ![r] = id[r]]
    /\ Goto({r}, "replied")
    /\ UNCHANGED <<request, id, users, redis>>

\* The index key is deleted (cache:users:id:0, the key of an id not yet given,
\* is deleted too and never set); if Redis fails, go-zero tries again later.
\* Register then issues a token; if that fails, the user stays registered.
DeleteKeys(r) ==
    /\ At(r, "delete")
    /\ \/ index' = [index EXCEPT ![mobile[r]] = Absent] /\ UNCHANGED retries
       \/ /\ "redis" \in Faults
          /\ retries' = retries \cup {mobile[r]}
          /\ UNCHANGED index
    /\ \/ token' = [token EXCEPT ![r] = id[r]] /\ Goto({r}, "replied")
       \/ "token" \in Faults /\ Goto({r}, "failed") /\ UNCHANGED token
    /\ UNCHANGED <<request, id, users, cachedRows>>

Handler(r) ==
    \/ ReadIndex(r) \/ QueryIndex(r) \/ StorePlaceholder(r) \/ SetRow(r) \/ SetIndex(r)
    \/ ReadRow(r) \/ QueryRow(r) \/ StoreRow(r)
    \/ Answer(r) \/ Insert(r) \/ DeleteKeys(r)

-----------------------------------------------------------------------------
(* The environment.                                                        *)

RetryDelete(m) ==
    /\ m \in retries
    /\ retries' = retries \ {m}
    /\ index' = [index EXCEPT ![m] = Absent]
    /\ UNCHANGED <<pc, request, id, token, users, cachedRows>>

\* Mutant of ExpireIndex: a placeholder has no expiry.
ExpireAnswer(m) ==
    /\ "expiry" \in Faults
    /\ index[m] \notin {Absent, Placeholder}
    /\ index' = [index EXCEPT ![m] = Absent]
    /\ UNCHANGED <<pc, request, id, token, users, cachedRows, retries>>

\* A placeholder lives a minute, an index key seven days.
ExpireIndex(m) ==
    /\ "expiry" \in Faults
    /\ index[m] # Absent
    /\ index' = [index EXCEPT ![m] = Absent]
    /\ UNCHANGED <<pc, request, id, token, users, cachedRows, retries>>

ExpireRow(i) ==
    /\ "expiry" \in Faults
    /\ i \in cachedRows
    /\ cachedRows' = cachedRows \ {i}
    /\ UNCHANGED <<pc, request, id, token, users, index, retries>>

\* One of the processes dies, and with it its requests and the deletions it was
\* to try again.
Crash ==
    /\ "crash" \in Faults
    /\ \E dead \in SUBSET InFlight, lost \in SUBSET retries :
          /\ dead # {} \/ lost # {}
          /\ Goto(dead, "failed")
          /\ retries' = retries \ lost
    /\ UNCHANGED <<request, id, token, users, index, cachedRows>>

Client(r) == \/ \E k \in {"register", "login"}, m \in Mobiles, p \in Passwords : Ask(r, k, m, p)
             \/ \E q \in Requests : AskInfo(r, q)

Next == \/ \E r \in Requests : Client(r) \/ Handler(r)
        \/ \E m \in Mobiles : RetryDelete(m) \/ ExpireIndex(m)
        \/ \E i \in cachedRows : ExpireRow(i)
        \/ Crash

Spec == Init /\ [][Next]_vars

\* Clients that wait for an answer before the next request about a mobile.
OneAtATime == \A q, r \in InFlight : mobile[q] = mobile[r] => q = r

SerialNext == Next /\ OneAtATime'

SerialSpec == Init /\ [][SerialNext]_vars

\* Handlers go on, retries are made, and keys expire.
Fairness == /\ \A r \in Requests : WF_vars(Handler(r))
            /\ \A m \in Mobiles : WF_vars(RetryDelete(m)) /\ WF_vars(ExpireIndex(m))

-----------------------------------------------------------------------------
(* Properties.                                                             *)

User == [mobile : Mobiles, password : Passwords]

\* The shape of the state.
TypeOK ==
    /\ pc \in [Requests -> Labels]
    /\ kind \in [Requests -> {"register", "login", "info"}]
    /\ mobile \in [Requests -> Mobiles]
    /\ password \in [Requests -> Passwords]
    /\ users \in Seq(User)
    /\ id \in [Requests -> 0 .. Len(users)]
    /\ token \in [Requests -> 0 .. Len(users)]
    /\ index \in [Mobiles -> {Absent, Placeholder} \cup 1 .. Len(users)]
    /\ cachedRows \subseteq 1 .. Len(users)
    /\ retries \subseteq Mobiles

\* A token is for the row with the mobile and the password its request gave,
\* though the row was read from a cache, by way of an index key another request
\* wrote, or in a lookup another request made.
TokenRight ==
    \A r \in Requests : token[r] # 0 =>
        users[token[r]] = [mobile |-> mobile[r], password |-> password[r]]

\* However registrations of one mobile overlap between "is it registered?" and
\* the insert, one of them at most succeeds, and all tokens of the mobile name
\* the same user.
OneAccount ==
    \A q, r \in Requests : (token[q] # 0 /\ token[r] # 0 /\ mobile[q] = mobile[r]) =>
        /\ token[q] = token[r]
        /\ kind[q] = "register" /\ kind[r] = "register" => q = r

Registered(m) == Holders(m) # {}

\* When no request of a mobile is at work and no deletion is pending, the cache
\* does not deny a registered user: the next Login finds it.
FoundWhenQuiet ==
    \A m \in Mobiles :
        (Registered(m) /\ m \notin retries /\ \A r \in InFlight : mobile[r] # m)
            => index[m] # Placeholder

\* A "not found" that was read before the registration and written after it is
\* gone for good some time later.
FoundInTheEnd ==
    \A m \in Mobiles : Registered(m) ~> [](index[m] # Placeholder)
=============================================================================

---------------------------- MODULE ChatHistory ----------------------------
(***************************************************************************)
(* The Chat handler of the AI RPC service: several requests run at once,   *)
(* each in its own goroutine, over the messages table in MySQL and the     *)
(* per-session history that Redis keeps for one hour.  A message is named  *)
(* by the id of its row, so a history is a sequence of row ids.  The       *)
(* Redis key holds the user and the session; sessions are UUIDs and        *)
(* belong to one conversation row, so the session alone names the key.     *)
(***************************************************************************)
EXTENDS Integers, Sequences, FiniteSets

CONSTANTS Requests, Users, Sessions, NewSession, NoUser,
          NoHistory,         \* the Redis key is absent
          Rounds,            \* Prompt.MaxHistoryRounds of the deployments
          Faults             \* the failures the environment may show

\* A call fails without effect ("db", "model", "redisGet", "redisSet") or the
\* answer to a MySQL write that took effect is lost ("lostAck").
FaultKinds == {"redisGet", "redisSet", "db", "lostAck", "model",
               "expiry", "deadline", "crash", "redeploy"}

ASSUME ConfigAssumption == /\ Rounds \subseteq Int
                           /\ Faults \subseteq FaultKinds
ASSUME SentinelAssumption == /\ NewSession \notin Sessions
                             /\ NoUser \notin Users

VARIABLES pc,         \* where each request's handler is
          user,       \* the authenticated user of each request
          session,    \* the session it names, and later the one it runs in
          expired,    \* requests whose RPC deadline has passed
          owner,      \* conversations table: the user of each session
          rows,       \* messages table: row i has id i (AUTO_INCREMENT)
          committed,  \* the ids of the committed rows
          cache,      \* Redis: the history of each session, or NoHistory
          maxRounds,  \* MaxHistoryRounds of the running process
          hist,       \* the history each handler loaded, and shows the model
          mine        \* the rows each handler inserted: <<>>, <<u>> or <<u, a>>

requestVars == <<user, session, expired>>
tables == <<owner, rows, committed>>
vars == <<pc, user, session, expired, owner, rows, committed, cache, maxRounds,
          hist, mine>>

Ended == {"replied", "failed"}
Labels == {"unsent", "resolve", "readCache", "readDb", "refill", "search", "model",
           "insertUser", "insertReply", "commit", "save"} \cup Ended
InFlight == {r \in Requests : pc[r] \notin {"unsent"} \cup Ended}

-----------------------------------------------------------------------------
(* Histories.                                                              *)

\* Mutant of LimitOf: rounds counted as messages.
LimitOfMessages(n) == IF n <= 0 THEN 0 ELSE n

\* historyMessageLimit: a round is a user message and a reply.
LimitOf(n) == IF n <= 0 THEN 0 ELSE 2 * n

Limit == LimitOf(maxRounds)

Increasing(h) == \A i, j \in 1 .. Len(h) : i < j => h[i] < h[j]

\* trimHistory: the last Limit messages.
Trim(h) == IF Len(h) <= Limit THEN h ELSE SubSeq(h, Len(h) - Limit + 1, Len(h))

\* The rows of session s that a query sees: those of committed transactions.
Stored(s) == {i \in committed : rows[i].session = s}

\* The result of FindRecentByConversationId in time order (getHistory turns
\* the descending result round): the newest rows of S, n at most.
Recent(S, n) ==
    LET size == IF Cardinality(S) < n THEN Cardinality(S) ELSE n
    IN  {h \in [1 .. size -> S] :
            /\ Increasing(h)
            /\ \A i \in S : \/ \E k \in 1 .. size : h[k] = i
                            \/ \A k \in 1 .. size : i < h[k]}

-----------------------------------------------------------------------------
(* Steps of a handler.                                                     *)

At(r, label) == pc[r] = label
Goto(r, label) == pc' = [pc EXCEPT ![r] = label]

\* A call made with the RPC's context returns an error when the service it
\* calls does, or when the deadline of the RPC has passed.
Fails(r, fault) == fault \in Faults \/ r \in expired

\* Setex: an error is logged and otherwise ignored.
Setex(s, h) == \/ cache' = [cache EXCEPT ![s] = h]
               \/ "redisSet" \in Faults /\ UNCHANGED cache

Init ==
    /\ pc = [r \in Requests |-> "unsent"]
    /\ user = [r \in Requests |-> NoUser]
    /\ session = [r \in Requests |-> NewSession]
    /\ expired = {}
    /\ owner = [s \in Sessions |-> NoUser]
    /\ rows = <<>>
    /\ committed = {}
    /\ cache = [s \in Sessions |-> NoHistory]
    /\ maxRounds \in Rounds
    /\ hist = [r \in Requests |-> <<>>]
    /\ mine = [r \in Requests |-> <<>>]

\* A request arrives: authenticated user u, a well-formed message, and a
\* session of the client's choice or none.
Send(r, u, s) ==
    /\ At(r, "unsent")
    /\ Goto(r, "resolve")
    /\ user' = [user EXCEPT ![r] = u]
    /\ session' = [session EXCEPT ![r] = s]
    /\ UNCHANGED <<expired, tables, cache, maxRounds, hist, mine>>

\* The message fails validateMessage, or the user id is not positive.
Refuse(r) ==
    /\ At(r, "unsent")
    /\ Goto(r, "failed")
    /\ UNCHANGED <<requestVars, tables, cache, maxRounds, hist, mine>>

\* Mutant of FindConversation: the query does not ask for the user.
FindAnyones(r) ==
    /\ At(r, "resolve")
    /\ session[r] # NewSession
    /\ owner[session[r]] # NoUser
    /\ Goto(r, "readCache")
    /\ UNCHANGED <<requestVars, tables, cache, maxRounds, hist, mine>>

\* Mutant of FindConversation: a session nobody opened is accepted.
FindUnopened(r) ==
    /\ At(r, "resolve")
    /\ session[r] # NewSession
    /\ owner[session[r]] \in {user[r], NoUser}
    /\ Goto(r, "readCache")
    /\ UNCHANGED <<requestVars, tables, cache, maxRounds, hist, mine>>

\* resolveConversation with a session: it must be one of this user.
FindConversation(r) ==
    /\ At(r, "resolve")
    /\ session[r] # NewSession
    /\ \/ /\ r \notin expired
          /\ owner[session[r]] = user[r]
          /\ Goto(r, "readCache")
       \/ /\ owner[session[r]] # user[r] \/ Fails(r, "db")
          /\ Goto(r, "failed")
    /\ UNCHANGED <<requestVars, tables, cache, maxRounds, hist, mine>>

\* resolveConversation without one: a row with a fresh UUID.  The answer to
\* the insert, or the LastInsertId after it, may be lost.
CreateConversation(r) ==
    /\ At(r, "resolve")
    /\ session[r] = NewSession
    /\ r \notin expired
    /\ \E s \in Sessions :
          /\ owner[s] = NoUser
          /\ owner' = [owner EXCEPT ![s] = user[r]]
          /\ session' = [session EXCEPT ![r] = s]
    /\ \/ Goto(r, "readCache")
       \/ "lostAck" \in Faults /\ Goto(r, "failed")
    /\ UNCHANGED <<user, expired, rows, committed, cache, maxRounds, hist, mine>>

\* Nothing was inserted (with all of Sessions taken the bounded id space ends).
CreateFails(r) ==
    /\ At(r, "resolve")
    /\ session[r] = NewSession
    /\ Fails(r, "db") \/ \A s \in Sessions : owner[s] # NoUser
    /\ Goto(r, "failed")
    /\ UNCHANGED <<requestVars, tables, cache, maxRounds, hist, mine>>

\* Mutant of ReadCacheHit: a missing key is taken for a history.
ReadCacheBlindly(r) ==
    /\ At(r, "readCache")
    /\ hist' = [hist EXCEPT ![r] = cache[session[r]]]
    /\ Goto(r, "search")
    /\ UNCHANGED <<requestVars, tables, cache, maxRounds, mine>>

\* getHistory: a cached history is used as it is, without trimming.
ReadCacheHit(r) ==
    /\ At(r, "readCache")
    /\ cache[session[r]] # NoHistory
    /\ hist' = [hist EXCEPT ![r] = cache[session[r]]]
    /\ Goto(r, "search")
    /\ UNCHANGED <<requestVars, tables, cache, maxRounds, mine>>

\* Redis has no such key or cannot be read: MySQL is asked instead.
ReadCacheMiss(r) ==
    /\ At(r, "readCache")
    /\ cache[session[r]] = NoHistory \/ "redisGet" \in Faults
    /\ Goto(r, "readDb")
    /\ UNCHANGED <<requestVars, tables, cache, maxRounds, hist, mine>>

ReadDb(r) ==
    /\ At(r, "readDb")
    /\ r \notin expired \/ Limit = 0
    /\ \E h \in Recent(Stored(session[r]), Limit) : hist' = [hist EXCEPT ![r] = h]
    /\ Goto(r, "refill")
    /\ UNCHANGED <<requestVars, tables, cache, maxRounds, mine>>

\* getHistory puts what MySQL returned into Redis, whatever is there by now.
Refill(r) ==
    /\ At(r, "refill")
    /\ Setex(session[r], hist[r])
    /\ Goto(r, "search")
    /\ UNCHANGED <<requestVars, tables, maxRounds, hist, mine>>

\* RagClient.Search: passages or an error, the handler goes on all the same.
SearchDocs(r) ==
    /\ At(r, "search")
    /\ Goto(r, "model")
    /\ UNCHANGED <<requestVars, tables, cache, maxRounds, hist, mine>>

CallModel(r) ==
    /\ At(r, "model")
    /\ r \notin expired
    /\ Goto(r, "insertUser")
    /\ UNCHANGED <<requestVars, tables, cache, maxRounds, hist, mine>>

\* One of the two inserts of InsertExchange, inside its transaction.
Insert(r, role) ==
    /\ r \notin expired
    /\ rows' = Append(rows, [session |-> session[r], req |-> r, role |-> role])
    /\ mine' = [mine EXCEPT ![r] = Append(@, Len(rows) + 1)]
    /\ UNCHANGED <<requestVars, owner, committed, cache, maxRounds, hist>>

\* Mutant of InsertUser: the row is committed at once, outside the transaction.
InsertUserAlone(r) ==
    /\ At(r, "insertUser")
    /\ rows' = Append(rows, [session |-> session[r], req |-> r, role |-> "user"])
    /\ mine' = [mine EXCEPT ![r] = <<Len(rows) + 1>>]
    /\ committed' = committed \cup {Len(rows) + 1}
    /\ Goto(r, "insertReply")
    /\ UNCHANGED <<requestVars, owner, cache, maxRounds, hist>>

InsertUser(r) == At(r, "insertUser") /\ Insert(r, "user") /\ Goto(r, "insertReply")

InsertReply(r) == At(r, "insertReply") /\ Insert(r, "assistant") /\ Goto(r, "commit")

\* TransactCtx commits both rows; the acknowledgement may be lost, and then
\* the handler takes the exchange for unsaved.
Commit(r) ==
    /\ At(r, "commit")
    /\ committed' = committed \cup {mine[r][1], mine[r][2]}
    /\ \/ Goto(r, "save")
       \/ "lostAck" \in Faults /\ Goto(r, "failed")
    /\ UNCHANGED <<requestVars, owner, rows, cache, maxRounds, hist, mine>>

\* Mutant of SaveHistory: the new round is not appended.
SaveLoaded(r) ==
    /\ At(r, "save")
    /\ Setex(session[r], Trim(hist[r]))
    /\ Goto(r, "replied")
    /\ UNCHANGED <<requestVars, tables, maxRounds, hist, mine>>

\* Mutant of SaveHistory: the new round is put before the history.
SaveSwapped(r) ==
    /\ At(r, "save")
    /\ Setex(session[r], Trim(mine[r] \o hist[r]))
    /\ Goto(r, "replied")
    /\ UNCHANGED <<requestVars, tables, maxRounds, hist, mine>>

\* The new history: what this handler loaded, its message and the reply.
SaveHistory(r) ==
    /\ At(r, "save")
    /\ Setex(session[r], Trim(hist[r] \o mine[r]))
    /\ Goto(r, "replied")
    /\ UNCHANGED <<requestVars, tables, maxRounds, hist, mine>>

\* Mutant of FailStep: a failed model call is tried again, not returned.
FailUnlessModel(r) ==
    /\ \/ At(r, "readDb") /\ Limit > 0 /\ Fails(r, "db")
       \/ pc[r] \in {"insertUser", "insertReply"} /\ Fails(r, "db")
       \/ At(r, "commit") /\ "db" \in Faults
    /\ Goto(r, "failed")
    /\ UNCHANGED <<requestVars, tables, cache, maxRounds, hist, mine>>

\* The error returns of Chat; InsertExchange rolls its rows back (a row that
\* is never committed keeps its id).
FailStep(r) ==
    /\ \/ At(r, "readDb") /\ Limit > 0 /\ Fails(r, "db")
       \/ At(r, "model") /\ Fails(r, "model")
       \/ pc[r] \in {"insertUser", "insertReply"} /\ Fails(r, "db")
       \/ At(r, "commit") /\ "db" \in Faults
    /\ Goto(r, "failed")
    /\ UNCHANGED <<requestVars, tables, cache, maxRounds, hist, mine>>

Handler(r) ==
    \/ FindConversation(r) \/ CreateConversation(r) \/ CreateFails(r)
    \/ ReadCacheHit(r) \/ ReadCacheMiss(r) \/ ReadDb(r) \/ Refill(r)
    \/ SearchDocs(r) \/ CallModel(r)
    \/ InsertUser(r) \/ InsertReply(r) \/ Commit(r)
    \/ SaveHistory(r) \/ FailStep(r)

-----------------------------------------------------------------------------
(* The environment.                                                        *)

\* The client is told "deadline exceeded"; the handler goroutine goes on.
Deadline(r) ==
    /\ "deadline" \in Faults
    /\ r \in InFlight \ expired
    /\ expired' = expired \cup {r}
    /\ UNCHANGED <<pc, user, session, tables, cache, maxRounds, hist, mine>>

\* The hour of historyCacheTTL is over, or Redis evicts the key.
Expire(s) ==
    /\ "expiry" \in Faults
    /\ cache[s] # NoHistory
    /\ cache' = [cache EXCEPT ![s] = NoHistory]
    /\ UNCHANGED <<pc, requestVars, tables, maxRounds, hist, mine>>

\* The RPC process dies with its handlers; MySQL and Redis keep their state.
Crash ==
    /\ "crash" \in Faults
    /\ InFlight # {}
    /\ pc' = [r \in Requests |-> IF r \in InFlight THEN "failed" ELSE pc[r]]
    /\ UNCHANGED <<requestVars, tables, cache, maxRounds, hist, mine>>

\* The service is stopped when no request is at work, or has died, and is
\* started with another configuration; Redis keeps its keys.
Redeploy ==
    /\ "redeploy" \in Faults
    /\ InFlight = {}
    /\ maxRounds' \in Rounds
    /\ UNCHANGED <<pc, requestVars, tables, cache, hist, mine>>

Client(r) == \/ \E u \in Users, s \in Sessions \cup {NewSession} : Send(r, u, s)
             \/ Refuse(r)

Next == \/ \E r \in Requests : Client(r) \/ Handler(r) \/ Deadline(r)
        \/ \E s \in Sessions : Expire(s)
        \/ Crash
        \/ Redeploy

Spec == Init /\ [][Next]_vars

\* Clients that send the next message of a session only when the handler of the
\* previous one has ended: no two handlers work in one session.
OneAtATime ==
    \A q, r \in InFlight : q # r => \/ session[q] # session[r]
                                    \/ session[q] = NewSession

SerialNext == Next /\ OneAtATime'

SerialSpec == Init /\ [][SerialNext]_vars

\* Every call of the handler ends: the RPC deadline, the 30 s timeout of the
\* model client, the 5 s of the RAG client, Redis timeouts.  Clients, faults
\* and expiry are owed nothing.
FairSpec == Spec /\ \A r \in Requests : WF_vars(Handler(r))
-----------------------------------------------------------------------------
(* Properties.                                                             *)

Message == [session : Sessions, req : Requests, role : {"user", "assistant"}]

\* The shape of the state.
TypeOK ==
    /\ pc \in [Requests -> Labels]
    /\ user \in [Requests -> Users \cup {NoUser}]
    /\ session \in [Requests -> Sessions \cup {NewSession}]
    /\ expired \subseteq Requests
    /\ owner \in [Sessions -> Users \cup {NoUser}]
    /\ rows \in Seq(Message)
    /\ committed \subseteq 1 .. Len(rows)
    /\ maxRounds \in Rounds
    /\ \A s \in Sessions : cache[s] = NoHistory \/ cache[s] \in Seq(Nat)
    /\ DOMAIN cache = Sessions
    /\ hist \in [Requests -> Seq(Nat)]
    /\ mine \in [Requests -> Seq(Nat)]

\* A request whose conversation is resolved and whose handler has gone on.
Resolved == {r \in Requests : pc[r] \in Labels \ ({"unsent", "resolve"} \cup Ended)}

\* A history is in time order, names no message twice and keeps to the limit of
\* a deployment (one that was cached may be of an earlier one).
InOrder(h) == Increasing(h) /\ \E n \in Rounds : Len(h) <= LimitOf(n)

\* A history holds stored messages of session s only.
StoredIn(h, s) == \A k \in 1 .. Len(h) : h[k] \in Stored(s)

\* Whatever requests overlap, refill or overwrite each other's cache entry,
\* every cached history and every history shown to the model is in time order,
\* without repetition and within the historyMessageLimit of some deployment
\* (getHistory, trimHistory).
HistoryInOrder ==
    /\ \A s \in Sessions : cache[s] # NoHistory => InOrder(cache[s])
    /\ \A r \in Requests : InOrder(hist[r])

\* No history, cached or shown, holds a message of another session or of a
\* transaction that was rolled back; and a handler past resolveConversation
\* works in a session of its own user.
HistoryIsolated ==
    /\ \A s \in Sessions : cache[s] # NoHistory => StoredIn(cache[s], s)
    /\ \A r \in Resolved : /\ session[r] \in Sessions
                           /\ owner[session[r]] = user[r]
                           /\ StoredIn(hist[r], session[r])

\* InsertExchange stores both messages of a round or neither, and a reply is
\* returned only for a stored round, even when the process dies or an
\* acknowledgement is lost.
ExchangeWhole ==
    /\ \A r \in Requests, i \in committed :
          rows[i].req = r => /\ Len(mine[r]) = 2
                             /\ {mine[r][1], mine[r][2]} \subseteq committed
                             /\ rows[mine[r][1]].role = "user"
                             /\ rows[mine[r][2]].role = "assistant"
    /\ \A r \in Requests : At(r, "replied") => \E i \in committed : rows[i].req = r

\* Every request the service took ends, whatever fails (liveness of Handler).
EveryRequestEnds == \A r \in Requests : r \in InFlight ~> pc[r] \in Ended

\* When no handler works in a session, what Redis holds for it is what MySQL
\* would return: a later prompt then misses none of the recent messages.  The
\* limit is between the least and the greatest there has been: a history cached
\* under a lower limit gets longer by one round at a time.
CacheFresh ==
    \A s \in Sessions :
        (cache[s] # NoHistory /\ \A r \in InFlight : session[r] # s) =>
            \E low, high \in Rounds : \E n \in LimitOf(low) .. LimitOf(high) :
                cache[s] \in Recent(Stored(s), n)

\* A history of n rounds: each is a user message and the reply to it.
Whole(h) ==
    \E n \in 0 .. Len(h) :
        /\ Len(h) = 2 * n
        /\ \A k \in 1 .. n : LET question == rows[h[2 * k - 1]]
                                 reply == rows[h[2 * k]]
                             IN  /\ question.role = "user" /\ reply.role = "assistant"
                                 /\ question.req = reply.req

\* The history shown to the model is made of whole rounds: a user message is
\* followed by its reply, and no reply comes without its question.
WholeRounds == \A r \in Requests : Whole(hist[r])

-----------------------------------------------------------------------------
(* The handler implements what ChatService promises.                       *)

\* What the client of r has seen; with its deadline passed, no reply.
Outcome(r) == IF r \in InFlight THEN IF r \in expired THEN "late" ELSE "open"
              ELSE IF r \in expired THEN "failed" ELSE pc[r]

Shown(r) == {<<rows[hist[r][k]].req, rows[hist[r][k]].role>> : k \in 1 .. Len(hist[r])}

Service == INSTANCE ChatService WITH
    outcome <- [r \in Requests |-> Outcome(r)],
    saved <- {rows[i].req : i \in committed},
    prompt <- [r \in Requests |-> Shown(r)]

\* Interleaved steps over MySQL and Redis look like whole exchanges stored
\* once in the user's own session.
ImplementsService == Service!Spec
=============================================================================

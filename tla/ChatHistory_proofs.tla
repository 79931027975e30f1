------------------------ MODULE ChatHistory_proofs ------------------------
(***************************************************************************)
(* Proofs about ChatHistory, for every set of requests, users, sessions    *)
(* and faults and every MaxHistoryRounds, also when it changes.  The first *)
(* part is about concurrent handlers.  The second is about clients that    *)
(* send the next message of a session after the previous one has ended     *)
(* (SerialSpec): histories are made of whole rounds under every fault, and *)
(* the cache agrees with MySQL as long as no cache write fails, no         *)
(* acknowledgement is lost and the service does not die.                   *)
(***************************************************************************)
EXTENDS ChatHistory, TLAPS, FiniteSetTheorems, FunctionTheorems

-----------------------------------------------------------------------------
(* The inductive invariant.                                                *)

RowRole(k) == IF k = 1 THEN "user" ELSE "assistant"

\* The rows of a request are the ones it has inserted so far, and no other
\* row carries its name.
RowsOwned ==
    /\ \A r \in Requests : \A k \in 1 .. Len(mine[r]) :
          /\ mine[r][k] \in 1 .. Len(rows)
          /\ rows[mine[r][k]] =
                [session |-> session[r], req |-> r, role |-> RowRole(k)]
    /\ \A i \in 1 .. Len(rows) : \E k \in 1 .. Len(mine[rows[i].req]) :
          mine[rows[i].req][k] = i

\* How far each handler has got with its two inserts and the commit.
HandlerProgress(r) ==
    /\ pc[r] = "unsent" => r \notin expired
    /\ Len(mine[r]) <= 2
    /\ Len(mine[r]) = 2 => mine[r][1] < mine[r][2]
    /\ pc[r] \in {"unsent", "resolve", "readCache", "readDb", "refill", "search",
                  "model", "insertUser"} => Len(mine[r]) = 0
    /\ pc[r] = "insertReply" => Len(mine[r]) = 1
    /\ pc[r] \in {"commit", "save", "replied"} => Len(mine[r]) = 2
    /\ pc[r] \in {"save", "replied"} =>
          mine[r][1] \in committed /\ mine[r][2] \in committed
    /\ pc[r] \in {"insertReply", "commit"} =>
          \A k \in 1 .. Len(mine[r]) : mine[r][k] \notin committed

Progress == \A r \in Requests : HandlerProgress(r)

\* A transaction is committed whole.
CommittedWhole ==
    \A i \in committed : LET m == mine[rows[i].req]
                         IN  Len(m) = 2 /\ m[1] \in committed /\ m[2] \in committed

\* A handler past resolveConversation has a session of its own user.
OwnSession ==
    \A r \in Requests :
        /\ pc[r] = "resolve" => user[r] \in Users
        /\ (pc[r] \notin {"unsent", "resolve", "failed"} \/ Len(mine[r]) > 0)
              => /\ session[r] \in Sessions
                 /\ user[r] \in Users
                 /\ owner[session[r]] = user[r]

\* A loaded history is in order, stored in the handler's session, and older
\* than the rows the handler inserts; before the load it is empty.
HistorySound ==
    \A r \in Requests :
        /\ InOrder(hist[r])
        /\ StoredIn(hist[r], session[r])
        /\ \A j \in 1 .. Len(hist[r]), k \in 1 .. Len(mine[r]) : hist[r][j] < mine[r][k]
        /\ pc[r] \in {"unsent", "resolve", "readCache", "readDb"} => hist[r] = <<>>

CacheSound ==
    \A s \in Sessions : cache[s] # NoHistory => InOrder(cache[s]) /\ StoredIn(cache[s], s)

IInv == TypeOK /\ RowsOwned /\ Progress /\ CommittedWhole /\ OwnSession
               /\ HistorySound /\ CacheSound

-----------------------------------------------------------------------------
(* Lemmas about histories.                                                 *)

\* historyMessageLimit is a natural number whatever the configuration says.
LEMMA LimitNat == ASSUME TypeOK PROVE Limit \in Nat
<1>1. maxRounds \in Int
  BY ConfigAssumption DEF TypeOK
<1> QED
  BY <1>1 DEF Limit, LimitOf

\* The limit in force is the limit of a deployment.
LEMMA WithinLimit ==
    ASSUME TypeOK, NEW h, Increasing(h), Len(h) <= Limit
    PROVE  InOrder(h)
BY DEF TypeOK, InOrder, Limit

\* trimHistory keeps a suffix: order is preserved, the limit is met, and no
\* message appears that was not there.
LEMMA TrimSuffix ==
    ASSUME TypeOK, NEW h \in Seq(Nat), Increasing(h)
    PROVE  /\ Trim(h) \in Seq(Nat)
           /\ InOrder(Trim(h))
           /\ \A k \in 1 .. Len(Trim(h)) : \E j \in 1 .. Len(h) : Trim(h)[k] = h[j]
<1>1. CASE Len(h) <= Limit
  BY <1>1, WithinLimit DEF Trim
<1>2. CASE ~(Len(h) <= Limit)
  <2> DEFINE n == Len(h) - Limit
             t == Trim(h)
  <2>0. Limit \in Nat
    BY LimitNat
  <2>1. n \in Nat /\ n + 1 \in 1 .. Len(h) + 1 /\ Len(h) = Limit + n
    BY <1>2, LimitNat
  <2>2. t = SubSeq(h, n + 1, Len(h))
    BY <1>2 DEF Trim
  <2> HIDE DEF n, t
  <2>3. t \in Seq(Nat) /\ Len(t) = Limit
    BY <2>0, <2>1, <2>2
  <2>4. \A k \in 1 .. Limit : t[k] = h[n + k] /\ n + k \in 1 .. Len(h)
    BY <2>0, <2>1, <2>2
  <2>5. \A i, j \in 1 .. Limit : i < j => t[i] < t[j]
    BY <2>0, <2>1, <2>4 DEF Increasing
  <2>6. Increasing(t) /\ Len(t) <= Limit
    BY <2>0, <2>3, <2>5 DEF Increasing
  <2> QED
    BY <2>3, <2>4, <2>6, WithinLimit DEF t
<1> QED
  BY <1>1, <1>2

\* What FindRecentByConversationId returns is in order and within the limit.
LEMMA RecentInOrder ==
    ASSUME TypeOK, NEW n \in Nat, NEW S \in SUBSET (1 .. n), NEW h \in Recent(S, Limit)
    PROVE  /\ h \in Seq(Nat)
           /\ InOrder(h)
           /\ \A k \in 1 .. Len(h) : h[k] \in S
<1> DEFINE size == IF Cardinality(S) < Limit THEN Cardinality(S) ELSE Limit
<1>1. Cardinality(S) \in Nat
  <2>1. IsFiniteSet(1 .. n)
    BY FS_Interval
  <2> QED
    BY <2>1, FS_Subset, FS_CardinalityType
<1>2. size \in Nat /\ size <= Limit
  BY <1>1, LimitNat
<1>3. h \in [1 .. size -> S] /\ Increasing(h)
  BY DEF Recent
<1> HIDE DEF size
<1>4. h \in Seq(S) /\ Len(h) = size
  BY <1>2, <1>3
<1>5. h \in Seq(Nat)
  <2>1. S \subseteq Nat
    OBVIOUS
  <2>2. \A k \in 1 .. size : h[k] \in Nat
    BY <1>3, <2>1
  <2> QED
    BY <1>4, <2>2
<1> QED
  BY <1>2, <1>3, <1>4, <1>5, WithinLimit

\* Commits and inserts only add to what a session stores.
LEMMA StoredGrows ==
    ASSUME TypeOK, NEW s,
           committed \subseteq committed',
           Len(rows) <= Len(rows'),
           \A i \in 1 .. Len(rows) : rows'[i] = rows[i]
    PROVE  Stored(s) \subseteq Stored(s)'
BY DEF TypeOK, Stored

-----------------------------------------------------------------------------
(* The invariant is inductive.                                             *)

\* The service starts in it: no rows, no histories, nobody at work.
LEMMA InitInv == Init => IInv
<1> SUFFICES ASSUME Init PROVE IInv
  OBVIOUS
<1>1. TypeOK
  BY DEF Init, TypeOK, Labels, Ended, Message
<1>2. RowsOwned /\ Progress /\ CommittedWhole /\ OwnSession
  BY DEF Init, RowsOwned, Progress, HandlerProgress, CommittedWhole, OwnSession
<1>3. HistorySound /\ CacheSound
  <2>1. InOrder(<<>>)
    BY <1>1, LimitNat, WithinLimit DEF Increasing
  <2> QED
    BY <2>1 DEF Init, HistorySound, CacheSound, StoredIn
<1> QED
  BY <1>1, <1>2, <1>3 DEF IInv

\* The steps that move handlers and touch nothing else.
LEMMA MoveInv ==
    ASSUME IInv, UNCHANGED <<tables, cache, hist, mine, user, session>>,
           maxRounds' \in Rounds,
           expired' \subseteq Requests,
           \A r \in expired' : pc'[r] = "unsent" => r \in expired,
           pc' \in [Requests -> Labels],
           \A r \in Requests :
              \/ pc'[r] \in {pc[r], "failed"}
              \/ /\ pc[r] = "resolve" /\ pc'[r] = "readCache"
                 /\ session[r] \in Sessions
                 /\ owner[session[r]] = user[r]
              \/ pc[r] = "readCache" /\ pc'[r] = "readDb"
              \/ pc[r] = "search" /\ pc'[r] = "model"
              \/ pc[r] = "model" /\ pc'[r] = "insertUser"
    PROVE  IInv'
<1> USE DEF tables
<1>1. TypeOK'
  BY DEF IInv, TypeOK
<1>2. RowsOwned' /\ CommittedWhole'
  BY DEF IInv, RowsOwned, CommittedWhole
<1>3. Progress'
  BY DEF IInv, Progress, HandlerProgress
<1>4. OwnSession'
  BY DEF IInv, OwnSession
<1>5. \A s : Stored(s)' = Stored(s)
  BY DEF Stored
<1>6. CacheSound'
  BY <1>5 DEF IInv, CacheSound, StoredIn
<1>7. HistorySound'
  BY <1>5 DEF IInv, HistorySound, StoredIn
<1> QED
  BY <1>1, <1>2, <1>3, <1>4, <1>6, <1>7 DEF IInv

\* A request arrives.
LEMMA SendInv ==
    ASSUME IInv, NEW r \in Requests, NEW u \in Users,
           NEW s \in Sessions \cup {NewSession}, Send(r, u, s)
    PROVE  IInv'
<1> USE DEF Send, At, Goto, tables
<1>1. TypeOK'
  BY DEF IInv, TypeOK, Labels, Ended
<1>2. Len(mine[r]) = 0 /\ hist[r] = <<>>
  BY DEF IInv, Progress, HandlerProgress, HistorySound
<1>3. RowsOwned'
  <2>1. \A q \in Requests : q # r => session'[q] = session[q]
    BY DEF IInv, TypeOK
  <2> QED
    BY <1>2, <2>1 DEF IInv, RowsOwned
<1>4. CommittedWhole'
  BY DEF IInv, CommittedWhole
<1>5. Progress'
  BY DEF IInv, TypeOK, Progress, HandlerProgress
<1>6. OwnSession'
  BY <1>2 DEF IInv, TypeOK, OwnSession
<1>7. \A t : Stored(t)' = Stored(t)
  BY DEF Stored
<1>8. CacheSound'
  BY <1>7 DEF IInv, CacheSound, StoredIn
<1>9. HistorySound'
  BY <1>2, <1>7 DEF IInv, TypeOK, HistorySound, StoredIn
<1> QED
  BY <1>1, <1>3, <1>4, <1>5, <1>6, <1>8, <1>9 DEF IInv

\* A conversation row is inserted for a request without a session.
LEMMA CreateInv ==
    ASSUME IInv, NEW r \in Requests, CreateConversation(r)
    PROVE  IInv'
<1> USE DEF At, Goto
<1>1. PICK s \in Sessions : /\ owner[s] = NoUser
                            /\ owner' = [owner EXCEPT ![s] = user[r]]
                            /\ session' = [session EXCEPT ![r] = s]
  BY DEF CreateConversation
<1>2. /\ pc[r] = "resolve"
      /\ \/ pc' = [pc EXCEPT ![r] = "readCache"]
         \/ pc' = [pc EXCEPT ![r] = "failed"]
      /\ UNCHANGED <<user, expired, rows, committed, cache, maxRounds, hist, mine>>
  BY DEF CreateConversation
<1>3. TypeOK'
  BY <1>1, <1>2 DEF IInv, TypeOK, Labels, Ended
<1>4. Len(mine[r]) = 0 /\ hist[r] = <<>>
  BY <1>2 DEF IInv, Progress, HandlerProgress, HistorySound
<1>5. RowsOwned'
  <2>1. \A q \in Requests : q # r => session'[q] = session[q]
    BY <1>1 DEF IInv, TypeOK
  <2> QED
    BY <1>2, <1>4, <2>1 DEF IInv, RowsOwned
<1>6. CommittedWhole'
  BY <1>2 DEF IInv, CommittedWhole
<1>7. Progress'
  BY <1>2 DEF IInv, TypeOK, Progress, HandlerProgress
<1>8. OwnSession'
  BY <1>1, <1>2, <1>4, SentinelAssumption DEF IInv, TypeOK, OwnSession
<1>9. \A t : Stored(t)' = Stored(t)
  BY <1>2 DEF Stored
<1>10. CacheSound'
  BY <1>2, <1>9 DEF IInv, CacheSound, StoredIn
<1>11. HistorySound'
  BY <1>1, <1>2, <1>4, <1>9 DEF IInv, TypeOK, HistorySound, StoredIn
<1> QED
  BY <1>3, <1>5, <1>6, <1>7, <1>8, <1>10, <1>11 DEF IInv

\* A load of the history: from Redis or from MySQL.
LEMMA LoadInv ==
    ASSUME IInv, NEW r \in Requests, NEW h \in Seq(Nat), NEW label \in Labels,
           UNCHANGED <<requestVars, tables, cache, maxRounds, mine>>,
           pc[r] \in {"readCache", "readDb"}, label \in {"search", "refill"},
           pc' = [pc EXCEPT ![r] = label],
           hist' = [hist EXCEPT ![r] = h],
           InOrder(h), StoredIn(h, session[r])
    PROVE  IInv'
<1> USE DEF requestVars, tables
<1>1. TypeOK'
  BY DEF IInv, TypeOK
<1>2. RowsOwned' /\ CommittedWhole'
  BY DEF IInv, RowsOwned, CommittedWhole
<1>3. Progress'
  BY DEF IInv, TypeOK, Progress, HandlerProgress
<1>4. OwnSession'
  BY DEF IInv, TypeOK, OwnSession
<1>5. \A s : Stored(s)' = Stored(s)
  BY DEF Stored
<1>6. CacheSound'
  BY <1>5 DEF IInv, CacheSound, StoredIn
<1>7. HistorySound'
  <2>1. Len(mine[r]) = 0
    BY DEF IInv, Progress, HandlerProgress
  <2>2. ASSUME NEW q \in Requests, q # r
        PROVE  hist'[q] = hist[q] /\ pc'[q] = pc[q]
    BY <2>2 DEF IInv, TypeOK
  <2>3. hist'[r] = h /\ pc'[r] = label
    BY DEF IInv, TypeOK
  <2>4. \A q \in Requests : InOrder(hist[q])'
    BY <2>2, <2>3 DEF IInv, HistorySound, InOrder, Increasing
  <2>5. \A q \in Requests : StoredIn(hist[q], session[q])'
    BY <1>5, <2>2, <2>3 DEF IInv, HistorySound, StoredIn
  <2>6. \A q \in Requests : \A j \in 1 .. Len(hist'[q]), k \in 1 .. Len(mine[q]) :
           hist'[q][j] < mine[q][k]
    BY <2>1, <2>2, <2>3 DEF IInv, HistorySound
  <2>7. \A q \in Requests :
           pc'[q] \in {"unsent", "resolve", "readCache", "readDb"} => hist'[q] = <<>>
    BY <2>2, <2>3 DEF IInv, HistorySound
  <2> QED
    BY <2>4, <2>5, <2>6, <2>7 DEF HistorySound
<1> QED
  BY <1>1, <1>2, <1>3, <1>4, <1>6, <1>7 DEF IInv

\* A write of the cache: a refill, a save, an expiry, or a failed Setex.
LEMMA CacheInv ==
    ASSUME IInv, UNCHANGED <<requestVars, tables, maxRounds, hist, mine>>,
           NEW s \in Sessions, NEW h,
           cache' = cache \/ cache' = [cache EXCEPT ![s] = h],
           h = NoHistory \/ (h \in Seq(Nat) /\ InOrder(h) /\ StoredIn(h, s)),
           pc' \in [Requests -> Labels],
           \A q \in Requests : \/ pc'[q] = pc[q]
                               \/ pc[q] = "refill" /\ pc'[q] = "search"
                               \/ pc[q] = "save" /\ pc'[q] = "replied"
    PROVE  IInv'
<1> USE DEF requestVars, tables
<1>1. TypeOK'
  BY DEF IInv, TypeOK
<1>2. RowsOwned' /\ CommittedWhole'
  BY DEF IInv, RowsOwned, CommittedWhole
<1>3. Progress'
  BY DEF IInv, Progress, HandlerProgress
<1>4. OwnSession'
  BY DEF IInv, OwnSession
<1>5. \A t : Stored(t)' = Stored(t)
  BY DEF Stored
<1>6. HistorySound'
  BY <1>5 DEF IInv, HistorySound, StoredIn
<1>7. CacheSound'
  <2>1. \A t \in Sessions : cache'[t] = cache[t] \/ (t = s /\ cache'[t] = h)
    BY DEF IInv, TypeOK
  <2> QED
    BY <1>5, <2>1 DEF IInv, CacheSound, StoredIn
<1> QED
  BY <1>1, <1>2, <1>3, <1>4, <1>6, <1>7 DEF IInv

\* An insert of InsertExchange appends an uncommitted row.
LEMMA InsertInv ==
    ASSUME IInv, NEW r \in Requests, NEW role, Insert(r, role),
           \/ pc[r] = "insertUser" /\ role = "user"
                /\ pc' = [pc EXCEPT ![r] = "insertReply"]
           \/ pc[r] = "insertReply" /\ role = "assistant"
                /\ pc' = [pc EXCEPT ![r] = "commit"]
    PROVE  IInv'
<1> DEFINE n == Len(rows)
           m == mine[r]
           msg == [session |-> session[r], req |-> r, role |-> role]
<1>1. /\ rows' = Append(rows, msg)
      /\ mine' = [mine EXCEPT ![r] = Append(m, n + 1)]
      /\ UNCHANGED <<user, session, expired, owner, committed, cache, maxRounds, hist>>
  BY DEF Insert, requestVars
<1>2. /\ rows \in Seq(Message) /\ n \in Nat /\ m \in Seq(Nat)
      /\ committed \subseteq 1 .. n
      /\ session[r] \in Sessions
      /\ \A i \in 1 .. n : rows[i] \in Message /\ rows[i].req \in Requests
  <2>1. /\ rows \in Seq(Message) /\ n \in Nat /\ m \in Seq(Nat)
        /\ committed \subseteq 1 .. n
    BY DEF IInv, TypeOK
  <2>2. session[r] \in Sessions
    BY DEF IInv, OwnSession
  <2>3. \A i \in 1 .. n : rows[i] \in Message
    BY <2>1
  <2>4. \A w \in Message : w.req \in Requests
    BY DEF Message
  <2> QED
    BY <2>1, <2>2, <2>3, <2>4
<1>3. msg \in Message
  BY <1>2 DEF Message
<1>4. /\ rows' \in Seq(Message) /\ Len(rows') = n + 1
      /\ \A i \in 1 .. n : rows'[i] = rows[i]
      /\ rows'[n + 1] = msg
  BY <1>1, <1>2, <1>3
<1>5. /\ \A q \in Requests : mine'[q] = IF q = r THEN Append(m, n + 1) ELSE mine[q]
      /\ Append(m, n + 1) \in Seq(Nat)
      /\ Len(Append(m, n + 1)) = Len(m) + 1
      /\ \A k \in 1 .. Len(m) : Append(m, n + 1)[k] = m[k]
      /\ Append(m, n + 1)[Len(m) + 1] = n + 1
  BY <1>1, <1>2 DEF IInv, TypeOK
<1>6. /\ \/ Len(m) = 0 /\ role = "user" /\ pc' = [pc EXCEPT ![r] = "insertReply"]
         \/ Len(m) = 1 /\ role = "assistant" /\ pc' = [pc EXCEPT ![r] = "commit"]
      /\ \A k \in 1 .. Len(m) : m[k] \in 1 .. n
      /\ \A k \in 1 .. Len(m) : m[k] \notin committed
  <2>1. \A k \in 1 .. Len(m) : m[k] \in 1 .. n
    BY DEF IInv, RowsOwned
  <2>2. CASE pc[r] = "insertUser"
    <3>1. Len(m) = 0
      BY <2>2 DEF IInv, Progress, HandlerProgress
    <3> QED
      BY <2>1, <2>2, <3>1
  <2>3. CASE pc[r] = "insertReply"
    <3>1. Len(m) = 1 /\ \A k \in 1 .. Len(m) : m[k] \notin committed
      BY <2>3 DEF IInv, Progress, HandlerProgress
    <3> QED
      BY <2>1, <2>3, <3>1
  <2> QED
    BY <2>2, <2>3
<1>7. TypeOK'
  <2>1. pc' \in [Requests -> Labels]
    BY <1>6 DEF IInv, TypeOK, Labels
  <2>2. mine' \in [Requests -> Seq(Nat)]
    BY <1>1, <1>5 DEF IInv, TypeOK
  <2>3. committed' \subseteq 1 .. Len(rows')
    BY <1>1, <1>2, <1>4
  <2> QED
    BY <1>1, <1>4, <2>1, <2>2, <2>3 DEF IInv, TypeOK
<1> HIDE DEF n, m
<1>8. RowsOwned'
  <2>1. \A q \in Requests : \A k \in 1 .. Len(mine'[q]) :
           /\ mine'[q][k] \in 1 .. Len(rows')
           /\ rows'[mine'[q][k]] =
                 [session |-> session'[q], req |-> q, role |-> RowRole(k)]
    <3>1. ASSUME NEW q \in Requests, q # r, NEW k \in 1 .. Len(mine'[q])
          PROVE  /\ mine'[q][k] \in 1 .. Len(rows')
                 /\ rows'[mine'[q][k]] =
                       [session |-> session'[q], req |-> q, role |-> RowRole(k)]
      BY <1>1, <1>2, <1>4, <1>5, <3>1 DEF IInv, RowsOwned, n
    <3>2. ASSUME NEW k \in 1 .. Len(mine'[r])
          PROVE  /\ mine'[r][k] \in 1 .. Len(rows')
                 /\ rows'[mine'[r][k]] =
                       [session |-> session'[r], req |-> r, role |-> RowRole(k)]
      BY <1>1, <1>2, <1>4, <1>5, <1>6, <3>2 DEF IInv, RowsOwned, RowRole, n, m
    <3> QED
      BY <3>1, <3>2
  <2>2. ASSUME NEW i \in 1 .. Len(rows')
        PROVE  \E k \in 1 .. Len(mine'[rows'[i].req]) : mine'[rows'[i].req][k] = i
    <3>1. CASE i \in 1 .. n
      <4>1. PICK k \in 1 .. Len(mine[rows[i].req]) : mine[rows[i].req][k] = i
        BY <3>1 DEF IInv, RowsOwned, n
      <4>2. rows[i].req \in Requests
        BY <3>1, <1>2
      <4>3. CASE rows[i].req = r
        <5>1. k \in 1 .. Len(m) /\ m[k] = i
          BY <4>1, <4>3 DEF m
        <5>2. k \in 1 .. Len(Append(m, n + 1)) /\ Append(m, n + 1)[k] = i
          BY <1>2, <1>5, <5>1
        <5> QED
          BY <1>4, <1>5, <3>1, <4>3, <5>2
      <4>4. CASE rows[i].req # r
        <5>1. mine'[rows[i].req] = mine[rows[i].req]
          BY <1>5, <4>2, <4>4
        <5> QED
          BY <1>4, <3>1, <4>1, <5>1
      <4> QED
        BY <4>3, <4>4
    <3>2. CASE i = n + 1
      <4>1. rows'[i].req = r
        BY <1>4, <3>2
      <4>2. Len(m) + 1 \in 1 .. Len(Append(m, n + 1))
        BY <1>2, <1>5
      <4> QED
        BY <1>5, <3>2, <4>1, <4>2
    <3> QED
      BY <1>2, <1>4, <3>1, <3>2
  <2> QED
    BY <2>1, <2>2 DEF RowsOwned
<1>9. Progress'
  <2>1. \A q \in Requests : q # r => pc'[q] = pc[q]
    BY <1>6 DEF IInv, TypeOK
  <2>2. pc'[r] = IF role = "user" THEN "insertReply" ELSE "commit"
    BY <1>6 DEF IInv, TypeOK
  <2>3. n + 1 \notin committed
    BY <1>2
  <2>4. \A q \in Requests : q # r => mine'[q] = mine[q]
    BY <1>5
  <2>5. \A q \in Requests \ {r} : HandlerProgress(q)'
    BY <1>1, <2>1, <2>4 DEF IInv, Progress, HandlerProgress
  <2>6. CASE Len(m) = 0 /\ role = "user"
    <3>1. mine'[r] = Append(m, n + 1) /\ Len(mine'[r]) = 1 /\ mine'[r][1] = n + 1
      BY <1>2, <1>5, <2>6
    <3>2. pc'[r] = "insertReply"
      BY <2>2, <2>6
    <3> QED
      BY <1>1, <2>3, <2>5, <3>1, <3>2 DEF Progress, HandlerProgress
  <2>7. CASE Len(m) = 1 /\ role = "assistant"
    <3>1. /\ mine'[r] = Append(m, n + 1) /\ Len(mine'[r]) = 2
          /\ mine'[r][1] = m[1] /\ mine'[r][2] = n + 1
      <4>1. 1 \in 1 .. Len(m) /\ Len(m) + 1 = 2
        BY <2>7
      <4>2. Append(m, n + 1)[1] = m[1] /\ Append(m, n + 1)[2] = n + 1
        BY <1>5, <4>1
      <4> QED
        BY <1>5, <4>1, <4>2
    <3>2. m[1] < n + 1 /\ m[1] \notin committed
      BY <1>2, <1>6, <2>7
    <3>3. pc'[r] = "commit"
      BY <2>2, <2>7
    <3>4. \A k \in 1 .. 2 : mine'[r][k] \notin committed
      BY <2>3, <3>1, <3>2
    <3> QED
      BY <1>1, <2>5, <3>1, <3>2, <3>3, <3>4 DEF Progress, HandlerProgress
  <2> QED
    BY <1>6, <2>6, <2>7
<1>10. CommittedWhole'
  <2>1. ASSUME NEW i \in committed
        PROVE  LET w == mine'[rows'[i].req]
               IN  Len(w) = 2 /\ w[1] \in committed /\ w[2] \in committed
    <3>1. rows'[i] = rows[i] /\ rows[i].req \in Requests
      BY <1>2, <1>4
    <3>2. rows[i].req # r
      BY <1>2, <1>6, <2>1 DEF IInv, CommittedWhole, m
    <3> QED
      BY <1>5, <2>1, <3>1, <3>2 DEF IInv, CommittedWhole
  <2> QED
    BY <1>1, <2>1 DEF CommittedWhole
<1>11. OwnSession'
  BY <1>1, <1>5, <1>6 DEF IInv, TypeOK, OwnSession
<1>12. \A s : Stored(s)' = Stored(s)
  BY <1>1, <1>2, <1>4 DEF Stored, n
<1>13. CacheSound'
  BY <1>1, <1>12 DEF IInv, CacheSound, StoredIn
<1>14. HistorySound'
  <2>1. \A q \in Requests : \A j \in 1 .. Len(hist[q]) : hist[q][j] \in 1 .. n
    BY <1>2 DEF IInv, HistorySound, StoredIn, Stored
  <2>2. \A q \in Requests : \A j \in 1 .. Len(hist[q]), k \in 1 .. Len(mine'[q]) :
           hist[q][j] < mine'[q][k]
    <3>1. ASSUME NEW q \in Requests, q # r,
                 NEW j \in 1 .. Len(hist[q]), NEW k \in 1 .. Len(mine'[q])
          PROVE  hist[q][j] < mine'[q][k]
      BY <1>5, <3>1 DEF IInv, HistorySound
    <3>2. ASSUME NEW j \in 1 .. Len(hist[r]), NEW k \in 1 .. Len(Append(m, n + 1))
          PROVE  hist[r][j] < Append(m, n + 1)[k]
      <4>1. CASE k \in 1 .. Len(m)
        BY <1>5, <4>1 DEF IInv, HistorySound, m
      <4>2. CASE k = Len(m) + 1
        BY <1>2, <1>5, <2>1, <4>2
      <4> QED
        BY <1>2, <1>5, <4>1, <4>2
    <3> QED
      BY <1>5, <3>1, <3>2
  <2>3. \A q \in Requests :
           pc'[q] \in {"unsent", "resolve", "readCache", "readDb"} => pc'[q] = pc[q]
    BY <1>6 DEF IInv, TypeOK
  <2> QED
    BY <1>1, <1>12, <2>2, <2>3 DEF IInv, HistorySound, StoredIn
<1> QED
  BY <1>7, <1>8, <1>9, <1>10, <1>11, <1>13, <1>14 DEF IInv

\* A row a request inserted carries its session, its name and its role.
LEMMA OwnRow ==
    ASSUME IInv, NEW r \in Requests, NEW k \in 1 .. Len(mine[r])
    PROVE  /\ mine[r][k] \in 1 .. Len(rows)
           /\ rows[mine[r][k]].session = session[r]
           /\ rows[mine[r][k]].req = r
           /\ rows[mine[r][k]].role = RowRole(k)
<1>1. /\ mine[r][k] \in 1 .. Len(rows)
      /\ rows[mine[r][k]] =
            [session |-> session[r], req |-> r, role |-> RowRole(k)]
  BY DEF IInv, RowsOwned
<1> QED
  BY <1>1

\* The commit of InsertExchange makes both rows of the exchange visible.
LEMMA CommitInv ==
    ASSUME IInv, NEW r \in Requests, Commit(r)
    PROVE  IInv'
<1> DEFINE u == mine[r][1]
           a == mine[r][2]
<1>1. /\ pc[r] = "commit"
      /\ committed' = committed \cup {u, a}
      /\ \/ pc' = [pc EXCEPT ![r] = "save"]
         \/ pc' = [pc EXCEPT ![r] = "failed"]
      /\ UNCHANGED <<user, session, expired, owner, rows, cache, maxRounds, hist, mine>>
  BY DEF Commit, At, Goto, requestVars
<1>2. Len(mine[r]) = 2 /\ 1 \in 1 .. Len(mine[r]) /\ 2 \in 1 .. Len(mine[r])
  BY <1>1 DEF IInv, Progress, HandlerProgress
<1>3. /\ u \in 1 .. Len(rows) /\ rows[u].req = r
      /\ a \in 1 .. Len(rows) /\ rows[a].req = r
  BY <1>2, OwnRow
<1> HIDE DEF u, a
<1>4. TypeOK'
  BY <1>1, <1>3 DEF IInv, TypeOK, Labels, Ended
<1>5. RowsOwned'
  BY <1>1 DEF IInv, RowsOwned
<1>6. Progress'
  <2>1. ASSUME NEW q \in Requests, q # r
        PROVE  HandlerProgress(q)'
    <3>1. pc'[q] = pc[q]
      BY <1>1, <2>1 DEF IInv, TypeOK
    <3>2. \A k \in 1 .. Len(mine[q]) : mine[q][k] # u /\ mine[q][k] # a
      BY <1>3, <2>1, OwnRow
    <3> QED
      BY <1>1, <3>1, <3>2 DEF IInv, Progress, HandlerProgress
  <2>2. HandlerProgress(r)'
    <3>1. pc'[r] \in {"save", "failed"}
      BY <1>1 DEF IInv, TypeOK
    <3>2. mine[r][1] \in committed' /\ mine[r][2] \in committed'
      BY <1>1 DEF u, a
    <3> QED
      BY <1>1, <1>2, <3>1, <3>2 DEF IInv, Progress, HandlerProgress
  <2> QED
    BY <2>1, <2>2 DEF Progress
<1>7. CommittedWhole'
  BY <1>1, <1>2, <1>3 DEF IInv, CommittedWhole, u, a
<1>8. OwnSession'
  BY <1>1 DEF IInv, TypeOK, OwnSession
<1>9. \A s : Stored(s) \subseteq Stored(s)'
  BY <1>1 DEF Stored
<1>10. CacheSound'
  BY <1>1, <1>9 DEF IInv, CacheSound, StoredIn
<1>11. HistorySound'
  <2>1. \A q \in Requests :
           pc'[q] \in {"unsent", "resolve", "readCache", "readDb"} => pc'[q] = pc[q]
    BY <1>1 DEF IInv, TypeOK
  <2> QED
    BY <1>1, <1>9, <2>1 DEF IInv, HistorySound, StoredIn
<1> QED
  BY <1>4, <1>5, <1>6, <1>7, <1>8, <1>10, <1>11 DEF IInv

\* The history a handler saves: the one it loaded and its own exchange, which
\* is newer than all of it, trimmed.
LEMMA SavedHistorySound ==
    ASSUME IInv, NEW r \in Requests, pc[r] = "save"
    PROVE  /\ session[r] \in Sessions
           /\ hist[r] \o mine[r] \in Seq(Nat) /\ Increasing(hist[r] \o mine[r])
           /\ Trim(hist[r] \o mine[r]) \in Seq(Nat)
           /\ InOrder(Trim(hist[r] \o mine[r]))
           /\ StoredIn(Trim(hist[r] \o mine[r]), session[r])
<1> DEFINE h == hist[r]
           m == mine[r]
           new == h \o m
<1>1. session[r] \in Sessions
  BY DEF IInv, OwnSession
<1>2. h \in Seq(Nat) /\ m \in Seq(Nat) /\ new \in Seq(Nat)
  BY DEF IInv, TypeOK
<1>3. /\ Len(m) = 2 /\ m[1] < m[2]
      /\ m[1] \in committed /\ m[2] \in committed
  BY DEF IInv, Progress, HandlerProgress
<1>4. /\ Increasing(h) /\ StoredIn(h, session[r])
      /\ \A j \in 1 .. Len(h), k \in 1 .. Len(m) : h[j] < m[k]
  BY DEF IInv, HistorySound, InOrder
<1>5. m[1] \in Stored(session[r]) /\ m[2] \in Stored(session[r])
  <2>1. 1 \in 1 .. Len(m) /\ 2 \in 1 .. Len(m)
    BY <1>3
  <2>2. rows[m[1]].session = session[r] /\ rows[m[2]].session = session[r]
    BY <2>1, OwnRow
  <2> QED
    BY <1>3, <2>2 DEF Stored
<1> HIDE DEF h, m
<1>6. /\ Len(new) = Len(h) + 2
      /\ \A k \in 1 .. Len(h) : new[k] = h[k]
      /\ new[Len(h) + 1] = m[1]
      /\ new[Len(h) + 2] = m[2]
  <2>1. Len(new) = Len(h) + Len(m)
    BY <1>2
  <2>2. \A k \in 1 .. Len(h) + Len(m) :
           new[k] = IF k <= Len(h) THEN h[k] ELSE m[k - Len(h)]
    BY <1>2
  <2>3. Len(h) \in Nat /\ (Len(h) + 1) - Len(h) = 1 /\ (Len(h) + 2) - Len(h) = 2
    BY <1>2
  <2> QED
    BY <1>3, <2>1, <2>2, <2>3
<1> HIDE DEF new
<1>7. Increasing(new)
  <2>1. Len(h) \in Nat /\ \A k \in 1 .. Len(h) : h[k] \in Nat
    BY <1>2
  <2>2. m[1] \in Nat /\ m[2] \in Nat
    <3>1. 1 \in 1 .. Len(m) /\ 2 \in 1 .. Len(m)
      BY <1>3
    <3> QED
      BY <1>2, <3>1
  <2>3. \A k \in 1 .. Len(h) : h[k] < m[1] /\ h[k] < m[2]
    BY <1>3, <1>4
  <2>4. \A i, j \in 1 .. Len(h) + 2 : i < j => new[i] < new[j]
    <3>1. ASSUME NEW i \in 1 .. Len(h) + 2, NEW j \in 1 .. Len(h) + 2, i < j
          PROVE  new[i] < new[j]
      <4>1. CASE j \in 1 .. Len(h)
        BY <1>4, <1>6, <2>1, <3>1, <4>1 DEF Increasing
      <4>2. CASE i \in 1 .. Len(h) /\ j \notin 1 .. Len(h)
        <5>1. j = Len(h) + 1 \/ j = Len(h) + 2
          BY <2>1, <4>2
        <5> QED
          BY <1>6, <2>3, <4>2, <5>1
      <4>3. CASE i \notin 1 .. Len(h)
        <5>1. i = Len(h) + 1 /\ j = Len(h) + 2
          BY <2>1, <3>1, <4>3
        <5> QED
          BY <1>3, <1>6, <5>1
      <4> QED
        BY <2>1, <3>1, <4>1, <4>2, <4>3
    <3> QED
      BY <3>1
  <2> QED
    BY <1>6, <2>4 DEF Increasing
<1>8. \A k \in 1 .. Len(new) : new[k] \in Stored(session[r])
  <2>1. \A k \in 1 .. Len(h) : h[k] \in Stored(session[r])
    BY <1>4 DEF StoredIn
  <2>2. ASSUME NEW k \in 1 .. Len(new)
        PROVE  k \in 1 .. Len(h) \/ k = Len(h) + 1 \/ k = Len(h) + 2
    <3>1. Len(h) \in Nat
      BY <1>2
    <3>2. Len(new) = Len(h) + 2
      BY <1>6
    <3>3. k \in 1 .. Len(h) + 2
      BY <3>2
    <3> QED
      BY <3>1, <3>3
  <2> QED
    BY <1>5, <1>6, <2>1, <2>2
<1>9. /\ Trim(new) \in Seq(Nat)
      /\ InOrder(Trim(new))
      /\ \A k \in 1 .. Len(Trim(new)) : \E j \in 1 .. Len(new) : Trim(new)[k] = new[j]
  BY <1>2, <1>7, TrimSuffix DEF IInv
<1>10. StoredIn(Trim(new), session[r])
  BY <1>8, <1>9 DEF StoredIn
<1> QED
  BY <1>1, <1>2, <1>7, <1>9, <1>10 DEF new, h, m

\* One step of the invariance proof per action.
LEMMA NextInv == IInv /\ [Next]_vars => IInv'
<1> SUFFICES ASSUME IInv, [Next]_vars PROVE IInv'
  OBVIOUS
<1> USE DEF At, Goto
<1>0. /\ TypeOK /\ maxRounds \in Rounds
      /\ pc \in [Requests -> Labels] /\ expired \subseteq Requests
      /\ session \in [Requests -> Sessions \cup {NewSession}]
      /\ rows \in Seq(Message) /\ committed \subseteq 1 .. Len(rows)
  BY DEF IInv, TypeOK
<1>1. ASSUME NEW r \in Requests, NEW u \in Users,
             NEW s \in Sessions \cup {NewSession}, Send(r, u, s)
      PROVE  IInv'
  BY <1>1, SendInv
<1>2. ASSUME NEW r \in Requests, Refuse(r)
      PROVE  IInv'
  BY <1>0, <1>2, MoveInv DEF Refuse, requestVars, Labels, Ended
<1>3. ASSUME NEW r \in Requests, FindConversation(r)
      PROVE  IInv'
  BY <1>0, <1>3, MoveInv DEF FindConversation, requestVars, Labels, Ended
<1>4. ASSUME NEW r \in Requests, CreateConversation(r)
      PROVE  IInv'
  BY <1>4, CreateInv
<1>5. ASSUME NEW r \in Requests, CreateFails(r)
      PROVE  IInv'
  BY <1>0, <1>5, MoveInv DEF CreateFails, requestVars, Labels, Ended
<1>6. ASSUME NEW r \in Requests, ReadCacheHit(r)
      PROVE  IInv'
  <2>1. /\ pc[r] = "readCache" /\ cache[session[r]] # NoHistory
        /\ hist' = [hist EXCEPT ![r] = cache[session[r]]]
        /\ pc' = [pc EXCEPT ![r] = "search"]
        /\ UNCHANGED <<requestVars, tables, cache, maxRounds, mine>>
    BY <1>6 DEF ReadCacheHit
  <2>2. session[r] \in Sessions
    BY <2>1 DEF IInv, OwnSession
  <2>3. /\ cache[session[r]] \in Seq(Nat)
        /\ InOrder(cache[session[r]])
        /\ StoredIn(cache[session[r]], session[r])
    BY <2>1, <2>2 DEF IInv, TypeOK, CacheSound
  <2>4. "search" \in Labels
    BY DEF Labels
  <2> QED
    BY <2>1, <2>3, <2>4, LoadInv
<1>7. ASSUME NEW r \in Requests, ReadCacheMiss(r)
      PROVE  IInv'
  BY <1>0, <1>7, MoveInv DEF ReadCacheMiss, requestVars, Labels, Ended
<1>8. ASSUME NEW r \in Requests, ReadDb(r)
      PROVE  IInv'
  <2>1. PICK h \in Recent(Stored(session[r]), Limit) : hist' = [hist EXCEPT ![r] = h]
    BY <1>8 DEF ReadDb
  <2>2. Stored(session[r]) \in SUBSET (1 .. Len(rows)) /\ Len(rows) \in Nat
    <3>1. Stored(session[r]) \subseteq committed
      BY DEF Stored
    <3>2. committed \subseteq 1 .. Len(rows) /\ Len(rows) \in Nat
      BY <1>0
    <3> QED
      BY <3>1, <3>2, Zenon
  <2>3. h \in Seq(Nat) /\ InOrder(h) /\ StoredIn(h, session[r])
    BY <1>0, <2>1, <2>2, RecentInOrder DEF StoredIn
  <2>4. "refill" \in Labels
    BY DEF Labels
  <2>5. /\ pc[r] = "readDb" /\ pc' = [pc EXCEPT ![r] = "refill"]
        /\ UNCHANGED <<requestVars, tables, cache, maxRounds, mine>>
    BY <1>8 DEF ReadDb
  <2> QED
    BY <2>1, <2>3, <2>4, <2>5, LoadInv
<1>9. ASSUME NEW r \in Requests, Refill(r)
      PROVE  IInv'
  <2>1. /\ pc[r] = "refill" /\ pc' = [pc EXCEPT ![r] = "search"]
        /\ cache' = cache \/ cache' = [cache EXCEPT ![session[r]] = hist[r]]
        /\ UNCHANGED <<requestVars, tables, maxRounds, hist, mine>>
    BY <1>9 DEF Refill, Setex
  <2>2. session[r] \in Sessions
    BY <2>1 DEF IInv, OwnSession
  <2>3. /\ hist[r] \in Seq(Nat) /\ InOrder(hist[r])
        /\ StoredIn(hist[r], session[r])
    BY DEF IInv, TypeOK, HistorySound
  <2>4. /\ pc' \in [Requests -> Labels]
        /\ \A q \in Requests : pc'[q] = pc[q] \/ (pc[q] = "refill" /\ pc'[q] = "search")
    BY <1>0, <2>1 DEF Labels
  <2> QED
    BY <2>1, <2>2, <2>3, <2>4, CacheInv
<1>10. ASSUME NEW r \in Requests, SearchDocs(r)
       PROVE  IInv'
  BY <1>0, <1>10, MoveInv DEF SearchDocs, requestVars, Labels, Ended
<1>11. ASSUME NEW r \in Requests, CallModel(r)
       PROVE  IInv'
  BY <1>0, <1>11, MoveInv DEF CallModel, requestVars, Labels, Ended
<1>12. ASSUME NEW r \in Requests, InsertUser(r) \/ InsertReply(r)
       PROVE  IInv'
  BY <1>12, InsertInv DEF InsertUser, InsertReply
<1>13. ASSUME NEW r \in Requests, Commit(r)
       PROVE  IInv'
  BY <1>13, CommitInv
<1>14. ASSUME NEW r \in Requests, SaveHistory(r)
       PROVE  IInv'
  <2> DEFINE new == Trim(hist[r] \o mine[r])
  <2>1. /\ pc[r] = "save" /\ pc' = [pc EXCEPT ![r] = "replied"]
        /\ cache' = cache \/ cache' = [cache EXCEPT ![session[r]] = new]
        /\ UNCHANGED <<requestVars, tables, maxRounds, hist, mine>>
    BY <1>14 DEF SaveHistory, Setex
  <2>2. /\ session[r] \in Sessions /\ new \in Seq(Nat)
        /\ InOrder(new) /\ StoredIn(new, session[r])
    BY <2>1, SavedHistorySound
  <2>3. /\ pc' \in [Requests -> Labels]
        /\ \A q \in Requests : pc'[q] = pc[q] \/ (pc[q] = "save" /\ pc'[q] = "replied")
    BY <1>0, <2>1 DEF Labels, Ended
  <2> QED
    BY <2>1, <2>2, <2>3, CacheInv
<1>15. ASSUME NEW r \in Requests, FailStep(r)
       PROVE  IInv'
  BY <1>0, <1>15, MoveInv DEF FailStep, requestVars, Labels, Ended
<1>16. ASSUME NEW r \in Requests, Deadline(r)
       PROVE  IInv'
  BY <1>0, <1>16, MoveInv DEF Deadline, requestVars, InFlight
<1>17. ASSUME NEW s \in Sessions, Expire(s)
       PROVE  IInv'
  BY <1>0, <1>17, CacheInv DEF Expire
<1>18. CASE Crash
  BY <1>0, <1>18, MoveInv DEF Crash, requestVars, InFlight, Labels, Ended
<1>19. CASE Redeploy
  BY <1>0, <1>19, MoveInv DEF Redeploy, requestVars
<1>20. CASE UNCHANGED vars
  BY <1>0, <1>20, MoveInv DEF vars, tables
<1> QED
  BY <1>1, <1>2, <1>3, <1>4, <1>5, <1>6, <1>7, <1>8, <1>9, <1>10, <1>11, <1>12,
     <1>13, <1>14, <1>15, <1>16, <1>17, <1>18, <1>19, <1>20 DEF Next, Client, Handler

\* Every reachable state satisfies the inductive invariant.
THEOREM Invariance == Spec => []IInv
  BY InitInv, NextInv, PTL DEF Spec

-----------------------------------------------------------------------------
(* What follows from it.                                                   *)

\* The state keeps its shape.
THEOREM TypeCorrect == Spec => []TypeOK
<1>1. IInv => TypeOK
  BY DEF IInv
<1> QED
  BY <1>1, Invariance, PTL

\* Every cached history and every history shown to the model is in time
\* order, without repetition and within the limit of some deployment.
THEOREM HistoryOrder == Spec => []HistoryInOrder
<1>1. IInv => HistoryInOrder
  BY DEF IInv, CacheSound, HistorySound, HistoryInOrder
<1> QED
  BY <1>1, Invariance, PTL

\* No history holds a message of another session or of a rolled-back
\* transaction, and handlers work in sessions of their own users.
THEOREM HistoryIsolation == Spec => []HistoryIsolated
<1>1. IInv => HistoryIsolated
  BY DEF IInv, CacheSound, HistorySound, OwnSession, HistoryIsolated, Resolved, Ended
<1> QED
  BY <1>1, Invariance, PTL

\* Exchanges are stored whole, and replies are given for stored ones only.
THEOREM ExchangeAtomicity == Spec => []ExchangeWhole
<1>1. ASSUME IInv PROVE ExchangeWhole
  <2>1. ASSUME NEW r \in Requests, NEW i \in committed, rows[i].req = r
        PROVE  /\ Len(mine[r]) = 2
               /\ {mine[r][1], mine[r][2]} \subseteq committed
               /\ rows[mine[r][1]].role = "user"
               /\ rows[mine[r][2]].role = "assistant"
    <3>1. /\ Len(mine[r]) = 2
          /\ mine[r][1] \in committed /\ mine[r][2] \in committed
      BY <1>1, <2>1 DEF IInv, CommittedWhole
    <3>2. 1 \in 1 .. Len(mine[r]) /\ 2 \in 1 .. Len(mine[r])
      BY <3>1
    <3> QED
      BY <1>1, <3>1, <3>2, OwnRow DEF RowRole
  <2>2. ASSUME NEW r \in Requests, pc[r] = "replied"
        PROVE  \E i \in committed : rows[i].req = r
    <3>1. Len(mine[r]) = 2 /\ mine[r][1] \in committed
      BY <1>1, <2>2 DEF IInv, Progress, HandlerProgress
    <3>2. 1 \in 1 .. Len(mine[r])
      BY <3>1
    <3>3. rows[mine[r][1]].req = r
      BY <1>1, <3>2, OwnRow
    <3> QED
      BY <3>1, <3>3
  <2> QED
    BY <2>1, <2>2 DEF ExchangeWhole, At
<1> QED
  BY <1>1, Invariance, PTL

-----------------------------------------------------------------------------
(* Refinement: every step of the handlers and of their environment is a    *)
(* step of ChatService or a stutter.                                       *)

\* The abstract state, by name.
Outcomes == [r \in Requests |-> Outcome(r)]
SavedRequests == {rows[i].req : i \in committed}
Prompts == [r \in Requests |-> Shown(r)]

\* At the start no request has an outcome, a session or a prompt.
LEMMA InitRefines == Init => Service!Init
<1> SUFFICES ASSUME Init PROVE Service!Init
  OBVIOUS
<1>1. \A r \in Requests : Outcome(r) = "unsent" /\ Shown(r) = {}
  BY DEF Init, Outcome, InFlight, Ended, Shown
<1>2. SavedRequests = {}
  BY DEF Init, SavedRequests
<1> QED
  BY <1>1, <1>2 DEF Init, Service!Init, SavedRequests

\* A history shows the same messages as long as its rows are there.
LEMMA ShownStable ==
    ASSUME IInv, NEW r \in Requests, hist'[r] = hist[r],
           \A i \in 1 .. Len(rows) : rows'[i] = rows[i]
    PROVE  Shown(r)' = Shown(r)
<1>1. \A k \in 1 .. Len(hist[r]) : hist[r][k] \in 1 .. Len(rows)
  BY DEF IInv, TypeOK, HistorySound, StoredIn, Stored
<1> QED
  BY <1>1 DEF Shown

\* What a sound history shows is part of the transcript of its session.
LEMMA ShownStored ==
    ASSUME IInv, NEW r \in Requests, NEW h \in Seq(Nat), StoredIn(h, session[r])
    PROVE  {<<rows[h[k]].req, rows[h[k]].role>> : k \in 1 .. Len(h)}
              \subseteq Service!Transcript(session[r])
<1> SUFFICES ASSUME NEW k \in 1 .. Len(h)
             PROVE  <<rows[h[k]].req, rows[h[k]].role>>
                       \in Service!Transcript(session[r])
  OBVIOUS
<1> DEFINE i == h[k]
<1>1. i \in committed /\ rows[i].session = session[r]
  BY DEF StoredIn, Stored
<1>2. i \in 1 .. Len(rows) /\ rows[i] \in Message
  BY <1>1 DEF IInv, TypeOK
<1>3. rows[i].req \in Requests /\ rows[i].role \in Service!Roles
  BY <1>2 DEF Message, Service!Roles
<1>4. session[rows[i].req] = session[r]
  <2>1. PICK j \in 1 .. Len(mine[rows[i].req]) : mine[rows[i].req][j] = i
    BY <1>2 DEF IInv, RowsOwned
  <2> QED
    BY <1>1, <1>3, <2>1, OwnRow
<1> QED
  BY <1>1, <1>3, <1>4 DEF Service!Transcript

\* Steps that move one handler without ending it, and change neither tables
\* nor loaded histories, are invisible.
LEMMA SilentStep ==
    ASSUME IInv, UNCHANGED <<user, session, owner, committed, hist>>,
           expired' = expired,
           \A i \in 1 .. Len(rows) : rows'[i] = rows[i],
           \A q \in Requests : pc'[q] = pc[q] \/ (q \in InFlight /\ q \in InFlight')
    PROVE  UNCHANGED Service!vars
<1>1. \A q \in Requests : Outcome(q)' = Outcome(q)
  BY DEF Outcome, InFlight
<1>2. \A q \in Requests : Shown(q)' = Shown(q)
  BY ShownStable
<1>3. SavedRequests' = SavedRequests
  <2>1. \A i \in committed : rows'[i] = rows[i]
    BY DEF IInv, TypeOK
  <2> QED
    BY <2>1 DEF SavedRequests
<1> QED
  BY <1>1, <1>2, <1>3 DEF Service!vars, SavedRequests

\* Handlers of R end without a reply.
LEMMA FailRefines ==
    ASSUME IInv, UNCHANGED <<user, session, expired, tables, hist>>,
           NEW R \in SUBSET InFlight,
           \A q \in R : \/ pc'[q] = "failed"
                        \/ pc'[q] = "replied" /\ q \in expired,
           \A q \in Requests \ R : pc'[q] = pc[q]
    PROVE  Service!Next
<1>1. R \in SUBSET Requests
  BY DEF InFlight
<1>2. \A q \in R : Outcome(q) \in {"open", "late"}
  BY DEF Outcome
<1>3. \A q \in Requests : Outcome(q)' = IF q \in R THEN "failed" ELSE Outcome(q)
  BY <1>1 DEF Outcome, InFlight, Ended
<1>4. \A q \in Requests : Shown(q)' = Shown(q)
  BY ShownStable DEF tables
<1>5. Service!Fail(R)
  BY <1>1, <1>2, <1>3, <1>4 DEF Service!Fail, Service!Active, tables
<1> QED
  BY <1>1, <1>5 DEF Service!Next

\* An arriving request is an Ask.
LEMMA SendRefines ==
    ASSUME IInv, NEW r \in Requests, NEW u \in Users,
           NEW s \in Sessions \cup {NewSession}, Send(r, u, s)
    PROVE  Service!Next
<1> USE DEF Send, At, Goto, tables
<1>1. Outcome(r) = "unsent"
  BY DEF IInv, Progress, HandlerProgress, Outcome, InFlight
<1>2. \A q \in Requests : Outcome(q)' = IF q = r THEN "open" ELSE Outcome(q)
  <2>1. r \notin expired
    BY DEF IInv, Progress, HandlerProgress
  <2>2. pc \in [Requests -> Labels]
    BY DEF IInv, TypeOK
  <2>3. pc'[r] = "resolve" /\ \A q \in Requests \ {r} : pc'[q] = pc[q]
    BY <2>2
  <2> QED
    BY <2>1, <2>3 DEF Outcome, InFlight, Ended
<1>3. \A q \in Requests : Shown(q)' = Shown(q)
  BY ShownStable
<1>4. Service!Ask(r, u, s)
  BY <1>1, <1>2, <1>3 DEF Service!Ask
<1> QED
  BY <1>4 DEF Service!Next

\* A request refused by validateMessage is a Refuse.
LEMMA RefuseRefines ==
    ASSUME IInv, NEW r \in Requests, Refuse(r)
    PROVE  Service!Next
<1> USE DEF Refuse, At, Goto, tables, requestVars
<1>1. Outcome(r) = "unsent"
  BY DEF IInv, Progress, HandlerProgress, Outcome, InFlight
<1>2. \A q \in Requests : Outcome(q)' = IF q = r THEN "failed" ELSE Outcome(q)
  <2>1. pc \in [Requests -> Labels]
    BY DEF IInv, TypeOK
  <2>2. pc'[r] = "failed" /\ \A q \in Requests \ {r} : pc'[q] = pc[q]
    BY <2>1
  <2> QED
    BY <2>2 DEF Outcome, InFlight, Ended
<1>3. \A q \in Requests : Shown(q)' = Shown(q)
  BY ShownStable
<1>4. Service!Refuse(r)
  BY <1>1, <1>2, <1>3 DEF Service!Refuse
<1> QED
  BY <1>4 DEF Service!Next

\* resolveConversation without a session is an Open, even if its answer is lost.
LEMMA CreateRefines ==
    ASSUME IInv, NEW r \in Requests, CreateConversation(r)
    PROVE  Service!Next
<1> USE DEF At, Goto
<1>1. PICK s \in Sessions : /\ owner[s] = NoUser
                            /\ owner' = [owner EXCEPT ![s] = user[r]]
                            /\ session' = [session EXCEPT ![r] = s]
  BY DEF CreateConversation
<1>2. /\ pc[r] = "resolve" /\ session[r] = NewSession /\ r \notin expired
      /\ \/ pc' = [pc EXCEPT ![r] = "readCache"]
         \/ pc' = [pc EXCEPT ![r] = "failed"]
      /\ UNCHANGED <<user, expired, rows, committed, hist>>
      /\ pc \in [Requests -> Labels]
  BY DEF CreateConversation, IInv, TypeOK
<1>3. Outcome(r) = "open"
  BY <1>2 DEF Outcome, InFlight, Ended
<1>4. \/ \A q \in Requests : Outcome(q)' = Outcome(q)
      \/ \A q \in Requests : Outcome(q)' = IF q = r THEN "failed" ELSE Outcome(q)
  <2>1. \A q \in Requests \ {r} : Outcome(q)' = Outcome(q)
    BY <1>2 DEF Outcome, InFlight
  <2>2. Outcome(r)' \in {"open", "failed"}
    BY <1>2 DEF Outcome, InFlight, Ended
  <2> QED
    BY <1>3, <2>1, <2>2
<1>5. \A q \in Requests : Shown(q)' = Shown(q)
  BY <1>2, ShownStable
<1>6. Outcomes' \in {Outcomes, [Outcomes EXCEPT ![r] = "failed"]}
  BY <1>4 DEF Outcomes
<1>7. Service!Open(r, s)
  BY <1>1, <1>2, <1>3, <1>5, <1>6 DEF Service!Open, Service!Active, Outcomes
<1> QED
  BY <1>7 DEF Service!Next

\* A load of the history by getHistory is a Quote of stored messages.
LEMMA QuoteRefines ==
    ASSUME IInv, NEW r \in Requests, ReadCacheHit(r) \/ ReadDb(r)
    PROVE  Service!Next
<1> USE DEF At, Goto
<1>1. /\ pc[r] \in {"readCache", "readDb"}
      /\ pc' \in {[pc EXCEPT ![r] = "search"], [pc EXCEPT ![r] = "refill"]}
      /\ UNCHANGED <<user, session, expired, owner, rows, committed>>
      /\ \A q \in Requests \ {r} : hist'[q] = hist[q]
      /\ pc \in [Requests -> Labels]
  BY DEF ReadCacheHit, ReadDb, requestVars, tables, IInv, TypeOK
<1>2. \A q \in Requests : Outcome(q)' = Outcome(q)
  BY <1>1 DEF Outcome, InFlight, Ended
<1>3. Outcome(r) \in {"open", "late"} /\ session[r] \in Sessions /\ owner[session[r]] = user[r]
  BY <1>1 DEF Outcome, InFlight, Ended, IInv, OwnSession
<1>4. \A q \in Requests \ {r} : Shown(q)' = Shown(q)
  BY <1>1, ShownStable
<1>5. IInv'
  BY NextInv DEF Next, Handler
<1>6. Shown(r)' \subseteq Service!Transcript(session[r])
  <2>1. hist'[r] \in Seq(Nat) /\ StoredIn(hist'[r], session[r])
    <3>1. StoredIn(hist[r], session[r])'
      BY <1>5 DEF IInv, HistorySound
    <3> QED
      BY <1>1, <1>5, <3>1 DEF IInv, TypeOK, StoredIn, Stored
  <2> QED
    BY <1>1, <2>1, ShownStored DEF Shown
<1>7. Prompts' = [Prompts EXCEPT ![r] = Shown(r)']
  BY <1>4 DEF Prompts
<1>8. Service!Quote(r)
  <2>1. \E seen \in SUBSET Service!Transcript(session[r]) :
           Prompts' = [Prompts EXCEPT ![r] = seen]
    BY <1>6, <1>7
  <2>2. Outcomes' = Outcomes
    BY <1>2 DEF Outcomes
  <2>3. SavedRequests' = SavedRequests
    BY <1>1 DEF SavedRequests
  <2>4. Service!Active(r)
    BY <1>3 DEF Service!Active
  <2> QED
    BY <1>1, <1>3, <2>1, <2>2, <2>3, <2>4
    DEF Service!Quote, Prompts, Outcomes, SavedRequests
<1> QED
  BY <1>8 DEF Service!Next

\* The commit of InsertExchange is the Save of the whole exchange.
LEMMA CommitRefines ==
    ASSUME IInv, NEW r \in Requests, Commit(r)
    PROVE  Service!Next
<1>1. /\ pc[r] = "commit"
      /\ committed' = committed \cup {mine[r][1], mine[r][2]}
      /\ pc' \in {[pc EXCEPT ![r] = "save"], [pc EXCEPT ![r] = "failed"]}
      /\ UNCHANGED <<user, session, expired, owner, rows, hist>>
      /\ pc \in [Requests -> Labels]
  BY DEF Commit, At, Goto, requestVars, IInv, TypeOK
<1>2. /\ Len(mine[r]) = 2
      /\ \A k \in 1 .. 2 : mine[r][k] \notin committed
      /\ \A k \in 1 .. 2 : rows[mine[r][k]].req = r
  <2>1. Len(mine[r]) = 2 /\ \A k \in 1 .. Len(mine[r]) : mine[r][k] \notin committed
    BY <1>1 DEF IInv, Progress, HandlerProgress
  <2> QED
    BY <2>1, OwnRow
<1>3. r \notin SavedRequests
  BY <1>2 DEF IInv, CommittedWhole, SavedRequests
<1>4. SavedRequests' = SavedRequests \cup {r}
  BY <1>1, <1>2 DEF SavedRequests
<1>5. /\ Outcome(r) \in {"open", "late"}
      /\ session[r] \in Sessions /\ owner[session[r]] = user[r]
  BY <1>1 DEF Outcome, InFlight, Ended, IInv, OwnSession
<1>6. Outcomes' \in {Outcomes, [Outcomes EXCEPT ![r] = "failed"]}
  <2>1. \A q \in Requests \ {r} : Outcome(q)' = Outcome(q)
    BY <1>1 DEF Outcome, InFlight
  <2>2. Outcome(r)' \in {Outcome(r), "failed"}
    BY <1>1 DEF Outcome, InFlight, Ended
  <2> QED
    BY <2>1, <2>2 DEF Outcomes
<1>7. Prompts' = Prompts
  BY <1>1, ShownStable DEF Prompts
<1>8. Service!Save(r)
  BY <1>1, <1>3, <1>4, <1>5, <1>6, <1>7
  DEF Service!Save, Service!Active, Outcomes, Prompts, SavedRequests
<1> QED
  BY <1>8 DEF Service!Next

\* The end of Chat is a Reply, or nothing new to a client told it was late.
LEMMA SaveHistoryRefines ==
    ASSUME IInv, NEW r \in Requests, SaveHistory(r)
    PROVE  Service!Next
<1>1. /\ pc[r] = "save" /\ pc' = [pc EXCEPT ![r] = "replied"]
      /\ UNCHANGED <<user, session, expired, tables, hist>>
      /\ pc \in [Requests -> Labels]
  BY DEF SaveHistory, At, Goto, requestVars, IInv, TypeOK
<1>2. r \in InFlight
  BY <1>1 DEF InFlight, Ended
<1>3. CASE r \in expired
  <2>1. {r} \in SUBSET InFlight
    BY <1>2
  <2>2. pc'[r] = "replied" /\ \A q \in Requests \ {r} : pc'[q] = pc[q]
    BY <1>1
  <2> QED
    BY <1>1, <1>3, <2>1, <2>2, FailRefines
<1>4. CASE r \notin expired
  <2>1. Outcome(r) = "open"
    BY <1>2, <1>4 DEF Outcome
  <2>2. \A q \in Requests : Outcome(q)' = IF q = r THEN "replied" ELSE Outcome(q)
    BY <1>1, <1>4 DEF Outcome, InFlight, Ended
  <2>3. r \in SavedRequests
    <3>1. 1 \in 1 .. Len(mine[r]) /\ mine[r][1] \in committed
      BY <1>1 DEF IInv, Progress, HandlerProgress
    <3>2. rows[mine[r][1]].req = r
      BY <3>1, OwnRow
    <3> QED
      BY <3>1, <3>2 DEF SavedRequests
  <2>4. \A q \in Requests : Shown(q)' = Shown(q)
    BY <1>1, ShownStable DEF tables
  <2>5. Service!Reply(r)
    BY <1>1, <2>1, <2>2, <2>3, <2>4 DEF Service!Reply, SavedRequests, tables
  <2> QED
    BY <2>5 DEF Service!Next
<1> QED
  BY <1>3, <1>4

\* The passing of an RPC deadline is a Late.
LEMMA DeadlineRefines ==
    ASSUME IInv, NEW r \in Requests, Deadline(r)
    PROVE  Service!Next
<1>1. /\ r \in InFlight /\ r \notin expired /\ expired' = expired \cup {r}
      /\ UNCHANGED <<pc, user, session, tables, hist>>
  BY DEF Deadline
<1>2. Outcome(r) = "open"
  BY <1>1 DEF Outcome
<1>3. \A q \in Requests : Outcome(q)' = IF q = r THEN "late" ELSE Outcome(q)
  BY <1>1 DEF Outcome, InFlight
<1>4. \A q \in Requests : Shown(q)' = Shown(q)
  BY <1>1, ShownStable DEF tables
<1>5. Service!Late(r)
  BY <1>1, <1>2, <1>3, <1>4 DEF Service!Late, tables
<1> QED
  BY <1>5 DEF Service!Next

\* Every step of the handlers and their environment is one of the service.
LEMMA NextRefines == IInv /\ [Next]_vars => [Service!Next]_(Service!vars)
<1> SUFFICES ASSUME IInv, [Next]_vars PROVE Service!Next \/ UNCHANGED Service!vars
  OBVIOUS
<1> USE DEF At, Goto
<1>0. pc \in [Requests -> Labels] /\ rows \in Seq(Message)
  BY DEF IInv, TypeOK
<1>1. ASSUME NEW r \in Requests, Client(r)
      PROVE  Service!Next
  BY <1>1, SendRefines, RefuseRefines DEF Client
<1>2. ASSUME NEW r \in Requests,
             \/ FindConversation(r) \/ CreateFails(r) \/ FailStep(r)
      PROVE  Service!Next \/ UNCHANGED Service!vars
  <2>1. /\ r \in InFlight
        /\ UNCHANGED <<user, session, expired, tables, hist>>
        /\ \/ pc' = [pc EXCEPT ![r] = "failed"]
           \/ pc' = [pc EXCEPT ![r] = "readCache"]
    BY <1>2 DEF FindConversation, CreateFails, FailStep, requestVars, InFlight, Ended
  <2>2. CASE pc' = [pc EXCEPT ![r] = "failed"]
    <3>1. {r} \in SUBSET InFlight
      BY <2>1
    <3>2. pc'[r] = "failed" /\ \A q \in Requests \ {r} : pc'[q] = pc[q]
      BY <1>0, <2>2
    <3> QED
      BY <2>1, <3>1, <3>2, FailRefines
  <2>3. CASE pc' = [pc EXCEPT ![r] = "readCache"]
    BY <1>0, <2>1, <2>3, SilentStep DEF InFlight, Ended, tables
  <2> QED
    BY <2>1, <2>2, <2>3
<1>3. ASSUME NEW r \in Requests, CreateConversation(r)
      PROVE  Service!Next
  BY <1>3, CreateRefines
<1>4. ASSUME NEW r \in Requests, ReadCacheHit(r) \/ ReadDb(r)
      PROVE  Service!Next
  BY <1>4, QuoteRefines
<1>5. ASSUME NEW r \in Requests,
             ReadCacheMiss(r) \/ Refill(r) \/ SearchDocs(r) \/ CallModel(r)
      PROVE  UNCHANGED Service!vars
  BY <1>0, <1>5, SilentStep
  DEF ReadCacheMiss, Refill, SearchDocs, CallModel, requestVars, tables, InFlight, Ended
<1>6. ASSUME NEW r \in Requests, InsertUser(r) \/ InsertReply(r)
      PROVE  UNCHANGED Service!vars
  <2>1. PICK msg : rows' = Append(rows, msg)
    BY <1>6 DEF InsertUser, InsertReply, Insert
  <2>2. \A i \in 1 .. Len(rows) : rows'[i] = rows[i]
    BY <1>0, <2>1
  <2> QED
    BY <1>0, <1>6, <2>2, SilentStep
    DEF InsertUser, InsertReply, Insert, requestVars, InFlight, Ended
<1>7. ASSUME NEW r \in Requests, Commit(r)
      PROVE  Service!Next
  BY <1>7, CommitRefines
<1>8. ASSUME NEW r \in Requests, SaveHistory(r)
      PROVE  Service!Next
  BY <1>8, SaveHistoryRefines
<1>9. ASSUME NEW r \in Requests, Deadline(r)
      PROVE  Service!Next
  BY <1>9, DeadlineRefines
<1>10. ASSUME NEW s \in Sessions, Expire(s)
       PROVE  UNCHANGED Service!vars
  BY <1>10, SilentStep DEF Expire, requestVars, tables
<1>11. CASE Crash
  BY <1>0, <1>11, FailRefines DEF Crash, requestVars, InFlight
<1>12. CASE Redeploy
  BY <1>12, SilentStep DEF Redeploy, requestVars, tables
<1>13. CASE UNCHANGED vars
  BY <1>13, SilentStep DEF vars
<1> QED
  BY <1>1, <1>2, <1>3, <1>4, <1>5, <1>6, <1>7, <1>8, <1>9, <1>10, <1>11, <1>12, <1>13
  DEF Next, Handler

\* Concurrent handlers over MySQL and Redis implement the chat service: whole
\* exchanges, stored once in the user's own session, and prompts that quote
\* nothing else.
THEOREM Refinement == Spec => ImplementsService
<1>1. Spec => Service!Init
  BY InitRefines, PTL DEF Spec
<1>2. Spec => [][Service!Next]_(Service!vars)
  BY NextRefines, Invariance, PTL DEF Spec
<1> QED
  BY <1>1, <1>2, PTL DEF ImplementsService, Service!Spec

-----------------------------------------------------------------------------
(* The newest rows of a set.                                               *)

\* h lists the newest n of S, or all of S if there are no more than n.
Newest(h, S, n) ==
    /\ h \in Seq(S) /\ Increasing(h) /\ Len(h) <= n
    /\ \A i \in S : \/ \E k \in 1 .. Len(h) : h[k] = i
                    \/ Len(h) = n /\ \A k \in 1 .. Len(h) : i < h[k]

\* What h lists of S is as much as its length.
LEMMA ListedCount ==
    ASSUME NEW S \in SUBSET Nat, NEW h \in Seq(S), Increasing(h),
           NEW k \in 0 .. Len(h)
    PROVE  LET T == {h[j] : j \in (k + 1) .. Len(h)}
           IN  T \subseteq S /\ IsFiniteSet(T) /\ Cardinality(T) = Len(h) - k
<1> DEFINE I == (k + 1) .. Len(h)
           T == {h[j] : j \in I}
           f == [j \in I |-> h[j]]
<1>1. Len(h) \in Nat /\ \A j \in I : h[j] \in S /\ j \in 1 .. Len(h)
  OBVIOUS
<1>2. IsFiniteSet(I) /\ Cardinality(I) = Len(h) - k
  <2>1. k + 1 \in Int /\ Len(h) \in Int
    BY <1>1
  <2>2. IsFiniteSet(I) /\ Cardinality(I) = IF k + 1 > Len(h) THEN 0 ELSE Len(h) - (k + 1) + 1
    BY <2>1, FS_Interval
  <2> QED
    BY <1>1, <2>2
<1>3. \A i, j \in I : h[i] = h[j] => i = j
  <2> SUFFICES ASSUME NEW i \in I, NEW j \in I, h[i] = h[j] PROVE i = j
    OBVIOUS
  <2>1. h[i] \in Int /\ i \in 1 .. Len(h) /\ j \in 1 .. Len(h) /\ i \in Int /\ j \in Int
    <3>1. S \subseteq Int /\ h[i] \in S
      BY <1>1
    <3>2. i \in 1 .. Len(h) /\ j \in 1 .. Len(h) /\ i \in Int /\ j \in Int
      BY <1>1
    <3> QED
      BY <3>1, <3>2
  <2>2. ~(i < j) /\ ~(j < i)
    BY <2>1 DEF Increasing
  <2> QED
    BY <2>1, <2>2
<1>4. f \in Bijection(I, T)
  <2>1. f \in [I -> T] /\ \A j \in I : f[j] = h[j]
    OBVIOUS
  <2>2. \A t \in T : \E j \in I : f[j] = t
    OBVIOUS
  <2> QED
    BY <1>3, <2>1, <2>2, Fun_IsBij
<1>5. IsFiniteSet(T) /\ Cardinality(T) = Cardinality(I)
  <2>1. ExistsBijection(I, T)
    BY <1>4 DEF ExistsBijection
  <2> QED
    BY <1>2, <2>1, FS_Bijection
<1> QED
  BY <1>1, <1>2, <1>5

\* FindRecentByConversationId returns the newest rows.
LEMMA RecentNewest ==
    ASSUME NEW S \in SUBSET Nat, IsFiniteSet(S), NEW n \in Nat, NEW h
    PROVE  h \in Recent(S, n) <=> Newest(h, S, n)
<1> DEFINE size == IF Cardinality(S) < n THEN Cardinality(S) ELSE n
<1>1. IsFiniteSet(S) /\ Cardinality(S) \in Nat
  BY FS_CardinalityType
<1>2. size \in Nat /\ size <= n /\ size <= Cardinality(S)
  BY <1>1
<1>3. ASSUME h \in Seq(S), Increasing(h)
      PROVE  LET T == {h[j] : j \in 1 .. Len(h)}
             IN  T \subseteq S /\ IsFiniteSet(T) /\ Cardinality(T) = Len(h)
                 /\ Len(h) <= Cardinality(S) /\ (Len(h) = Cardinality(S) => T = S)
  <2> DEFINE T == {h[j] : j \in 1 .. Len(h)}
  <2>1. Len(h) \in Nat /\ 0 \in 0 .. Len(h) /\ 0 + 1 = 1 /\ Len(h) - 0 = Len(h)
    BY <1>3
  <2>2. T \subseteq S /\ IsFiniteSet(T) /\ Cardinality(T) = Len(h)
    <3>1. LET U == {h[j] : j \in (0 + 1) .. Len(h)}
          IN  U \subseteq S /\ IsFiniteSet(U) /\ Cardinality(U) = Len(h) - 0
      BY <1>3, <2>1, ListedCount, Zenon
    <3> QED
      BY <2>1, <3>1
  <2>3. Cardinality(T) <= Cardinality(S) /\ (Cardinality(S) = Cardinality(T) => S = T)
    BY <1>1, <2>2, FS_Subset
  <2> QED
    BY <2>2, <2>3
<1>4. ASSUME h \in Recent(S, n)
      PROVE  Newest(h, S, n)
  <2>1. h \in [1 .. size -> S] /\ Increasing(h)
    BY <1>4 DEF Recent
  <2>2. \A i \in S : \/ \E k \in 1 .. size : h[k] = i
                     \/ \A k \in 1 .. size : i < h[k]
    BY <1>4 DEF Recent
  <2> HIDE DEF size
  <2>3. h \in Seq(S) /\ Len(h) = size
    BY <1>2, <2>1
  <2>4. CASE size = n
    BY <1>2, <2>1, <2>2, <2>3, <2>4 DEF Newest
  <2>5. CASE size # n
    <3>1. Len(h) = Cardinality(S)
      BY <2>3, <2>5 DEF size
    <3>2. \A i \in S : \E k \in 1 .. Len(h) : h[k] = i
      BY <1>3, <2>1, <2>3, <3>1
    <3> QED
      BY <1>2, <2>1, <2>3, <3>2 DEF Newest
  <2> QED
    BY <2>4, <2>5
<1>5. ASSUME Newest(h, S, n)
      PROVE  h \in Recent(S, n)
  <2>1. h \in Seq(S) /\ Increasing(h) /\ Len(h) <= n /\ Len(h) \in Nat
    BY <1>5 DEF Newest
  <2>2. Len(h) <= Cardinality(S)
    BY <1>3, <2>1
  <2>3. Len(h) = size
    <3>1. CASE Len(h) = n
      BY <1>1, <2>2, <3>1
    <3>2. CASE Len(h) # n
      <4>1. \A i \in S : \E k \in 1 .. Len(h) : h[k] = i
        BY <1>5, <3>2 DEF Newest
      <4>2. {h[j] : j \in 1 .. Len(h)} = S
        BY <1>3, <2>1, <4>1
      <4>3. Cardinality(S) = Len(h)
        BY <1>3, <2>1, <4>2
      <4> QED
        BY <1>1, <2>1, <3>2, <4>3
    <3> QED
      BY <3>1, <3>2
  <2>4. h \in [1 .. size -> S]
    BY <2>1, <2>3
  <2>5. \A i \in S : \/ \E k \in 1 .. size : h[k] = i
                     \/ \A k \in 1 .. size : i < h[k]
    BY <1>5, <2>3 DEF Newest
  <2> QED
    BY <2>1, <2>4, <2>5 DEF Recent
<1> QED
  BY <1>4, <1>5

\* Two lists of the newest rows of a set end with the same row, and agree from
\* there on backwards.
LEMMA NewestAgree ==
    ASSUME NEW S \in SUBSET Nat, IsFiniteSet(S),
           NEW n \in Nat, NEW g, Newest(g, S, n),
           NEW p \in Nat, NEW h, Newest(h, S, p)
    PROVE  \A i \in 1 .. Len(g), j \in 1 .. Len(h) :
              g[i] = h[j] => Len(g) - i = Len(h) - j
<1> SUFFICES ASSUME NEW i \in 1 .. Len(g), NEW j \in 1 .. Len(h), g[i] = h[j]
             PROVE  Len(g) - i = Len(h) - j
  OBVIOUS
<1>1. ASSUME NEW l \in Nat, NEW f, Newest(f, S, l), NEW k \in 1 .. Len(f)
      PROVE  LET U == {x \in S : x > f[k]}
             IN  IsFiniteSet(U) /\ Cardinality(U) = Len(f) - k
  <2> DEFINE U == {x \in S : x > f[k]}
             T == {f[b] : b \in (k + 1) .. Len(f)}
  <2>1. f \in Seq(S) /\ Increasing(f) /\ Len(f) \in Nat
    BY <1>1 DEF Newest
  <2>2. T \subseteq S /\ IsFiniteSet(T) /\ Cardinality(T) = Len(f) - k
    <3>1. k \in 0 .. Len(f)
      OBVIOUS
    <3> QED
      BY <2>1, <3>1, ListedCount
  <2>3. \A b \in 1 .. Len(f) : f[b] \in S /\ f[b] \in Int
    <3>1. S \subseteq Int
      OBVIOUS
    <3>2. \A b \in 1 .. Len(f) : f[b] \in S
      BY <2>1
    <3> QED
      BY <3>1, <3>2
  <2>4. T \subseteq U
    BY <2>1, <2>3 DEF Increasing
  <2>5. ASSUME NEW x \in U
        PROVE  x \in T
    <3>1. x \in S /\ x \in Int /\ x > f[k]
      OBVIOUS
    <3>2. PICK b \in 1 .. Len(f) : f[b] = x
      BY <1>1, <2>3, <3>1 DEF Newest
    <3>3. ~(b < k) /\ b # k
      BY <2>1, <2>3, <3>1, <3>2 DEF Increasing
    <3> QED
      BY <2>1, <3>2, <3>3
  <2>6. T = U
    BY <2>4, <2>5
  <2> QED
    BY <2>2, <2>6
<1>2. Cardinality({x \in S : x > g[i]}) = Len(g) - i
  BY <1>1
<1>3. Cardinality({x \in S : x > h[j]}) = Len(h) - j
  BY <1>1
<1> QED
  BY <1>2, <1>3

-----------------------------------------------------------------------------
(* Histories of whole rounds.                                              *)

\* Whole, with the rows as a parameter.
RoundIn(h, k, table) ==
    /\ table[h[2 * k - 1]].role = "user"
    /\ table[h[2 * k]].role = "assistant"
    /\ table[h[2 * k - 1]].req = table[h[2 * k]].req

WholeIn(h, table) ==
    \E n \in 0 .. Len(h) : Len(h) = 2 * n /\ \A k \in 1 .. n : RoundIn(h, k, table)

LEMMA WholeHalf ==
    ASSUME NEW h, NEW table, WholeIn(h, table), Len(h) \in Nat
    PROVE  \E a \in Nat : Len(h) = 2 * a /\ \A k \in 1 .. a : RoundIn(h, k, table)
BY DEF WholeIn

LEMMA WholeIntro ==
    ASSUME NEW h, NEW table, NEW a \in Nat, Len(h) = 2 * a,
           \A k \in 1 .. a : RoundIn(h, k, table)
    PROVE  WholeIn(h, table)
<1>1. a \in 0 .. Len(h)
  OBVIOUS
<1> QED
  BY <1>1 DEF WholeIn

\* The end of a history of whole rounds, of even length, is one.
LEMMA SuffixWhole ==
    ASSUME NEW h, NEW t, NEW table, WholeIn(h, table),
           NEW a \in Nat, NEW b \in 0 .. a, Len(h) = 2 * a, Len(t) = 2 * b,
           \A k \in 1 .. 2 * b : t[k] = h[k + 2 * (a - b)]
    PROVE  WholeIn(t, table)
<1>1. \A k \in 1 .. a : RoundIn(h, k, table)
  BY WholeHalf
<1>2. ASSUME NEW k \in 1 .. b
      PROVE  RoundIn(t, k, table)
  <2> DEFINE l == k + (a - b)
  <2>1. /\ l \in 1 .. a
        /\ 2 * k - 1 \in 1 .. 2 * b /\ (2 * k - 1) + 2 * (a - b) = 2 * l - 1
        /\ 2 * k \in 1 .. 2 * b /\ 2 * k + 2 * (a - b) = 2 * l
    OBVIOUS
  <2>2. t[2 * k - 1] = h[2 * l - 1] /\ t[2 * k] = h[2 * l]
    BY <2>1
  <2> HIDE DEF l
  <2>3. RoundIn(h, l, table)
    BY <1>1, <2>1
  <2> QED
    BY <2>2, <2>3 DEF RoundIn
<1>3. b \in Nat
  OBVIOUS
<1> QED
  BY <1>2, <1>3, WholeIntro

\* A limit is a number of whole rounds.
LEMMA EvenLimit == ASSUME TypeOK PROVE \E b \in Nat : Limit = 2 * b
<1>1. maxRounds \in Int
  BY ConfigAssumption DEF TypeOK
<1>2. CASE maxRounds <= 0
  BY <1>1, <1>2 DEF Limit, LimitOf
<1>3. CASE ~(maxRounds <= 0)
  <2>1. maxRounds \in Nat /\ Limit = 2 * maxRounds
    BY <1>1, <1>3 DEF Limit, LimitOf
  <2> QED
    BY <2>1
<1> QED
  BY <1>2, <1>3

\* trimHistory cuts between rounds.
LEMMA TrimWhole ==
    ASSUME TypeOK, NEW h \in Seq(Nat), NEW table, WholeIn(h, table)
    PROVE  WholeIn(Trim(h), table)
<1>1. PICK a \in Nat : Len(h) = 2 * a
  BY WholeHalf
<1>2. PICK b \in Nat : Limit = 2 * b
  BY EvenLimit
<1>3. CASE Len(h) <= Limit
  BY <1>3 DEF Trim
<1>4. CASE ~(Len(h) <= Limit)
  <2>1. b \in 0 .. a /\ Len(h) - Limit + 1 = 2 * (a - b) + 1
    BY <1>1, <1>2, <1>4
  <2>2. Trim(h) = SubSeq(h, 2 * (a - b) + 1, 2 * a)
    BY <1>1, <1>4, <2>1 DEF Trim
  <2>3. Len(Trim(h)) = 2 * b
    BY <1>1, <2>1, <2>2
  <2>4. \A k \in 1 .. 2 * b : Trim(h)[k] = h[k + 2 * (a - b)]
    BY <1>1, <2>1, <2>2
  <2> QED
    BY <1>1, <2>1, <2>3, <2>4, SuffixWhole
<1> QED
  BY <1>3, <1>4

LEMMA Joined ==
    ASSUME NEW h \in Seq(Nat), NEW m \in Seq(Nat)
    PROVE  /\ Len(h \o m) = Len(h) + Len(m)
           /\ \A k \in 1 .. Len(h) + Len(m) :
                 (h \o m)[k] = IF k <= Len(h) THEN h[k] ELSE m[k - Len(h)]
  OBVIOUS

\* A round is appended.
LEMMA AppendWhole ==
    ASSUME NEW h \in Seq(Nat), NEW m \in Seq(Nat), NEW table, WholeIn(h, table),
           Len(m) = 2, table[m[1]].role = "user", table[m[2]].role = "assistant",
           table[m[1]].req = table[m[2]].req
    PROVE  WholeIn(h \o m, table)
<1>1. PICK a \in Nat : Len(h) = 2 * a /\ \A k \in 1 .. a : RoundIn(h, k, table)
  BY WholeHalf
<1> DEFINE new == h \o m
           b == a + 1
<1>0. /\ Len(new) = Len(h) + Len(m)
      /\ \A k \in 1 .. Len(h) + Len(m) :
            new[k] = IF k <= Len(h) THEN h[k] ELSE m[k - Len(h)]
  BY Joined
<1> HIDE DEF new
<1>2. Len(new) = Len(h) + 2
  BY <1>0
<1>3. ASSUME NEW k \in 1 .. Len(h) + 2
      PROVE  new[k] = IF k <= Len(h) THEN h[k] ELSE m[k - Len(h)]
  BY <1>0
<1>4. ASSUME NEW k \in 1 .. b
      PROVE  RoundIn(new, k, table)
  <2>1. CASE k = b
    <3>1. new[2 * k - 1] = m[1]
      <4>1. 2 * k - 1 \in 1 .. Len(h) + 2 /\ ~(2 * k - 1 <= Len(h)) /\ (2 * k - 1) - Len(h) = 1
        BY <1>1, <2>1
      <4> QED
        BY <1>3, <4>1
    <3>2. new[2 * k] = m[2]
      <4>1. 2 * k \in 1 .. Len(h) + 2 /\ ~(2 * k <= Len(h)) /\ 2 * k - Len(h) = 2
        BY <1>1, <2>1
      <4> QED
        BY <1>3, <4>1
    <3> QED
      BY <3>1, <3>2 DEF RoundIn
  <2>2. CASE k # b
    <3>1. /\ k \in 1 .. a /\ 2 * k - 1 \in 1 .. Len(h) + 2 /\ 2 * k - 1 <= Len(h)
          /\ 2 * k \in 1 .. Len(h) + 2 /\ 2 * k <= Len(h)
      BY <1>1, <2>2
    <3>2. new[2 * k - 1] = h[2 * k - 1] /\ new[2 * k] = h[2 * k]
      BY <1>3, <3>1
    <3> QED
      BY <1>1, <3>1, <3>2 DEF RoundIn
  <2> QED
    BY <2>1, <2>2
<1>5. b \in Nat /\ Len(new) = 2 * b
  BY <1>1, <1>2
<1> HIDE DEF b
<1>6. WholeIn(new, table)
  BY <1>4, <1>5, WholeIntro
<1> QED
  BY <1>6 DEF new

\* All of S, in order.
Listing(f, S) == f \in Seq(S) /\ Increasing(f) /\ \A i \in S : \E k \in 1 .. Len(f) : f[k] = i

\* If all that is stored is whole rounds, so is what a query for the newest
\* messages returns: historyMessageLimit is even.
LEMMA NewestWhole ==
    ASSUME NEW S \in SUBSET Nat, IsFiniteSet(S), NEW table,
           NEW f, Listing(f, S), WholeIn(f, table),
           NEW b \in Nat, NEW h, Newest(h, S, 2 * b)
    PROVE  WholeIn(h, table)
<1>1. PICK a \in Nat : Len(f) = 2 * a
  BY WholeHalf DEF Listing
<1> DEFINE p == 2 * b
<1>0. p \in Nat /\ Newest(h, S, p)
  OBVIOUS
<1> HIDE DEF p
<1>2. /\ f \in Seq(S) /\ Len(f) \in Nat /\ Newest(f, S, Len(f))
      /\ h \in Seq(S) /\ Len(h) \in Nat
  BY DEF Listing, Newest
<1>3. ASSUME NEW i \in 1 .. Len(f), NEW k \in 1 .. Len(h), f[i] = h[k]
      PROVE  Len(f) - i = Len(h) - k
  <2>1. \A x \in 1 .. Len(f), y \in 1 .. Len(h) :
           f[x] = h[y] => Len(f) - x = Len(h) - y
    <3>1. \A l \in Nat : \A g : Newest(g, S, l) =>
             \A x \in 1 .. Len(g), y \in 1 .. Len(h) : g[x] = h[y] => Len(g) - x = Len(h) - y
      BY <1>0, NewestAgree
    <3> QED
      BY <1>2, <3>1
  <2> QED
    BY <1>3, <2>1
<1>4. \A k \in 1 .. Len(h) : \E i \in 1 .. Len(f) : f[i] = h[k]
  <2>1. \A k \in 1 .. Len(h) : h[k] \in S
    BY <1>2
  <2> QED
    BY <2>1 DEF Listing
<1>5. Len(h) <= Len(f)
  <2>1. CASE Len(h) = 0
    BY <1>2, <2>1
  <2>2. CASE Len(h) # 0
    <3>1. 1 \in 1 .. Len(h)
      BY <1>2, <2>2
    <3>2. PICK i \in 1 .. Len(f) : f[i] = h[1]
      BY <1>4, <3>1
    <3>3. Len(f) - i = Len(h) - 1
      BY <1>3, <3>1, <3>2
    <3> QED
      BY <1>2, <3>3
  <2> QED
    BY <2>1, <2>2
<1>6. Len(h) = 2 * b \/ Len(h) = Len(f)
  <2> SUFFICES ASSUME Len(h) # 2 * b PROVE Len(f) <= Len(h)
    BY <1>2, <1>5
  <2>1. CASE Len(f) = 0
    BY <1>2, <2>1
  <2>2. CASE Len(f) # 0
    <3>1. 1 \in 1 .. Len(f) /\ f[1] \in S
      BY <1>2, <2>2
    <3>2. PICK k \in 1 .. Len(h) : h[k] = f[1]
      BY <3>1 DEF Newest
    <3>3. Len(f) - 1 = Len(h) - k
      BY <1>3, <3>1, <3>2
    <3> QED
      BY <1>2, <3>3
  <2> QED
    BY <2>1, <2>2
<1>7. PICK c \in 0 .. a : Len(h) = 2 * c
  BY <1>1, <1>5, <1>6
<1>8. \A k \in 1 .. 2 * c : h[k] = f[k + 2 * (a - c)]
  <2> SUFFICES ASSUME NEW k \in 1 .. 2 * c PROVE h[k] = f[k + 2 * (a - c)]
    OBVIOUS
  <2>1. PICK i \in 1 .. Len(f) : f[i] = h[k]
    BY <1>4, <1>7
  <2>2. 2 * a - i = 2 * c - k
    BY <1>1, <1>3, <1>7, <2>1
  <2>3. i = k + 2 * (a - c)
    BY <1>1, <2>2
  <2> QED
    BY <2>1, <2>3
<1> QED
  BY <1>1, <1>7, <1>8, SuffixWhole

-----------------------------------------------------------------------------
(* Whole rounds: the invariant for clients that wait.                      *)

\* What a session stores is whole rounds one after the other.
StoredWhole == \A s \in Sessions : \E f : Listing(f, Stored(s)) /\ WholeIn(f, rows)

HistoriesWhole ==
    /\ \A s \in Sessions : cache[s] # NoHistory => WholeIn(cache[s], rows)
    /\ \A r \in Requests : WholeIn(hist[r], rows)

\* The rows of an open transaction are newer than all its session stores.
MineNewest ==
    \A r \in Requests : pc[r] \in {"insertReply", "commit"} =>
        \A i \in Stored(session[r]), k \in 1 .. Len(mine[r]) : i < mine[r][k]

SerialInv == IInv /\ OneAtATime /\ StoredWhole /\ HistoriesWhole /\ MineNewest

LEMMA SeqWiden == ASSUME NEW S, NEW T, S \subseteq T, NEW h \in Seq(S)
                  PROVE  h \in Seq(T)
<1>1. \A k \in 1 .. Len(h) : h[k] \in T
  OBVIOUS
<1> QED
  BY <1>1

LEMMA SeqOf == ASSUME NEW S, NEW T, NEW h \in Seq(S), \A k \in 1 .. Len(h) : h[k] \in T
               PROVE  h \in Seq(T)
<1>1. Len(h) \in Nat /\ h = [k \in 1 .. Len(h) |-> h[k]]
  OBVIOUS
<1>2. h \in [1 .. Len(h) -> T]
  BY <1>1
<1> QED
  BY <1>1, <1>2

LEMMA StoredIds == ASSUME TypeOK, NEW s
                   PROVE  Stored(s) \in SUBSET Nat /\ IsFiniteSet(Stored(s))
<1>1. Len(rows) \in Nat /\ Stored(s) \subseteq 1 .. Len(rows)
  <2>1. committed \subseteq 1 .. Len(rows)
    BY DEF TypeOK
  <2>2. Stored(s) \subseteq committed
    BY DEF Stored
  <2>3. rows \in Seq(Message)
    BY DEF TypeOK
  <2>4. Len(rows) \in Nat
    BY <2>3
  <2>5. Stored(s) \subseteq 1 .. Len(rows)
    BY <2>1, <2>2, Zenon
  <2> QED
    BY <2>4, <2>5
<1>2. Stored(s) \in SUBSET Nat
  BY <1>1
<1>3. IsFiniteSet(1 .. Len(rows))
  BY <1>1, FS_Interval
<1>4. IsFiniteSet(Stored(s))
  BY <1>1, <1>3, FS_Subset
<1> QED
  BY <1>2, <1>4

LEMMA EmptyWhole == ASSUME NEW table PROVE WholeIn(<<>>, table)
<1>1. Len(<<>>) = 0 /\ 0 \in 0 .. 0 /\ 2 * 0 = 0 /\ 1 .. 0 = {}
  OBVIOUS
<1> QED
  BY <1>1 DEF WholeIn

LEMMA SerialInit == Init => SerialInv
<1> SUFFICES ASSUME Init PROVE SerialInv
  OBVIOUS
<1>1. IInv
  BY InitInv
<1>2. OneAtATime
  BY DEF Init, OneAtATime, InFlight
<1>3. HistoriesWhole /\ MineNewest
  BY EmptyWhole DEF Init, HistoriesWhole, MineNewest
<1>4. \A s : Listing(<<>>, Stored(s))
  BY DEF Init, Listing, Stored, Increasing
<1>5. StoredWhole
  BY <1>4, EmptyWhole DEF Init, StoredWhole
<1> QED
  BY <1>1, <1>2, <1>3, <1>5 DEF SerialInv

\* Rows are only added, so what is whole stays so.
LEMMA WholeStays ==
    ASSUME NEW m \in Nat, NEW h \in Seq(1 .. m), NEW old, NEW new,
           \A i \in 1 .. m : new[i] = old[i], WholeIn(h, old)
    PROVE  WholeIn(h, new)
<1>1. PICK a \in Nat : Len(h) = 2 * a /\ \A k \in 1 .. a : RoundIn(h, k, old)
  BY WholeHalf
<1>2. ASSUME NEW k \in 1 .. a
      PROVE  RoundIn(h, k, new)
  <2>1. 2 * k - 1 \in 1 .. Len(h) /\ 2 * k \in 1 .. Len(h)
    BY <1>1
  <2>2. h[2 * k - 1] \in 1 .. m /\ h[2 * k] \in 1 .. m
    BY <2>1
  <2>3. RoundIn(h, k, old)
    BY <1>1
  <2> QED
    BY <2>2, <2>3 DEF RoundIn
<1> QED
  BY <1>1, <1>2, WholeIntro

\* The steps that store nothing.
LEMMA SerialKeep ==
    ASSUME SerialInv, UNCHANGED <<rows, committed, mine>>,
           \A s \in Sessions : \/ cache'[s] \in {NoHistory, cache[s]}
                               \/ WholeIn(cache'[s], rows),
           \A r \in Requests : hist'[r] = hist[r] \/ WholeIn(hist'[r], rows),
           \A r \in Requests : pc'[r] \in {"insertReply", "commit"} =>
              pc'[r] = pc[r] /\ session'[r] = session[r]
    PROVE  StoredWhole' /\ HistoriesWhole' /\ MineNewest'
<1>1. \A s : Stored(s)' = Stored(s)
  BY DEF Stored
<1>2. StoredWhole'
  BY <1>1 DEF SerialInv, StoredWhole
<1>3. HistoriesWhole'
  BY DEF SerialInv, HistoriesWhole
<1>4. MineNewest'
  BY <1>1 DEF SerialInv, MineNewest
<1> QED
  BY <1>2, <1>3, <1>4

\* The ids of a history are rows.
LEMMA HistoryIds ==
    ASSUME IInv
    PROVE  /\ \A s \in Sessions : cache[s] # NoHistory => cache[s] \in Seq(1 .. Len(rows))
           /\ \A r \in Requests : hist[r] \in Seq(1 .. Len(rows))
<1>1. ASSUME NEW h \in Seq(Nat), NEW s, StoredIn(h, s)
      PROVE  h \in Seq(1 .. Len(rows))
  <2>1. \A k \in 1 .. Len(h) : h[k] \in 1 .. Len(rows)
    BY <1>1 DEF StoredIn, Stored, IInv, TypeOK
  <2> QED
    BY <2>1
<1> QED
  BY <1>1 DEF IInv, TypeOK, CacheSound, HistorySound

\* An uncommitted row is appended.
LEMMA SerialInsert ==
    ASSUME SerialInv, NEW r \in Requests, InsertUser(r) \/ InsertReply(r)
    PROVE  StoredWhole' /\ HistoriesWhole' /\ MineNewest'
<1> DEFINE n == Len(rows)
<1>1. PICK role \in {"user", "assistant"} :
         /\ rows' = Append(rows, [session |-> session[r], req |-> r, role |-> role])
         /\ mine' = [mine EXCEPT ![r] = Append(@, n + 1)]
  BY DEF InsertUser, InsertReply, Insert
<1>2. /\ UNCHANGED <<session, committed, cache, hist>>
      /\ \/ pc[r] = "insertUser" /\ pc' = [pc EXCEPT ![r] = "insertReply"]
         \/ pc[r] = "insertReply" /\ pc' = [pc EXCEPT ![r] = "commit"]
  BY DEF InsertUser, InsertReply, Insert, At, Goto, requestVars
<1>3. /\ rows \in Seq(Message) /\ n \in Nat /\ committed \subseteq 1 .. n
      /\ mine \in [Requests -> Seq(Nat)] /\ pc \in [Requests -> Labels]
  BY DEF SerialInv, IInv, TypeOK
<1>4. \A i \in 1 .. n : rows'[i] = rows[i]
  BY <1>1, <1>3
<1>5. \A s : Stored(s)' = Stored(s)
  BY <1>2, <1>3, <1>4 DEF Stored
<1>6. \A h : h \in Seq(1 .. n) /\ WholeIn(h, rows) => WholeIn(h, rows')
  BY <1>3, <1>4, WholeStays
<1> HIDE DEF n
<1>7. StoredWhole'
  <2> SUFFICES ASSUME NEW s \in Sessions
               PROVE  \E f : Listing(f, Stored(s)) /\ WholeIn(f, rows')
    BY <1>5 DEF StoredWhole
  <2>1. PICK f : Listing(f, Stored(s)) /\ WholeIn(f, rows)
    BY DEF SerialInv, StoredWhole
  <2>2. Stored(s) \subseteq 1 .. n
    BY <1>3 DEF Stored
  <2>3. f \in Seq(1 .. n)
    BY <2>1, <2>2, SeqWiden DEF Listing
  <2> QED
    BY <1>6, <2>1, <2>3
<1>8. HistoriesWhole'
  <2>1. /\ \A s \in Sessions : cache[s] # NoHistory => cache[s] \in Seq(1 .. n)
        /\ \A q \in Requests : hist[q] \in Seq(1 .. n)
    BY HistoryIds DEF SerialInv, n
  <2> QED
    BY <1>2, <1>6, <2>1 DEF SerialInv, HistoriesWhole
<1>9. MineNewest'
  <2>1. ASSUME NEW q \in Requests, q # r
        PROVE  pc'[q] = pc[q] /\ mine'[q] = mine[q]
    BY <1>1, <1>2, <1>3, <2>1
  <2>2. ASSUME NEW i \in Stored(session[r]), NEW k \in 1 .. Len(mine'[r])
        PROVE  i < mine'[r][k]
    <3>1. /\ mine[r] \in Seq(Nat) /\ mine'[r] = Append(mine[r], n + 1)
          /\ i \in 1 .. n
      BY <1>1, <1>3 DEF Stored
    <3>2. /\ Len(mine'[r]) = Len(mine[r]) + 1 /\ mine'[r][Len(mine[r]) + 1] = n + 1
          /\ \A l \in 1 .. Len(mine[r]) : mine'[r][l] = mine[r][l]
      BY <1>3, <3>1
    <3>3. CASE k = Len(mine[r]) + 1
      BY <1>3, <3>1, <3>2, <3>3
    <3>4. CASE k \in 1 .. Len(mine[r])
      <4>1. pc[r] = "insertReply"
        <5>1. pc[r] = "insertUser" => Len(mine[r]) = 0
          BY DEF SerialInv, IInv, Progress, HandlerProgress
        <5> QED
          BY <1>2, <3>4, <5>1
      <4> QED
        BY <3>2, <3>4, <4>1 DEF SerialInv, MineNewest
    <3> QED
      BY <3>1, <3>2, <3>3, <3>4
  <2> QED
    BY <1>2, <1>5, <2>1, <2>2 DEF SerialInv, MineNewest
<1> QED
  BY <1>7, <1>8, <1>9

\* What Commit does: the exchange of r, newer than all its session stores, is
\* stored; other sessions are as before.
LEMMA CommitFacts ==
    ASSUME SerialInv, NEW r \in Requests, Commit(r)
    PROVE  LET u == mine[r][1]
               a == mine[r][2]
           IN  /\ pc[r] = "commit" /\ session[r] \in Sessions
               /\ mine[r] \in Seq(Nat) /\ Len(mine[r]) = 2
               /\ u \in Nat /\ a \in Nat /\ u < a
               /\ \A i \in Stored(session[r]) : i < u /\ i < a
               /\ Stored(session[r])' = Stored(session[r]) \cup {u, a}
               /\ \A s : s # session[r] => Stored(s)' = Stored(s)
               /\ UNCHANGED <<user, session, rows, cache, maxRounds, hist, mine>>
               /\ pc' \in [Requests -> Labels] /\ pc'[r] \in {"save", "failed"}
               /\ \A q \in Requests : q # r => pc'[q] = pc[q]
<1> DEFINE u == mine[r][1]
           a == mine[r][2]
<1>1. /\ pc[r] = "commit" /\ committed' = committed \cup {u, a}
      /\ UNCHANGED <<user, session, rows, cache, maxRounds, hist, mine>>
  BY DEF Commit, At, Goto, requestVars
<1>2. session[r] \in Sessions
  BY <1>1 DEF SerialInv, IInv, OwnSession
<1>3. mine[r] \in Seq(Nat) /\ Len(mine[r]) = 2 /\ u < a
  BY <1>1 DEF SerialInv, IInv, TypeOK, Progress, HandlerProgress
<1>4. 1 \in 1 .. Len(mine[r]) /\ 2 \in 1 .. Len(mine[r])
  BY <1>3
<1>5. u \in Nat /\ a \in Nat
  BY <1>3, <1>4
<1>6. rows[u].session = session[r] /\ rows[a].session = session[r]
  BY <1>4, OwnRow DEF SerialInv
<1>7. \A i \in Stored(session[r]) : i < u /\ i < a
  BY <1>1, <1>4 DEF SerialInv, MineNewest
<1> HIDE DEF u, a
<1>8. Stored(session[r])' = Stored(session[r]) \cup {u, a}
  BY <1>1, <1>6 DEF Stored
<1>9. \A s : s # session[r] => Stored(s)' = Stored(s)
  BY <1>1, <1>6 DEF Stored
<1>10. /\ pc' \in [Requests -> Labels] /\ pc'[r] \in {"save", "failed"}
       /\ \A q \in Requests : q # r => pc'[q] = pc[q]
  <2>1. pc \in [Requests -> Labels]
    BY DEF SerialInv, IInv, TypeOK
  <2> QED
    BY <2>1 DEF Commit, Goto, Labels, Ended
<1> QED
  BY <1>1, <1>2, <1>3, <1>5, <1>7, <1>8, <1>9, <1>10 DEF u, a

\* Two new rows at the end of a list.
LEMMA AppendTwo ==
    ASSUME NEW S \in SUBSET Nat, NEW h \in Seq(S), Increasing(h),
           NEW m \in Seq(Nat), Len(m) = 2, m[1] < m[2],
           \A i \in S : i < m[1] /\ i < m[2]
    PROVE  LET new == h \o m
           IN  /\ new \in Seq(S \cup {m[1], m[2]}) /\ Increasing(new)
               /\ Len(h) \in Nat /\ Len(new) = Len(h) + 2
               /\ \A k \in 1 .. Len(h) : new[k] = h[k]
               /\ new[Len(h) + 1] = m[1] /\ new[Len(h) + 2] = m[2]
<1> DEFINE new == h \o m
<1>1. h \in Seq(Nat) /\ Len(h) \in Nat /\ \A k \in 1 .. Len(h) : h[k] \in S /\ h[k] \in Nat
  <2>1. h \in Seq(Nat)
    BY SeqWiden
  <2>2. \A k \in 1 .. Len(h) : h[k] \in S
    OBVIOUS
  <2> QED
    BY <2>1, <2>2
<1>2. m[1] \in Nat /\ m[2] \in Nat
  <2>1. 1 \in 1 .. Len(m) /\ 2 \in 1 .. Len(m)
    OBVIOUS
  <2> QED
    BY <2>1
<1>3. /\ Len(new) = Len(h) + Len(m)
      /\ \A k \in 1 .. Len(h) + Len(m) :
            new[k] = IF k <= Len(h) THEN h[k] ELSE m[k - Len(h)]
  BY <1>1, Joined
<1>4. new \in Seq(Nat)
  BY <1>1
<1> HIDE DEF new
<1>5. /\ Len(new) = Len(h) + 2
      /\ \A k \in 1 .. Len(h) : new[k] = h[k]
      /\ new[Len(h) + 1] = m[1] /\ new[Len(h) + 2] = m[2]
  <2>1. /\ Len(h) + 1 - Len(h) = 1 /\ Len(h) + 1 \in 1 .. Len(h) + Len(m)
        /\ Len(h) + 2 - Len(h) = 2 /\ Len(h) + 2 \in 1 .. Len(h) + Len(m)
        /\ ~(Len(h) + 1 <= Len(h)) /\ ~(Len(h) + 2 <= Len(h))
    BY <1>1
  <2>2. new[Len(h) + 1] = m[1]
    BY <1>3, <2>1
  <2>3. new[Len(h) + 2] = m[2]
    BY <1>3, <2>1
  <2>4. \A k \in 1 .. Len(h) : k \in 1 .. Len(h) + Len(m) /\ k <= Len(h)
    BY <1>1
  <2>5. \A k \in 1 .. Len(h) : new[k] = h[k]
    BY <1>3, <2>4
  <2>6. Len(new) = Len(h) + 2
    BY <1>3
  <2> QED
    BY <2>2, <2>3, <2>5, <2>6
<1>6. ASSUME NEW k \in 1 .. Len(new)
      PROVE  k \in 1 .. Len(h) \/ k = Len(h) + 1 \/ k = Len(h) + 2
  BY <1>1, <1>5
<1>7. \A k \in 1 .. Len(new) : new[k] \in S \cup {m[1], m[2]}
  BY <1>1, <1>5, <1>6
<1>8. new \in Seq(S \cup {m[1], m[2]})
  <2> DEFINE T == S \cup {m[1], m[2]}
  <2>1. \A k \in 1 .. Len(new) : new[k] \in T
    BY <1>7
  <2> HIDE DEF T
  <2>2. new \in Seq(T)
    BY <1>4, <2>1, SeqOf
  <2> QED
    BY <2>2 DEF T
<1>9. Increasing(new)
  <2> SUFFICES ASSUME NEW i \in 1 .. Len(new), NEW j \in 1 .. Len(new), i < j
               PROVE  new[i] < new[j]
    BY DEF Increasing
  <2>1. CASE j \in 1 .. Len(h)
    <3>1. i \in 1 .. Len(h)
      BY <1>1, <2>1
    <3> QED
      BY <1>5, <2>1, <3>1 DEF Increasing
  <2>2. CASE j \notin 1 .. Len(h) /\ i \in 1 .. Len(h)
    <3>1. new[j] \in {m[1], m[2]}
      BY <1>5, <1>6, <2>2
    <3>2. new[i] \in S
      BY <1>1, <1>5, <2>2
    <3> QED
      BY <3>1, <3>2
  <2>3. CASE i \notin 1 .. Len(h)
    <3>1. i = Len(h) + 1 /\ j = Len(h) + 2
      BY <1>1, <1>6, <2>3
    <3> QED
      BY <1>5, <3>1
  <2> QED
    BY <2>1, <2>2, <2>3
<1> QED
  BY <1>1, <1>5, <1>8, <1>9 DEF new

LEMMA SerialCommit ==
    ASSUME SerialInv, NEW r \in Requests, Commit(r)
    PROVE  StoredWhole' /\ HistoriesWhole' /\ MineNewest'
<1> DEFINE u == mine[r][1]
           a == mine[r][2]
           s == session[r]
<1>1. /\ pc[r] = "commit" /\ s \in Sessions
      /\ mine[r] \in Seq(Nat) /\ Len(mine[r]) = 2
      /\ u \in Nat /\ a \in Nat /\ u < a
      /\ \A i \in Stored(s) : i < u /\ i < a
      /\ Stored(s)' = Stored(s) \cup {u, a}
      /\ \A t : t # s => Stored(t)' = Stored(t)
      /\ UNCHANGED <<user, session, rows, cache, maxRounds, hist, mine>>
      /\ pc'[r] \in {"save", "failed"} /\ \A q \in Requests : q # r => pc'[q] = pc[q]
  BY CommitFacts
<1>2. HistoriesWhole'
  BY <1>1 DEF SerialInv, HistoriesWhole
<1>3. ASSUME NEW t \in Sessions
      PROVE  \E f : Listing(f, Stored(t)') /\ WholeIn(f, rows)
  <2>1. PICK f : Listing(f, Stored(t)) /\ WholeIn(f, rows)
    BY DEF SerialInv, StoredWhole
  <2>2. CASE t # s
    BY <1>1, <2>1, <2>2
  <2>3. CASE t = s
    <3> DEFINE S == Stored(s)
               new == f \o mine[r]
    <3>1. S \in SUBSET Nat /\ f \in Seq(S) /\ Increasing(f)
      BY <2>1, <2>3, StoredIds DEF SerialInv, IInv, Listing
    <3>2. \A i \in S : \E k \in 1 .. Len(f) : f[k] = i
      BY <2>1, <2>3 DEF Listing
    <3>3. \A i \in S : i < mine[r][1] /\ i < mine[r][2]
      BY <1>1
    <3> HIDE DEF S
    <3>4. /\ new \in Seq(S \cup {u, a}) /\ Increasing(new)
          /\ Len(f) \in Nat /\ Len(new) = Len(f) + 2
          /\ \A k \in 1 .. Len(f) : new[k] = f[k]
          /\ new[Len(f) + 1] = u /\ new[Len(f) + 2] = a
      BY <1>1, <3>1, <3>3, AppendTwo
    <3>5. WholeIn(new, rows)
      <4>1. f \in Seq(Nat)
        BY <3>1, SeqWiden
      <4>2. 1 \in 1 .. Len(mine[r]) /\ 2 \in 1 .. Len(mine[r])
        BY <1>1
      <4>3. /\ rows[mine[r][1]].req = r /\ rows[mine[r][2]].req = r
            /\ rows[mine[r][1]].role = "user" /\ rows[mine[r][2]].role = "assistant"
        BY <4>2, OwnRow DEF SerialInv, RowRole
      <4> QED
        BY <1>1, <2>1, <4>1, <4>3, AppendWhole
    <3> HIDE DEF new, u, a
    <3>6. \A i \in S \cup {u, a} : \E k \in 1 .. Len(new) : new[k] = i
      <4> SUFFICES ASSUME NEW i \in S \cup {u, a} PROVE \E k \in 1 .. Len(new) : new[k] = i
        OBVIOUS
      <4>1. Len(f) + 1 \in 1 .. Len(new) /\ Len(f) + 2 \in 1 .. Len(new)
        BY <3>4
      <4>2. CASE i \in S
        <5>1. PICK k \in 1 .. Len(f) : f[k] = i
          BY <3>2, <4>2
        <5>2. k \in 1 .. Len(new) /\ new[k] = i
          BY <3>4, <5>1
        <5> QED
          BY <5>2
      <4> QED
        BY <3>4, <4>1, <4>2
    <3>7. Listing(new, S \cup {u, a})
      BY <3>4, <3>6 DEF Listing
    <3>8. Stored(t)' = S \cup {u, a}
      BY <1>1, <2>3 DEF S, u, a
    <3> QED
      BY <3>5, <3>7, <3>8
  <2> QED
    BY <2>2, <2>3
<1>4. StoredWhole'
  BY <1>1, <1>3 DEF StoredWhole
<1>5. MineNewest'
  <2> SUFFICES ASSUME NEW q \in Requests, pc'[q] \in {"insertReply", "commit"}
               PROVE  \A i \in Stored(session[q])', k \in 1 .. Len(mine[q]) : i < mine[q][k]
    BY <1>1 DEF MineNewest
  <2>1. q # r /\ pc[q] \in {"insertReply", "commit"}
    BY <1>1
  <2>2. session[q] # session[r]
    BY <1>1, <2>1, SentinelAssumption DEF SerialInv, OneAtATime, InFlight, Ended
  <2>3. Stored(session[q])' = Stored(session[q])
    BY <1>1, <2>2
  <2> QED
    BY <2>1, <2>3 DEF SerialInv, MineNewest
<1> QED
  BY <1>2, <1>4, <1>5

\* A history is loaded: from Redis, or with the newest rows of MySQL.
LEMMA LoadWhole ==
    ASSUME SerialInv, NEW r \in Requests, ReadCacheHit(r) \/ ReadDb(r)
    PROVE  WholeIn(hist'[r], rows)
<1>1. hist \in [Requests -> Seq(Nat)] /\ session[r] \in Sessions
  BY DEF SerialInv, IInv, TypeOK, OwnSession, ReadCacheHit, ReadDb, At
<1>2. CASE ReadCacheHit(r)
  BY <1>1, <1>2 DEF ReadCacheHit, SerialInv, HistoriesWhole
<1>3. CASE ReadDb(r)
  <2> DEFINE S == Stored(session[r])
  <2>1. PICK h \in Recent(S, Limit) : hist' = [hist EXCEPT ![r] = h]
    BY <1>3 DEF ReadDb
  <2>2. S \in SUBSET Nat /\ IsFiniteSet(S)
    BY StoredIds DEF SerialInv, IInv
  <2>3. PICK f : Listing(f, S) /\ WholeIn(f, rows)
    BY <1>1 DEF SerialInv, StoredWhole
  <2>4. PICK b \in Nat : Limit = 2 * b
    BY EvenLimit DEF SerialInv, IInv
  <2> HIDE DEF S
  <2>5. Newest(h, S, 2 * b)
    BY <2>1, <2>2, <2>4, RecentNewest
  <2>6. WholeIn(h, rows)
    BY <2>2, <2>3, <2>5, NewestWhole
  <2> QED
    BY <1>1, <2>1, <2>6
<1> QED
  BY <1>2, <1>3

\* The history of a handler with its own round appended, and trimmed.
LEMMA SavedWhole ==
    ASSUME SerialInv, NEW r \in Requests, SaveHistory(r)
    PROVE  WholeIn(Trim(hist[r] \o mine[r]), rows)
<1>1. /\ hist[r] \in Seq(Nat) /\ mine[r] \in Seq(Nat) /\ Len(mine[r]) = 2
      /\ WholeIn(hist[r], rows) /\ TypeOK
  BY DEF SerialInv, IInv, TypeOK, Progress, HandlerProgress, SaveHistory, At, HistoriesWhole
<1>2. 1 \in 1 .. Len(mine[r]) /\ 2 \in 1 .. Len(mine[r])
  BY <1>1
<1>3. /\ rows[mine[r][1]].req = r /\ rows[mine[r][2]].req = r
      /\ rows[mine[r][1]].role = "user" /\ rows[mine[r][2]].role = "assistant"
  BY <1>2, OwnRow DEF SerialInv, RowRole
<1>4. WholeIn(hist[r] \o mine[r], rows)
  BY <1>1, <1>3, AppendWhole
<1>5. hist[r] \o mine[r] \in Seq(Nat)
  BY <1>1
<1> QED
  BY <1>1, <1>4, <1>5, TrimWhole

LEMMA SerialStep ==
    ASSUME SerialInv, Next
    PROVE  StoredWhole' /\ HistoriesWhole' /\ MineNewest'
<1>0. /\ pc \in [Requests -> Labels] /\ hist \in [Requests -> Seq(Nat)]
      /\ session \in [Requests -> Sessions \cup {NewSession}]
      /\ DOMAIN cache = Sessions
  BY DEF SerialInv, IInv, TypeOK
<1>1. ASSUME NEW r \in Requests, Client(r)
      PROVE  StoredWhole' /\ HistoriesWhole' /\ MineNewest'
  <2>1. /\ UNCHANGED <<rows, committed, mine, cache, hist>>
        /\ \E label \in {"resolve", "failed"} : pc' = [pc EXCEPT ![r] = label]
        /\ \A q \in Requests : q # r => session'[q] = session[q]
    BY <1>0, <1>1 DEF Client, Send, Refuse, Goto, tables, requestVars
  <2>2. \A q \in Requests : pc'[q] \in {"insertReply", "commit"} =>
           pc'[q] = pc[q] /\ session'[q] = session[q]
    BY <1>0, <2>1
  <2> QED
    BY <2>1, <2>2, SerialKeep
<1>2. ASSUME NEW r \in Requests,
             \/ FindConversation(r) \/ CreateConversation(r) \/ CreateFails(r)
             \/ ReadCacheMiss(r) \/ SearchDocs(r) \/ CallModel(r) \/ FailStep(r)
      PROVE  StoredWhole' /\ HistoriesWhole' /\ MineNewest'
  <2>1. /\ UNCHANGED <<rows, committed, mine, cache, hist>>
        /\ \E label \in {"readCache", "readDb", "model", "insertUser", "failed"} :
              pc' = [pc EXCEPT ![r] = label]
    BY <1>2 DEF FindConversation, CreateConversation, CreateFails, ReadCacheMiss,
                SearchDocs, CallModel, FailStep, Goto, tables
  <2>2. \A q \in Requests : q # r => session'[q] = session[q]
    BY <1>0, <1>2 DEF FindConversation, CreateConversation, CreateFails, ReadCacheMiss,
                SearchDocs, CallModel, FailStep, requestVars
  <2>3. \A q \in Requests : pc'[q] \in {"insertReply", "commit"} =>
           pc'[q] = pc[q] /\ session'[q] = session[q]
    BY <1>0, <2>1, <2>2
  <2> QED
    BY <2>1, <2>3, SerialKeep
<1>3. ASSUME NEW r \in Requests, ReadCacheHit(r) \/ ReadDb(r)
      PROVE  StoredWhole' /\ HistoriesWhole' /\ MineNewest'
  <2>1. /\ UNCHANGED <<rows, committed, mine, cache, session>>
        /\ \E label \in {"search", "refill"} : pc' = [pc EXCEPT ![r] = label]
        /\ \A q \in Requests : q # r => hist'[q] = hist[q]
    BY <1>0, <1>3 DEF ReadCacheHit, ReadDb, Goto, tables, requestVars
  <2>2. \A q \in Requests : pc'[q] \in {"insertReply", "commit"} =>
           pc'[q] = pc[q] /\ session'[q] = session[q]
    BY <1>0, <2>1
  <2>3. \A q \in Requests : hist'[q] = hist[q] \/ WholeIn(hist'[q], rows)
    BY <1>3, <2>1, LoadWhole
  <2> QED
    BY <2>1, <2>2, <2>3, SerialKeep
<1>4. ASSUME NEW r \in Requests, Refill(r) \/ SaveHistory(r)
      PROVE  StoredWhole' /\ HistoriesWhole' /\ MineNewest'
  <2>1. /\ UNCHANGED <<rows, committed, mine, hist, session>>
        /\ \E label \in {"search", "replied"} : pc' = [pc EXCEPT ![r] = label]
    BY <1>4 DEF Refill, SaveHistory, Goto, tables, requestVars
  <2>2. \A q \in Requests : pc'[q] \in {"insertReply", "commit"} =>
           pc'[q] = pc[q] /\ session'[q] = session[q]
    BY <1>0, <2>1
  <2>3. \E h : WholeIn(h, rows) /\ (cache' = cache \/ cache' = [cache EXCEPT ![session[r]] = h])
    <3>1. WholeIn(hist[r], rows)
      BY DEF SerialInv, HistoriesWhole
    <3> QED
      BY <1>4, <3>1, SavedWhole DEF Refill, SaveHistory, Setex
  <2>4. \A s \in Sessions : cache'[s] \in {NoHistory, cache[s]} \/ WholeIn(cache'[s], rows)
    BY <1>0, <2>3
  <2> QED
    BY <2>1, <2>2, <2>4, SerialKeep
<1>5. ASSUME NEW r \in Requests, Handler(r)
      PROVE  StoredWhole' /\ HistoriesWhole' /\ MineNewest'
  BY <1>2, <1>3, <1>4, <1>5, SerialInsert, SerialCommit DEF Handler
<1>6. ASSUME NEW r \in Requests, Deadline(r)
      PROVE  StoredWhole' /\ HistoriesWhole' /\ MineNewest'
  <2>1. UNCHANGED <<rows, committed, mine, hist, session, cache, pc>>
    BY <1>6 DEF Deadline, tables
  <2> QED
    BY <2>1, SerialKeep
<1>7. ASSUME NEW s \in Sessions, Expire(s)
      PROVE  StoredWhole' /\ HistoriesWhole' /\ MineNewest'
  <2>1. /\ UNCHANGED <<rows, committed, mine, hist, session, pc>>
        /\ cache' = [cache EXCEPT ![s] = NoHistory]
    BY <1>7 DEF Expire, tables, requestVars
  <2>2. \A t \in Sessions : cache'[t] \in {NoHistory, cache[t]}
    BY <1>0, <2>1
  <2> QED
    BY <2>1, <2>2, SerialKeep
<1>8. ASSUME Crash \/ Redeploy
      PROVE  StoredWhole' /\ HistoriesWhole' /\ MineNewest'
  <2>1. /\ UNCHANGED <<rows, committed, mine, hist, session, cache>>
        /\ \A q \in Requests : pc'[q] \in {pc[q], "failed"}
    BY <1>8 DEF Crash, Redeploy, tables, requestVars
  <2>2. \A q \in Requests : pc'[q] \in {"insertReply", "commit"} =>
           pc'[q] = pc[q] /\ session'[q] = session[q]
    BY <2>1
  <2> QED
    BY <2>1, <2>2, SerialKeep
<1> QED
  BY <1>1, <1>5, <1>6, <1>7, <1>8 DEF Next

LEMMA SerialNextInv == SerialInv /\ [SerialNext]_vars => SerialInv'
<1> SUFFICES ASSUME SerialInv, [SerialNext]_vars PROVE SerialInv'
  OBVIOUS
<1>1. CASE SerialNext
  <2>1. IInv'
    BY <1>1, NextInv DEF SerialNext, SerialInv
  <2> QED
    BY <1>1, <2>1, SerialStep DEF SerialNext, SerialInv
<1>2. CASE UNCHANGED vars
  <2>1. IInv'
    BY <1>2, NextInv DEF SerialInv
  <2>2. OneAtATime'
    BY <1>2 DEF vars, SerialInv, OneAtATime, InFlight
  <2>3. UNCHANGED <<rows, committed, mine, hist, session, cache, pc>>
    BY <1>2 DEF vars
  <2>4. StoredWhole' /\ HistoriesWhole' /\ MineNewest'
    BY <2>3, SerialKeep
  <2> QED
    BY <2>1, <2>2, <2>4 DEF SerialInv
<1> QED
  BY <1>1, <1>2

THEOREM SerialInvariance == SerialSpec => []SerialInv
  BY SerialInit, SerialNextInv, PTL DEF SerialSpec

\* Clients that wait for the end of a request see the model given whole rounds
\* only, whatever fails: no question without its answer and no answer without
\* its question (getHistory, InsertExchange, trimHistory).
THEOREM RoundsWhole == SerialSpec => []WholeRounds
<1>1. SerialInv => WholeRounds
  <2> SUFFICES ASSUME SerialInv, NEW r \in Requests PROVE Whole(hist[r])
    BY DEF WholeRounds
  <2>1. WholeIn(hist[r], rows)
    BY DEF SerialInv, HistoriesWhole
  <2> QED
    BY <2>1 DEF Whole, WholeIn, RoundIn
<1> QED
  BY <1>1, SerialInvariance, PTL

-----------------------------------------------------------------------------
(* The cache agrees with MySQL: how lists of the newest rows grow.         *)

\* A number of messages between the limits of two deployments.
Between(n) == \E low, high \in Rounds : n \in LimitOf(low) .. LimitOf(high)

Fresh(h, S) == \E n : Between(n) /\ Newest(h, S, n)

LEMMA BetweenNat == ASSUME NEW n, Between(n) PROVE n \in Nat
<1>1. \A d \in Rounds : LimitOf(d) \in Nat
  <2>1. \A d \in Int : LimitOf(d) \in Nat
    BY DEF LimitOf
  <2> QED
    BY <2>1, ConfigAssumption
<1> QED
  BY <1>1 DEF Between

\* The limit in force is between the limits there have been, and so is what is
\* between a former limit and it.
LEMMA UpToLimit ==
    ASSUME TypeOK, NEW n, Between(n), NEW p \in Nat, n <= p, p <= Limit
    PROVE  Between(p)
<1>1. PICK low \in Rounds, high \in Rounds : n \in LimitOf(low) .. LimitOf(high)
  BY DEF Between
<1>2. LimitOf(low) \in Nat /\ n \in Nat
  <2>1. \A d \in Int : LimitOf(d) \in Nat
    BY DEF LimitOf
  <2> QED
    BY <1>1, <2>1, ConfigAssumption
<1>3. maxRounds \in Rounds /\ Limit \in Nat /\ Limit = LimitOf(maxRounds)
  BY LimitNat DEF TypeOK, Limit
<1>4. p \in LimitOf(low) .. LimitOf(maxRounds)
  BY <1>1, <1>2, <1>3
<1> QED
  BY <1>3, <1>4 DEF Between

LEMMA LimitBetween == ASSUME TypeOK PROVE Limit \in Nat /\ Between(Limit)
<1>1. maxRounds \in Rounds /\ Limit \in Nat /\ Limit = LimitOf(maxRounds)
  BY LimitNat DEF TypeOK, Limit
<1>2. Limit \in LimitOf(maxRounds) .. LimitOf(maxRounds)
  BY <1>1
<1> QED
  BY <1>1, <1>2 DEF Between

LEMMA Element == ASSUME NEW S, NEW h \in Seq(S), NEW k \in 1 .. Len(h) PROVE h[k] \in S
  OBVIOUS

\* The rows of m come after all of S.
NextRound(m, S) ==
    m \in Seq(Nat) /\ Len(m) = 2 /\ m[1] < m[2] /\ \A i \in S : i < m[1] /\ i < m[2]

With(S, m) == S \cup {m[1], m[2]}

LEMMA WithNat == ASSUME NEW S \in SUBSET Nat, NEW m, NextRound(m, S)
                 PROVE  With(S, m) \in SUBSET Nat
<1>1. m \in Seq(Nat) /\ 1 \in 1 .. Len(m) /\ 2 \in 1 .. Len(m)
  BY DEF NextRound
<1>2. m[1] \in Nat /\ m[2] \in Nat
  BY <1>1, Element
<1> QED
  BY <1>2 DEF With

\* h is followed by a round in new, which lists the newest rows of T; if h lists
\* fewer than n, new lists all.
Longer(h, new, T, n) ==
    /\ Newest(new, T, n + 2)
    /\ new \in Seq(Nat) /\ Len(h) \in Nat /\ Len(new) = Len(h) + 2
    /\ Len(h) # n => \A i \in T : \E k \in 1 .. Len(new) : new[k] = i

\* Two rows newer than all are stored, and appended to a list of the newest.
LEMMA NewestAppend ==
    ASSUME NEW S \in SUBSET Nat, NEW n \in Nat, NEW h, Newest(h, S, n),
           NEW m, NextRound(m, S)
    PROVE  Longer(h, h \o m, With(S, m), n)
<1> DEFINE T == With(S, m)
           new == h \o m
<1>1. h \in Seq(S) /\ Increasing(h) /\ Len(h) <= n
  BY DEF Newest
<1>2. /\ new \in Seq(T) /\ Increasing(new)
      /\ Len(h) \in Nat /\ Len(new) = Len(h) + 2
      /\ \A k \in 1 .. Len(h) : new[k] = h[k]
      /\ new[Len(h) + 1] = m[1] /\ new[Len(h) + 2] = m[2]
  BY <1>1, AppendTwo DEF NextRound, With
<1>3. T \subseteq Nat
  BY WithNat
<1>4. Len(h) + 1 \in 1 .. Len(new) /\ Len(h) + 2 \in 1 .. Len(new)
  BY <1>2
<1>5. \A k \in 1 .. Len(h) : k \in 1 .. Len(new)
  BY <1>2
<1>6. ASSUME NEW i \in T
      PROVE  \/ \E k \in 1 .. Len(new) : new[k] = i
             \/ i \in S /\ Len(h) = n /\ \A k \in 1 .. Len(h) : i < h[k]
  <2>1. CASE i \in S
    <3>1. \/ \E k \in 1 .. Len(h) : h[k] = i
          \/ Len(h) = n /\ \A k \in 1 .. Len(h) : i < h[k]
      BY <2>1 DEF Newest
    <3> QED
      BY <1>2, <1>5, <2>1, <3>1
  <2>2. CASE i \in {m[1], m[2]}
    BY <1>2, <1>4, <2>2
  <2> QED
    BY <2>1, <2>2 DEF With
<1>7. ASSUME NEW i \in S, \A k \in 1 .. Len(h) : i < h[k], NEW k \in 1 .. Len(new)
      PROVE  i < new[k]
  <2>1. k \in 1 .. Len(h) \/ k = Len(h) + 1 \/ k = Len(h) + 2
    BY <1>2
  <2> QED
    BY <1>2, <1>7, <2>1 DEF NextRound
<1> HIDE DEF new, T
<1>8. Newest(new, T, n + 2)
  <2>1. Len(new) <= n + 2 /\ (Len(h) = n => Len(new) = n + 2)
    BY <1>1, <1>2
  <2> QED
    BY <1>2, <1>6, <1>7, <2>1 DEF Newest
<1>9. new \in Seq(Nat)
  BY <1>2, <1>3, SeqWiden
<1> QED
  BY <1>2, <1>6, <1>8, <1>9 DEF new, T, Longer

\* The end of a list of the newest rows is one.
LEMMA NewestSuffix ==
    ASSUME NEW S \in SUBSET Nat, NEW n \in Nat, NEW g, Newest(g, S, n),
           NEW p \in Nat, p <= Len(g)
    PROVE  Newest(SubSeq(g, Len(g) - p + 1, Len(g)), S, p)
<1> DEFINE t == SubSeq(g, Len(g) - p + 1, Len(g))
           d == Len(g) - p
<1>1. /\ g \in Seq(S) /\ Increasing(g) /\ Len(g) \in Nat
      /\ \A k \in 1 .. Len(g) : g[k] \in S
  BY DEF Newest
<1>2. d \in Nat /\ Len(g) = d + p
  BY <1>1
<1>3. Len(t) = p /\ \A k \in 1 .. p : t[k] = g[k + d]
  BY <1>1, <1>2
<1>4. t \in Seq(S)
  BY <1>1, <1>2
<1> HIDE DEF t, d
<1>5. Increasing(t)
  <2> SUFFICES ASSUME NEW i \in 1 .. p, NEW j \in 1 .. p, i < j PROVE t[i] < t[j]
    BY <1>3 DEF Increasing
  <2>1. i + d \in 1 .. Len(g) /\ j + d \in 1 .. Len(g) /\ i + d < j + d
    BY <1>2
  <2> QED
    BY <1>1, <1>3, <2>1 DEF Increasing
<1>6. ASSUME NEW i \in S
      PROVE  (\E k \in 1 .. p : t[k] = i) \/ \A k \in 1 .. p : i < t[k]
  <2>1. CASE \E k \in 1 .. Len(g) : g[k] = i
    <3>1. PICK k \in 1 .. Len(g) : g[k] = i
      BY <2>1
    <3>2. CASE k > d
      <4>1. k - d \in 1 .. p /\ (k - d) + d = k
        BY <1>2, <3>2
      <4> QED
        BY <1>3, <3>1, <4>1
    <3>3. CASE ~(k > d)
      <4>1. \A l \in 1 .. p : l + d \in 1 .. Len(g) /\ k < l + d
        BY <1>2, <3>3
      <4> QED
        BY <1>1, <1>3, <3>1, <4>1 DEF Increasing
    <3> QED
      BY <3>2, <3>3
  <2>2. CASE \A k \in 1 .. Len(g) : i < g[k]
    <3>1. \A l \in 1 .. p : l + d \in 1 .. Len(g)
      BY <1>2
    <3> QED
      BY <1>3, <2>2, <3>1
  <2> QED
    BY <2>1, <2>2 DEF Newest
<1>7. Newest(t, S, p)
  BY <1>3, <1>4, <1>5, <1>6 DEF Newest
<1> QED
  BY <1>7 DEF t

\* What saveHistory writes agrees with what is then stored.
LEMMA SavedFresh ==
    ASSUME TypeOK, NEW S \in SUBSET Nat, NEW h, Fresh(h, S), NEW m, NextRound(m, S)
    PROVE  Fresh(Trim(h \o m), With(S, m))
<1>1. PICK n : Between(n) /\ Newest(h, S, n)
  BY DEF Fresh
<1>2. n \in Nat
  BY <1>1, BetweenNat
<1> DEFINE T == With(S, m)
           new == h \o m
<1>3. Longer(h, new, T, n)
  BY <1>1, <1>2, NewestAppend, Zenon
<1>4. T \in SUBSET Nat
  BY WithNat
<1>5. Limit \in Nat /\ Between(Limit)
  BY LimitBetween
<1> HIDE DEF new, T
<1>6. CASE Len(new) <= Limit /\ Len(h) = n
  <2>1. n + 2 \in Nat /\ n <= n + 2 /\ n + 2 <= Limit
    BY <1>2, <1>3, <1>6 DEF Longer
  <2>2. Between(n + 2)
    BY <1>1, <2>1, UpToLimit
  <2> QED
    BY <1>3, <1>6, <2>2 DEF Trim, Fresh, Longer, new, T
<1>7. CASE Len(new) <= Limit /\ Len(h) # n
  <2>1. Newest(new, T, Limit)
    BY <1>3, <1>7 DEF Newest, Longer
  <2> QED
    BY <1>5, <1>7, <2>1 DEF Trim, Fresh, new, T
<1>8. CASE ~(Len(new) <= Limit)
  <2>1. Limit <= Len(new) /\ n + 2 \in Nat
    BY <1>2, <1>3, <1>5, <1>8 DEF Longer
  <2>2. Newest(SubSeq(new, Len(new) - Limit + 1, Len(new)), T, Limit)
    BY <1>3, <1>4, <1>5, <2>1, NewestSuffix DEF Longer
  <2> QED
    BY <1>5, <1>8, <2>2 DEF Trim, Fresh, new, T
<1> QED
  BY <1>6, <1>7, <1>8

-----------------------------------------------------------------------------
(* The cache agrees with MySQL: the invariant.                             *)

Reliable == Faults \cap {"redisSet", "lostAck", "crash"} = {}

\* Handlers that hold a loaded history and have stored nothing.
HoldsHistory == {"refill", "search", "model", "insertUser", "insertReply", "commit"}

\* A cached history lists the newest rows, unless a handler of its session has
\* stored its round and is about to write the cache.
CacheKept ==
    \A s \in Sessions : cache[s] # NoHistory =>
        \/ Fresh(cache[s], Stored(s))
        \/ \E r \in Requests : pc[r] = "save" /\ session[r] = s

LoadedFresh ==
    \A r \in Requests : pc[r] \in HoldsHistory => Fresh(hist[r], Stored(session[r]))

\* The round just stored comes after the rows the loaded history was taken from.
SavedNext ==
    \A r \in Requests : pc[r] = "save" =>
        \E S \in SUBSET Nat : /\ Fresh(hist[r], S) /\ NextRound(mine[r], S)
                              /\ Stored(session[r]) = With(S, mine[r])

FreshInv == SerialInv /\ CacheKept /\ LoadedFresh /\ SavedNext

LEMMA FreshInit == Init => FreshInv
  BY SerialInit DEF Init, FreshInv, CacheKept, LoadedFresh, SavedNext, HoldsHistory

\* The steps that store nothing.
LEMMA FreshKeep ==
    ASSUME FreshInv, \A s : Stored(s)' = Stored(s),
           \A s \in Sessions : \/ cache'[s] \in {NoHistory, cache[s]}
                               \/ Fresh(cache'[s], Stored(s)),
           \A r \in Requests :
              /\ pc[r] = "save" =>
                    /\ session'[r] = session[r]
                    /\ pc'[r] = "save" \/ Fresh(cache'[session[r]], Stored(session[r]))
              /\ pc'[r] = "save" => /\ pc[r] = "save" /\ hist'[r] = hist[r]
                                    /\ mine'[r] = mine[r]
              /\ pc'[r] \in HoldsHistory =>
                    /\ session'[r] = session[r]
                    /\ \/ pc[r] \in HoldsHistory /\ hist'[r] = hist[r]
                       \/ Fresh(hist'[r], Stored(session[r]))
    PROVE  CacheKept' /\ LoadedFresh' /\ SavedNext'
<1>1. CacheKept'
  <2> SUFFICES ASSUME NEW s \in Sessions, cache'[s] # NoHistory
               PROVE  \/ Fresh(cache'[s], Stored(s))
                      \/ \E r \in Requests : pc'[r] = "save" /\ session'[r] = s
    BY DEF CacheKept
  <2>1. CASE Fresh(cache'[s], Stored(s))
    BY <2>1
  <2>2. CASE cache'[s] = cache[s]
    BY <2>2 DEF FreshInv, CacheKept
  <2> QED
    BY <2>1, <2>2
<1>2. LoadedFresh'
  BY DEF FreshInv, LoadedFresh
<1>3. SavedNext'
  BY DEF FreshInv, SavedNext
<1> QED
  BY <1>1, <1>2, <1>3

\* A handler that reads the cache is alone in its session, so what it reads
\* lists the newest rows; so does what it reads from MySQL.
LEMMA FreshLoad ==
    ASSUME FreshInv, NEW r \in Requests, ReadCacheHit(r) \/ ReadDb(r)
    PROVE  Fresh(hist'[r], Stored(session[r]))
<1>1. hist \in [Requests -> Seq(Nat)] /\ session[r] \in Sessions
  BY DEF FreshInv, SerialInv, IInv, TypeOK, OwnSession, ReadCacheHit, ReadDb, At
<1>2. CASE ReadCacheHit(r)
  <2>1. /\ hist'[r] = cache[session[r]] /\ cache[session[r]] # NoHistory
        /\ pc[r] = "readCache"
    BY <1>1, <1>2 DEF ReadCacheHit, At
  <2>2. \A q \in Requests : ~(pc[q] = "save" /\ session[q] = session[r])
    <3> SUFFICES ASSUME NEW q \in Requests, pc[q] = "save", session[q] = session[r]
                 PROVE  FALSE
      OBVIOUS
    <3>1. q \in InFlight /\ r \in InFlight /\ q # r
      BY <2>1 DEF InFlight, Ended
    <3>2. session[q] # NewSession
      BY <1>1, SentinelAssumption
    <3> QED
      BY <3>1, <3>2 DEF FreshInv, SerialInv, OneAtATime
  <2> QED
    BY <1>1, <2>1, <2>2 DEF FreshInv, CacheKept
<1>3. CASE ReadDb(r)
  <2> DEFINE S == Stored(session[r])
  <2>1. PICK h \in Recent(S, Limit) : hist' = [hist EXCEPT ![r] = h]
    BY <1>3 DEF ReadDb
  <2>2. S \in SUBSET Nat /\ IsFiniteSet(S)
    BY StoredIds DEF FreshInv, SerialInv, IInv
  <2>3. Limit \in Nat /\ Between(Limit)
    BY LimitBetween DEF FreshInv, SerialInv, IInv
  <2> HIDE DEF S
  <2>4. Newest(h, S, Limit)
    BY <2>1, <2>2, <2>3, RecentNewest
  <2>5. Fresh(h, S)
    BY <2>3, <2>4 DEF Fresh
  <2> QED
    BY <1>1, <2>1, <2>5 DEF S
<1> QED
  BY <1>2, <1>3

\* saveHistory writes what lists the newest rows.
LEMMA FreshSave ==
    ASSUME FreshInv, NEW r \in Requests, SaveHistory(r)
    PROVE  Fresh(Trim(hist[r] \o mine[r]), Stored(session[r]))
<1>1. PICK S \in SUBSET Nat : /\ Fresh(hist[r], S) /\ NextRound(mine[r], S)
                              /\ Stored(session[r]) = With(S, mine[r])
  BY DEF FreshInv, SavedNext, SaveHistory, At
<1>2. TypeOK
  BY DEF FreshInv, SerialInv, IInv
<1> QED
  BY <1>1, <1>2, SavedFresh, Zenon

\* A round is stored.
LEMMA FreshCommit ==
    ASSUME Reliable, FreshInv, NEW r \in Requests, Commit(r)
    PROVE  CacheKept' /\ LoadedFresh' /\ SavedNext'
<1> DEFINE u == mine[r][1]
           a == mine[r][2]
           s == session[r]
           S == Stored(s)
<1>1. /\ pc[r] = "commit" /\ s \in Sessions
      /\ mine[r] \in Seq(Nat) /\ Len(mine[r]) = 2
      /\ u \in Nat /\ a \in Nat /\ u < a
      /\ \A i \in S : i < u /\ i < a
      /\ Stored(s)' = S \cup {u, a}
      /\ \A t : t # s => Stored(t)' = Stored(t)
      /\ UNCHANGED <<user, session, rows, cache, maxRounds, hist, mine>>
      /\ pc' \in [Requests -> Labels] /\ pc'[r] \in {"save", "failed"}
      /\ \A q \in Requests : q # r => pc'[q] = pc[q]
  BY CommitFacts DEF FreshInv
<1>2. pc'[r] = "save"
  <2>1. "lostAck" \notin Faults
    BY DEF Reliable
  <2>2. pc \in [Requests -> Labels]
    BY DEF FreshInv, SerialInv, IInv, TypeOK
  <2> QED
    BY <2>1, <2>2 DEF Commit, Goto
<1>3. ASSUME NEW q \in Requests, q # r, pc[q] \in HoldsHistory \cup {"save"}
      PROVE  session[q] # s
  <2>1. q \in InFlight /\ r \in InFlight
    BY <1>1, <1>3 DEF InFlight, Ended, HoldsHistory
  <2>2. s # NewSession
    BY <1>1, SentinelAssumption
  <2> QED
    BY <1>3, <2>1, <2>2 DEF FreshInv, SerialInv, OneAtATime
<1>4. S \in SUBSET Nat /\ Fresh(hist[r], S) /\ NextRound(mine[r], S)
  <2>1. S \in SUBSET Nat
    BY StoredIds DEF FreshInv, SerialInv, IInv
  <2>2. Fresh(hist[r], S)
    BY <1>1 DEF FreshInv, LoadedFresh, HoldsHistory
  <2>3. NextRound(mine[r], S)
    BY <1>1 DEF NextRound
  <2> QED
    BY <2>1, <2>2, <2>3
<1>5. Stored(s)' = With(S, mine[r])
  BY <1>1 DEF With
<1> HIDE DEF S, u, a
<1>6. CacheKept'
  <2> SUFFICES ASSUME NEW t \in Sessions, cache[t] # NoHistory
               PROVE  \/ Fresh(cache[t], Stored(t)')
                      \/ \E q \in Requests : pc'[q] = "save" /\ session[q] = t
    BY <1>1 DEF CacheKept, Fresh, Newest, Between
  <2>1. CASE t = s
    BY <1>2, <2>1
  <2>2. CASE t # s
    <3>1. Stored(t)' = Stored(t)
      BY <1>1, <2>2
    <3>2. \A q \in Requests : pc[q] = "save" => pc'[q] = "save"
      BY <1>1
    <3> QED
      BY <3>1, <3>2 DEF FreshInv, CacheKept
  <2> QED
    BY <2>1, <2>2
<1>7. LoadedFresh'
  <2> SUFFICES ASSUME NEW q \in Requests, pc'[q] \in HoldsHistory
               PROVE  Fresh(hist[q], Stored(session[q])')
    BY <1>1 DEF LoadedFresh
  <2>1. q # r /\ pc[q] \in HoldsHistory
    BY <1>1, <1>2 DEF HoldsHistory
  <2>2. Stored(session[q])' = Stored(session[q])
    BY <1>1, <1>3, <2>1
  <2> QED
    BY <2>1, <2>2 DEF FreshInv, LoadedFresh
<1>8. SavedNext'
  <2> SUFFICES ASSUME NEW q \in Requests, pc'[q] = "save"
               PROVE  \E T \in SUBSET Nat : /\ Fresh(hist[q], T) /\ NextRound(mine[q], T)
                                            /\ Stored(session[q])' = With(T, mine[q])
    BY <1>1 DEF SavedNext
  <2>1. CASE q = r
    BY <1>4, <1>5, <2>1
  <2>2. CASE q # r
    <3>1. pc[q] = "save"
      BY <1>1, <2>2
    <3>2. Stored(session[q])' = Stored(session[q])
      BY <1>1, <1>3, <2>2, <3>1
    <3> QED
      BY <3>1, <3>2 DEF FreshInv, SavedNext
  <2> QED
    BY <2>1, <2>2
<1> QED
  BY <1>6, <1>7, <1>8

LEMMA FreshStep ==
    ASSUME Reliable, FreshInv, Next
    PROVE  CacheKept' /\ LoadedFresh' /\ SavedNext'
<1> DEFINE Kept == CacheKept' /\ LoadedFresh' /\ SavedNext'
<1>0. /\ pc \in [Requests -> Labels] /\ hist \in [Requests -> Seq(Nat)]
      /\ session \in [Requests -> Sessions \cup {NewSession}]
      /\ mine \in [Requests -> Seq(Nat)]
      /\ rows \in Seq(Message) /\ committed \subseteq 1 .. Len(rows)
      /\ DOMAIN cache = Sessions
  BY DEF FreshInv, SerialInv, IInv, TypeOK
<1>00. ASSUME UNCHANGED <<rows, committed>>
       PROVE  \A s : Stored(s)' = Stored(s)
  BY <1>00 DEF Stored
<1> HIDE DEF Kept
<1>1. ASSUME NEW r \in Requests,
             \/ Client(r) \/ FindConversation(r) \/ CreateConversation(r) \/ CreateFails(r)
             \/ ReadCacheMiss(r) \/ FailStep(r)
      PROVE  Kept
  <2>1. /\ UNCHANGED <<rows, committed, mine, cache, hist>>
        /\ \E label \in {"resolve", "readCache", "readDb", "failed"} :
              pc' = [pc EXCEPT ![r] = label]
    BY <1>1 DEF Client, Send, Refuse, FindConversation, CreateConversation, CreateFails,
                ReadCacheMiss, FailStep, Goto, tables, requestVars
  <2>2. /\ pc[r] # "save"
        /\ \A q \in Requests : q # r => session'[q] = session[q]
    BY <1>0, <1>1 DEF Client, Send, Refuse, FindConversation, CreateConversation,
                CreateFails, ReadCacheMiss, FailStep, At, tables, requestVars
  <2>3. \A q \in Requests :
           \/ pc'[q] = pc[q] /\ session'[q] = session[q]
           \/ pc[q] # "save" /\ pc'[q] \notin HoldsHistory \cup {"save"}
    BY <1>0, <2>1, <2>2 DEF HoldsHistory
  <2> QED
    BY <1>00, <2>1, <2>3, FreshKeep DEF Kept
<1>2. ASSUME NEW r \in Requests, SearchDocs(r) \/ CallModel(r)
      PROVE  Kept
  <2>1. /\ UNCHANGED <<rows, committed, mine, cache, hist, session>>
        /\ pc[r] \in {"search", "model"}
        /\ \E label \in {"model", "insertUser"} : pc' = [pc EXCEPT ![r] = label]
    BY <1>2 DEF SearchDocs, CallModel, At, Goto, tables, requestVars
  <2>2. \A q \in Requests :
           \/ pc'[q] = pc[q]
           \/ pc[q] \in HoldsHistory /\ pc[q] # "save" /\ pc'[q] # "save"
    BY <1>0, <2>1 DEF HoldsHistory
  <2> QED
    BY <1>00, <2>1, <2>2, FreshKeep DEF Kept
<1>3. ASSUME NEW r \in Requests, ReadCacheHit(r) \/ ReadDb(r)
      PROVE  Kept
  <2>1. /\ UNCHANGED <<rows, committed, mine, cache, session>>
        /\ pc[r] \in {"readCache", "readDb"}
        /\ \E label \in {"search", "refill"} : pc' = [pc EXCEPT ![r] = label]
        /\ \A q \in Requests : q # r => hist'[q] = hist[q]
    BY <1>0, <1>3 DEF ReadCacheHit, ReadDb, At, Goto, tables, requestVars
  <2>2. Fresh(hist'[r], Stored(session[r]))
    BY <1>3, FreshLoad
  <2>3. \A q \in Requests :
           \/ pc'[q] = pc[q] /\ hist'[q] = hist[q]
           \/ q = r /\ pc[q] # "save" /\ pc'[q] # "save"
    BY <1>0, <2>1
  <2> QED
    BY <1>00, <2>1, <2>2, <2>3, FreshKeep DEF Kept
<1>4. ASSUME NEW r \in Requests, Refill(r)
      PROVE  Kept
  <2>1. /\ UNCHANGED <<rows, committed, mine, hist, session>>
        /\ pc[r] = "refill" /\ pc' = [pc EXCEPT ![r] = "search"]
        /\ cache' = [cache EXCEPT ![session[r]] = hist[r]] \/ cache' = cache
    BY <1>4 DEF Refill, Setex, At, Goto, tables, requestVars
  <2>2. Fresh(hist[r], Stored(session[r]))
    BY <2>1 DEF FreshInv, LoadedFresh, HoldsHistory
  <2>3. \A s \in Sessions : \/ cache'[s] \in {NoHistory, cache[s]}
                            \/ Fresh(cache'[s], Stored(s))
    BY <1>0, <2>1, <2>2
  <2>4. \A q \in Requests :
           \/ pc'[q] = pc[q]
           \/ pc[q] \in HoldsHistory /\ pc[q] # "save" /\ pc'[q] # "save"
    BY <1>0, <2>1 DEF HoldsHistory
  <2> QED
    BY <1>00, <2>1, <2>3, <2>4, FreshKeep DEF Kept
<1>5. ASSUME NEW r \in Requests, InsertUser(r) \/ InsertReply(r)
      PROVE  Kept
  <2>1. /\ UNCHANGED <<committed, cache, hist, session>>
        /\ \E msg : rows' = Append(rows, msg)
        /\ pc[r] \in {"insertUser", "insertReply"}
        /\ \E label \in {"insertReply", "commit"} : pc' = [pc EXCEPT ![r] = label]
        /\ \E m : mine' = [mine EXCEPT ![r] = m]
    BY <1>5 DEF InsertUser, InsertReply, Insert, At, Goto, requestVars
  <2>2. \A s : Stored(s)' = Stored(s)
    <3>1. \A i \in 1 .. Len(rows) : rows'[i] = rows[i]
      BY <1>0, <2>1
    <3> QED
      BY <1>0, <2>1, <3>1 DEF Stored
  <2>3. \A q \in Requests :
           \/ pc'[q] = pc[q] /\ mine'[q] = mine[q]
           \/ pc[q] \in HoldsHistory /\ pc[q] # "save" /\ pc'[q] # "save"
    BY <1>0, <2>1 DEF HoldsHistory
  <2> QED
    BY <2>1, <2>2, <2>3, FreshKeep DEF Kept
<1>6. ASSUME NEW r \in Requests, SaveHistory(r)
      PROVE  Kept
  <2>1. /\ UNCHANGED <<rows, committed, mine, hist, session>>
        /\ pc[r] = "save" /\ pc' = [pc EXCEPT ![r] = "replied"]
    BY <1>6 DEF SaveHistory, At, Goto, tables, requestVars
  <2>2. session[r] \in Sessions
    BY <2>1 DEF FreshInv, SerialInv, IInv, OwnSession
  <2>3. cache' = [cache EXCEPT ![session[r]] = Trim(hist[r] \o mine[r])]
    BY <1>6 DEF SaveHistory, Setex, Reliable
  <2>4. Fresh(cache'[session[r]], Stored(session[r]))
    BY <1>0, <1>6, <2>2, <2>3, FreshSave
  <2>5. \A s \in Sessions : s # session[r] => cache'[s] = cache[s]
    BY <1>0, <2>3
  <2>6. \A q \in Requests : \/ pc'[q] = pc[q]
                            \/ q = r /\ pc'[q] \notin HoldsHistory \cup {"save"}
    BY <1>0, <2>1 DEF HoldsHistory
  <2> QED
    BY <1>00, <2>1, <2>4, <2>5, <2>6, FreshKeep DEF Kept
<1>7. ASSUME NEW r \in Requests, Handler(r)
      PROVE  Kept
  BY <1>1, <1>2, <1>3, <1>4, <1>5, <1>6, <1>7, FreshCommit DEF Handler, Kept
<1>8. ASSUME NEW r \in Requests, Deadline(r)
      PROVE  Kept
  <2>1. UNCHANGED <<rows, committed, mine, hist, session, cache, pc>>
    BY <1>8 DEF Deadline, tables
  <2> QED
    BY <1>00, <2>1, FreshKeep DEF Kept
<1>9. ASSUME NEW s \in Sessions, Expire(s)
      PROVE  Kept
  <2>1. /\ UNCHANGED <<rows, committed, mine, hist, session, pc>>
        /\ cache' = [cache EXCEPT ![s] = NoHistory]
    BY <1>9 DEF Expire, tables, requestVars
  <2>2. \A t \in Sessions : cache'[t] \in {NoHistory, cache[t]}
    BY <1>0, <2>1
  <2> QED
    BY <1>00, <2>1, <2>2, FreshKeep DEF Kept
<1>10. ASSUME Crash \/ Redeploy
       PROVE  Kept
  <2>1. UNCHANGED <<rows, committed, mine, hist, session, cache, pc>>
    BY <1>10 DEF Crash, Redeploy, tables, requestVars, Reliable
  <2> QED
    BY <1>00, <2>1, FreshKeep DEF Kept
<1> QED
  BY <1>1, <1>7, <1>8, <1>9, <1>10 DEF Next, Kept

LEMMA FreshNextInv == ASSUME Reliable PROVE FreshInv /\ [SerialNext]_vars => FreshInv'
<1> SUFFICES ASSUME FreshInv, [SerialNext]_vars PROVE FreshInv'
  OBVIOUS
<1>1. SerialInv'
  BY SerialNextInv DEF FreshInv
<1>2. CASE SerialNext
  BY <1>1, <1>2, FreshStep DEF SerialNext, FreshInv
<1>3. CASE UNCHANGED vars
  <2>1. UNCHANGED <<rows, committed, mine, hist, session, cache, pc>>
    BY <1>3 DEF vars
  <2>2. \A s : Stored(s)' = Stored(s)
    BY <2>1 DEF Stored
  <2>3. CacheKept' /\ LoadedFresh' /\ SavedNext'
    BY <2>1, <2>2, FreshKeep
  <2> QED
    BY <1>1, <2>3 DEF FreshInv
<1> QED
  BY <1>2, <1>3

\* For clients that wait, as long as Redis takes every write, MySQL's answers
\* arrive and the service does not die, what Redis holds for a session nobody
\* works in is what MySQL would return, through expiry, refills, failed
\* requests and redeployments (getHistory, saveHistory).
THEOREM CacheAgrees ==
    ASSUME Faults \cap {"redisSet", "lostAck", "crash"} = {}
    PROVE  SerialSpec => []CacheFresh
<1>1. Reliable
  BY DEF Reliable
<1>2. FreshInv => CacheFresh
  <2> SUFFICES ASSUME FreshInv, NEW s \in Sessions, cache[s] # NoHistory,
                      \A r \in InFlight : session[r] # s
               PROVE  \E low, high \in Rounds : \E n \in LimitOf(low) .. LimitOf(high) :
                         cache[s] \in Recent(Stored(s), n)
    BY DEF CacheFresh
  <2>1. \A r \in Requests : ~(pc[r] = "save" /\ session[r] = s)
    BY DEF InFlight, Ended
  <2>2. PICK n : Between(n) /\ Newest(cache[s], Stored(s), n)
    BY <2>1 DEF FreshInv, CacheKept, Fresh
  <2>3. n \in Nat /\ Stored(s) \in SUBSET Nat /\ IsFiniteSet(Stored(s))
    BY <2>2, BetweenNat, StoredIds DEF FreshInv, SerialInv, IInv
  <2>4. cache[s] \in Recent(Stored(s), n)
    BY <2>2, <2>3, RecentNewest
  <2> QED
    BY <2>2, <2>4 DEF Between
<1> QED
  BY <1>1, <1>2, FreshInit, FreshNextInv, PTL DEF SerialSpec
=============================================================================

-------------------------- MODULE ChatPage_proofs --------------------------
(***************************************************************************)
(* Proofs about ChatPage, for every set of requests, users and sessions,   *)
(* every fault and every MaxHistoryRounds, whether replies are lost or not.*)
(***************************************************************************)
EXTENDS ChatPage, ChatHistory_proofs

-----------------------------------------------------------------------------
(* The pages and their sessions.                                           *)

PageTypeOK ==
    /\ sessionId \in [Users -> Sessions \cup {NewSession}]
    /\ waiting \in [Users -> SUBSET Requests]
    /\ shown \in [Users -> SUBSET Requests]
    /\ overlapped \subseteq Users

\* A session is named only by requests of the user it belongs to: pages do not
\* guess, they repeat what a reply told them.
SessionsKnown ==
    /\ \A r \in Requests : session[r] \in Sessions => /\ pc[r] # "unsent"
                                                      /\ user[r] \in Users
                                                      /\ owner[session[r]] = user[r]
    /\ \A u \in Users : sessionId[u] \in Sessions => owner[sessionId[u]] = u

\* What a page waits for was sent for its user, or refused; what it shows was
\* answered, and it goes on with a session it shows.
PageSound ==
    \A u \in Users :
        /\ \A r \in waiting[u] : /\ pc[r] # "unsent"
                                 /\ user[r] = u \/ (pc[r] = "failed" /\ session[r] = NewSession)
        /\ \A r \in shown[u] : pc[r] = "replied" /\ user[r] = u
        /\ shown[u] # {} => \E r \in shown[u] : session[r] = sessionId[u]

\* A page whose user waits has one message under way, in the session it shows.
WaitSound ==
    \A u \in Users \ overlapped :
        /\ \A q, r \in waiting[u] : q = r
        /\ \A r \in waiting[u] :
              sessionId[u] \in Sessions /\ pc[r] # "failed" => session[r] = sessionId[u]
        /\ \A r \in shown[u] : session[r] = sessionId[u]

PInv == IInv /\ PageTypeOK /\ SessionsKnown /\ PageSound /\ WaitSound

-----------------------------------------------------------------------------
(* The history a page goes on with.                                        *)

\* No deadline of a message of u has passed.
InTime(u) == \A r \in expired : user[r] # u

\* No other handler works in the session of u's page, or in the one its message
\* is answered in.
QuietFor(u) ==
    /\ \A q \in InFlight :
          sessionId[u] \in Sessions /\ session[q] = sessionId[u] => q \in waiting[u]
    /\ \A r \in waiting[u], q \in InFlight :
          session[r] \in Sessions /\ session[q] = session[r] => q = r

SessionsQuiet == \A u \in Users \ overlapped : InTime(u) => QuietFor(u)

\* h holds message i, or is as long as a deployment allows and newer.
Covers(h, i) == \/ \E k \in 1 .. Len(h) : h[k] = i
                \/ /\ \E n \in Rounds : Len(h) >= LimitOf(n)
                   /\ \A k \in 1 .. Len(h) : h[k] > i

CoversAll(h, ids) == \A i \in ids : Covers(h, i)

\* The messages that u's page shows as replies.
Replies(u) == {mine[q][2] : q \in shown[u]}

\* Histories loaded for u's page, or cached for the session it goes on with,
\* cover what it shows, and what it will show next.
CoveredFor(u) ==
    /\ \A r \in waiting[u] : r \in Loaded => CoversAll(hist[r], Replies(u))
    /\ \A r \in waiting[u], i \in Replies(u) : \A k \in 1 .. Len(mine[r]) : mine[r][k] > i
    /\ sessionId[u] \in Sessions /\ cache[sessionId[u]] # NoHistory =>
          CoversAll(cache[sessionId[u]], Replies(u))
    /\ \A r \in waiting[u] : pc[r] = "replied" /\ cache[session[r]] # NoHistory =>
          CoversAll(cache[session[r]], Replies(u) \cup {mine[r][2]})

ShownCovered == \A u \in Users \ overlapped : InTime(u) => CoveredFor(u)

RInv == PInv /\ SessionsQuiet /\ ShownCovered

-----------------------------------------------------------------------------
(* Conversations of pages.                                                 *)

LEMMA PageInitInv == PageInit => PInv
<1> SUFFICES ASSUME PageInit PROVE PInv
  OBVIOUS
<1>1. IInv
  BY InitInv DEF PageInit
<1>2. /\ \A r \in Requests : session[r] = NewSession
      /\ \A u \in Users : sessionId[u] = NewSession /\ waiting[u] = {} /\ shown[u] = {}
  BY DEF PageInit, Init
<1>3. PageTypeOK
  BY DEF PageInit, PageTypeOK
<1> QED
  BY <1>1, <1>2, <1>3, SentinelAssumption DEF PInv, SessionsKnown, PageSound, WaitSound

\* A step of the service sends nothing, leaves ended handlers alone, and gives a
\* session to a request without one only: a session that had no owner.
LEMMA ServiceFrame ==
    ASSUME IInv, ServiceStep
    PROVE  /\ user' = user
           /\ \A r \in Requests :
                 /\ pc[r] # "unsent" => pc'[r] # "unsent"
                 /\ pc[r] = "unsent" => pc'[r] = "unsent"
                 /\ pc[r] \in Ended => pc'[r] = pc[r]
                 /\ \/ session'[r] = session[r]
                    \/ /\ session[r] = NewSession /\ pc[r] = "resolve"
                       /\ session'[r] \in Sessions
                       /\ owner[session'[r]] = NoUser
                       /\ owner'[session'[r]] = user[r]
           /\ \A s \in Sessions : owner'[s] = owner[s] \/ owner[s] = NoUser
           /\ \A q, r \in Requests :
                 session'[q] # session[q] /\ session'[r] # session[r] => q = r
<1>1. /\ pc \in [Requests -> Labels] /\ session \in [Requests -> Sessions \cup {NewSession}]
      /\ owner \in [Sessions -> Users \cup {NoUser}]
  BY DEF IInv, TypeOK
<1>2. ASSUME NEW r \in Requests, Handler(r), ~CreateConversation(r)
      PROVE  /\ user' = user /\ session' = session /\ owner' = owner
             /\ pc[r] \notin {"unsent"} \cup Ended
             /\ \E label \in Labels \ {"unsent"} : pc' = [pc EXCEPT ![r] = label]
  <2> USE DEF At, Goto, requestVars, tables, Ended, Labels
  <2>1. CASE FindConversation(r)
    BY <2>1 DEF FindConversation
  <2>2. CASE CreateFails(r)
    BY <2>2 DEF CreateFails
  <2>3. CASE ReadCacheHit(r) \/ ReadCacheMiss(r) \/ ReadDb(r) \/ Refill(r)
    BY <2>3 DEF ReadCacheHit, ReadCacheMiss, ReadDb, Refill
  <2>4. CASE SearchDocs(r) \/ CallModel(r)
    BY <2>4 DEF SearchDocs, CallModel
  <2>5. CASE InsertUser(r) \/ InsertReply(r)
    BY <2>5 DEF InsertUser, InsertReply, Insert
  <2>6. CASE Commit(r) \/ SaveHistory(r) \/ FailStep(r)
    BY <2>6 DEF Commit, SaveHistory, FailStep
  <2> QED
    BY <1>2, <2>1, <2>2, <2>3, <2>4, <2>5, <2>6 DEF Handler
<1>3. CASE \E r \in Requests : Handler(r) /\ ~CreateConversation(r)
  BY <1>1, <1>2, <1>3
<1>4. CASE \E r \in Requests : CreateConversation(r)
  <2>1. PICK r \in Requests : CreateConversation(r)
    BY <1>4
  <2>2. /\ user' = user /\ pc[r] = "resolve" /\ session[r] = NewSession
        /\ \E s \in Sessions : /\ owner[s] = NoUser
                               /\ owner' = [owner EXCEPT ![s] = user[r]]
                               /\ session' = [session EXCEPT ![r] = s]
        /\ \E label \in {"readCache", "failed"} : pc' = [pc EXCEPT ![r] = label]
    BY <2>1 DEF CreateConversation, At, Goto
  <2> QED
    BY <1>1, <2>2 DEF Ended
<1>5. CASE \E r \in Requests : Deadline(r)
  BY <1>1, <1>5 DEF Deadline, tables
<1>6. CASE \E s \in Sessions : Expire(s)
  BY <1>1, <1>6 DEF Expire, tables, requestVars
<1>7. CASE Crash
  BY <1>1, <1>7 DEF Crash, tables, requestVars, InFlight, Ended
<1>8. CASE Redeploy
  BY <1>1, <1>8 DEF Redeploy, tables, requestVars
<1> QED
  BY <1>3, <1>4, <1>5, <1>6, <1>7, <1>8 DEF ServiceStep

\* A step of a page is one of a client of the service, or none.
LEMMA PageStep ==
    ASSUME PageTypeOK, NEW u \in Users, Page(u)
    PROVE  (\E r \in Requests : Client(r)) \/ UNCHANGED vars
<1>1. sessionId[u] \in Sessions \cup {NewSession}
  BY DEF PageTypeOK
<1> QED
  BY <1>1 DEF Page, SendMessage, ShowReply, ShowError, Reload, Settle, Client

LEMMA PageIInv == IInv /\ PageTypeOK /\ [PageNext]_allVars => IInv'
<1> SUFFICES ASSUME IInv, PageTypeOK, [PageNext]_allVars PROVE IInv'
  OBVIOUS
<1>1. [Next]_vars
  <2>1. CASE UNCHANGED allVars
    BY <2>1 DEF allVars
  <2>2. CASE ServiceStep
    BY <2>2 DEF ServiceStep, Next
  <2>3. CASE \E u \in Users : Page(u)
    BY <2>3, PageStep DEF Next
  <2> QED
    BY <2>1, <2>2, <2>3 DEF PageNext
<1> QED
  BY <1>1, NextInv

LEMMA PageTypeNext == PageTypeOK /\ IInv /\ [PageNext]_allVars => PageTypeOK'
<1> SUFFICES ASSUME PageTypeOK, IInv, [PageNext]_allVars PROVE PageTypeOK'
  OBVIOUS
<1>1. session \in [Requests -> Sessions \cup {NewSession}]
  BY DEF IInv, TypeOK
<1>2. CASE UNCHANGED pageVars
  BY <1>2 DEF pageVars, PageTypeOK
<1>3. ASSUME NEW u \in Users, Page(u) PROVE PageTypeOK'
  <2>1. ASSUME NEW r \in Requests, SendMessage(u, r) PROVE PageTypeOK'
    BY <2>1 DEF SendMessage, PageTypeOK
  <2>2. ASSUME NEW r \in Requests, ShowReply(u, r) PROVE PageTypeOK'
    BY <1>1, <2>2 DEF ShowReply, Settle, PageTypeOK
  <2>3. ASSUME NEW r \in Requests, ShowError(u, r) PROVE PageTypeOK'
    BY <2>3 DEF ShowError, Settle, PageTypeOK
  <2>4. CASE Reload(u)
    BY <2>4 DEF Reload, PageTypeOK
  <2> QED
    BY <1>3, <2>1, <2>2, <2>3, <2>4 DEF Page
<1> QED
  BY <1>2, <1>3 DEF PageNext, allVars

\* What a click does to the service: a request gets its user and session.
LEMMA SendFrame ==
    ASSUME IInv, NEW u \in Users, NEW r \in Requests, SendMessage(u, r)
    PROVE  /\ pc[r] = "unsent" /\ pc'[r] # "unsent" /\ r \notin Loaded'
           /\ \A q \in Requests : q # r => /\ pc'[q] = pc[q] /\ user'[q] = user[q]
                                           /\ session'[q] = session[q]
           /\ \/ pc'[r] = "resolve" /\ user'[r] = u /\ session'[r] = sessionId[u]
              \/ pc'[r] = "failed" /\ user'[r] = user[r] /\ session'[r] = session[r]
           /\ waiting' = [waiting EXCEPT ![u] = @ \cup {r}]
           /\ overlapped' = IF waiting[u] = {} THEN overlapped ELSE overlapped \cup {u}
           /\ UNCHANGED <<sessionId, shown, expired, owner, rows, committed, cache,
                          maxRounds, hist, mine>>
<1>1. /\ pc \in [Requests -> Labels] /\ session \in [Requests -> Sessions \cup {NewSession}]
      /\ user \in [Requests -> Users \cup {NoUser}]
  BY DEF IInv, TypeOK
<1>2. CASE Send(r, u, sessionId[u])
  BY <1>1, <1>2 DEF Send, SendMessage, At, Goto, tables, Loaded
<1>3. CASE Refuse(r)
  BY <1>1, <1>3 DEF Refuse, SendMessage, At, Goto, tables, requestVars, Loaded
<1> QED
  BY <1>2, <1>3 DEF SendMessage

\* Sessions, messages under way and messages shown keep belonging together.
LEMMA PInvNext == PInv /\ [PageNext]_allVars => PInv'
<1> SUFFICES ASSUME PInv, [PageNext]_allVars PROVE PInv'
  OBVIOUS
<1>1. /\ IInv /\ PageTypeOK /\ SessionsKnown /\ PageSound /\ WaitSound
      /\ session \in [Requests -> Sessions \cup {NewSession}]
      /\ owner \in [Sessions -> Users \cup {NoUser}]
  BY DEF PInv, IInv, TypeOK
<1>2. IInv' /\ PageTypeOK'
  BY <1>1, PageIInv, PageTypeNext
<1>3. NewSession \notin Sessions /\ NoUser \notin Users
  BY SentinelAssumption
<1> DEFINE Kept == SessionsKnown' /\ PageSound' /\ WaitSound'
<1> HIDE DEF Kept
<1>4. ASSUME ServiceStep /\ UNCHANGED pageVars PROVE Kept
  <2>1. /\ user' = user
        /\ \A r \in Requests :
              /\ pc[r] # "unsent" => pc'[r] # "unsent"
              /\ pc[r] \in Ended => pc'[r] = pc[r]
              /\ \/ session'[r] = session[r]
                 \/ /\ session[r] = NewSession /\ pc[r] = "resolve"
                    /\ session'[r] \in Sessions
                    /\ owner[session'[r]] = NoUser
                    /\ owner'[session'[r]] = user[r]
        /\ \A s \in Sessions : owner'[s] = owner[s] \/ owner[s] = NoUser
    BY <1>1, <1>4, ServiceFrame
  <2>2. UNCHANGED <<sessionId, waiting, shown, overlapped>>
    BY <1>4 DEF pageVars
  <2>3. SessionsKnown'
    <3>1. ASSUME NEW r \in Requests, session'[r] \in Sessions
          PROVE  pc'[r] # "unsent" /\ user'[r] \in Users /\ owner'[session'[r]] = user'[r]
      <4>1. CASE session'[r] = session[r]
        BY <1>1, <1>3, <2>1, <3>1, <4>1 DEF SessionsKnown
      <4>2. CASE session'[r] # session[r]
        <5>1. pc[r] = "resolve" /\ owner'[session'[r]] = user[r]
          BY <2>1, <4>2
        <5>2. user[r] \in Users
          BY <1>1, <5>1 DEF IInv, OwnSession
        <5> QED
          BY <2>1, <5>1, <5>2
      <4> QED
        BY <4>1, <4>2
    <3>2. ASSUME NEW u \in Users, sessionId'[u] \in Sessions PROVE owner'[sessionId'[u]] = u
      BY <1>1, <1>3, <2>1, <2>2, <3>2 DEF SessionsKnown
    <3> QED
      BY <3>1, <3>2 DEF SessionsKnown
  <2>4. \A u \in Users : waiting[u] \subseteq Requests /\ shown[u] \subseteq Requests
    BY <1>1 DEF PageTypeOK
  <2>5. PageSound'
    BY <1>1, <2>1, <2>2, <2>4 DEF PageSound, Ended
  <2>6. WaitSound'
    <3> SUFFICES ASSUME NEW u \in Users \ overlapped
                 PROVE  /\ \A q, r \in waiting[u] : q = r
                        /\ \A r \in waiting[u] :
                              sessionId[u] \in Sessions /\ pc'[r] # "failed" =>
                                 session'[r] = sessionId[u]
                        /\ \A r \in shown[u] : session'[r] = sessionId[u]
      BY <2>2 DEF WaitSound
    <3>1. ASSUME NEW r \in waiting[u], sessionId[u] \in Sessions, pc'[r] # "failed"
          PROVE  session'[r] = sessionId[u]
      <4>1. pc[r] # "failed"
        BY <2>1, <2>4, <3>1 DEF Ended
      <4> QED
        BY <1>1, <1>3, <2>1, <2>4, <3>1, <4>1 DEF WaitSound
    <3>2. ASSUME NEW r \in shown[u] PROVE session'[r] = sessionId[u]
      BY <1>1, <2>1, <2>4 DEF WaitSound, PageSound
    <3> QED
      BY <1>1, <3>1, <3>2 DEF WaitSound
  <2> QED
    BY <2>3, <2>5, <2>6 DEF Kept
<1>5. ASSUME NEW u \in Users, NEW r \in Requests, SendMessage(u, r) PROVE Kept
  <2>1. /\ pc[r] = "unsent" /\ pc'[r] # "unsent"
        /\ \A q \in Requests : q # r => /\ pc'[q] = pc[q] /\ user'[q] = user[q]
                                        /\ session'[q] = session[q]
        /\ \/ pc'[r] = "resolve" /\ user'[r] = u /\ session'[r] = sessionId[u]
           \/ pc'[r] = "failed" /\ user'[r] = user[r] /\ session'[r] = session[r]
        /\ waiting' = [waiting EXCEPT ![u] = @ \cup {r}]
        /\ overlapped' = IF waiting[u] = {} THEN overlapped ELSE overlapped \cup {u}
        /\ UNCHANGED <<sessionId, shown, owner>>
    BY <1>1, <1>5, SendFrame
  <2>2. session[r] = NewSession
    BY <1>1, <2>1 DEF SessionsKnown
  <2>3. /\ \A v \in Users : waiting[v] \subseteq Requests /\ shown[v] \subseteq Requests
                            /\ r \notin waiting[v] /\ r \notin shown[v]
        /\ \A v \in Users : waiting'[v] = IF v = u THEN waiting[u] \cup {r} ELSE waiting[v]
    BY <1>1, <2>1 DEF PageTypeOK, PageSound
  <2>4. SessionsKnown'
    BY <1>1, <1>3, <2>1, <2>2 DEF SessionsKnown
  <2>5. PageSound'
    BY <1>1, <2>1, <2>2, <2>3 DEF PageSound
  <2>6. WaitSound'
    <3> SUFFICES ASSUME NEW v \in Users \ overlapped'
                 PROVE  /\ \A p, q \in waiting'[v] : p = q
                        /\ \A q \in waiting'[v] :
                              sessionId[v] \in Sessions /\ pc'[q] # "failed" =>
                                 session'[q] = sessionId[v]
                        /\ \A q \in shown[v] : session'[q] = sessionId[v]
      BY <2>1 DEF WaitSound
    <3>1. v \in Users \ overlapped
      BY <2>1
    <3>2. v = u => waiting[u] = {}
      BY <2>1
    <3> QED
      BY <1>1, <2>1, <2>3, <3>1, <3>2 DEF WaitSound
  <2> QED
    BY <2>4, <2>5, <2>6 DEF Kept
<1>6. ASSUME NEW u \in Users, NEW r \in Requests, ShowReply(u, r) \/ ShowError(u, r) PROVE Kept
  <2>1. /\ r \in waiting[u]
        /\ waiting' = [waiting EXCEPT ![u] = @ \ {r}]
        /\ UNCHANGED <<pc, user, session, owner, overlapped>>
        /\ \/ /\ pc[r] = "replied"
              /\ shown' = [shown EXCEPT ![u] = @ \cup {r}]
              /\ sessionId' = [sessionId EXCEPT ![u] = session[r]]
           \/ UNCHANGED <<shown, sessionId>>
    BY <1>6 DEF ShowReply, ShowError, Settle, Replied, At, vars
  <2>2. /\ \A v \in Users : waiting[v] \subseteq Requests /\ shown[v] \subseteq Requests
        /\ \A v \in Users : waiting'[v] = IF v = u THEN waiting[u] \ {r} ELSE waiting[v]
    BY <1>1, <2>1 DEF PageTypeOK
  <2>3. CASE UNCHANGED <<shown, sessionId>>
    BY <1>1, <2>1, <2>2, <2>3 DEF Kept, SessionsKnown, PageSound, WaitSound
  <2>4. CASE /\ pc[r] = "replied"
             /\ shown' = [shown EXCEPT ![u] = @ \cup {r}]
             /\ sessionId' = [sessionId EXCEPT ![u] = session[r]]
    <3>1. /\ \A v \in Users : shown'[v] = IF v = u THEN shown[u] \cup {r} ELSE shown[v]
          /\ \A v \in Users : sessionId'[v] = IF v = u THEN session[r] ELSE sessionId[v]
      BY <1>1, <2>4 DEF PageTypeOK
    <3>2. user[r] = u
      BY <1>1, <2>1, <2>4 DEF PageSound
    <3>3. session[r] \in Sessions /\ owner[session[r]] = u
      BY <1>1, <2>4, <3>2 DEF IInv, OwnSession
    <3>4. SessionsKnown'
      BY <1>1, <2>1, <3>1, <3>3 DEF SessionsKnown
    <3>5. PageSound'
      BY <1>1, <2>1, <2>2, <2>4, <3>1, <3>2 DEF PageSound
    <3>6. ASSUME u \notin overlapped, NEW q \in shown[u] PROVE session[q] = session[r]
      <4>1. session[q] = sessionId[u]
        BY <1>1, <3>6 DEF WaitSound
      <4>2. session[q] \in Sessions
        BY <1>1, <2>2 DEF PageSound, IInv, OwnSession
      <4> QED
        BY <1>1, <2>1, <2>4, <3>6, <4>1, <4>2 DEF WaitSound
    <3>7. WaitSound'
      <4> SUFFICES ASSUME NEW v \in Users \ overlapped
                   PROVE  /\ \A p, q \in waiting'[v] : p = q
                          /\ \A q \in waiting'[v] :
                                sessionId'[v] \in Sessions /\ pc[q] # "failed" =>
                                   session[q] = sessionId'[v]
                          /\ \A q \in shown'[v] : session[q] = sessionId'[v]
        BY <2>1 DEF WaitSound
      <4>1. CASE v # u
        BY <1>1, <2>2, <3>1, <4>1 DEF WaitSound
      <4>2. CASE v = u
        <5>1. waiting'[v] = {}
          BY <1>1, <2>1, <2>2, <4>2 DEF WaitSound
        <5> QED
          BY <3>1, <3>6, <4>2, <5>1
      <4> QED
        BY <4>1, <4>2
    <3> QED
      BY <3>4, <3>5, <3>7 DEF Kept
  <2> QED
    BY <2>1, <2>3, <2>4
<1>7. ASSUME NEW u \in Users, Reload(u) PROVE Kept
  <2>1. /\ UNCHANGED <<pc, user, session, owner>>
        /\ overlapped' = overlapped \ {u}
        /\ \A v \in Users : /\ sessionId'[v] = IF v = u THEN NewSession ELSE sessionId[v]
                            /\ waiting'[v] = IF v = u THEN {} ELSE waiting[v]
                            /\ shown'[v] = IF v = u THEN {} ELSE shown[v]
    BY <1>1, <1>7 DEF Reload, PageTypeOK, vars
  <2>2. SessionsKnown' /\ PageSound'
    BY <1>1, <1>3, <2>1 DEF SessionsKnown, PageSound
  <2>3. WaitSound'
    BY <1>1, <2>1 DEF WaitSound
  <2> QED
    BY <2>2, <2>3 DEF Kept
<1>8. ASSUME UNCHANGED allVars PROVE Kept
  <2>1. UNCHANGED <<pc, user, session, owner, sessionId, waiting, shown, overlapped>>
    BY <1>8 DEF allVars, vars, pageVars
  <2> QED
    BY <1>1, <2>1 DEF Kept, SessionsKnown, PageSound, WaitSound
<1>9. Kept
  BY <1>4, <1>5, <1>6, <1>7, <1>8 DEF PageNext, Page
<1> QED
  BY <1>2, <1>9 DEF Kept, PInv

THEOREM PageInvariance == PageSpec => []PInv
  BY PageInitInv, PInvNext, PTL DEF PageSpec

\* OneConversation: replies are of sessions of the page's user and the page goes on
\* with the last of them, however its messages overlap; a page whose user waits has
\* one message under way, so all of its replies are of one session.
THEOREM PagesConverse == PageSpec => []OneConversation
<1>1. PInv => OneConversation
  <2>1. ASSUME PInv, NEW u \in Users, NEW r \in shown[u]
        PROVE  owner[session[r]] = u
    <3>1. r \in Requests /\ pc[r] = "replied" /\ user[r] = u
      BY <2>1 DEF PInv, PageTypeOK, PageSound
    <3> QED
      BY <2>1, <3>1 DEF PInv, IInv, OwnSession
  <2> QED
    BY <2>1 DEF OneConversation, PInv, PageSound, WaitSound
<1> QED
  BY <1>1, PageInvariance, PTL
-----------------------------------------------------------------------------
(* Histories that cover a message.                                         *)

\* trimHistory drops a message only for as many newer ones as are allowed.
LEMMA TrimCovers ==
    ASSUME TypeOK, NEW h \in Seq(Nat), Increasing(h), NEW i \in Nat, Covers(h, i)
    PROVE  Covers(Trim(h), i)
<1>1. Limit \in Nat /\ Limit = LimitOf(maxRounds) /\ maxRounds \in Rounds
  BY LimitNat DEF TypeOK, Limit
<1>2. CASE Len(h) <= Limit
  BY <1>2 DEF Trim
<1>3. CASE ~(Len(h) <= Limit)
  <2> DEFINE n == Len(h) - Limit
             t == Trim(h)
  <2>1. n \in Nat /\ n + 1 \in 1 .. Len(h) + 1 /\ Len(h) = Limit + n
    BY <1>1, <1>3
  <2>2. t = SubSeq(h, n + 1, Len(h))
    BY <1>3 DEF Trim
  <2> HIDE DEF n
  <2>3. /\ t \in Seq(Nat) /\ Len(t) = Limit
        /\ \A k \in 1 .. Limit : t[k] = h[n + k] /\ n + k \in 1 .. Len(h)
    <3> HIDE DEF t
    <3>0. Limit \in Nat
      BY <1>1
    <3>1. t \in Seq(Nat) /\ Len(t) = Limit
      BY <3>0, <2>1, <2>2
    <3>2. \A k \in 1 .. Limit : t[k] = h[n + k] /\ n + k \in 1 .. Len(h)
      BY <3>0, <2>1, <2>2
    <3> QED
      BY <3>1, <3>2
  <2> SUFFICES Covers(t, i)
    OBVIOUS
  <2> HIDE DEF t
  <2>4. \A k \in 1 .. Len(h) : h[k] \in Nat
    OBVIOUS
  <2>5. ASSUME \A k \in 1 .. Limit : t[k] > i PROVE Covers(t, i)
    BY <1>1, <2>3, <2>5 DEF Covers
  <2>6. CASE \E k \in 1 .. Len(h) : h[k] = i
    <3>1. PICK k \in 1 .. Len(h) : h[k] = i
      BY <2>6
    <3>2. CASE k <= n
      <4>1. ASSUME NEW j \in 1 .. Limit PROVE t[j] > i
        <5>1. n + j \in 1 .. Len(h) /\ k < n + j
          BY <1>1, <2>1, <2>3, <3>2
        <5>2. h[k] < h[n + j]
          BY <5>1 DEF Increasing
        <5> QED
          BY <2>3, <2>4, <3>1, <5>1, <5>2
      <4> QED
        BY <2>5, <4>1
    <3>3. CASE ~(k <= n)
      <4>1. k - n \in 1 .. Limit /\ n + (k - n) = k
        BY <1>1, <2>1, <3>3
      <4> QED
        BY <2>3, <3>1, <4>1 DEF Covers
    <3> QED
      BY <3>2, <3>3
  <2>7. CASE \A k \in 1 .. Len(h) : h[k] > i
    BY <2>3, <2>5, <2>7
  <2> QED
    BY <2>6, <2>7 DEF Covers
<1> QED
  BY <1>2, <1>3

\* Newer messages at the end change nothing.
LEMMA AppendCovers ==
    ASSUME TypeOK, NEW h \in Seq(Nat), NEW m \in Seq(Nat), NEW i \in Nat, Covers(h, i),
           \A k \in 1 .. Len(m) : m[k] > i
    PROVE  Covers(h \o m, i)
<1> DEFINE new == h \o m
<1>1. /\ Len(h) \in Nat /\ Len(m) \in Nat /\ Len(new) = Len(h) + Len(m)
      /\ \A k \in 1 .. Len(h) + Len(m) :
            new[k] = IF k <= Len(h) THEN h[k] ELSE m[k - Len(h)]
  OBVIOUS
<1> HIDE DEF new
<1>2. ASSUME NEW k \in 1 .. Len(h) PROVE k \in 1 .. Len(new) /\ new[k] = h[k]
  BY <1>1
<1>3. CASE \E k \in 1 .. Len(h) : h[k] = i
  BY <1>2, <1>3 DEF Covers, new
<1>4. CASE (\E n \in Rounds : Len(h) >= LimitOf(n)) /\ \A k \in 1 .. Len(h) : h[k] > i
  <2>1. PICK n \in Rounds : Len(h) >= LimitOf(n)
    BY <1>4
  <2>2. LimitOf(n) \in Nat
    BY ConfigAssumption DEF LimitOf
  <2>3. Len(new) >= LimitOf(n)
    BY <1>1, <2>1, <2>2
  <2>4. ASSUME NEW k \in 1 .. Len(new) PROVE new[k] > i
    <3>1. CASE k \in 1 .. Len(h)
      BY <1>2, <1>4, <3>1
    <3>2. CASE k \notin 1 .. Len(h)
      <4>1. k - Len(h) \in 1 .. Len(m) /\ ~(k <= Len(h)) /\ k \in 1 .. Len(h) + Len(m)
        BY <1>1, <3>2
      <4> QED
        BY <1>1, <4>1
    <3> QED
      BY <3>1, <3>2
  <2> QED
    BY <2>3, <2>4 DEF Covers, new
<1> QED
  BY <1>3, <1>4 DEF Covers

\* FindRecentByConversationId leaves a message out only for newer ones.
LEMMA RecentCovers ==
    ASSUME TypeOK, NEW n \in Nat, NEW S \in SUBSET (1 .. n), NEW h \in Recent(S, Limit),
           NEW i \in S
    PROVE  Covers(h, i)
<1> DEFINE size == IF Cardinality(S) < Limit THEN Cardinality(S) ELSE Limit
<1>1. IsFiniteSet(S) /\ Cardinality(S) \in Nat
  <2>1. IsFiniteSet(1 .. n)
    BY FS_Interval
  <2> QED
    BY <2>1, FS_Subset, FS_CardinalityType
<1>2. Limit \in Nat /\ Limit = LimitOf(maxRounds) /\ maxRounds \in Rounds
  BY LimitNat DEF TypeOK, Limit
<1>3. /\ h \in [1 .. size -> S] /\ Increasing(h)
      /\ (\E k \in 1 .. size : h[k] = i) \/ \A k \in 1 .. size : i < h[k]
  BY DEF Recent
<1>4. size \in Nat /\ (size = Limit \/ size = Cardinality(S))
  BY <1>1, <1>2
<1> HIDE DEF size
<1>5. Len(h) = size /\ i \in Nat /\ \A k \in 1 .. size : h[k] \in Nat
  <2>1. S \subseteq Nat
    OBVIOUS
  <2>2. h \in Seq(S) /\ Len(h) = size
    BY <1>3, <1>4
  <2> QED
    BY <1>3, <2>1, <2>2
<1>6. CASE \E k \in 1 .. size : h[k] = i
  BY <1>5, <1>6 DEF Covers
<1>7. CASE \A k \in 1 .. size : i < h[k]
  <2>1. CASE size = Limit
    BY <1>2, <1>5, <1>7, <2>1 DEF Covers
  <2>2. CASE size = Cardinality(S)
    <3>1. IsFiniteSet(S \ {i}) /\ Cardinality(S \ {i}) = size - 1
      BY <1>1, <2>2, FS_RemoveElement
    <3>2. h \in [1 .. size -> S \ {i}]
      <4>1. \A k \in 1 .. size : h[k] \in S \ {i}
        BY <1>3, <1>5, <1>7
      <4> QED
        BY <1>3, <4>1
    <3>3. \A j, k \in 1 .. size : h[j] = h[k] => j = k
      BY <1>3, <1>4, <1>5 DEF Increasing
    <3>4. h \in Injection(1 .. size, S \ {i})
      BY <3>2, <3>3 DEF Injection, IsInjective
    <3>5. Cardinality(1 .. size) <= Cardinality(S \ {i})
      BY <3>1, <3>4, FS_Injection
    <3>6. Cardinality(1 .. size) = size
      BY <1>4, FS_Interval
    <3> QED
      BY <1>4, <3>1, <3>5, <3>6
  <2> QED
    BY <1>4, <2>1, <2>2
<1> QED
  BY <1>3, <1>6, <1>7

\* What SaveHistory caches covers the new reply, and whatever the loaded history
\* covered.
LEMMA SavedCovers ==
    ASSUME IInv, NEW r \in Requests, pc[r] = "save"
    PROVE  LET saved == Trim(hist[r] \o mine[r])
           IN  /\ Covers(saved, mine[r][2])
               /\ \A i \in Nat :
                     Covers(hist[r], i) /\ (\A k \in 1 .. Len(mine[r]) : mine[r][k] > i)
                        => Covers(saved, i)
<1> DEFINE h == hist[r]
           m == mine[r]
           new == h \o m
<1>1. TypeOK /\ h \in Seq(Nat) /\ m \in Seq(Nat)
  BY DEF IInv, TypeOK
<1>2. Len(m) = 2
  BY DEF IInv, Progress, HandlerProgress
<1>3. new \in Seq(Nat) /\ Increasing(new)
  BY SavedHistorySound
<1>4. Covers(new, m[2])
  <2> HIDE DEF h, m
  <2>1. /\ Len(h) \in Nat
        /\ Len(h) + 2 \in 1 .. Len(h) + 2 /\ (Len(h) + 2) - Len(h) = 2
        /\ ~(Len(h) + 2 <= Len(h))
    BY <1>1
  <2>2. \A k \in 1 .. Len(h) + Len(m) : new[k] = IF k <= Len(h) THEN h[k] ELSE m[k - Len(h)]
    BY <1>1
  <2>3. Len(new) = Len(h) + Len(m)
    BY <1>1
  <2>4. Len(new) = Len(h) + 2 /\ new[Len(h) + 2] = m[2]
    BY <1>2, <2>1, <2>2, <2>3
  <2> HIDE DEF new
  <2> QED
    BY <2>1, <2>4 DEF Covers
<1>5. m[2] \in Nat
  BY <1>1, <1>2
<1>6. ASSUME NEW i \in Nat, Covers(h, i), \A k \in 1 .. Len(m) : m[k] > i
      PROVE  Covers(Trim(new), i)
  <2> HIDE DEF h, m
  <2>1. Covers(new, i)
    BY <1>1, <1>6, AppendCovers
  <2> HIDE DEF new
  <2> QED
    BY <1>1, <1>3, <2>1, TrimCovers
<1>7. Covers(Trim(new), m[2])
  <2> HIDE DEF new, m
  <2> QED
    BY <1>1, <1>3, <1>4, <1>5, TrimCovers
<1>8. \A i \in Nat : Covers(h, i) /\ (\A k \in 1 .. Len(m) : m[k] > i) => Covers(Trim(new), i)
  BY <1>6
<1> QED
  BY <1>7, <1>8, Zenon

-----------------------------------------------------------------------------
(* One handler at a time in the session of a page.                         *)

\* Deadlines that have passed stay passed.
LEMMA InTimeBefore ==
    ASSUME PInv, [PageNext]_allVars, NEW u \in Users, InTime(u)'
    PROVE  InTime(u)
<1>1. IInv /\ expired \subseteq Requests /\ \A r \in expired : pc[r] # "unsent"
  BY DEF PInv, IInv, TypeOK, Progress, HandlerProgress
<1>2. CASE UNCHANGED <<user, expired>>
  BY <1>2 DEF InTime
<1>3. CASE ServiceStep
  <2>1. user' = user
    BY <1>1, <1>3, ServiceFrame
  <2>2. expired \subseteq expired'
    BY <1>3 DEF ServiceStep, Handler, FindConversation, CreateConversation, CreateFails,
                ReadCacheHit, ReadCacheMiss, ReadDb, Refill, SearchDocs, CallModel,
                InsertUser, InsertReply, Insert, Commit, SaveHistory, FailStep,
                Deadline, Expire, Crash, Redeploy, requestVars
  <2> QED
    BY <2>1, <2>2 DEF InTime
<1>4. ASSUME NEW v \in Users, NEW r \in Requests, SendMessage(v, r) PROVE InTime(u)
  <2>1. /\ pc[r] = "unsent" /\ expired' = expired
        /\ \A q \in Requests : q # r => user'[q] = user[q]
    BY <1>1, <1>4, SendFrame
  <2> QED
    BY <1>1, <2>1 DEF InTime
<1>5. CASE UNCHANGED vars
  BY <1>2, <1>5 DEF vars
<1> QED
  BY <1>3, <1>4, <1>5 DEF PageNext, Page, ShowReply, ShowError, Reload, Settle, allVars

LEMMA QuietNext ==
    ASSUME PInv, [PageNext]_allVars,
           NEW u \in Users \ overlapped', InTime(u)',
           u \notin overlapped => QuietFor(u)
    PROVE  QuietFor(u)'
<1>1. /\ IInv /\ PageTypeOK /\ SessionsKnown /\ PageSound /\ WaitSound
      /\ session \in [Requests -> Sessions \cup {NewSession}]
      /\ pc \in [Requests -> Labels]
      /\ owner \in [Sessions -> Users \cup {NoUser}]
  BY DEF PInv, IInv, TypeOK
<1>2. NewSession \notin Sessions /\ NoUser \notin Users
  BY SentinelAssumption
<1>3. InTime(u)
  BY InTimeBefore
<1>4. \A v \in Users : waiting[v] \subseteq Requests
  BY <1>1 DEF PageTypeOK
<1> DEFINE Kept == QuietFor(u)'
<1> HIDE DEF Kept
<1>5. ASSUME ServiceStep /\ UNCHANGED pageVars PROVE Kept
  <2>1. /\ \A r \in Requests :
              /\ pc[r] = "unsent" => pc'[r] = "unsent"
              /\ pc[r] \in Ended => pc'[r] = pc[r]
              /\ \/ session'[r] = session[r]
                 \/ /\ session[r] = NewSession
                    /\ session'[r] \in Sessions
                    /\ owner[session'[r]] = NoUser
        /\ \A q, r \in Requests :
              session'[q] # session[q] /\ session'[r] # session[r] => q = r
    BY <1>1, <1>5, ServiceFrame
  <2>2. UNCHANGED <<sessionId, waiting, overlapped>>
    BY <1>5 DEF pageVars
  <2>3. QuietFor(u)
    BY <2>2
  <2>4. InFlight' \subseteq InFlight
    BY <2>1 DEF InFlight
  <2>5. \A r \in Requests : session[r] \in Sessions => owner[session[r]] # NoUser
    BY <1>1, <1>2 DEF SessionsKnown
  <2>6. ASSUME NEW q \in InFlight', sessionId[u] \in Sessions, session'[q] = sessionId[u]
        PROVE  q \in waiting[u]
    <3>1. q \in Requests /\ q \in InFlight
      BY <2>4 DEF InFlight
    <3>2. owner[sessionId[u]] # NoUser
      BY <1>1, <1>2, <2>6 DEF SessionsKnown
    <3>3. session'[q] = session[q]
      BY <2>1, <2>6, <3>1, <3>2
    <3> QED
      BY <2>3, <2>6, <3>1, <3>3 DEF QuietFor
  <2>7. ASSUME NEW r \in waiting[u], NEW q \in InFlight',
               session'[r] \in Sessions, session'[q] = session'[r]
        PROVE  q = r
    <3>1. q \in Requests /\ q \in InFlight /\ r \in Requests
      BY <1>4, <2>4 DEF InFlight
    <3>2. CASE session'[r] = session[r] /\ session'[q] = session[q]
      BY <2>3, <2>7, <3>1, <3>2 DEF QuietFor
    <3>3. CASE session'[r] # session[r] \/ session'[q] # session[q]
      BY <2>1, <2>5, <2>7, <3>1, <3>3
    <3> QED
      BY <3>2, <3>3
  <2> QED
    BY <2>2, <2>6, <2>7 DEF QuietFor, Kept
<1>6. ASSUME NEW v \in Users, NEW r \in Requests, SendMessage(v, r) PROVE Kept
  <2>1. /\ pc[r] = "unsent"
        /\ \A q \in Requests : q # r => pc'[q] = pc[q] /\ session'[q] = session[q]
        /\ \/ pc'[r] = "resolve" /\ session'[r] = sessionId[v]
           \/ pc'[r] = "failed" /\ session'[r] = session[r]
        /\ waiting' = [waiting EXCEPT ![v] = @ \cup {r}]
        /\ overlapped' = IF waiting[v] = {} THEN overlapped ELSE overlapped \cup {v}
        /\ sessionId' = sessionId
    BY <1>1, <1>6, SendFrame
  <2>2. session[r] = NewSession /\ r \notin waiting[u]
    BY <1>1, <1>4, <2>1 DEF SessionsKnown, PageSound
  <2>3. waiting'[u] = IF u = v THEN waiting[u] \cup {r} ELSE waiting[u]
    BY <1>1, <2>1 DEF PageTypeOK
  <2>4. u \notin overlapped /\ QuietFor(u) /\ (u = v => waiting[u] = {})
    BY <2>1
  <2>5. \A q \in InFlight' : q = r \/ (q # r /\ q \in InFlight /\ session'[q] = session[q])
    BY <2>1 DEF InFlight
  <2>6. r \in InFlight' => session'[r] = sessionId[v]
    BY <2>1 DEF InFlight, Ended
  <2>7. ASSUME NEW q \in InFlight', sessionId[u] \in Sessions, session'[q] = sessionId[u]
        PROVE  q \in waiting'[u]
    <3>1. CASE q = r
      <4>1. owner[sessionId[u]] = u /\ (sessionId[v] = sessionId[u] => owner[sessionId[u]] = v)
        BY <1>1, <2>7 DEF SessionsKnown
      <4> QED
        BY <2>3, <2>6, <2>7, <3>1, <4>1
    <3>2. CASE q # r
      BY <2>3, <2>4, <2>5, <2>7, <3>2 DEF QuietFor
    <3> QED
      BY <3>1, <3>2
  <2>8. ASSUME NEW w \in waiting'[u], NEW q \in InFlight',
               session'[w] \in Sessions, session'[q] = session'[w]
        PROVE  q = w
    <3>1. CASE u = v
      <4>1. w = r
        BY <2>3, <2>4, <3>1
      <4>2. session'[r] = sessionId[u]
        BY <1>2, <2>1, <2>2, <2>8, <3>1, <4>1
      <4> QED
        BY <2>4, <2>5, <2>8, <3>1, <4>1, <4>2 DEF QuietFor
    <3>2. CASE u # v
      <4>1. w \in waiting[u] /\ w # r /\ w \in Requests
        BY <1>4, <2>2, <2>3, <3>2
      <4>2. session'[w] = session[w]
        BY <2>1, <4>1
      <4>3. owner[session[w]] = u
        BY <1>1, <1>2, <2>8, <4>1, <4>2 DEF SessionsKnown, PageSound
      <4>4. q # r
        BY <1>1, <2>6, <2>8, <3>2, <4>2, <4>3 DEF SessionsKnown
      <4> QED
        BY <2>4, <2>5, <2>8, <4>1, <4>2, <4>4 DEF QuietFor
    <3> QED
      BY <3>1, <3>2
  <2> QED
    BY <2>1, <2>7, <2>8 DEF QuietFor, Kept
<1>7. ASSUME NEW v \in Users, NEW r \in Requests, ShowReply(v, r) PROVE Kept
  <2>1. /\ r \in waiting[v] /\ pc[r] = "replied"
        /\ waiting'[u] = IF u = v THEN waiting[u] \ {r} ELSE waiting[u]
        /\ sessionId'[u] = IF u = v THEN session[r] ELSE sessionId[u]
        /\ UNCHANGED <<pc, session, overlapped>>
    BY <1>1, <1>7 DEF ShowReply, Settle, Replied, At, vars, PageTypeOK
  <2>2. QuietFor(u) /\ InFlight' = InFlight /\ r \notin InFlight
    BY <2>1 DEF InFlight, Ended
  <2>3. CASE u # v
    BY <2>1, <2>2, <2>3 DEF QuietFor, Kept
  <2>4. CASE u = v
    <3>1. waiting'[u] = {}
      BY <1>1, <2>1, <2>4 DEF WaitSound
    <3> QED
      BY <2>1, <2>2, <2>4, <3>1 DEF QuietFor, Kept
  <2> QED
    BY <2>3, <2>4
<1>8. ASSUME NEW v \in Users, NEW r \in Requests, ShowError(v, r) PROVE Kept
  <2>1. /\ r \in waiting[v]
        /\ pc[r] \in Ended \/ r \in expired
        /\ waiting'[u] = IF u = v THEN waiting[u] \ {r} ELSE waiting[u]
        /\ UNCHANGED <<pc, session, overlapped, sessionId>>
    BY <1>1, <1>8 DEF ShowError, Settle, Replied, At, vars, PageTypeOK, Ended
  <2>2. QuietFor(u) /\ InFlight' = InFlight
    BY <2>1 DEF InFlight
  <2>3. CASE u # v
    BY <2>1, <2>2, <2>3 DEF QuietFor, Kept
  <2>4. CASE u = v
    <3>1. r \notin InFlight
      BY <1>1, <1>3, <2>1, <2>4 DEF InTime, PageSound, InFlight, Ended
    <3> QED
      BY <2>1, <2>2, <2>4, <3>1 DEF QuietFor, Kept
  <2> QED
    BY <2>3, <2>4
<1>9. ASSUME NEW v \in Users, Reload(v) PROVE Kept
  <2>1. /\ waiting'[u] = IF u = v THEN {} ELSE waiting[u]
        /\ sessionId'[u] = IF u = v THEN NewSession ELSE sessionId[u]
        /\ overlapped' = overlapped \ {v}
        /\ UNCHANGED <<pc, session>>
    BY <1>1, <1>9 DEF Reload, vars, PageTypeOK
  <2>2. InFlight' = InFlight
    BY <2>1 DEF InFlight
  <2> QED
    BY <1>2, <2>1, <2>2 DEF QuietFor, Kept
<1>10. ASSUME UNCHANGED allVars PROVE Kept
  <2>1. UNCHANGED <<pc, session, waiting, sessionId, overlapped>>
    BY <1>10 DEF allVars, vars, pageVars
  <2>2. InFlight' = InFlight /\ QuietFor(u)
    BY <2>1 DEF InFlight
  <2> QED
    BY <2>1, <2>2 DEF QuietFor, Kept
<1>11. Kept
  BY <1>5, <1>6, <1>7, <1>8, <1>9, <1>10 DEF PageNext, Page
<1> QED
  BY <1>11 DEF Kept

-----------------------------------------------------------------------------
(* Pages that wait are remembered.                                         *)

\* What a page shows is stored in the session it goes on with; before there is
\* one it shows nothing.
LEMMA ShownInSession ==
    ASSUME PInv, NEW u \in Users \ overlapped, NEW q \in shown[u]
    PROVE  /\ q \in Requests /\ pc[q] = "replied" /\ user[q] = u
           /\ session[q] = sessionId[u] /\ sessionId[u] \in Sessions
           /\ Len(mine[q]) = 2 /\ mine[q][2] \in Stored(sessionId[u])
           /\ mine[q][2] \in 1 .. Len(rows)
<1>1. /\ q \in Requests /\ pc[q] = "replied" /\ user[q] = u /\ session[q] = sessionId[u]
      /\ session[q] \in Sessions
  BY DEF PInv, PageTypeOK, PageSound, WaitSound, IInv, OwnSession
<1>2. Len(mine[q]) = 2 /\ mine[q][2] \in committed
  BY <1>1 DEF PInv, IInv, Progress, HandlerProgress
<1>3. IInv /\ 2 \in 1 .. Len(mine[q])
  BY <1>2 DEF PInv
<1>4. mine[q][2] \in 1 .. Len(rows) /\ rows[mine[q][2]].session = session[q]
  BY <1>1, <1>3, OwnRow
<1> QED
  BY <1>1, <1>2, <1>4 DEF Stored

\* The replies shown stay what they were.
LEMMA RepliesKept ==
    ASSUME PInv, NEW u \in Users \ overlapped, shown'[u] = shown[u],
           \A q \in Requests : pc[q] = "replied" => mine'[q] = mine[q]
    PROVE  Replies(u)' = Replies(u)
<1>1. \A q \in shown[u] : q \in Requests /\ pc[q] = "replied"
  BY ShownInSession
<1>2. \A q \in shown[u] : mine'[q][2] = mine[q][2]
  BY <1>1
<1> QED
  BY <1>2 DEF Replies

\* Steps that load, save and insert nothing.
LEMMA StillCovered ==
    ASSUME NEW u \in Users, CoveredFor(u), waiting[u] \subseteq Requests,
           UNCHANGED <<hist, mine, sessionId, waiting, shown>>,
           \A s \in Sessions : cache'[s] \in {cache[s], NoHistory},
           \A r \in Requests : r \in Loaded' => r \in Loaded,
           \A r \in Requests : pc'[r] = "replied" =>
              pc[r] = "replied" /\ session'[r] = session[r] /\ session[r] \in Sessions
    PROVE  CoveredFor(u)'
<1>1. Replies(u)' = Replies(u)
  BY DEF Replies
<1>2. \A r \in waiting[u] : r \in Loaded' => CoversAll(hist[r], Replies(u))
  BY DEF CoveredFor
<1>3. \A r \in waiting[u], i \in Replies(u) : \A k \in 1 .. Len(mine[r]) : mine[r][k] > i
  BY DEF CoveredFor
<1>4. sessionId[u] \in Sessions /\ cache'[sessionId[u]] # NoHistory =>
         CoversAll(cache'[sessionId[u]], Replies(u))
  BY DEF CoveredFor
<1>5. ASSUME NEW r \in waiting[u], pc'[r] = "replied", cache'[session'[r]] # NoHistory
      PROVE  CoversAll(cache'[session'[r]], Replies(u) \cup {mine[r][2]})
  <2>1. cache'[session'[r]] = cache[session[r]] /\ pc[r] = "replied"
    BY <1>5
  <2> QED
    BY <1>5, <2>1 DEF CoveredFor
<1> QED
  BY <1>1, <1>2, <1>3, <1>4, <1>5 DEF CoveredFor

\* A handler works in the session of u's page only for a message u waits for, and
\* no message u waits for is answered in that session already.
LEMMA OwnHandler ==
    ASSUME PInv, NEW u \in Users \ overlapped, QuietFor(u),
           NEW r \in InFlight, session[r] \in Sessions
    PROVE  /\ session[r] = sessionId[u] => r \in waiting[u]
           /\ \A w \in waiting[u] : pc[w] = "replied" => session[w] # session[r]
<1>1. \A w \in waiting[u] : w \in Requests
  BY DEF PInv, PageTypeOK
<1>2. ASSUME NEW w \in waiting[u], pc[w] = "replied", session[w] = session[r] PROVE FALSE
  <2>1. r = w
    BY <1>2 DEF QuietFor
  <2> QED
    BY <1>2, <2>1 DEF InFlight, Ended
<1> QED
  BY <1>2 DEF QuietFor

\* A history is loaded from Redis or from MySQL.
LEMMA LoadCovered ==
    ASSUME PInv, NEW u \in Users \ overlapped, CoveredFor(u),
           NEW r \in Requests, ReadCacheHit(r) \/ ReadDb(r),
           UNCHANGED pageVars
    PROVE  CoveredFor(u)'
<1>1. /\ pc \in [Requests -> Labels] /\ hist \in [Requests -> Seq(Nat)]
      /\ waiting[u] \subseteq Requests /\ TypeOK
  BY DEF PInv, IInv, TypeOK, PageTypeOK
<1>2. /\ UNCHANGED <<mine, cache, session, sessionId, waiting, shown>>
      /\ \A q \in Requests : q # r => pc'[q] = pc[q] /\ hist'[q] = hist[q]
      /\ pc'[r] \in {"search", "refill"} /\ pc[r] \in {"readCache", "readDb"}
  BY <1>1 DEF ReadCacheHit, ReadDb, pageVars, At, Goto, requestVars
<1>3. Replies(u)' = Replies(u)
  BY <1>2 DEF Replies
<1>4. ASSUME r \in waiting[u], NEW q \in shown[u] PROVE Covers(hist'[r], mine[q][2])
  <2>1. /\ session[r] = sessionId[u] /\ sessionId[u] \in Sessions
        /\ mine[q][2] \in Stored(session[r])
    <3>1. sessionId[u] \in Sessions /\ mine[q][2] \in Stored(sessionId[u])
      BY ShownInSession
    <3>2. pc[r] # "failed"
      BY <1>2
    <3> QED
      BY <1>4, <3>1, <3>2 DEF PInv, WaitSound
  <2>2. CASE ReadCacheHit(r)
    <3>1. hist'[r] = cache[sessionId[u]] /\ cache[sessionId[u]] # NoHistory
      BY <1>1, <2>1, <2>2 DEF ReadCacheHit
    <3> QED
      BY <2>1, <3>1 DEF CoveredFor, CoversAll, Replies
  <2>3. CASE ReadDb(r)
    <3>1. hist'[r] \in Recent(Stored(session[r]), Limit)
      BY <1>1, <2>3 DEF ReadDb
    <3>2. Stored(session[r]) \in SUBSET (1 .. Len(rows)) /\ Len(rows) \in Nat
      <4>1. Stored(session[r]) \subseteq committed
        BY DEF Stored
      <4>2. committed \subseteq 1 .. Len(rows) /\ Len(rows) \in Nat
        BY <1>1 DEF TypeOK
      <4> QED
        BY <4>1, <4>2, Zenon
    <3>3. hist'[r] \in Recent(Stored(session[r]), Limit) /\ TypeOK
      BY <1>1, <3>1
    <3> QED
      BY <2>1, <3>2, <3>3, RecentCovers
  <2> QED
    BY <2>2, <2>3
<1>5. ASSUME NEW w \in waiting[u], w \in Loaded' PROVE CoversAll(hist'[w], Replies(u))
  <2>1. CASE w = r
    BY <1>4, <2>1 DEF CoversAll, Replies
  <2>2. CASE w # r
    <3>1. w \in Loaded /\ hist'[w] = hist[w]
      BY <1>1, <1>2, <1>5, <2>2 DEF Loaded
    <3> QED
      BY <3>1 DEF CoveredFor
  <2> QED
    BY <2>1, <2>2
<1>6. \A w \in waiting[u] : pc'[w] = "replied" => pc[w] = "replied"
  BY <1>1, <1>2
<1>7. /\ sessionId[u] \in Sessions /\ cache[sessionId[u]] # NoHistory =>
            CoversAll(cache[sessionId[u]], Replies(u))
      /\ \A w \in waiting[u] : pc'[w] = "replied" /\ cache[session[w]] # NoHistory =>
            CoversAll(cache[session[w]], Replies(u) \cup {mine[w][2]})
  BY <1>6 DEF CoveredFor
<1>8. \A w \in waiting[u], i \in Replies(u) : \A k \in 1 .. Len(mine[w]) : mine[w][k] > i
  BY DEF CoveredFor
<1> QED
  BY <1>2, <1>3, <1>5, <1>7, <1>8 DEF CoveredFor

\* A history is put into Redis: the loaded one, or the one with the new round.
LEMMA CacheCovered ==
    ASSUME PInv, NEW u \in Users \ overlapped, QuietFor(u), CoveredFor(u),
           "redisSet" \notin Faults,
           NEW r \in Requests, Refill(r) \/ SaveHistory(r),
           UNCHANGED pageVars
    PROVE  CoveredFor(u)'
<1>1. /\ IInv /\ TypeOK /\ pc \in [Requests -> Labels]
      /\ waiting[u] \subseteq Requests /\ DOMAIN cache = Sessions
  BY DEF PInv, IInv, TypeOK, PageTypeOK
<1>2. PICK new : /\ cache' = [cache EXCEPT ![session[r]] = new]
                 /\ \/ pc[r] = "refill" /\ pc'[r] = "search" /\ new = hist[r]
                    \/ /\ pc[r] = "save" /\ pc'[r] = "replied"
                       /\ new = Trim(hist[r] \o mine[r])
                 /\ UNCHANGED <<mine, hist, session, sessionId, waiting, shown>>
                 /\ \A q \in Requests : q # r => pc'[q] = pc[q]
  <2>1. CASE Refill(r)
    <3>1. /\ cache' = [cache EXCEPT ![session[r]] = hist[r]]
          /\ pc[r] = "refill" /\ pc'[r] = "search"
          /\ UNCHANGED <<mine, hist, session, sessionId, waiting, shown>>
          /\ \A q \in Requests : q # r => pc'[q] = pc[q]
      BY <1>1, <2>1 DEF Refill, Setex, pageVars, At, Goto, requestVars
    <3> QED
      BY <3>1, Zenon
  <2>2. CASE SaveHistory(r)
    <3>1. /\ cache' = [cache EXCEPT ![session[r]] = Trim(hist[r] \o mine[r])]
          /\ pc[r] = "save" /\ pc'[r] = "replied"
          /\ UNCHANGED <<mine, hist, session, sessionId, waiting, shown>>
          /\ \A q \in Requests : q # r => pc'[q] = pc[q]
      BY <1>1, <2>2 DEF SaveHistory, Setex, pageVars, At, Goto, requestVars
    <3> QED
      BY <3>1, Zenon
  <2> QED
    BY <2>1, <2>2
<1>3. Replies(u)' = Replies(u)
  BY <1>2 DEF Replies
<1>4. session[r] \in Sessions /\ r \in InFlight /\ r \in Loaded
  BY <1>1, <1>2 DEF IInv, OwnSession, InFlight, Ended, Loaded
<1>5. /\ session[r] = sessionId[u] => r \in waiting[u]
      /\ \A w \in waiting[u] : pc[w] = "replied" => session[w] # session[r]
  BY <1>4, OwnHandler
<1>6. ASSUME r \in waiting[u] PROVE CoversAll(new, Replies(u))
  <2>1. CoversAll(hist[r], Replies(u))
    BY <1>4, <1>6 DEF CoveredFor
  <2>2. CASE new = hist[r]
    BY <2>1, <2>2
  <2>3. CASE pc[r] = "save" /\ new = Trim(hist[r] \o mine[r])
    <3>1. ASSUME NEW i \in Replies(u) PROVE Covers(new, i)
      <4>1. i \in Nat
        <5>1. PICK q \in shown[u] : i = mine[q][2]
          BY DEF Replies
        <5>2. mine[q][2] \in 1 .. Len(rows)
          BY ShownInSession
        <5> QED
          BY <5>1, <5>2
      <4>2. \A k \in 1 .. Len(mine[r]) : mine[r][k] > i
        BY <1>6 DEF CoveredFor
      <4>3. Covers(hist[r], i)
        BY <2>1 DEF CoversAll
      <4>4. \A j \in Nat :
               Covers(hist[r], j) /\ (\A k \in 1 .. Len(mine[r]) : mine[r][k] > j)
                  => Covers(Trim(hist[r] \o mine[r]), j)
        BY <1>1, <2>3, SavedCovers
      <4> QED
        BY <2>3, <4>1, <4>2, <4>3, <4>4, Zenon
    <3> QED
      BY <3>1 DEF CoversAll
  <2> QED
    BY <1>2, <2>2, <2>3
<1>7. pc[r] = "save" => Covers(new, mine[r][2])
  BY <1>1, <1>2, SavedCovers
<1>8. \A s \in Sessions : cache'[s] = IF s = session[r] THEN new ELSE cache[s]
  BY <1>1, <1>2, <1>4
<1>9. \A w \in waiting[u] : w \in Loaded' => CoversAll(hist[w], Replies(u))
  <2>1. \A w \in waiting[u] : w \in Loaded' => w \in Loaded
    BY <1>1, <1>2, <1>4 DEF Loaded
  <2> QED
    BY <2>1 DEF CoveredFor
<1>10. ASSUME sessionId[u] \in Sessions, cache'[sessionId[u]] # NoHistory
       PROVE  CoversAll(cache'[sessionId[u]], Replies(u))
  <2>1. CASE sessionId[u] = session[r]
    <3>1. cache'[sessionId[u]] = new
      BY <1>4, <1>8, <2>1
    <3> QED
      BY <1>5, <1>6, <2>1, <3>1
  <2>2. CASE sessionId[u] # session[r]
    <3>1. cache'[sessionId[u]] = cache[sessionId[u]]
      BY <1>8, <1>10, <2>2
    <3> QED
      BY <1>10, <3>1 DEF CoveredFor
  <2> QED
    BY <2>1, <2>2
<1>11. ASSUME NEW w \in waiting[u], pc'[w] = "replied", cache'[session[w]] # NoHistory
       PROVE  CoversAll(cache'[session[w]], Replies(u) \cup {mine[w][2]})
  <2>1. CASE w = r
    <3>1. cache'[session[w]] = new /\ pc[r] = "save"
      BY <1>2, <1>4, <1>8, <1>11, <2>1
    <3> QED
      BY <1>6, <1>7, <2>1, <3>1 DEF CoversAll
  <2>2. CASE w # r
    <3>1. pc[w] = "replied" /\ w \in Requests
      BY <1>1, <1>2, <1>11, <2>2
    <3>2. session[w] \in Sessions /\ session[w] # session[r]
      BY <1>1, <1>5, <3>1 DEF IInv, OwnSession
    <3>3. cache'[session[w]] = cache[session[w]]
      BY <1>8, <3>2
    <3> QED
      BY <1>11, <3>1, <3>3 DEF CoveredFor
  <2> QED
    BY <2>1, <2>2
<1>12. \A w \in waiting[u], i \in Replies(u) : \A k \in 1 .. Len(mine[w]) : mine[w][k] > i
  BY DEF CoveredFor
<1> QED
  BY <1>2, <1>3, <1>9, <1>10, <1>11, <1>12 DEF CoveredFor

\* A handler inserts a row: its id is greater than those of all rows.
LEMMA InsertCovered ==
    ASSUME PInv, NEW u \in Users \ overlapped, CoveredFor(u),
           NEW r \in Requests, InsertUser(r) \/ InsertReply(r),
           UNCHANGED pageVars
    PROVE  CoveredFor(u)'
<1>1. /\ pc \in [Requests -> Labels] /\ mine \in [Requests -> Seq(Nat)] /\ Len(rows) \in Nat
      /\ waiting[u] \subseteq Requests
  BY DEF PInv, IInv, TypeOK, PageTypeOK
<1>2. /\ UNCHANGED <<hist, cache, session, sessionId, waiting, shown>>
      /\ mine'[r] = Append(mine[r], Len(rows) + 1)
      /\ \A q \in Requests : q # r => pc'[q] = pc[q] /\ mine'[q] = mine[q]
      /\ pc[r] \in {"insertUser", "insertReply"} /\ pc'[r] \in {"insertReply", "commit"}
  BY <1>1 DEF InsertUser, InsertReply, Insert, pageVars, At, Goto, requestVars
<1>3. Replies(u)' = Replies(u)
  BY <1>2, RepliesKept
<1>4. \A i \in Replies(u) : i \in 1 .. Len(rows)
  BY ShownInSession DEF Replies
<1>5. \A w \in waiting[u] : w \in Loaded' => CoversAll(hist[w], Replies(u))
  <2>1. \A w \in waiting[u] : w \in Loaded' => w \in Loaded
    BY <1>1, <1>2 DEF Loaded
  <2> QED
    BY <2>1 DEF CoveredFor
<1>6. ASSUME NEW w \in waiting[u], NEW i \in Replies(u), NEW k \in 1 .. Len(mine'[w])
      PROVE  mine'[w][k] > i
  <2>1. CASE w # r
    BY <1>1, <1>2, <1>6, <2>1 DEF CoveredFor
  <2>2. CASE w = r
    <3> DEFINE m == mine[r]
    <3>1. m \in Seq(Nat) /\ mine'[w] = Append(m, Len(rows) + 1) /\ k \in 1 .. Len(mine'[w])
      BY <1>1, <1>2, <1>6, <2>2
    <3>2. \A j \in 1 .. Len(m) : m[j] > i
      BY <2>2 DEF CoveredFor
    <3> HIDE DEF m
    <3>3. mine'[w][k] = Len(rows) + 1 \/ (k \in 1 .. Len(m) /\ mine'[w][k] = m[k])
      BY <3>1
    <3>4. Len(rows) + 1 > i
      BY <1>1, <1>4
    <3> QED
      BY <3>2, <3>3, <3>4
  <2> QED
    BY <2>1, <2>2
<1>7. sessionId[u] \in Sessions /\ cache[sessionId[u]] # NoHistory =>
         CoversAll(cache[sessionId[u]], Replies(u))
  BY DEF CoveredFor
<1>8. ASSUME NEW w \in waiting[u], pc'[w] = "replied", cache[session[w]] # NoHistory
      PROVE  CoversAll(cache[session[w]], Replies(u) \cup {mine'[w][2]})
  <2>1. pc[w] = "replied" /\ mine'[w] = mine[w]
    BY <1>1, <1>2, <1>8
  <2> QED
    BY <1>8, <2>1 DEF CoveredFor
<1> QED
  BY <1>2, <1>3, <1>5, <1>6, <1>7, <1>8 DEF CoveredFor

LEMMA CoveredNext ==
    ASSUME PInv, [PageNext]_allVars, "redisSet" \notin Faults,
           NEW u \in Users \ overlapped', InTime(u)',
           u \notin overlapped => QuietFor(u) /\ CoveredFor(u)
    PROVE  CoveredFor(u)'
<1>1. /\ IInv /\ PageTypeOK /\ SessionsKnown /\ PageSound /\ WaitSound
      /\ pc \in [Requests -> Labels]
      /\ \A v \in Users : waiting[v] \subseteq Requests
  BY DEF PInv, IInv, TypeOK, PageTypeOK
<1>2. \A q \in Requests : pc[q] = "replied" => session[q] \in Sessions
  BY <1>1 DEF IInv, OwnSession
<1> DEFINE Kept == CoveredFor(u)'
<1> HIDE DEF Kept
<1>3. ASSUME ServiceStep /\ UNCHANGED pageVars PROVE Kept
  <2>1. u \in Users \ overlapped /\ QuietFor(u) /\ CoveredFor(u)
    BY <1>3 DEF pageVars
  <2>2. UNCHANGED <<sessionId, waiting, shown>>
    BY <1>3 DEF pageVars
  <2>3. \A r \in Requests : pc[r] \in Ended => session'[r] = session[r] /\ pc'[r] = pc[r]
    BY <1>1, <1>3, ServiceFrame DEF Ended
  <2>4. ASSUME UNCHANGED <<hist, mine>>,
               \A s \in Sessions : cache'[s] \in {cache[s], NoHistory},
               \A r \in Requests :
                  \/ pc'[r] = pc[r]
                  \/ pc'[r] \notin {"replied"} \cup (Labels \ {"unsent", "resolve",
                                         "readCache", "readDb", "failed"})
                  \/ pc'[r] # "replied" /\ r \in Loaded
        PROVE  Kept
    <3>1. \A r \in Requests : r \in Loaded' => r \in Loaded
      BY <1>1, <2>4 DEF Loaded, Labels, Ended
    <3>2. \A r \in Requests : pc'[r] = "replied" =>
             pc[r] = "replied" /\ session'[r] = session[r] /\ session[r] \in Sessions
      BY <1>2, <2>3, <2>4 DEF Ended
    <3> QED
      BY <1>1, <2>1, <2>2, <2>4, <3>1, <3>2, StillCovered DEF Kept
  <2>5. ASSUME NEW r \in Requests,
               \/ FindConversation(r) \/ CreateConversation(r) \/ CreateFails(r)
               \/ ReadCacheMiss(r) \/ SearchDocs(r) \/ CallModel(r) \/ Commit(r)
               \/ FailStep(r)
        PROVE  Kept
    <3>1. UNCHANGED <<hist, mine, cache>>
      BY <2>5 DEF FindConversation, CreateConversation, CreateFails, ReadCacheMiss,
                  SearchDocs, CallModel, Commit, FailStep
    <3>2. \A q \in Requests : q # r => pc'[q] = pc[q]
      BY <1>1, <2>5 DEF FindConversation, CreateConversation, CreateFails, ReadCacheMiss,
                        SearchDocs, CallModel, Commit, FailStep, Goto
    <3>3. pc'[r] \in {"readCache", "readDb", "failed"} \/ (pc'[r] # "replied" /\ r \in Loaded)
      BY <1>1, <2>5 DEF FindConversation, CreateConversation, CreateFails, ReadCacheMiss,
                        SearchDocs, CallModel, Commit, FailStep, Goto, At, Loaded
    <3> QED
      BY <2>4, <3>1, <3>2, <3>3
  <2>6. ASSUME NEW r \in Requests, Handler(r) PROVE Kept
    BY <1>3, <2>1, <2>5, <2>6, LoadCovered, CacheCovered, InsertCovered DEF Handler, Kept
  <2>7. CASE \E r \in Requests : Deadline(r)
    BY <2>4, <2>7 DEF Deadline
  <2>8. CASE \E s \in Sessions : Expire(s)
    <3>1. UNCHANGED <<hist, mine, pc>>
      BY <2>8 DEF Expire
    <3>2. \A s \in Sessions : cache'[s] \in {cache[s], NoHistory}
      <4>1. DOMAIN cache = Sessions
        BY <1>1 DEF IInv, TypeOK
      <4> QED
        BY <2>8, <4>1 DEF Expire
    <3> QED
      BY <2>4, <3>1, <3>2
  <2>9. CASE Crash
    <3>1. \A r \in Requests : pc'[r] = pc[r] \/ pc'[r] = "failed"
      BY <2>9 DEF Crash
    <3> QED
      BY <2>4, <2>9, <3>1 DEF Crash
  <2>10. CASE Redeploy
    BY <2>4, <2>10 DEF Redeploy
  <2> QED
    BY <1>3, <2>6, <2>7, <2>8, <2>9, <2>10 DEF ServiceStep
<1>4. ASSUME NEW v \in Users, NEW r \in Requests, SendMessage(v, r) PROVE Kept
  <2>1. /\ pc[r] = "unsent" /\ pc'[r] \in {"resolve", "failed"}
        /\ \A q \in Requests : q # r => pc'[q] = pc[q] /\ session'[q] = session[q]
        /\ waiting' = [waiting EXCEPT ![v] = @ \cup {r}]
        /\ overlapped' = IF waiting[v] = {} THEN overlapped ELSE overlapped \cup {v}
        /\ UNCHANGED <<sessionId, shown, hist, mine, cache>>
    BY <1>1, <1>4, SendFrame
  <2>2. u \in Users \ overlapped /\ CoveredFor(u) /\ Replies(u)' = Replies(u)
    BY <2>1 DEF Replies
  <2>3. mine[r] = <<>>
    BY <1>1, <2>1 DEF IInv, TypeOK, Progress, HandlerProgress
  <2>4. \A w \in waiting'[u] : w = r \/ (w # r /\ w \in waiting[u] /\ w \in Requests)
    BY <1>1, <2>1 DEF PageTypeOK
  <2>5. ASSUME NEW w \in waiting'[u], w \in Loaded' PROVE CoversAll(hist'[w], Replies(u))
    BY <2>1, <2>2, <2>4, <2>5 DEF Loaded, CoveredFor
  <2>6. ASSUME NEW w \in waiting'[u], NEW i \in Replies(u), NEW k \in 1 .. Len(mine'[w])
        PROVE  mine'[w][k] > i
    BY <2>1, <2>2, <2>3, <2>4, <2>6 DEF CoveredFor
  <2>7. ASSUME NEW w \in waiting'[u], pc'[w] = "replied", cache'[session'[w]] # NoHistory
        PROVE  CoversAll(cache'[session'[w]], Replies(u) \cup {mine'[w][2]})
    BY <2>1, <2>2, <2>4, <2>7 DEF CoveredFor
  <2>8. sessionId'[u] \in Sessions /\ cache'[sessionId'[u]] # NoHistory =>
           CoversAll(cache'[sessionId'[u]], Replies(u))
    BY <2>1, <2>2 DEF CoveredFor
  <2> QED
    BY <2>2, <2>5, <2>6, <2>7, <2>8 DEF CoveredFor, Kept
<1>5. ASSUME NEW v \in Users, NEW r \in Requests, ShowReply(v, r) \/ ShowError(v, r)
      PROVE Kept
  <2>1. /\ r \in waiting[v]
        /\ waiting'[u] = IF u = v THEN waiting[u] \ {r} ELSE waiting[u]
        /\ UNCHANGED <<pc, session, hist, mine, cache, overlapped>>
        /\ \/ /\ pc[r] = "replied"
              /\ shown'[u] = IF u = v THEN shown[u] \cup {r} ELSE shown[u]
              /\ sessionId'[u] = IF u = v THEN session[r] ELSE sessionId[u]
           \/ UNCHANGED <<shown, sessionId>>
    BY <1>1, <1>5 DEF ShowReply, ShowError, Settle, Replied, At, vars, PageTypeOK
  <2>2. u \in Users \ overlapped /\ CoveredFor(u) /\ Loaded' = Loaded
    BY <2>1 DEF Loaded
  <2>3. CASE shown'[u] = shown[u] /\ sessionId'[u] = sessionId[u]
    <3>1. Replies(u)' = Replies(u) /\ waiting'[u] \subseteq waiting[u]
      BY <2>1, <2>3 DEF Replies
    <3> QED
      BY <2>1, <2>2, <2>3, <3>1 DEF CoveredFor, Kept
  <2>4. CASE /\ u = v /\ pc[r] = "replied"
             /\ shown'[u] = shown[u] \cup {r} /\ sessionId'[u] = session[r]
    <3>1. waiting'[u] = {}
      BY <1>1, <2>1, <2>2, <2>4 DEF WaitSound
    <3>2. Replies(u)' = Replies(u) \cup {mine[r][2]}
      BY <2>1, <2>4 DEF Replies
    <3>3. cache[session[r]] # NoHistory =>
             CoversAll(cache[session[r]], Replies(u) \cup {mine[r][2]})
      BY <2>1, <2>2, <2>4 DEF CoveredFor
    <3> QED
      BY <2>1, <2>4, <3>1, <3>2, <3>3 DEF CoveredFor, Kept
  <2> QED
    BY <2>1, <2>3, <2>4
<1>6. ASSUME NEW v \in Users, Reload(v) PROVE Kept
  <2>1. /\ waiting'[u] = IF u = v THEN {} ELSE waiting[u]
        /\ shown'[u] = IF u = v THEN {} ELSE shown[u]
        /\ sessionId'[u] = IF u = v THEN NewSession ELSE sessionId[u]
        /\ overlapped' = overlapped \ {v}
        /\ UNCHANGED <<pc, session, hist, mine, cache>>
    BY <1>1, <1>6 DEF Reload, vars, PageTypeOK
  <2>2. Loaded' = Loaded /\ NewSession \notin Sessions
    BY <2>1, SentinelAssumption DEF Loaded
  <2>3. CASE u = v
    BY <2>1, <2>2, <2>3 DEF CoveredFor, Kept
  <2>4. CASE u # v
    <3>1. Replies(u)' = Replies(u) /\ CoveredFor(u)
      BY <2>1, <2>4 DEF Replies
    <3> QED
      BY <2>1, <2>2, <2>4, <3>1 DEF CoveredFor, Kept
  <2> QED
    BY <2>3, <2>4
<1>7. ASSUME UNCHANGED allVars PROVE Kept
  <2>1. UNCHANGED <<pc, session, hist, mine, cache, waiting, shown, sessionId, overlapped>>
    BY <1>7 DEF allVars, vars, pageVars
  <2>2. Loaded' = Loaded /\ Replies(u)' = Replies(u) /\ CoveredFor(u)
    BY <2>1 DEF Loaded, Replies
  <2> QED
    BY <2>1, <2>2 DEF CoveredFor, Kept
<1>8. Kept
  BY <1>3, <1>4, <1>5, <1>6, <1>7 DEF PageNext, Page
<1> QED
  BY <1>8 DEF Kept

LEMMA RInvNext == "redisSet" \notin Faults => (RInv /\ [PageNext]_allVars => RInv')
<1> SUFFICES ASSUME "redisSet" \notin Faults, RInv, [PageNext]_allVars PROVE RInv'
  OBVIOUS
<1>1. PInv /\ PInv'
  BY PInvNext DEF RInv
<1>2. ASSUME NEW u \in Users \ overlapped', InTime(u)'
      PROVE  QuietFor(u)' /\ CoveredFor(u)'
  <2>1. InTime(u)
    BY <1>1, <1>2, InTimeBefore
  <2>2. u \notin overlapped => QuietFor(u) /\ CoveredFor(u)
    BY <2>1 DEF RInv, SessionsQuiet, ShownCovered
  <2> QED
    BY <1>1, <1>2, <2>2, QuietNext, CoveredNext
<1> QED
  BY <1>1, <1>2 DEF RInv, SessionsQuiet, ShownCovered

\* ShownRemembered, when cache writes do not fail: in the session of a page that waits
\* there is one handler at a time, so no older history replaces a newer one, and what
\* is trimmed or left out by the query is older than a whole history.
THEOREM PagesRemembered ==
    ASSUME "redisSet" \notin Faults
    PROVE  PageSpec => []ShownRemembered
<1>1. PageInit => RInv
  <2> SUFFICES ASSUME PageInit PROVE RInv
    OBVIOUS
  <2>1. /\ \A u \in Users : waiting[u] = {} /\ shown[u] = {} /\ sessionId[u] = NewSession
        /\ NewSession \notin Sessions
    BY SentinelAssumption DEF PageInit
  <2> QED
    BY <2>1, PageInitInv DEF RInv, SessionsQuiet, QuietFor, ShownCovered, CoveredFor
<1>2. RInv /\ [PageNext]_allVars => RInv'
  BY RInvNext
<1>3. RInv => ShownRemembered
  <2> SUFFICES ASSUME RInv, NEW u \in Users \ overlapped, \A r \in expired : user[r] # u,
                      NEW r \in waiting[u] \cap Loaded, NEW q \in shown[u]
               PROVE  \/ q \in Prompted(r)
                      \/ /\ \E n \in Rounds : Len(hist[r]) >= LimitOf(n)
                         /\ \A k \in 1 .. Len(hist[r]) : hist[r][k] > mine[q][2]
    BY DEF ShownRemembered
  <2>1. PInv /\ IInv /\ CoveredFor(u)
    BY DEF RInv, PInv, ShownCovered, InTime
  <2>2. Covers(hist[r], mine[q][2])
    BY <2>1 DEF CoveredFor, CoversAll, Replies
  <2>3. ASSUME NEW k \in 1 .. Len(hist[r]), hist[r][k] = mine[q][2] PROVE q \in Prompted(r)
    <3>1. q \in Requests /\ Len(mine[q]) = 2
      BY <2>1, ShownInSession
    <3>2. rows[mine[q][2]].req = q
      BY <2>1, <3>1, OwnRow
    <3> QED
      BY <2>3, <3>2 DEF Prompted
  <2> QED
    BY <2>2, <2>3 DEF Covers
<1> QED
  BY <1>1, <1>2, <1>3, PTL DEF PageSpec
=============================================================================

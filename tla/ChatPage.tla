------------------------------ MODULE ChatPage ------------------------------
(***************************************************************************)
(* The chat page in front of the Chat handler (frontend/index.html): each  *)
(* user has the page open once.  sendMessage runs once per click, up to    *)
(* its await on fetch and from there to its end, over the one sessionId of *)
(* the page; nothing keeps a second click from starting another before.    *)
(* The service is ChatHistory, whose clients the pages are.                *)
(***************************************************************************)
EXTENDS ChatHistory

CONSTANT RepliesLost       \* TRUE if a reply may be lost on its way to a page

ASSUME RepliesAssumption == RepliesLost \in BOOLEAN

VARIABLES sessionId,    \* the sessionId of each user's page
          waiting,      \* the messages whose fetch has not settled
          shown,        \* the messages whose reply the page shows
          overlapped    \* pages that were sent a message while they waited

pageVars == <<sessionId, waiting, shown, overlapped>>
allVars == <<vars, pageVars>>

PageInit ==
    /\ Init
    /\ sessionId = [u \in Users |-> NewSession]
    /\ waiting = [u \in Users |-> {}]
    /\ shown = [u \in Users |-> {}]
    /\ overlapped = {}

-----------------------------------------------------------------------------

\* sendMessage up to its await: the request carries what sessionId is now.
SendMessage(u, r) ==
    /\ Send(r, u, sessionId[u]) \/ Refuse(r)
    /\ waiting' = [waiting EXCEPT ![u] = @ \cup {r}]
    /\ overlapped' = IF waiting[u] = {} THEN overlapped ELSE overlapped \cup {u}
    /\ UNCHANGED <<sessionId, shown>>

\* The fetch of r settles; until then the page shows that it is loading.
Settle(u, r) ==
    /\ r \in waiting[u]
    /\ waiting' = [waiting EXCEPT ![u] = @ \ {r}]
    /\ UNCHANGED <<vars, overlapped>>

Replied(r) == At(r, "replied") /\ r \notin expired

\* Mutant of ShowReply: the reply is shown, its session_id not kept.
ShowReplyOnly(u, r) ==
    /\ Settle(u, r) /\ Replied(r)
    /\ shown' = [shown EXCEPT ![u] = @ \cup {r}]
    /\ UNCHANGED sessionId

\* sendMessage from its await on: the reply is shown, its session continued.
ShowReply(u, r) ==
    /\ Settle(u, r) /\ Replied(r)
    /\ shown' = [shown EXCEPT ![u] = @ \cup {r}]
    /\ sessionId' = [sessionId EXCEPT ![u] = session[r]]

\* Its catch block: the page shows an error and keeps its session.
ShowError(u, r) ==
    /\ Settle(u, r)
    /\ At(r, "failed") \/ r \in expired \/ (Replied(r) /\ RepliesLost)
    /\ UNCHANGED <<shown, sessionId>>

\* The user reloads the page: sessionId is '' again and nothing is shown.  The
\* handlers of abandoned fetches go on.
Reload(u) ==
    /\ sessionId' = [sessionId EXCEPT ![u] = NewSession]
    /\ waiting' = [waiting EXCEPT ![u] = {}]
    /\ shown' = [shown EXCEPT ![u] = {}]
    /\ overlapped' = overlapped \ {u}
    /\ UNCHANGED vars

Page(u) == \/ \E r \in Requests : SendMessage(u, r) \/ ShowReply(u, r) \/ ShowError(u, r)
           \/ Reload(u)

\* Steps of the service without its clients.
ServiceStep == \/ \E r \in Requests : Handler(r) \/ Deadline(r)
               \/ \E s \in Sessions : Expire(s)
               \/ Crash
               \/ Redeploy

PageNext == (\E u \in Users : Page(u)) \/ (ServiceStep /\ UNCHANGED pageVars)

PageSpec == PageInit /\ [][PageNext]_allVars

-----------------------------------------------------------------------------

\* All that a page shows is of its own user's conversations, and it goes on with
\* one of those it shows, however its messages overlap and whatever fails or is
\* lost on the way.  As long as its user waits for each answer (or error), it is
\* one conversation; a user who does not wait may get two.
OneConversation ==
    \A u \in Users :
        /\ \A r \in shown[u] : owner[session[r]] = u
        /\ shown[u] # {} => \E r \in shown[u] : session[r] = sessionId[u]
        /\ u \notin overlapped => \A r \in shown[u] : session[r] = sessionId[u]

\* The history of r is loaded.
Loaded == {r \in Requests : pc[r] \in {"refill", "search", "model", "insertUser",
                                       "insertReply", "commit", "save", "replied"}}

Prompted(r) == {rows[hist[r][k]].req : k \in 1 .. Len(hist[r])}

\* What the page shows the model remembers: the history loaded for a message
\* holds every exchange shown before, or as many newer ones as MaxHistoryRounds
\* allows.  This takes a user who waits, no deadline that passed (a handler that
\* was given up may save its older history after the next one has saved its)
\* and no failing cache write.
ShownRemembered ==
    \A u \in Users \ overlapped :
        (\A r \in expired : user[r] # u) =>
            \A r \in waiting[u] \cap Loaded, q \in shown[u] :
                \/ q \in Prompted(r)
                \/ /\ \E n \in Rounds : Len(hist[r]) >= LimitOf(n)
                   /\ \A k \in 1 .. Len(hist[r]) : hist[r][k] > mine[q][2]
=============================================================================

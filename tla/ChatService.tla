---------------------------- MODULE ChatService ----------------------------
(***************************************************************************)
(* What the chat service promises, without MySQL, Redis or interleaved     *)
(* steps.  A request belongs to one user and one session.  Its exchange    *)
(* (the user's message and the assistant's reply) is stored at most once   *)
(* and as a whole, only in a session of that user; a reply is given only   *)
(* after the exchange is stored; and the model is shown nothing but        *)
(* messages of stored exchanges of the same session.                       *)
(***************************************************************************)

CONSTANTS Requests,     \* the chat requests ever sent
          Users,        \* authenticated users
          Sessions,     \* session identifiers the service can hand out
          NewSession,   \* a request that names no session
          NoUser        \* the owner of a session nobody opened

VARIABLES outcome,  \* what became of each request, as its client sees it
          user,     \* who sent it
          session,  \* the session it names, and later the one it runs in
          owner,    \* the owner of each session
          saved,    \* the requests whose exchange is stored
          prompt    \* the stored messages each request showed the model

vars == <<outcome, user, session, owner, saved, prompt>>

Roles == {"user", "assistant"}

\* The messages of the exchanges stored in session s.
Transcript(s) == {q \in saved : session[q] = s} \X Roles

\* A handler may still act for a request that is open, or whose client was
\* told "deadline exceeded" while the handler was at work.
Active(r) == outcome[r] \in {"open", "late"}

Init ==
    /\ outcome = [r \in Requests |-> "unsent"]
    /\ user = [r \in Requests |-> NoUser]
    /\ session = [r \in Requests |-> NewSession]
    /\ owner = [s \in Sessions |-> NoUser]
    /\ saved = {}
    /\ prompt = [r \in Requests |-> {}]

Ask(r, u, s) ==
    /\ outcome[r] = "unsent"
    /\ outcome' = [outcome EXCEPT ![r] = "open"]
    /\ user' = [user EXCEPT ![r] = u]
    /\ session' = [session EXCEPT ![r] = s]
    /\ UNCHANGED <<owner, saved, prompt>>

Refuse(r) ==
    /\ outcome[r] = "unsent"
    /\ outcome' = [outcome EXCEPT ![r] = "failed"]
    /\ UNCHANGED <<user, session, owner, saved, prompt>>

\* A session is opened for the user of the request; the request may end there.
Open(r, s) ==
    /\ Active(r)
    /\ session[r] = NewSession
    /\ owner[s] = NoUser
    /\ owner' = [owner EXCEPT ![s] = user[r]]
    /\ session' = [session EXCEPT ![r] = s]
    /\ outcome' \in {outcome, [outcome EXCEPT ![r] = "failed"]}
    /\ UNCHANGED <<user, saved, prompt>>

\* The prompt quotes only what is stored in the user's own session.
Quote(r) ==
    /\ Active(r)
    /\ session[r] \in Sessions
    /\ owner[session[r]] = user[r]
    /\ \E seen \in SUBSET Transcript(session[r]) :
          prompt' = [prompt EXCEPT ![r] = seen]
    /\ UNCHANGED <<outcome, user, session, owner, saved>>

\* The whole exchange is stored, once; the client may be told it failed.
Save(r) ==
    /\ Active(r)
    /\ r \notin saved
    /\ session[r] \in Sessions
    /\ owner[session[r]] = user[r]
    /\ saved' = saved \cup {r}
    /\ outcome' \in {outcome, [outcome EXCEPT ![r] = "failed"]}
    /\ UNCHANGED <<user, session, owner, prompt>>

Reply(r) ==
    /\ outcome[r] = "open"
    /\ r \in saved
    /\ outcome' = [outcome EXCEPT ![r] = "replied"]
    /\ UNCHANGED <<user, session, owner, saved, prompt>>

Late(r) ==
    /\ outcome[r] = "open"
    /\ outcome' = [outcome EXCEPT ![r] = "late"]
    /\ UNCHANGED <<user, session, owner, saved, prompt>>

\* Requests fail one by one, or all at once when the process dies.
Fail(R) ==
    /\ \A r \in R : Active(r)
    /\ outcome' = [r \in Requests |-> IF r \in R THEN "failed" ELSE outcome[r]]
    /\ UNCHANGED <<user, session, owner, saved, prompt>>

Next ==
    \/ \E r \in Requests :
          \/ \E u \in Users, s \in Sessions \cup {NewSession} : Ask(r, u, s)
          \/ Refuse(r)
          \/ \E s \in Sessions : Open(r, s)
          \/ Quote(r)
          \/ Save(r)
          \/ Reply(r)
          \/ Late(r)
    \/ \E R \in SUBSET Requests : Fail(R)

Spec == Init /\ [][Next]_vars

=============================================================================

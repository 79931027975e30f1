------------------------ MODULE UserAccounts_proofs ------------------------
(***************************************************************************)
(* Proofs about UserAccounts: the type invariant, that a token is for the  *)
(* user who asked, and that a mobile has one account.                      *)
(***************************************************************************)
EXTENDS UserAccounts, TLAPS

\* Where a handler works on the row it has found.
Located == {"setRow", "setIndex", "row", "rowDb", "storeRow", "answer", "delete"}

Holds(i, m) == i \in 1 .. Len(users) /\ users[i].mobile = m

\* uniq_mobile.
Unique == \A i, j \in 1 .. Len(users) : users[i].mobile = users[j].mobile => i = j

\* An index key leads to the row of its mobile.
IndexRight == \A m \in Mobiles : index[m] \notin {Absent, Placeholder} => Holds(index[m], m)

\* A request works on the row of its mobile; only Register inserts.
RowRight(r) ==
    /\ pc[r] \in Located => Holds(id[r], mobile[r])
    /\ pc[r] \in {"insert", "delete"} => kind[r] = "register" /\ token[r] = 0
    /\ pc[r] = "delete" => users[id[r]].password = password[r]

\* The requests that have inserted a row and still answer for it.
Inserter(r) == pc[r] = "delete" \/ (kind[r] = "register" /\ token[r] # 0)

\* Tokens are issued at the end; a row has one inserter.
TokenSound ==
    /\ \A r \in Requests : token[r] # 0 =>
          pc[r] = "replied" /\ (kind[r] = "register" => token[r] = id[r])
    /\ \A q, r \in Requests : (Inserter(q) /\ Inserter(r) /\ id[q] = id[r]) => q = r

IInv ==
    /\ TypeOK
    /\ Unique
    /\ IndexRight
    /\ \A r \in Requests : RowRight(r)
    /\ TokenSound
    /\ TokenRight

-----------------------------------------------------------------------------

LEMMA InitInv == Init => IInv
<1> SUFFICES ASSUME Init PROVE IInv
  OBVIOUS
<1>1. users = <<>> /\ Len(users) = 0 /\ users \in Seq(User)
  BY DEF Init
<1>2. TypeOK
  BY <1>1 DEF Init, TypeOK, Labels, Ended
<1> QED
  BY <1>1, <1>2, AccountsAssumption
     DEF IInv, Init, Unique, IndexRight, RowRight, Located, TokenSound, Inserter, TokenRight

\* Nothing but the keys in Redis changes, and requests move on that have no
\* token yet: to the row of their mobile, to the end, or to the insert.
LEMMA MoveInv ==
    ASSUME IInv, UNCHANGED <<request, token, users>>,
           id' \in [Requests -> 0 .. Len(users)],
           pc' \in [Requests -> Labels],
           index' \in [Mobiles -> {Absent, Placeholder} \cup 1 .. Len(users)],
           \A m \in Mobiles : index'[m] \notin {Absent, Placeholder} => Holds(index'[m], m),
           cachedRows' \subseteq 1 .. Len(users),
           retries' \subseteq Mobiles,
           \A q \in Requests :
              \/ pc'[q] = pc[q] /\ id'[q] = id[q]
              \/ /\ pc[q] # "replied" /\ pc'[q] # "delete"
                 /\ pc'[q] \in Located => Holds(id'[q], mobile[q])
                 /\ pc'[q] = "insert" => kind[q] = "register"
    PROVE  IInv'
<1>1. TypeOK'
  BY DEF IInv, TypeOK, request
<1>2. Unique' /\ IndexRight'
  BY DEF IInv, Unique, IndexRight, Holds, request
<1>3. \A q \in Requests : token[q] # 0 => pc[q] = "replied"
  BY DEF IInv, TokenSound
<1>4. ASSUME NEW r \in Requests
      PROVE  RowRight(r)'
  <2>1. CASE pc'[r] = pc[r] /\ id'[r] = id[r]
    BY <2>1 DEF IInv, RowRight, Holds, request
  <2>2. CASE /\ pc[r] # "replied" /\ pc'[r] # "delete"
             /\ pc'[r] \in Located => Holds(id'[r], mobile[r])
             /\ pc'[r] = "insert" => kind[r] = "register"
    BY <1>3, <2>2 DEF RowRight, Holds, request
  <2> QED
    BY <2>1, <2>2
<1>5. \A q \in Requests : token[q] # 0 => pc'[q] = pc[q] /\ id'[q] = id[q]
  BY <1>3
<1>6. \A q \in Requests : Inserter(q)' => Inserter(q) /\ id'[q] = id[q]
  BY <1>5 DEF Inserter, request
<1>7. TokenSound'
  BY <1>5, <1>6 DEF IInv, TokenSound, request
<1>8. TokenRight'
  BY DEF IInv, TokenRight, request
<1> QED
  BY <1>1, <1>2, <1>4, <1>7, <1>8 DEF IInv

-----------------------------------------------------------------------------
(* The steps that issue a request, insert a row or issue a token.          *)

LEMMA AskInv ==
    ASSUME IInv, NEW r \in Requests, NEW k \in {"register", "login"},
           NEW m \in Mobiles, NEW p \in Passwords, Ask(r, k, m, p)
    PROVE  IInv'
<1>1. /\ pc[r] = "unsent"
      /\ pc' = [q \in Requests |-> IF q \in {r} THEN "index" ELSE pc[q]]
      /\ kind' = [kind EXCEPT ![r] = k]
      /\ mobile' = [mobile EXCEPT ![r] = m]
      /\ password' = [password EXCEPT ![r] = p]
      /\ UNCHANGED <<id, token, users, index, cachedRows, retries>>
  BY DEF Ask, At, Goto, redis
<1>2. TypeOK'
  BY <1>1 DEF IInv, TypeOK, Labels
<1>3. token[r] = 0
  BY <1>1 DEF IInv, TokenSound
<1>4. \A q \in Requests : q # r => /\ pc'[q] = pc[q] /\ kind'[q] = kind[q]
                                   /\ mobile'[q] = mobile[q] /\ password'[q] = password[q]
  BY <1>1 DEF IInv, TypeOK
<1>5. pc'[r] = "index"
  BY <1>1
<1>6. Unique' /\ IndexRight'
  BY <1>1 DEF IInv, Unique, IndexRight, Holds
<1>7. \A q \in Requests : RowRight(q)'
  BY <1>1, <1>4, <1>5 DEF IInv, RowRight, Located, Holds
<1>8. \A q \in Requests : Inserter(q)' => q # r /\ Inserter(q)
  BY <1>1, <1>3, <1>4, <1>5 DEF Inserter
<1>9. TokenSound'
  BY <1>1, <1>3, <1>4, <1>8 DEF IInv, TokenSound
<1>10. TokenRight'
  BY <1>1, <1>3, <1>4 DEF IInv, TokenRight
<1> QED
  BY <1>2, <1>6, <1>7, <1>9, <1>10 DEF IInv

LEMMA AskInfoInv ==
    ASSUME IInv, NEW r \in Requests, NEW q \in Requests, AskInfo(r, q)
    PROVE  IInv'
<1>1. /\ pc[r] = "unsent" /\ token[q] # 0
      /\ pc' = [x \in Requests |-> IF x \in {r} THEN "row" ELSE pc[x]]
      /\ kind' = [kind EXCEPT ![r] = "info"]
      /\ mobile' = [mobile EXCEPT ![r] = mobile[q]]
      /\ id' = [id EXCEPT ![r] = token[q]]
      /\ UNCHANGED <<password, token, users, index, cachedRows, retries>>
  BY DEF AskInfo, At, Goto, redis
<1>2. TypeOK'
  BY <1>1 DEF IInv, TypeOK, Labels
<1>3. token[r] = 0
  BY <1>1 DEF IInv, TokenSound
<1>4. \A x \in Requests : x # r => /\ pc'[x] = pc[x] /\ kind'[x] = kind[x]
                                   /\ mobile'[x] = mobile[x] /\ id'[x] = id[x]
  BY <1>1 DEF IInv, TypeOK
<1>5. pc'[r] = "row" /\ kind'[r] = "info" /\ mobile'[r] = mobile[q] /\ id'[r] = token[q]
  BY <1>1 DEF IInv, TypeOK
<1>6. Holds(token[q], mobile[q])
  <2>1. Len(users) \in Nat /\ token[q] \in 0 .. Len(users)
    BY DEF IInv, TypeOK
  <2>2. token[q] \in 1 .. Len(users)
    BY <1>1, <2>1
  <2>3. users[token[q]] = [mobile |-> mobile[q], password |-> password[q]]
    BY <1>1 DEF IInv, TokenRight
  <2> QED
    BY <2>2, <2>3 DEF Holds
<1>7. Unique' /\ IndexRight'
  BY <1>1 DEF IInv, Unique, IndexRight, Holds
<1>8. \A x \in Requests : RowRight(x)'
  BY <1>1, <1>4, <1>5, <1>6 DEF IInv, RowRight, Located, Holds
<1>9. \A x \in Requests : Inserter(x)' => x # r /\ Inserter(x)
  BY <1>1, <1>3, <1>4, <1>5 DEF Inserter
<1>10. TokenSound'
  BY <1>1, <1>3, <1>4, <1>9 DEF IInv, TokenSound
<1>11. TokenRight'
  BY <1>1, <1>3, <1>4 DEF IInv, TokenRight
<1> QED
  BY <1>2, <1>7, <1>8, <1>10, <1>11 DEF IInv

\* A token is issued to r for the row it works on.
LEMMA IssueInv ==
    ASSUME IInv, NEW r \in Requests, pc[r] \in {"answer", "delete"},
           pc[r] = "answer" => kind[r] = "login",
           users[id[r]].password = password[r],
           pc' = [x \in Requests |-> IF x \in {r} THEN "replied" ELSE pc[x]],
           token' = [token EXCEPT ![r] = id[r]],
           UNCHANGED <<kind, mobile, password, id, users, cachedRows>>,
           index' \in [Mobiles -> {Absent, Placeholder} \cup 1 .. Len(users)],
           \A m \in Mobiles : index'[m] \notin {Absent, Placeholder} => index'[m] = index[m],
           retries' \subseteq Mobiles
    PROVE  IInv'
<1>1. TypeOK'
  BY DEF IInv, TypeOK, Labels, Ended
<1>2. Unique' /\ IndexRight'
  BY DEF IInv, Unique, IndexRight, Holds
<1>3. \A x \in Requests : x # r => pc'[x] = pc[x] /\ token'[x] = token[x]
  BY DEF IInv, TypeOK
<1>4. pc'[r] = "replied" /\ token'[r] = id[r]
  BY DEF IInv, TypeOK
<1>5. Holds(id[r], mobile[r])
  BY DEF IInv, RowRight, Located
<1>6. \A x \in Requests : RowRight(x)'
  BY <1>3, <1>4 DEF IInv, RowRight, Located, Holds
<1>7. \A x \in Requests : Inserter(x)' => Inserter(x)
  BY <1>3, <1>4 DEF IInv, Inserter, RowRight
<1>8. TokenSound'
  BY <1>3, <1>4, <1>7 DEF IInv, TokenSound
<1>9. TokenRight'
  <2>1. users[id[r]] = [mobile |-> mobile[r], password |-> password[r]]
    <3>1. users[id[r]] \in User
      BY <1>5 DEF IInv, TypeOK, Holds
    <3>2. \A u \in User : u = [mobile |-> u.mobile, password |-> u.password]
      BY DEF User
    <3> QED
      BY <1>5, <3>1, <3>2 DEF Holds
  <2> QED
    BY <1>3, <1>4, <2>1 DEF IInv, TokenRight
<1> QED
  BY <1>1, <1>2, <1>6, <1>8, <1>9 DEF IInv

\* A row of a mobile without one; the answer of MySQL may be lost.
LEMMA InsertedInv ==
    ASSUME IInv, NEW r \in Requests, pc[r] = "insert", Holders(mobile[r]) = {},
           users' = Append(users, [mobile |-> mobile[r], password |-> password[r]]),
           id' = [id EXCEPT ![r] = Len(users) + 1],
           NEW l \in {"delete", "failed"},
           pc' = [x \in Requests |-> IF x \in {r} THEN l ELSE pc[x]],
           UNCHANGED <<kind, mobile, password, token, index, cachedRows, retries>>
    PROVE  IInv'
<1> DEFINE row == [mobile |-> mobile[r], password |-> password[r]]
<1>1. row \in User /\ users \in Seq(User)
  BY DEF IInv, TypeOK, User
<1>2. /\ users' \in Seq(User) /\ Len(users') = Len(users) + 1 /\ Len(users) \in Nat
      /\ \A i \in 1 .. Len(users) : users'[i] = users[i]
      /\ users'[Len(users) + 1] = row
  BY <1>1
<1>3. \A x \in Requests : x # r => pc'[x] = pc[x] /\ id'[x] = id[x]
  BY DEF IInv, TypeOK
<1>4. pc'[r] = l /\ id'[r] = Len(users) + 1
  BY DEF IInv, TypeOK
<1>5. TypeOK'
  <2>1. 0 .. Len(users) \subseteq 0 .. Len(users') /\ Len(users) + 1 \in 0 .. Len(users')
    BY <1>2
  <2>2. 1 .. Len(users) \subseteq 1 .. Len(users')
    BY <1>2
  <2>3. /\ id' \in [Requests -> 0 .. Len(users')]
        /\ token' \in [Requests -> 0 .. Len(users')]
    BY <2>1 DEF IInv, TypeOK
  <2>4. /\ index' \in [Mobiles -> {Absent, Placeholder} \cup 1 .. Len(users')]
        /\ cachedRows' \subseteq 1 .. Len(users')
    BY <2>2 DEF IInv, TypeOK
  <2>5. /\ pc' \in [Requests -> Labels]
        /\ UNCHANGED <<kind, mobile, password, retries>>
    BY DEF IInv, TypeOK, Labels, Ended
  <2> QED
    BY <1>2, <2>3, <2>4, <2>5 DEF IInv, TypeOK
<1>6. Unique'
  <2>1. \A i \in 1 .. Len(users) : users[i].mobile # mobile[r]
    BY DEF Holders
  <2>2. \A i \in 1 .. Len(users') : i \in 1 .. Len(users) \/ i = Len(users) + 1
    BY <1>2
  <2> QED
    BY <1>2, <2>1, <2>2 DEF IInv, Unique
<1>7. \A i, m : Holds(i, m) => Holds(i, m)'
  BY <1>2 DEF Holds
<1>8. IndexRight'
  BY <1>7 DEF IInv, IndexRight
<1>9. \A x \in Requests : RowRight(x)'
  <2>1. ASSUME NEW x \in Requests, x # r
        PROVE  RowRight(x)'
    <3>1. pc[x] \in Located => Holds(id[x], mobile[x])'
      BY <1>7, <2>1 DEF IInv, RowRight
    <3>2. pc[x] = "delete" => users'[id[x]].password = password[x]
      BY <1>2, <2>1 DEF IInv, RowRight, Located, Holds
    <3> QED
      BY <1>3, <2>1, <3>1, <3>2 DEF IInv, RowRight, Holds
  <2>2. RowRight(r)'
    <3>1. Len(users) + 1 \in 1 .. Len(users') /\ users'[Len(users) + 1].mobile = mobile[r]
      BY <1>2
    <3>2. kind[r] = "register" /\ token[r] = 0
      BY DEF IInv, RowRight
    <3>3. users'[Len(users) + 1].password = password[r]
      BY <1>2
    <3> QED
      BY <1>4, <3>1, <3>2, <3>3 DEF RowRight, Located, Holds
  <2> QED
    BY <2>1, <2>2
<1>10. TokenSound'
  <2>1. \A x \in Requests : token[x] # 0 => x # r
    BY DEF IInv, TokenSound
  <2>2. \A x \in Requests : x # r => (Inserter(x)' => Inserter(x))
    BY <1>3 DEF Inserter
  <2>3. \A x \in Requests : x # r => id'[x] # id'[r]
    BY <1>2, <1>3, <1>4 DEF IInv, TypeOK
  <2> QED
    BY <1>3, <2>1, <2>2, <2>3 DEF IInv, TokenSound
<1>11. TokenRight'
  <2>1. \A x \in Requests : token[x] # 0 => users'[token[x]] = users[token[x]]
    BY <1>2 DEF IInv, TypeOK
  <2> QED
    BY <2>1 DEF IInv, TokenRight
<1> QED
  BY <1>5, <1>6, <1>8, <1>9, <1>10, <1>11 DEF IInv

-----------------------------------------------------------------------------
(* Every step.                                                             *)

\* What the lemmas for single actions take from the invariant.
LEMMA Facts ==
    ASSUME IInv
    PROVE  /\ pc \in [Requests -> Labels] /\ Len(users) \in Nat
           /\ id \in [Requests -> 0 .. Len(users)]
           /\ index \in [Mobiles -> {Absent, Placeholder} \cup 1 .. Len(users)]
           /\ cachedRows \subseteq 1 .. Len(users) /\ retries \subseteq Mobiles
           /\ mobile \in [Requests -> Mobiles]
           /\ kind \in [Requests -> {"register", "login", "info"}]
           /\ \A m \in Mobiles : index[m] \notin {Absent, Placeholder} => Holds(index[m], m)
           /\ \A r \in Requests : pc[r] \in Located => Holds(id[r], mobile[r])
BY DEF IInv, TypeOK, IndexRight, RowRight

\* The lookup of an index key.
LEMMA IndexLookupInv ==
    ASSUME IInv, NEW r \in Requests,
           ReadIndex(r) \/ QueryIndex(r) \/ StorePlaceholder(r) \/ SetRow(r) \/ SetIndex(r)
    PROVE  IInv'
<1> USE Facts DEF At, Goto, request, redis
<1>1. CASE ReadIndex(r)
  <2>1. /\ pc[r] = "index" /\ UNCHANGED <<request, token, users, index, cachedRows, retries>>
        /\ \A q \in Requests \ {r} : pc'[q] = pc[q] /\ id'[q] = id[q]
        /\ pc'[r] \in {"indexDb", "insert", "failed", "row"}
        /\ pc'[r] = "row" => Holds(id'[r], mobile[r])
        /\ pc'[r] = "insert" => kind[r] = "register"
    BY <1>1 DEF ReadIndex, NotFound
  <2>2. pc' \in [Requests -> Labels]
    BY <1>1 DEF ReadIndex, NotFound, Labels, Ended
  <2>3. id' \in [Requests -> 0 .. Len(users)]
    <3>1. index[mobile[r]] \notin {Absent, Placeholder} => index[mobile[r]] \in 0 .. Len(users)
      OBVIOUS
    <3> QED
      BY <1>1, <3>1 DEF ReadIndex
  <2> QED
    BY <2>1, <2>2, <2>3, MoveInv DEF Located
<1>2. CASE QueryIndex(r)
  <2>1. /\ UNCHANGED <<request, token, users, index, cachedRows, retries>>
        /\ pc' \in [Requests -> Labels] /\ id' \in [Requests -> 0 .. Len(users)]
    BY <1>2 DEF QueryIndex, Labels, Ended, Holders
  <2>2. \A q \in Requests :
           \/ pc'[q] = pc[q] /\ id'[q] = id[q]
           \/ /\ pc[q] \in {"index", "indexDb"}
              /\ pc'[q] \in {"placeholder", "setRow", "failed"}
              /\ pc'[q] = "setRow" => Holds(id'[q], mobile[q])
    BY <1>2 DEF QueryIndex, Holders, Holds, Waiting
  <2> QED
    BY <2>1, <2>2, MoveInv DEF Located
<1>3. CASE StorePlaceholder(r)
  <2>1. UNCHANGED <<request, id, token, users, cachedRows, retries>>
    BY <1>3 DEF StorePlaceholder
  <2>2. PICK W \in SUBSET Waiting(r) : NotFound(W \cup {r})
    BY <1>3 DEF StorePlaceholder
  <2>3. pc' \in [Requests -> Labels]
    BY <2>2 DEF NotFound, Labels, Ended
  <2>4. \A q \in Requests :
           \/ pc'[q] = pc[q]
           \/ /\ pc[q] \in {"index", "placeholder"}
              /\ pc'[q] \in {"insert", "failed"}
              /\ pc'[q] = "insert" => kind[q] = "register"
    BY <1>3, <2>2 DEF StorePlaceholder, NotFound, Waiting
  <2>5. /\ index' \in [Mobiles -> {Absent, Placeholder} \cup 1 .. Len(users)]
        /\ \A m \in Mobiles : index'[m] \notin {Absent, Placeholder} => Holds(index'[m], m)
    <3>1. index' \in [Mobiles -> {Absent, Placeholder} \cup 1 .. Len(users)]
      BY <1>3 DEF StorePlaceholder
    <3>2. \A m \in Mobiles : index'[m] \in {index[m], Placeholder}
      BY <1>3 DEF StorePlaceholder
    <3>3. \A m \in Mobiles : index[m] \notin {Absent, Placeholder} => Holds(index[m], m)
      BY Facts
    <3> QED
      BY <3>1, <3>2, <3>3 DEF Holds
  <2> QED
    BY <2>1, <2>3, <2>4, <2>5, MoveInv DEF Located
<1>4. CASE SetRow(r)
  <2>1. /\ UNCHANGED <<request, id, token, users, index, retries>>
        /\ Holds(id[r], mobile[r])
    BY <1>4 DEF SetRow, Located
  <2>2. cachedRows' \subseteq 1 .. Len(users)
    BY <1>4, <2>1 DEF SetRow, Holds
  <2>3. pc' \in [Requests -> Labels]
    BY <1>4 DEF SetRow, Labels, Ended
  <2>4. \A q \in Requests :
           \/ pc'[q] = pc[q]
           \/ q = r /\ pc[q] = "setRow" /\ pc'[q] = "setIndex"
           \/ pc[q] \in {"setRow", "index"} /\ pc'[q] = "failed"
    BY <1>4 DEF SetRow, Waiting
  <2> QED
    BY <2>1, <2>2, <2>3, <2>4, MoveInv DEF Located
<1>5. CASE SetIndex(r)
  <2>1. /\ UNCHANGED <<request, token, users, cachedRows, retries>>
        /\ Holds(id[r], mobile[r]) /\ pc[r] = "setIndex"
    BY <1>5 DEF SetIndex, Located
  <2>2. PICK W \in SUBSET Waiting(r) :
           /\ pc' = [q \in Requests |-> IF q = r THEN "answer"
                                        ELSE IF q \in W THEN "row" ELSE pc[q]]
           /\ id' = [q \in Requests |-> IF q \in W THEN id[r] ELSE id[q]]
    BY <1>5 DEF SetIndex
  <2>3. pc' \in [Requests -> Labels] /\ id' \in [Requests -> 0 .. Len(users)]
    BY <2>2 DEF Labels, Ended
  <2>4. \A q \in W : pc[q] = "index" /\ mobile[q] = mobile[r] /\ q # r
    BY <2>1, <2>2 DEF Waiting
  <2>5. \A q \in Requests :
           \/ pc'[q] = pc[q] /\ id'[q] = id[q]
           \/ /\ pc[q] \in {"index", "setIndex"} /\ pc'[q] \in {"answer", "row"}
              /\ Holds(id'[q], mobile[q])
    BY <2>1, <2>2, <2>4
  <2>6. /\ index' \in [Mobiles -> {Absent, Placeholder} \cup 1 .. Len(users)]
        /\ \A m \in Mobiles : index'[m] \notin {Absent, Placeholder} => Holds(index'[m], m)
    <3>1. id[r] \in 1 .. Len(users)
      BY <2>1 DEF Holds
    <3>2. CASE index' = [index EXCEPT ![mobile[r]] = id[r]]
      BY <2>1, <3>1, <3>2
    <3>3. CASE UNCHANGED index
      BY <3>3
    <3> QED
      BY <1>5, <3>2, <3>3 DEF SetIndex
  <2> QED
    BY <2>1, <2>3, <2>5, <2>6, MoveInv DEF Located
<1> QED
  BY <1>1, <1>2, <1>3, <1>4, <1>5

\* The lookup of a row, which only moves requests that have its id.
LEMMA RowLookupInv ==
    ASSUME IInv, NEW r \in Requests, ReadRow(r) \/ QueryRow(r) \/ StoreRow(r)
    PROVE  IInv'
<1> USE Facts DEF At, Goto, request, redis
<1>1. UNCHANGED <<request, id, token, users, index, retries>>
  BY DEF ReadRow, QueryRow, StoreRow
<1>2. pc' \in [Requests -> Labels]
  BY DEF ReadRow, QueryRow, StoreRow, Labels, Ended
<1>3. pc[r] \in {"row", "rowDb", "storeRow"}
  BY DEF ReadRow, QueryRow, StoreRow
<1>4. \A q \in Requests :
         \/ pc'[q] = pc[q]
         \/ /\ pc[q] \in {"row", "rowDb", "storeRow"}
            /\ pc'[q] \in {"rowDb", "storeRow", "answer", "failed"}
  BY <1>3 DEF ReadRow, QueryRow, StoreRow, WaitingForRow
<1>5. cachedRows' \subseteq 1 .. Len(users)
  BY <1>3 DEF ReadRow, QueryRow, StoreRow, Located, Holds
<1> QED
  BY <1>1, <1>2, <1>4, <1>5, MoveInv DEF Located

\* Retries, expiry and the death of a process take keys and requests away.
LEMMA EnvironmentInv ==
    ASSUME IInv,
           \/ \E m \in Mobiles : RetryDelete(m) \/ ExpireIndex(m)
           \/ \E i \in cachedRows : ExpireRow(i)
           \/ Crash
    PROVE  IInv'
<1> USE Facts DEF request
<1>1. CASE \E m \in Mobiles : RetryDelete(m) \/ ExpireIndex(m)
  BY <1>1, MoveInv DEF RetryDelete, ExpireIndex
<1>2. CASE \E i \in cachedRows : ExpireRow(i)
  BY <1>2, MoveInv DEF ExpireRow
<1>3. CASE Crash
  <2>0. PICK dead \in SUBSET InFlight : Goto(dead, "failed")
    BY <1>3 DEF Crash
  <2>1. /\ UNCHANGED <<request, id, token, users, index, cachedRows>>
        /\ retries' \subseteq Mobiles /\ pc' \in [Requests -> Labels]
    BY <1>3, <2>0 DEF Crash, Goto, Labels, Ended
  <2>2. \A q \in Requests : pc'[q] = pc[q] \/ (pc[q] # "replied" /\ pc'[q] = "failed")
    BY <2>0 DEF Goto, InFlight, Ended
  <2> QED
    BY <2>1, <2>2, MoveInv DEF Located
<1> QED
  BY <1>1, <1>2, <1>3

LEMMA AnswerInv ==
    ASSUME IInv, NEW r \in Requests, Answer(r)
    PROVE  IInv'
<1> USE Facts DEF At, Goto, request, redis
<1>1. pc[r] = "answer" /\ UNCHANGED <<request, id, users, index, cachedRows, retries>>
  BY DEF Answer
<1>2. CASE /\ kind[r] = "login" /\ users[id[r]].password = password[r]
           /\ token' = [token EXCEPT ![r] = id[r]]
           /\ Goto({r}, "replied")
  BY <1>1, <1>2, IssueInv
<1>3. CASE (Goto({r}, "replied") \/ Goto({r}, "failed")) /\ UNCHANGED token
  <2>1. pc' \in [Requests -> Labels]
    BY <1>3 DEF Labels, Ended
  <2>2. \A q \in Requests : pc'[q] = pc[q] \/ (pc[q] = "answer" /\ pc'[q] \in Ended)
    BY <1>1, <1>3 DEF Ended
  <2> QED
    BY <1>1, <1>3, <2>1, <2>2, MoveInv DEF Located, Ended
<1> QED
  BY <1>2, <1>3 DEF Answer

LEMMA InsertInv ==
    ASSUME IInv, NEW r \in Requests, Insert(r)
    PROVE  IInv'
<1> USE Facts DEF At, Goto, request, redis
<1>1. pc[r] = "insert" /\ UNCHANGED <<request, token, index, cachedRows, retries>>
  BY DEF Insert
<1>2. CASE UNCHANGED <<users, id>> /\ Goto({r}, "failed")
  <2>1. pc' \in [Requests -> Labels]
    BY <1>2 DEF Labels, Ended
  <2>2. \A q \in Requests : pc'[q] = pc[q] \/ (pc[q] = "insert" /\ pc'[q] = "failed")
    BY <1>1, <1>2
  <2> QED
    BY <1>1, <1>2, <2>1, <2>2, MoveInv DEF Located
<1>3. CASE /\ Holders(mobile[r]) = {}
           /\ users' = Append(users, [mobile |-> mobile[r], password |-> password[r]])
           /\ id' = [id EXCEPT ![r] = Len(users) + 1]
           /\ Goto({r}, "delete") \/ Goto({r}, "failed")
  BY <1>1, <1>3, InsertedInv
<1> QED
  BY <1>2, <1>3 DEF Insert

LEMMA DeleteKeysInv ==
    ASSUME IInv, NEW r \in Requests, DeleteKeys(r)
    PROVE  IInv'
<1> USE Facts DEF At, Goto, request
<1>1. pc[r] = "delete" /\ UNCHANGED <<request, id, users, cachedRows>>
  BY DEF DeleteKeys
<1>2. users[id[r]].password = password[r]
  BY <1>1 DEF IInv, RowRight
<1>3. /\ index' \in [Mobiles -> {Absent, Placeholder} \cup 1 .. Len(users)]
      /\ \A m \in Mobiles : index'[m] \notin {Absent, Placeholder} => index'[m] = index[m]
      /\ retries' \subseteq Mobiles
  BY DEF DeleteKeys
<1>4. CASE token' = [token EXCEPT ![r] = id[r]] /\ Goto({r}, "replied")
  BY <1>1, <1>2, <1>3, <1>4, IssueInv
<1>5. CASE Goto({r}, "failed") /\ UNCHANGED token
  <2>1. pc' \in [Requests -> Labels]
    BY <1>5 DEF Labels, Ended
  <2>2. \A q \in Requests : pc'[q] = pc[q] \/ (pc[q] = "delete" /\ pc'[q] = "failed")
    BY <1>1, <1>5
  <2>3. \A m \in Mobiles : index'[m] \notin {Absent, Placeholder} => Holds(index'[m], m)
    BY <1>3 DEF IInv, IndexRight
  <2> QED
    BY <1>1, <1>3, <1>5, <2>1, <2>2, <2>3, MoveInv DEF Located
<1> QED
  BY <1>4, <1>5 DEF DeleteKeys

LEMMA NextInv == IInv /\ [Next]_vars => IInv'
<1> SUFFICES ASSUME IInv, [Next]_vars PROVE IInv'
  OBVIOUS
<1>1. CASE \E r \in Requests : Client(r)
  BY <1>1, AskInv, AskInfoInv DEF Client
<1>2. CASE \E r \in Requests : Handler(r)
  BY <1>2, IndexLookupInv, RowLookupInv, AnswerInv, InsertInv, DeleteKeysInv DEF Handler
<1>3. CASE \/ \E m \in Mobiles : RetryDelete(m) \/ ExpireIndex(m)
           \/ \E i \in cachedRows : ExpireRow(i)
           \/ Crash
  BY <1>3, EnvironmentInv
<1>4. CASE UNCHANGED vars
  <2>1. UNCHANGED <<request, token, users, id, pc, index, cachedRows, retries>>
    BY <1>4 DEF vars, redis
  <2> QED
    BY <2>1, Facts, MoveInv
<1> QED
  BY <1>1, <1>2, <1>3, <1>4 DEF Next

\* The inductive invariant holds in every state of the user service.
THEOREM Invariance == Spec => []IInv
<1> QED
  BY InitInv, NextInv, PTL DEF Spec

\* TypeOK: the shape of the state, for any requests, mobiles and passwords.
THEOREM TypeCorrect == Spec => []TypeOK
<1>1. IInv => TypeOK
  BY DEF IInv
<1> QED
  BY <1>1, Invariance, PTL

\* TokenRight: Login and Register issue a token only for the row with the
\* mobile and the password they were given.
THEOREM TokensRight == Spec => []TokenRight
<1>1. IInv => TokenRight
  BY DEF IInv
<1> QED
  BY <1>1, Invariance, PTL

\* OneAccount: one registration of a mobile at most succeeds, and every token
\* of the mobile names one user.
THEOREM OneAccountPerMobile == Spec => []OneAccount
<1>1. IInv => OneAccount
  <2> SUFFICES ASSUME IInv, NEW q \in Requests, NEW r \in Requests,
                      token[q] # 0, token[r] # 0, mobile[q] = mobile[r]
               PROVE  /\ token[q] = token[r]
                      /\ kind[q] = "register" /\ kind[r] = "register" => q = r
    BY DEF OneAccount
  <2>1. /\ users[token[q]] = [mobile |-> mobile[q], password |-> password[q]]
        /\ users[token[r]] = [mobile |-> mobile[r], password |-> password[r]]
    BY DEF IInv, TokenRight
  <2>2. users[token[q]].mobile = users[token[r]].mobile
    BY <2>1
  <2>3. token[q] \in 1 .. Len(users) /\ token[r] \in 1 .. Len(users)
    BY DEF IInv, TypeOK
  <2>4. token[q] = token[r]
    BY <2>2, <2>3 DEF IInv, Unique
  <2>5. kind[q] = "register" /\ kind[r] = "register" => q = r
    BY <2>4 DEF IInv, TokenSound, Inserter
  <2> QED
    BY <2>4, <2>5
<1> QED
  BY <1>1, Invariance, PTL
-----------------------------------------------------------------------------
(* Clients that wait for an answer.                                        *)

\* A mobile that was found free stays free until its one request inserts it,
\* and a "not found" of a registered mobile is about to be deleted.
FreeForNow == \A r \in Requests : pc[r] = "placeholder" => Holders(mobile[r]) = {}
Denied(m) == index[m] = Placeholder /\ Registered(m)
DenialEnds ==
    \A m \in Mobiles : Denied(m) =>
        m \in retries \/ \E r \in Requests : pc[r] = "delete" /\ mobile[r] = m

SerialInv == IInv /\ OneAtATime /\ FreeForNow /\ DenialEnds

LEMMA SerialInit == Init => SerialInv
<1> SUFFICES ASSUME Init PROVE SerialInv
  OBVIOUS
<1> QED
  BY InitInv, AccountsAssumption
     DEF Init, SerialInv, OneAtATime, InFlight, Ended, FreeForNow, DenialEnds, Denied

\* The steps that neither insert a row nor delete a key: they may only store a
\* placeholder for a mobile that is free.
LEMMA SerialMove ==
    ASSUME SerialInv, UNCHANGED users,
           retries \subseteq retries',
           \A m \in Mobiles : \/ index'[m] # Placeholder
                              \/ index'[m] = index[m]
                              \/ Holders(m) = {},
           \A r \in Requests : /\ pc'[r] = "placeholder" => Holders(mobile'[r]) = {}
                               /\ pc[r] = "delete" =>
                                     pc'[r] = "delete" /\ mobile'[r] = mobile[r]
    PROVE  FreeForNow' /\ DenialEnds'
<1>1. \A m : Holders(m)' = Holders(m)
  BY DEF Holders
<1>2. FreeForNow'
  BY <1>1 DEF FreeForNow
<1>3. \A m \in Mobiles : Denied(m)' => Denied(m)
  BY <1>1 DEF Denied, Registered
<1>4. DenialEnds'
  BY <1>3 DEF SerialInv, DenialEnds
<1> QED
  BY <1>2, <1>4
\* A mobile without a row gets one: its request is the only one of the mobile
\* at work, and goes on to delete the key.
LEMMA SerialInsert ==
    ASSUME SerialInv, "lostAck" \notin Faults, NEW r \in Requests, Insert(r)
    PROVE  FreeForNow' /\ DenialEnds'
<1> USE DEF At, Goto, request, redis
<1>1. /\ pc[r] = "insert" /\ UNCHANGED <<mobile, index, retries>>
      /\ pc \in [Requests -> Labels] /\ mobile \in [Requests -> Mobiles]
  BY Facts DEF Insert, SerialInv
<1>2. CASE UNCHANGED users /\ Goto({r}, "failed")
  <2>1. \A q \in Requests : pc'[q] = pc[q] \/ (pc[q] = "insert" /\ pc'[q] = "failed")
    BY <1>1, <1>2
  <2> QED
    BY <1>1, <1>2, <2>1, SerialMove DEF SerialInv, FreeForNow
<1>3. CASE /\ users' = Append(users, [mobile |-> mobile[r], password |-> password[r]])
           /\ Goto({r}, "delete")
  <2>1. users \in Seq(User) /\ [mobile |-> mobile[r], password |-> password[r]] \in User
    BY DEF SerialInv, IInv, TypeOK, User
  <2>2. /\ Len(users') = Len(users) + 1 /\ Len(users) \in Nat
        /\ \A i \in 1 .. Len(users) : users'[i] = users[i]
        /\ users'[Len(users) + 1].mobile = mobile[r]
    BY <1>3, <2>1
  <2>3. \A m : m # mobile[r] => Holders(m)' = Holders(m)
    BY <2>2 DEF Holders
  <2>4. pc'[r] = "delete" /\ \A q \in Requests : q # r => pc'[q] = pc[q]
    BY <1>1, <1>3
  <2>5. \A q \in Requests : pc[q] = "placeholder" => mobile[q] # mobile[r]
    BY <1>1 DEF SerialInv, OneAtATime, InFlight, Ended
  <2>6. FreeForNow'
    BY <1>1, <2>3, <2>4, <2>5 DEF SerialInv, FreeForNow
  <2>7. ASSUME NEW m \in Mobiles, Denied(m)'
        PROVE  m \in retries' \/ \E q \in Requests : pc'[q] = "delete" /\ mobile'[q] = m
    <3>1. CASE m = mobile[r]
      BY <1>1, <2>4, <3>1
    <3>2. CASE m # mobile[r]
      <4>1. Denied(m)
        BY <1>1, <2>3, <2>7, <3>2 DEF Denied, Registered
      <4> QED
        BY <1>1, <2>4, <4>1 DEF SerialInv, DenialEnds
    <3> QED
      BY <3>1, <3>2
  <2> QED
    BY <2>6, <2>7 DEF DenialEnds
<1> QED
  BY <1>2, <1>3 DEF Insert

\* The key of a mobile is deleted, or will be.
LEMMA SerialDelete ==
    ASSUME SerialInv, NEW m \in Mobiles,
           UNCHANGED <<mobile, users>>,
           \A n \in Mobiles : n # m => /\ index'[n] = index[n]
                                       /\ n \in retries => n \in retries',
           index'[m] # Placeholder \/ m \in retries',
           \A q \in Requests : \/ pc'[q] = pc[q]
                               \/ pc[q] = "delete" /\ mobile[q] = m /\ pc'[q] \in Ended
    PROVE  FreeForNow' /\ DenialEnds'
<1>1. \A n : Holders(n)' = Holders(n)
  BY DEF Holders
<1>2. FreeForNow'
  BY <1>1 DEF SerialInv, FreeForNow, Ended
<1>3. ASSUME NEW n \in Mobiles, Denied(n)'
      PROVE  n \in retries' \/ \E q \in Requests : pc'[q] = "delete" /\ mobile'[q] = n
  <2>1. CASE n = m
    BY <1>3, <2>1 DEF Denied
  <2>2. CASE n # m
    <3>1. Denied(n)
      BY <1>1, <1>3, <2>2 DEF Denied, Registered
    <3> QED
      BY <2>2, <3>1 DEF SerialInv, DenialEnds
  <2> QED
    BY <2>1, <2>2
<1> QED
  BY <1>2, <1>3 DEF DenialEnds

\* The lookups, the answers, expiry and the clients.
LEMMA SerialOther ==
    ASSUME SerialInv, "crash" \notin Faults,
           \/ \E r \in Requests : \/ Client(r) \/ ReadIndex(r) \/ QueryIndex(r)
                                  \/ StorePlaceholder(r) \/ SetRow(r) \/ SetIndex(r)
                                  \/ ReadRow(r) \/ QueryRow(r) \/ StoreRow(r) \/ Answer(r)
           \/ \E m \in Mobiles : ExpireIndex(m)
           \/ \E i \in cachedRows : ExpireRow(i)
           \/ Crash
           \/ UNCHANGED vars
    PROVE  FreeForNow' /\ DenialEnds'
<1> USE DEF At, Goto, request, redis
<1>1. /\ IInv /\ FreeForNow
      /\ \A r \in Requests : pc[r] = "placeholder" => Holders(mobile[r]) = {}
  BY DEF SerialInv, FreeForNow
<1>2. ASSUME NEW r \in Requests, Client(r)
      PROVE  FreeForNow' /\ DenialEnds'
  <2>1. /\ pc[r] = "unsent" /\ UNCHANGED <<users, index, retries>>
        /\ \A q \in Requests \ {r} : pc'[q] = pc[q] /\ mobile'[q] = mobile[q]
        /\ pc'[r] \in {"index", "row"}
    BY <1>1, <1>2, Facts DEF Client, Ask, AskInfo
  <2> QED
    BY <1>1, <2>1, SerialMove
<1>3. ASSUME NEW r \in Requests, ReadIndex(r)
      PROVE  FreeForNow' /\ DenialEnds'
  <2>1. /\ UNCHANGED <<mobile, users, index, retries>>
        /\ \A q \in Requests : \/ pc'[q] = pc[q]
                               \/ pc[q] = "index" /\ pc'[q] # "placeholder"
    BY <1>1, <1>3, Facts DEF ReadIndex, NotFound
  <2> QED
    BY <1>1, <2>1, SerialMove
<1>4. ASSUME NEW r \in Requests, QueryIndex(r)
      PROVE  FreeForNow' /\ DenialEnds'
  <2>1. /\ UNCHANGED <<mobile, users, index, retries>>
        /\ \A q \in Requests : \/ pc'[q] = pc[q]
                               \/ /\ pc[q] \in {"index", "indexDb"}
                                  /\ pc'[q] = "placeholder" => Holders(mobile[q]) = {}
    BY <1>1, <1>4, Facts DEF QueryIndex, Waiting
  <2> QED
    BY <1>1, <2>1, SerialMove
<1>5. ASSUME NEW r \in Requests, StorePlaceholder(r)
      PROVE  FreeForNow' /\ DenialEnds'
  <2>1. PICK W \in SUBSET Waiting(r) : NotFound(W \cup {r})
    BY <1>5 DEF StorePlaceholder
  <2>2. \A q \in Requests : \/ pc'[q] = pc[q]
                            \/ /\ pc[q] \in {"index", "placeholder"}
                               /\ pc'[q] # "placeholder"
    BY <1>1, <1>5, <2>1, Facts DEF StorePlaceholder, NotFound, Waiting
  <2>3. /\ UNCHANGED <<mobile, users, retries>> /\ Holders(mobile[r]) = {}
        /\ \A m \in Mobiles : index'[m] = index[m] \/ m = mobile[r]
    BY <1>1, <1>5, Facts DEF StorePlaceholder
  <2> QED
    BY <1>1, <2>2, <2>3, SerialMove
<1>6. ASSUME NEW r \in Requests, SetRow(r)
      PROVE  FreeForNow' /\ DenialEnds'
  <2>1. /\ UNCHANGED <<mobile, users, index, retries>>
        /\ \A q \in Requests : \/ pc'[q] = pc[q]
                               \/ /\ pc[q] \in {"index", "setRow"}
                                  /\ pc'[q] # "placeholder"
    BY <1>1, <1>6, Facts DEF SetRow, Waiting
  <2> QED
    BY <1>1, <2>1, SerialMove
<1>7. ASSUME NEW r \in Requests, SetIndex(r)
      PROVE  FreeForNow' /\ DenialEnds'
  <2>1. /\ UNCHANGED <<mobile, users, retries>>
        /\ \A q \in Requests : \/ pc'[q] = pc[q]
                               \/ /\ pc[q] \in {"index", "setIndex"}
                                  /\ pc'[q] # "placeholder"
    BY <1>1, <1>7, Facts DEF SetIndex, Waiting
  <2>2. id[r] # Placeholder
    BY <1>1, Facts, AccountsAssumption
  <2>3. \A m \in Mobiles : index'[m] = index[m] \/ index'[m] # Placeholder
    BY <1>1, <1>7, <2>2, Facts DEF SetIndex
  <2> QED
    BY <1>1, <2>1, <2>3, SerialMove
<1>8. ASSUME NEW r \in Requests, ReadRow(r) \/ QueryRow(r) \/ StoreRow(r) \/ Answer(r)
      PROVE  FreeForNow' /\ DenialEnds'
  <2>1. /\ UNCHANGED <<mobile, users, index, retries>>
        /\ \A q \in Requests : \/ pc'[q] = pc[q]
                               \/ /\ pc[q] \in {"row", "rowDb", "storeRow", "answer"}
                                  /\ pc'[q] # "placeholder"
    BY <1>1, <1>8, Facts DEF ReadRow, QueryRow, StoreRow, Answer, WaitingForRow
  <2> QED
    BY <1>1, <2>1, SerialMove
<1>9. CASE \E m \in Mobiles : ExpireIndex(m)
  <2>1. UNCHANGED <<mobile, users, retries, pc>>
    BY <1>9 DEF ExpireIndex
  <2>2. \A m \in Mobiles : index'[m] = index[m] \/ index'[m] = Absent
    BY <1>1, <1>9, Facts DEF ExpireIndex
  <2> QED
    BY <1>1, <2>1, <2>2, SerialMove, AccountsAssumption
<1>10. CASE (\E i \in cachedRows : ExpireRow(i)) \/ UNCHANGED vars
  <2>1. UNCHANGED <<mobile, users, retries, pc, index>>
    BY <1>10 DEF ExpireRow, vars
  <2> QED
    BY <1>1, <2>1, SerialMove
<1> QED
  BY <1>2, <1>3, <1>4, <1>5, <1>6, <1>7, <1>8, <1>9, <1>10 DEF Crash

LEMMA SerialNextInv ==
    ASSUME Faults \cap {"lostAck", "crash"} = {}, SerialInv, [SerialNext]_vars
    PROVE  SerialInv'
<1>1. IInv' /\ OneAtATime'
  <2>1. CASE SerialNext
    BY <2>1, NextInv DEF SerialInv, SerialNext
  <2>2. CASE UNCHANGED vars
    <3>1. UNCHANGED <<pc, mobile>>
      BY <2>2 DEF vars, request
    <3> QED
      BY <2>2, <3>1, NextInv DEF SerialInv, OneAtATime, InFlight
  <2> QED
    BY <2>1, <2>2
<1>2. FreeForNow' /\ DenialEnds'
  <2>1. ASSUME NEW r \in Requests, Insert(r)
        PROVE  FreeForNow' /\ DenialEnds'
    BY <2>1, SerialInsert
  <2>2. ASSUME NEW r \in Requests, DeleteKeys(r)
        PROVE  FreeForNow' /\ DenialEnds'
    <3>1. /\ IInv /\ mobile[r] \in Mobiles
          /\ UNCHANGED <<mobile, users>>
          /\ \A q \in Requests : pc'[q] = pc[q] \/ (q = r /\ pc[r] = "delete" /\ pc'[q] \in Ended)
      BY <2>2, Facts DEF SerialInv, DeleteKeys, At, Goto, request, Ended
    <3>2. /\ \A n \in Mobiles : n # mobile[r] => /\ index'[n] = index[n]
                                                 /\ n \in retries => n \in retries'
          /\ index'[mobile[r]] # Placeholder \/ mobile[r] \in retries'
      BY <2>2, <3>1, Facts, AccountsAssumption DEF DeleteKeys
    <3> QED
      BY <3>1, <3>2, SerialDelete
  <2>3. ASSUME NEW m \in Mobiles, RetryDelete(m)
        PROVE  FreeForNow' /\ DenialEnds'
    <3>1. IInv /\ UNCHANGED <<mobile, users, pc>>
      BY <2>3 DEF SerialInv, RetryDelete, request
    <3>2. /\ \A n \in Mobiles : n # m => /\ index'[n] = index[n]
                                         /\ n \in retries => n \in retries'
          /\ index'[m] # Placeholder
      BY <2>3, <3>1, Facts, AccountsAssumption DEF RetryDelete
    <3> QED
      BY <3>1, <3>2, SerialDelete
  <2>4. CASE \/ \E r \in Requests : \/ Client(r) \/ ReadIndex(r) \/ QueryIndex(r)
                                    \/ StorePlaceholder(r) \/ SetRow(r) \/ SetIndex(r)
                                    \/ ReadRow(r) \/ QueryRow(r) \/ StoreRow(r) \/ Answer(r)
             \/ \E m \in Mobiles : ExpireIndex(m)
             \/ \E i \in cachedRows : ExpireRow(i)
             \/ Crash
             \/ UNCHANGED vars
    BY <2>4, SerialOther
  <2> QED
    BY <2>1, <2>2, <2>3, <2>4 DEF SerialNext, Next, Handler
<1> QED
  BY <1>1, <1>2 DEF SerialInv

\* FoundWhenQuiet: when the clients of a mobile wait for their answers and the
\* service neither dies nor loses an answer of MySQL, the cache never denies a
\* registered user.
THEOREM FoundSerially ==
    ASSUME Faults \cap {"lostAck", "crash"} = {}
    PROVE  SerialSpec => []FoundWhenQuiet
<1>1. SerialInv /\ [SerialNext]_vars => SerialInv'
  BY SerialNextInv
<1>2. SerialInv => FoundWhenQuiet
  BY DEF SerialInv, DenialEnds, Denied, FoundWhenQuiet, InFlight, Ended
<1> QED
  BY <1>1, <1>2, SerialInit, PTL DEF SerialSpec
=============================================================================

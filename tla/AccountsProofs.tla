---------------------------- MODULE AccountsProofs ----------------------------
(***************************************************************************)
(* Proofs about what surrounds the sessions of an account: mailed links,   *)
(* social log-in, the gate and the account's life, the second factor and   *)
(* the web client, each for any number of requests, addresses, pages and   *)
(* tokens; and then of MCAccounts, whose behaviours are theirs.            *)
(***************************************************************************)
EXTENDS MCAccounts, FiniteSetTheorems, TLAPS

-----------------------------------------------------------------------------
(***************************************************************************)
(* Mailed links.  A request between its two commands is counted with those *)
(* that are through: SendsCounted adds the requests about to increment a   *)
(* counter to the counter, RedemptionsCounted the requests about to delete *)
(* a hash to those that have, so that the second command only moves one    *)
(* over.                                                                   *)
(***************************************************************************)
IInv == TypeOK /\ SendsCounted /\ RedemptionsCounted

N == Cardinality(Requests)

-----------------------------------------------------------------------------
(* Some of the requests are never more than all of them. *)
LEMMA SomeRequests ==
  ASSUME NEW S, S \subseteq Requests
  PROVE  /\ IsFiniteSet(S) /\ Cardinality(S) \in Nat /\ N \in Nat /\ Cardinality(S) <= N
         /\ \A r \in Requests \ S : Cardinality(S \cup {r}) = Cardinality(S) + 1 /\ Cardinality(S) < N
         /\ \A r \in S : Cardinality(S \ {r}) = Cardinality(S) - 1
  <1>1. IsFiniteSet(Requests)
    BY OneTimeAssumption
  <1>2. IsFiniteSet(S) /\ Cardinality(S) <= N
    BY <1>1, FS_Subset DEF N
  <1>3. Cardinality(S) \in Nat /\ N \in Nat
    BY <1>1, <1>2, FS_CardinalityType DEF N
  <1>4. ASSUME NEW r \in Requests \ S PROVE Cardinality(S \cup {r}) = Cardinality(S) + 1 /\ Cardinality(S) < N
    <2>1. Cardinality(S \cup {r}) = Cardinality(S) + 1 /\ IsFiniteSet(S \cup {r})
      BY <1>2, <1>4, FS_AddElement
    <2>2. Cardinality(S \cup {r}) <= N
      BY <1>1, <1>4, FS_Subset DEF N
    <2> QED BY <2>1, <2>2, <1>3
  <1>5. ASSUME NEW r \in S PROVE Cardinality(S \ {r}) = Cardinality(S) - 1
    BY <1>2, <1>5, FS_RemoveElement
  <1> QED BY <1>2, <1>3, <1>4, <1>5

LEMMA OneLess ==
  ASSUME NEW S, S \subseteq Requests, NEW r
  PROVE  /\ Cardinality(S \ {r}) \in Nat /\ Cardinality(S) \in Nat
         /\ Cardinality(S \ {r}) <= Cardinality(S)
  <1>1. Cardinality(S \ {r}) \in Nat /\ Cardinality(S) \in Nat
    BY SomeRequests
  <1>2. CASE r \in S
    BY <1>1, <1>2, SomeRequests
  <1>3. CASE r \notin S
    <2>1. S \ {r} = S
      BY <1>3
    <2> QED BY <2>1, <1>1
  <1> QED BY <1>1, <1>2, <1>3

LEMMA CountingType == ASSUME NEW p PROVE Counting(p) \subseteq Requests
  BY DEF Counting

LEMMA RedeemingType == ASSUME NEW t PROVE Redeeming(t) \subseteq Requests
  BY DEF Redeeming

-----------------------------------------------------------------------------
(* What a request can be doing. *)
Mailing == {"limit", "count", "expire", "issue"}
Spending == {"get", "delete", "user", "verify", "reset"}

LEMMA IdleType == Idle \in Steps
  BY DEF Idle, Steps

LEMMA MailingType ==
  ASSUME NEW a \in Mailing, NEW p \in Purposes
  PROVE  [at |-> a, purpose |-> p] \in Steps
  BY DEF Steps, Mailing

LEMMA SpendingType ==
  ASSUME NEW a \in Spending, NEW t \in Tokens
  PROVE  [at |-> a, token |-> t] \in Steps
  BY DEF Steps, Spending

(* Nor does moving on change what a request is about. *)
LEMMA MoveOn ==
  ASSUME NEW x \in Steps
  PROVE  /\ x.at \in Mailing =>
              /\ x.purpose \in Purposes
              /\ \A a \in Mailing : [x EXCEPT !.at = a] = [at |-> a, purpose |-> x.purpose]
         /\ x.at \in Spending =>
              /\ x.token \in Tokens
              /\ \A a \in Spending : [x EXCEPT !.at = a] = [at |-> a, token |-> x.token]
  <1>1. CASE x \in [at : {"idle"}]
    BY <1>1 DEF Mailing, Spending
  <1>2. CASE x \in [at : {"limit", "count", "expire", "issue"}, purpose : Purposes]
    BY <1>2 DEF Mailing, Spending
  <1>3. CASE x \in [at : {"get", "delete", "user", "verify", "reset"}, token : Tokens]
    BY <1>3 DEF Mailing, Spending
  <1> QED BY <1>1, <1>2, <1>3 DEF Steps

-----------------------------------------------------------------------------
(* What a request's step does to the two sets that are counted. *)
LEMMA Moved ==
  ASSUME TypeOK, NEW r \in Requests, NEW next \in Steps, Go(r, next)
  PROVE  /\ \A p : IF next.at = "count" /\ next.purpose = p
                     THEN Counting(p)' = Counting(p) \cup {r} ELSE Counting(p)' = Counting(p) \ {r}
         /\ \A t : IF next.at = "delete" /\ next.token = t
                     THEN Redeeming(t)' = Redeeming(t) \cup {r} ELSE Redeeming(t)' = Redeeming(t) \ {r}
         /\ req' \in [Requests -> Steps]
  <1>1. req' = [req EXCEPT ![r] = next] /\ req \in [Requests -> Steps]
    BY DEF Go, TypeOK
  <1>2. req'[r] = next /\ \A q \in Requests \ {r} : req'[q] = req[q]
    BY <1>1
  <1>3. ASSUME NEW p
        PROVE  IF next.at = "count" /\ next.purpose = p
                 THEN Counting(p)' = Counting(p) \cup {r} ELSE Counting(p)' = Counting(p) \ {r}
    BY <1>2 DEF Counting
  <1>4. ASSUME NEW t
        PROVE  IF next.at = "delete" /\ next.token = t
                 THEN Redeeming(t)' = Redeeming(t) \cup {r} ELSE Redeeming(t)' = Redeeming(t) \ {r}
    BY <1>2 DEF Redeeming
  <1> QED BY <1>1, <1>3, <1>4

(* A step that doesn't begin to count leaves the count of mails true. *)
LEMMA QuietSends ==
  ASSUME IInv, NEW r \in Requests, NEW next \in Steps, Go(r, next), next.at # "count",
         \A p \in Purposes : count'[p].n = count[p].n, failed => failed'
  PROVE  SendsCounted'
  <1> SUFFICES ASSUME ~failed, NEW p \in Purposes
               PROVE  count'[p].n + Cardinality(Counting(p)') < Limit + N
    BY DEF SendsCounted, N
  <1>1. count[p].n + Cardinality(Counting(p)) < Limit + N
    BY DEF IInv, SendsCounted, N
  <1>2. Counting(p)' = Counting(p) \ {r}
    BY Moved DEF IInv
  <1>4. Cardinality(Counting(p)') <= Cardinality(Counting(p)) /\ Cardinality(Counting(p)') \in Nat
    BY <1>2, CountingType, OneLess
  <1>5. count[p].n \in Nat /\ Cardinality(Counting(p)) \in Nat /\ N \in Nat /\ Limit \in Nat
    BY CountingType, SomeRequests, OneTimeAssumption DEF IInv, TypeOK
  <1> QED BY <1>1, <1>4, <1>5

(* One that neither begins nor ends a deletion leaves that of links true. *)
LEMMA QuietRedemptions ==
  ASSUME IInv, NEW r \in Requests, NEW next \in Steps, Go(r, next), next.at # "delete",
         UNCHANGED <<stored, stores, wins>>, failed => failed'
  PROVE  RedemptionsCounted'
  <1> SUFFICES ASSUME ~failed, NEW t \in Tokens
               PROVE  wins[t] + (IF t \in stored THEN N ELSE Cardinality(Redeeming(t)')) <= stores[t] * N
    BY DEF RedemptionsCounted, N
  <1>1. wins[t] + (IF t \in stored THEN N ELSE Cardinality(Redeeming(t))) <= stores[t] * N
    BY DEF IInv, RedemptionsCounted, N
  <1>2. Redeeming(t)' = Redeeming(t) \ {r}
    BY Moved DEF IInv
  <1>4. Cardinality(Redeeming(t)') <= Cardinality(Redeeming(t)) /\ Cardinality(Redeeming(t)') \in Nat
    BY <1>2, RedeemingType, OneLess
  <1>5. wins[t] \in Nat /\ stores[t] * N \in Int /\ Cardinality(Redeeming(t)) \in Nat /\ N \in Nat
    <2>1. N \in Nat /\ Cardinality(Redeeming(t)) \in Nat
      BY RedeemingType, SomeRequests
    <2>2. wins[t] \in Nat /\ stores[t] \in Nat
      BY DEF IInv, TypeOK
    <2> QED BY <2>1, <2>2
  <1> DEFINE bound == stores[t] * N
  <1> HIDE DEF bound
  <1>6. bound \in Int /\ wins[t] + (IF t \in stored THEN N ELSE Cardinality(Redeeming(t))) <= bound
    BY <1>1, <1>5 DEF bound
  <1>7. wins[t] + (IF t \in stored THEN N ELSE Cardinality(Redeeming(t)')) <= bound
    BY <1>4, <1>5, <1>6
  <1> QED BY <1>7 DEF bound

-----------------------------------------------------------------------------
(* Everything holds at the start. *)
LEMMA InitIInv == Init => IInv
  <1> SUFFICES ASSUME Init PROVE IInv
    OBVIOUS
  <1>1. TypeOK
    <2>1. count \in [Purposes -> [n : Nat, ttl : BOOLEAN]] /\ stored \subseteq Tokens /\ mailed \subseteq Tokens
      BY DEF Init
    <2>2. user \in [verified : BOOLEAN, active : BOOLEAN, reset : BOOLEAN] /\ failed \in BOOLEAN
      BY DEF Init
    <2>3. req \in [Requests -> Steps] /\ stores \in [Tokens -> Nat] /\ wins \in [Tokens -> Nat]
      BY IdleType DEF Init
    <2>4. second \in 0 .. MaxSecond
      BY OneTimeAssumption DEF Init
    <2> QED BY <2>1, <2>2, <2>3, <2>4 DEF TypeOK
  <1>2. ASSUME NEW p \in Purposes PROVE count[p].n + Cardinality(Counting(p)) < Limit + N
    <2>1. Counting(p) = {}
      BY DEF Init, Idle, Counting
    <2>2. N \in Nat /\ count[p].n = 0
      BY SomeRequests DEF Init
    <2> QED BY <2>1, <2>2, FS_EmptySet, OneTimeAssumption
  <1>3. ASSUME NEW t \in Tokens
        PROVE  wins[t] + (IF t \in stored THEN N ELSE Cardinality(Redeeming(t))) <= stores[t] * N
    <2>1. Redeeming(t) = {}
      BY DEF Init, Idle, Redeeming
    <2>2. N \in Nat /\ wins[t] = 0 /\ stores[t] = 0 /\ stored = {}
      BY <1>3, SomeRequests DEF Init
    <2> QED BY <2>1, <2>2, FS_EmptySet
  <1> QED BY <1>1, <1>2, <1>3 DEF IInv, SendsCounted, RedemptionsCounted, N

-----------------------------------------------------------------------------
(* A request's step keeps the types if what it writes has them. *)
Typed == /\ count \in [Purposes -> [n : Nat, ttl : BOOLEAN]]
         /\ stored \subseteq Tokens /\ mailed \subseteq Tokens
         /\ user \in [verified : BOOLEAN, active : BOOLEAN, reset : BOOLEAN]
         /\ second \in 0 .. MaxSecond
         /\ stores \in [Tokens -> Nat] /\ wins \in [Tokens -> Nat]
         /\ failed \in BOOLEAN

LEMMA TypedNow == TypeOK <=> Typed /\ req \in [Requests -> Steps]
  BY DEF TypeOK, Typed

LEMMA TypedNext ==
  ASSUME TypeOK, Typed', NEW r \in Requests, NEW next \in Steps, Go(r, next)
  PROVE  TypeOK'
  BY Moved DEF TypeOK, Typed

(* A command fails or works, and a failure isn't forgotten. *)
LEMMA Tried ==
  ASSUME Typed, NEW works \in Works, Try(works)
  PROVE  failed' \in BOOLEAN /\ (failed => failed') /\ (~failed' => works) /\ works \in BOOLEAN
  BY OneTimeAssumption DEF Typed, Try

(* A step that neither counts nor deletes. *)
LEMMA QuietStep ==
  ASSUME IInv, NEW r \in Requests, NEW next \in Steps, Go(r, next), next.at \notin {"count", "delete"},
         UNCHANGED redis, Typed', failed => failed'
  PROVE  IInv'
  <1>1. UNCHANGED <<count, stored, stores, wins>>
    BY DEF redis
  <1>2. TypeOK'
    BY TypedNext DEF IInv
  <1>3. SendsCounted' /\ RedemptionsCounted'
    BY <1>1, QuietSends, QuietRedemptions
  <1> QED BY <1>2, <1>3 DEF IInv

-----------------------------------------------------------------------------
(* Requests for a mail. *)
LEMMA AskIInv ==
  ASSUME IInv, NEW r \in Requests, NEW p \in Purposes, Ask(r, p)
  PROVE  IInv'
  <1>1. [at |-> "limit", purpose |-> p] \in Steps
    BY MailingType DEF Mailing
  <1>2. Typed /\ UNCHANGED <<redis, mailed, user, second, failed>> /\ Go(r, [at |-> "limit", purpose |-> p])
    BY TypedNow DEF IInv, Ask
  <1>3. Typed'
    BY <1>2 DEF Typed, redis
  <1> QED BY <1>1, <1>2, <1>3, QuietStep

(* A request that passes the limit found room for it, and the others that  *)
(* passed with it are fewer than all.                                      *)
LEMMA CheckLimitIInv ==
  ASSUME IInv, NEW r \in Requests, NEW works \in Works, CheckLimit(r, works)
  PROVE  IInv'
  <1> DEFINE p == req[r].purpose
             next == [at |-> "count", purpose |-> p]
  <1>1. /\ Typed /\ req[r] \in Steps /\ req[r].at = "limit"
        /\ Try(works) /\ UNCHANGED <<redis, mailed, user, second>>
        /\ Go(r, IF works /\ count[p].n >= Limit THEN Idle ELSE next)
    BY TypedNow DEF IInv, CheckLimit
  <1>2. p \in Purposes
    BY <1>1, MoveOn DEF Mailing
  <1>3. next \in Steps
    BY <1>2, MailingType DEF Mailing
  <1>4. failed' \in BOOLEAN /\ (failed => failed') /\ (~failed' => works)
    BY <1>1, Tried
  <1>5. Typed'
    BY <1>1, <1>4 DEF Typed, redis
  <1>6. CASE works /\ count[p].n >= Limit
    BY <1>1, <1>4, <1>5, <1>6, IdleType, QuietStep DEF Idle
  <1>7. CASE ~(works /\ count[p].n >= Limit)
    <2>1. Go(r, next)
      BY <1>1, <1>7
    <2>2. TypeOK'
      BY <1>3, <1>5, <2>1, TypedNext DEF IInv
    <2>3. RedemptionsCounted'
      BY <1>1, <1>3, <1>4, <2>1, QuietRedemptions DEF redis
    <2>4. SendsCounted'
      <3> SUFFICES ASSUME ~failed', NEW q \in Purposes
                   PROVE  count[q].n + Cardinality(Counting(q)') < Limit + N
        BY <1>1 DEF SendsCounted, N, redis
      <3>1. Counting(q)' \subseteq Requests
        BY DEF Counting
      <3>2. Cardinality(Counting(q)') \in Nat /\ Cardinality(Counting(q)') <= N /\ N \in Nat
        BY <3>1, SomeRequests
      <3>3. count[q].n \in Nat /\ Limit \in Nat
        BY <1>1, OneTimeAssumption DEF Typed
      <3>4. CASE q = p
        BY <1>4, <1>7, <3>2, <3>3, <3>4
      <3>5. CASE q # p
        <4>1. Counting(q)' = Counting(q) \ {r}
          BY <1>3, <2>1, <3>5, Moved DEF IInv
        <4>2. Cardinality(Counting(q)') <= Cardinality(Counting(q)) /\ Cardinality(Counting(q)) \in Nat
          BY <4>1, CountingType, OneLess
        <4>3. count[q].n + Cardinality(Counting(q)) < Limit + N
          BY <1>4 DEF IInv, SendsCounted, N
        <4> QED BY <3>2, <3>3, <4>2, <4>3
      <3> QED BY <3>4, <3>5
    <2> QED BY <2>2, <2>3, <2>4 DEF IInv
  <1> QED BY <1>6, <1>7

(* The increment moves the request from the one to the other. *)
LEMMA CountIInv ==
  ASSUME IInv, NEW r \in Requests, NEW works \in Works, Count(r, works)
  PROVE  IInv'
  <1> DEFINE p == req[r].purpose
             next == [at |-> IF works /\ count[p].n = 0 THEN "expire" ELSE "issue", purpose |-> p]
  <1>1. /\ Typed /\ req[r] \in Steps /\ req[r].at = "count"
        /\ Try(works) /\ UNCHANGED <<stored, stores, wins, mailed, user, second>>
        /\ count' = IF works THEN [count EXCEPT ![p].n = @ + 1] ELSE count
        /\ Go(r, next)
    BY TypedNow DEF IInv, Count
  <1>2. p \in Purposes
    BY <1>1, MoveOn DEF Mailing
  <1>3. next \in Steps /\ next.at # "count" /\ next.at # "delete"
    BY <1>2, MailingType DEF Mailing
  <1>4. failed' \in BOOLEAN /\ (failed => failed') /\ (~failed' => works)
    BY <1>1, Tried
  <1>5. count' \in [Purposes -> [n : Nat, ttl : BOOLEAN]]
    BY <1>1, <1>2 DEF Typed
  <1>6. TypeOK'
    <2>1. Typed'
      BY <1>1, <1>4, <1>5 DEF Typed
    <2> QED BY <1>1, <1>3, <2>1, TypedNext DEF IInv
  <1>7. RedemptionsCounted'
    BY <1>1, <1>3, <1>4, QuietRedemptions
  <1>8. SendsCounted'
    <2> SUFFICES ASSUME ~failed', NEW q \in Purposes
                 PROVE  count'[q].n + Cardinality(Counting(q)') < Limit + N
      BY DEF SendsCounted, N
    <2>1. Counting(q)' = Counting(q) \ {r}
      BY <1>1, <1>3, Moved DEF IInv
    <2>2. /\ Cardinality(Counting(q)') <= Cardinality(Counting(q))
          /\ Cardinality(Counting(q)) \in Nat /\ Cardinality(Counting(q)') \in Nat
      BY <2>1, CountingType, OneLess
    <2>3. count[q].n + Cardinality(Counting(q)) < Limit + N
      BY <1>4 DEF IInv, SendsCounted, N
    <2>4. count[q].n \in Nat /\ Limit \in Nat /\ N \in Nat
      BY <1>1, OneTimeAssumption, SomeRequests DEF Typed
    <2>5. CASE q = p
      <3>1. r \in Counting(q)
        BY <1>1, <2>5 DEF Counting
      <3>2. Cardinality(Counting(q)') = Cardinality(Counting(q)) - 1
        BY <2>1, <3>1, CountingType, SomeRequests
      <3>3. count'[q].n = count[q].n + 1
        BY <1>1, <1>2, <1>4, <2>5 DEF Typed
      <3> QED BY <2>2, <2>3, <2>4, <3>2, <3>3
    <2>6. CASE q # p
      <3>1. count'[q] = count[q]
        BY <1>1, <2>6 DEF Typed
      <3> QED BY <2>2, <2>3, <2>4, <3>1
    <2> QED BY <2>5, <2>6
  <1> QED BY <1>6, <1>7, <1>8 DEF IInv
LEMMA SetExpiryIInv ==
  ASSUME IInv, NEW r \in Requests, NEW works \in Works, SetExpiry(r, works)
  PROVE  IInv'
  <1> DEFINE p == req[r].purpose
             next == [req[r] EXCEPT !.at = "issue"]
  <1>1. /\ Typed /\ req[r] \in Steps /\ req[r].at = "expire"
        /\ Try(works) /\ UNCHANGED <<stored, stores, wins, mailed, user, second>>
        /\ count' = IF works /\ count[p].n > 0 THEN [count EXCEPT ![p].ttl = TRUE] ELSE count
        /\ Go(r, next)
    BY TypedNow DEF IInv, SetExpiry, Step
  <1>2. next \in Steps /\ next.at # "count" /\ next.at # "delete"
    <2>1. p \in Purposes /\ next = [at |-> "issue", purpose |-> p]
      BY <1>1, MoveOn DEF Mailing
    <2>2. [at |-> "issue", purpose |-> p] \in Steps
      BY <2>1, MailingType DEF Mailing
    <2> QED BY <2>1, <2>2
  <1>3. failed' \in BOOLEAN /\ (failed => failed')
    BY <1>1, Tried
  <1>4. /\ count' \in [Purposes -> [n : Nat, ttl : BOOLEAN]]
        /\ \A q \in Purposes : count'[q].n = count[q].n
    BY <1>1 DEF Typed
  <1>5. Typed'
    BY <1>1, <1>3, <1>4 DEF Typed
  <1>6. TypeOK'
    BY <1>1, <1>2, <1>5, TypedNext DEF IInv
  <1>7. SendsCounted'
    BY <1>1, <1>2, <1>3, <1>4, QuietSends
  <1>8. RedemptionsCounted'
    BY <1>1, <1>2, <1>3, QuietRedemptions
  <1> QED BY <1>6, <1>7, <1>8 DEF IInv

(* Storing a link again allows as many redemptions again. *)
LEMMA IssueIInv ==
  ASSUME IInv, NEW r \in Requests, NEW works \in Works, Issue(r, works)
  PROVE  IInv'
  <1> DEFINE t == [purpose |-> req[r].purpose, second |-> second]
  <1>1. /\ Typed /\ req[r] \in Steps /\ req[r].at = "issue"
        /\ Try(works) /\ UNCHANGED <<count, wins, user, second>>
        /\ stored' = IF works THEN stored \cup {t} ELSE stored
        /\ stores' = IF works THEN [stores EXCEPT ![t] = @ + 1] ELSE stores
        /\ mailed' = mailed \cup {t}
        /\ Go(r, Idle)
    BY TypedNow DEF IInv, Issue
  <1>2. t \in Tokens
    BY <1>1, MoveOn DEF Mailing, Typed, Tokens
  <1> HIDE DEF t
  <1>3. failed' \in BOOLEAN /\ (failed => failed') /\ (~failed' => works)
    BY <1>1, Tried
  <1>4. Idle \in Steps /\ Idle.at # "count" /\ Idle.at # "delete"
    BY IdleType DEF Idle
  <1>5. TypeOK'
    <2>1. stores' \in [Tokens -> Nat] /\ stored' \subseteq Tokens /\ mailed' \subseteq Tokens
      BY <1>1, <1>2 DEF Typed
    <2>2. Typed'
      BY <1>1, <1>3, <2>1 DEF Typed
    <2> QED BY <1>1, <1>4, <2>2, TypedNext DEF IInv
  <1>6. SendsCounted'
    BY <1>1, <1>3, <1>4, QuietSends
  <1>7. RedemptionsCounted'
    <2> SUFFICES ASSUME ~failed', NEW u \in Tokens
                 PROVE  wins[u] + (IF u \in stored' THEN N ELSE Cardinality(Redeeming(u)')) <= stores'[u] * N
      BY <1>1 DEF RedemptionsCounted, N
    <2>1. wins[u] + (IF u \in stored THEN N ELSE Cardinality(Redeeming(u))) <= stores[u] * N
      BY <1>3 DEF IInv, RedemptionsCounted, N
    <2>2. Redeeming(u)' = Redeeming(u) \ {r}
      BY <1>1, <1>4, Moved DEF IInv
    <2>3. /\ Cardinality(Redeeming(u)') \in Nat /\ Cardinality(Redeeming(u)) \in Nat
          /\ Cardinality(Redeeming(u)') <= Cardinality(Redeeming(u)) /\ N \in Nat
      BY <2>2, RedeemingType, OneLess, SomeRequests
    <2>4. wins[u] \in Nat /\ stores[u] \in Nat
      BY <1>1 DEF Typed
    <2> DEFINE bound == stores[u] * N
    <2>5. bound \in Nat
      BY <2>3, <2>4
    <2>6. CASE u = t
      <3>1. stores'[u] = stores[u] + 1 /\ u \in stored'
        BY <1>1, <1>2, <1>3, <2>6 DEF Typed
      <3>2. stores'[u] * N = bound + N
        BY <3>1, <2>3, <2>4
      <3>3. wins[u] <= bound
        <4> HIDE DEF bound
        <4> QED BY <2>1, <2>3, <2>4, <2>5 DEF bound
      <3> HIDE DEF bound
      <3> QED BY <3>1, <3>2, <3>3, <2>3, <2>4, <2>5
    <2>7. CASE u # t
      <3>1. stores'[u] = stores[u] /\ (u \in stored' <=> u \in stored)
        BY <1>1, <2>7 DEF Typed
      <3>2. wins[u] + (IF u \in stored THEN N ELSE Cardinality(Redeeming(u))) <= bound
        BY <2>1
      <3>3. stores'[u] * N = bound
        BY <3>1
      <3> HIDE DEF bound
      <3> QED BY <3>1, <3>2, <3>3, <2>3, <2>4, <2>5
    <2> QED BY <2>6, <2>7
  <1> QED BY <1>5, <1>6, <1>7 DEF IInv
-----------------------------------------------------------------------------
(* Redemptions. *)
LEMMA RedeemIInv ==
  ASSUME IInv, NEW r \in Requests, NEW t \in Tokens, Redeem(r, t)
  PROVE  IInv'
  <1>1. [at |-> "get", token |-> t] \in Steps
    BY SpendingType DEF Spending
  <1>2. Typed /\ UNCHANGED <<redis, mailed, user, second, failed>> /\ Go(r, [at |-> "get", token |-> t])
    BY TypedNow DEF IInv, Redeem
  <1>3. Typed'
    BY <1>2 DEF Typed, redis
  <1> QED BY <1>1, <1>2, <1>3, QuietStep

(* Who finds the hash is one of those a hash that is stored allows for. *)
LEMMA GetHashIInv ==
  ASSUME IInv, NEW r \in Requests, NEW works \in Works, GetHash(r, works)
  PROVE  IInv'
  <1> DEFINE t == req[r].token
             next == [req[r] EXCEPT !.at = "delete"]
  <1>1. /\ Typed /\ req[r] \in Steps /\ req[r].at = "get"
        /\ Try(works) /\ UNCHANGED <<redis, mailed, user, second>>
        /\ Go(r, IF works /\ t \in stored THEN next ELSE Idle)
    BY TypedNow DEF IInv, GetHash
  <1>2. t \in Tokens /\ next = [at |-> "delete", token |-> t]
    BY <1>1, MoveOn DEF Spending
  <1>3. [at |-> "delete", token |-> t] \in Steps
    BY <1>2, SpendingType DEF Spending
  <1>4. failed' \in BOOLEAN /\ (failed => failed')
    BY <1>1, Tried
  <1>5. Typed' /\ UNCHANGED <<count, stored, stores, wins>>
    BY <1>1, <1>4 DEF Typed, redis
  <1> HIDE DEF next, t
  <1>6. CASE ~(works /\ t \in stored)
    BY <1>1, <1>4, <1>5, <1>6, IdleType, QuietStep DEF Idle
  <1>7. CASE works /\ t \in stored
    <2>1. Go(r, next) /\ next \in Steps /\ next.at = "delete" /\ next.token = t
      BY <1>1, <1>2, <1>3, <1>7
    <2>2. TypeOK'
      BY <1>5, <2>1, TypedNext DEF IInv
    <2>3. SendsCounted'
      BY <1>4, <1>5, <2>1, QuietSends
    <2>4. RedemptionsCounted'
      <3> SUFFICES ASSUME ~failed', NEW u \in Tokens
                   PROVE  wins[u] + (IF u \in stored THEN N ELSE Cardinality(Redeeming(u)')) <= stores[u] * N
        BY <1>5 DEF RedemptionsCounted, N
      <3>1. wins[u] + (IF u \in stored THEN N ELSE Cardinality(Redeeming(u))) <= stores[u] * N
        BY <1>4 DEF IInv, RedemptionsCounted, N
      <3>2. CASE u \in stored
        BY <3>1, <3>2
      <3>3. CASE u \notin stored
        <4>1. Redeeming(u)' = Redeeming(u) \ {r}
          BY <1>7, <2>1, <3>3, Moved DEF IInv
        <4>2. r \notin Redeeming(u)
          BY <1>1 DEF Redeeming
        <4>3. Redeeming(u)' = Redeeming(u)
          BY <4>1, <4>2
        <4> QED BY <3>1, <3>3, <4>3
      <3> QED BY <3>2, <3>3
    <2> QED BY <2>2, <2>3, <2>4 DEF IInv
  <1> QED BY <1>6, <1>7

(* The first deletion leaves room for everybody else who found the hash,   *)
(* and each further one uses some of it.                                   *)
LEMMA DeleteHashIInv ==
  ASSUME IInv, NEW r \in Requests, NEW works \in Works, DeleteHash(r, works)
  PROVE  IInv'
  <1> DEFINE t == req[r].token
             next == [req[r] EXCEPT !.at = "user"]
  <1>1. /\ Typed /\ req[r] \in Steps /\ req[r].at = "delete"
        /\ Try(works) /\ UNCHANGED <<count, stores, mailed, user, second>>
        /\ stored' = IF works THEN stored \ {t} ELSE stored
        /\ wins' = [wins EXCEPT ![t] = @ + 1]
        /\ Go(r, next)
    BY TypedNow DEF IInv, DeleteHash, Step
  <1>2. t \in Tokens /\ next = [at |-> "user", token |-> t]
    BY <1>1, MoveOn DEF Spending
  <1>3. [at |-> "user", token |-> t] \in Steps
    BY <1>2, SpendingType DEF Spending
  <1>4. failed' \in BOOLEAN /\ (failed => failed') /\ (~failed' => works)
    BY <1>1, Tried
  <1>5. next \in Steps /\ next.at # "count" /\ next.at # "delete"
    BY <1>2, <1>3
  <1>6. r \in Redeeming(t)
    BY <1>1 DEF Redeeming
  <1> HIDE DEF next, t
  <1>7. TypeOK'
    <2>1. wins' \in [Tokens -> Nat] /\ stored' \subseteq Tokens
      BY <1>1, <1>2 DEF Typed
    <2>2. Typed'
      BY <1>1, <1>4, <2>1 DEF Typed
    <2> QED BY <1>1, <1>5, <2>2, TypedNext DEF IInv
  <1>8. SendsCounted'
    BY <1>1, <1>4, <1>5, QuietSends
  <1>9. RedemptionsCounted'
    <2> SUFFICES ASSUME ~failed', NEW u \in Tokens
                 PROVE  wins'[u] + (IF u \in stored' THEN N ELSE Cardinality(Redeeming(u)')) <= stores[u] * N
      BY <1>1 DEF RedemptionsCounted, N
    <2>1. wins[u] + (IF u \in stored THEN N ELSE Cardinality(Redeeming(u))) <= stores[u] * N
      BY <1>4 DEF IInv, RedemptionsCounted, N
    <2>2. Redeeming(u)' = Redeeming(u) \ {r}
      BY <1>1, <1>5, Moved DEF IInv
    <2>3. /\ Cardinality(Redeeming(u)') \in Nat /\ Cardinality(Redeeming(u)) \in Nat
          /\ Cardinality(Redeeming(u)') <= Cardinality(Redeeming(u))
          /\ N \in Nat /\ Cardinality(Redeeming(u)) <= N
      BY <2>2, RedeemingType, OneLess, SomeRequests
    <2> DEFINE bound == stores[u] * N
    <2>4. bound \in Nat /\ wins[u] \in Nat
      <3>1. stores[u] \in Nat /\ wins[u] \in Nat
        BY <1>1 DEF Typed
      <3> QED BY <3>1, <2>3
    <2>5. wins[u] + (IF u \in stored THEN N ELSE Cardinality(Redeeming(u))) <= bound
      BY <2>1
    <2> HIDE DEF bound
    <2>6. CASE u = t
      <3>1. wins'[u] = wins[u] + 1 /\ u \notin stored'
        BY <1>1, <1>2, <1>4, <2>6 DEF Typed
      <3>2. Cardinality(Redeeming(u)') = Cardinality(Redeeming(u)) - 1
        BY <1>6, <2>2, <2>6, RedeemingType, SomeRequests
      <3>3. wins'[u] + (IF u \in stored' THEN N ELSE Cardinality(Redeeming(u)')) <= bound
        BY <3>1, <3>2, <2>3, <2>4, <2>5
      <3> QED BY <3>3 DEF bound
    <2>7. CASE u # t
      <3>1. wins'[u] = wins[u] /\ (u \in stored' <=> u \in stored)
        BY <1>1, <2>7 DEF Typed
      <3>2. wins'[u] + (IF u \in stored' THEN N ELSE Cardinality(Redeeming(u)')) <= bound
        BY <3>1, <2>3, <2>4, <2>5
      <3> QED BY <3>2 DEF bound
    <2> QED BY <2>6, <2>7
  <1> QED BY <1>7, <1>8, <1>9 DEF IInv
LEMMA LoadUserIInv ==
  ASSUME IInv, NEW r \in Requests, LoadUser(r)
  PROVE  IInv'
  <1> DEFINE t == req[r].token
             next == IF t.purpose = "verify"
                       THEN IF user.verified THEN Idle ELSE [req[r] EXCEPT !.at = "verify"]
                       ELSE IF user.active THEN [req[r] EXCEPT !.at = "reset"] ELSE Idle
  <1>1. /\ Typed /\ req[r] \in Steps /\ req[r].at = "user" /\ Go(r, next)
        /\ UNCHANGED <<redis, mailed, user, second, failed>>
    BY TypedNow DEF IInv, LoadUser
  <1>2. /\ t \in Tokens
        /\ [req[r] EXCEPT !.at = "verify"] = [at |-> "verify", token |-> t]
        /\ [req[r] EXCEPT !.at = "reset"] = [at |-> "reset", token |-> t]
    BY <1>1, MoveOn DEF Spending
  <1>3. /\ [at |-> "verify", token |-> t] \in Steps /\ [at |-> "reset", token |-> t] \in Steps
        /\ Idle \in Steps
    BY <1>2, SpendingType, IdleType DEF Spending
  <1>4. next \in Steps /\ next.at \notin {"count", "delete"}
    BY <1>2, <1>3 DEF Idle
  <1>5. Typed'
    BY <1>1 DEF Typed, redis
  <1> HIDE DEF next
  <1> QED BY <1>1, <1>4, <1>5, QuietStep

(* A commit, or the end of a request. *)
LEMMA EndIInv ==
  ASSUME IInv, NEW r \in Requests, CommitVerified(r) \/ CommitPassword(r) \/ Die(r)
  PROVE  IInv'
  <1>1. Typed
    BY TypedNow DEF IInv
  <1>2. user' \in [verified : BOOLEAN, active : BOOLEAN, reset : BOOLEAN]
    BY <1>1 DEF Typed, CommitVerified, CommitPassword, Die
  <1>3. UNCHANGED <<redis, mailed, second, failed>> /\ Go(r, Idle)
    BY DEF CommitVerified, CommitPassword, Die
  <1>4. Typed'
    BY <1>1, <1>2, <1>3 DEF Typed, redis
  <1>5. Idle \in Steps /\ Idle.at \notin {"count", "delete"}
    BY IdleType DEF Idle
  <1> QED BY <1>3, <1>4, <1>5, QuietStep

-----------------------------------------------------------------------------
(* What happens beside the requests. *)
LEMMA WindowEndsIInv ==
  ASSUME IInv, NEW p \in Purposes, WindowEnds(p)
  PROVE  IInv'
  <1>1. /\ TypeOK /\ UNCHANGED <<stored, stores, wins, mailed, user, req, second, failed>>
        /\ count' = [count EXCEPT ![p] = [n |-> 0, ttl |-> FALSE]]
    BY DEF IInv, WindowEnds
  <1>2. TypeOK'
    <2>1. count' \in [Purposes -> [n : Nat, ttl : BOOLEAN]]
      BY <1>1 DEF TypeOK
    <2> QED BY <1>1, <2>1 DEF TypeOK
  <1>3. RedemptionsCounted'
    BY <1>1 DEF IInv, RedemptionsCounted, Redeeming
  <1>4. SendsCounted'
    <2> SUFFICES ASSUME ~failed, NEW q \in Purposes
                 PROVE  count'[q].n + Cardinality(Counting(q)) < Limit + N
      BY <1>1 DEF SendsCounted, N, Counting
    <2>1. CASE q = p
      <3>1. count'[q].n = 0
        BY <1>1, <2>1 DEF TypeOK
      <3> QED BY <3>1, CountingType, SomeRequests, OneTimeAssumption
    <2>2. CASE q # p
      <3>1. count'[q] = count[q]
        BY <1>1, <2>2 DEF TypeOK
      <3> QED BY <3>1 DEF IInv, SendsCounted, N
    <2> QED BY <2>1, <2>2
  <1> QED BY <1>2, <1>3, <1>4 DEF IInv

LEMMA TokenExpiresIInv ==
  ASSUME IInv, NEW t \in Tokens, TokenExpires(t)
  PROVE  IInv'
  <1>1. /\ TypeOK /\ UNCHANGED <<count, stores, wins, user, req, second, failed>>
        /\ stored' = stored \ {t} /\ mailed' = mailed \ {t}
    BY DEF IInv, TokenExpires
  <1>2. TypeOK'
    BY <1>1 DEF TypeOK
  <1>3. SendsCounted'
    BY <1>1 DEF IInv, SendsCounted, Counting
  <1>4. RedemptionsCounted'
    <2> SUFFICES ASSUME ~failed, NEW u \in Tokens
                 PROVE  wins[u] + (IF u \in stored' THEN N ELSE Cardinality(Redeeming(u))) <= stores[u] * N
      BY <1>1 DEF RedemptionsCounted, N, Redeeming
    <2>1. wins[u] + (IF u \in stored THEN N ELSE Cardinality(Redeeming(u))) <= stores[u] * N
      BY DEF IInv, RedemptionsCounted, N
    <2>2. Cardinality(Redeeming(u)) \in Nat /\ N \in Nat /\ Cardinality(Redeeming(u)) <= N
      BY RedeemingType, SomeRequests
    <2>3. wins[u] \in Nat /\ stores[u] \in Nat
      BY <1>1 DEF TypeOK
    <2> DEFINE bound == stores[u] * N
    <2>4. bound \in Nat
      BY <2>2, <2>3
    <2>5. wins[u] + (IF u \in stored THEN N ELSE Cardinality(Redeeming(u))) <= bound
      BY <2>1
    <2> HIDE DEF bound
    <2>6. u \in stored' => u \in stored
      BY <1>1
    <2>7. wins[u] + (IF u \in stored' THEN N ELSE Cardinality(Redeeming(u))) <= bound
      BY <2>2, <2>3, <2>4, <2>5, <2>6
    <2> QED BY <2>7 DEF bound
  <1> QED BY <1>2, <1>3, <1>4 DEF IInv

LEMMA OtherIInv ==
  ASSUME IInv, Suspend \/ Tick \/ UNCHANGED vars
  PROVE  IInv'
  <1>1. UNCHANGED <<count, stored, stores, wins, mailed, req, failed>>
    BY DEF Suspend, Tick, vars, redis
  <1>2. user' \in [verified : BOOLEAN, active : BOOLEAN, reset : BOOLEAN]
    BY DEF IInv, TypeOK, Suspend, Tick, vars
  <1>3. second' \in 0 .. MaxSecond
    BY OneTimeAssumption DEF IInv, TypeOK, Suspend, Tick, vars
  <1>4. TypeOK'
    BY <1>1, <1>2, <1>3 DEF IInv, TypeOK
  <1>5. SendsCounted' /\ RedemptionsCounted'
    BY <1>1 DEF IInv, SendsCounted, RedemptionsCounted, Counting, Redeeming
  <1> QED BY <1>4, <1>5 DEF IInv

-----------------------------------------------------------------------------
(* The invariant is inductive. *)
LEMMA NextIInv == IInv /\ [Next]_vars => IInv'
  <1> SUFFICES ASSUME IInv, [Next]_vars PROVE IInv'
    OBVIOUS
  <1>1. ASSUME NEW r \in Requests, Serve(r) PROVE IInv'
    <2>1. ASSUME NEW p \in Purposes, Ask(r, p) PROVE IInv'
      BY <2>1, AskIInv
    <2>2. ASSUME NEW works \in Works,
                 \/ CheckLimit(r, works) \/ Count(r, works) \/ SetExpiry(r, works)
                 \/ Issue(r, works) \/ GetHash(r, works) \/ DeleteHash(r, works)
          PROVE  IInv'
      BY <2>2, CheckLimitIInv, CountIInv, SetExpiryIInv, IssueIInv, GetHashIInv, DeleteHashIInv
    <2>3. ASSUME NEW t \in Tokens, Redeem(r, t) PROVE IInv'
      BY <2>3, RedeemIInv
    <2>4. CASE LoadUser(r)
      BY <2>4, LoadUserIInv
    <2>5. CASE CommitVerified(r) \/ CommitPassword(r) \/ Die(r)
      BY <2>5, EndIInv
    <2> QED BY <1>1, <2>1, <2>2, <2>3, <2>4, <2>5 DEF Serve
  <1>2. ASSUME NEW p \in Purposes, WindowEnds(p) PROVE IInv'
    BY <1>2, WindowEndsIInv
  <1>3. ASSUME NEW t \in Tokens, TokenExpires(t) PROVE IInv'
    BY <1>3, TokenExpiresIInv
  <1>4. CASE Suspend \/ Tick \/ UNCHANGED vars
    BY <1>4, OtherIInv
  <1> QED BY <1>1, <1>2, <1>3, <1>4 DEF Next

(* Counters, hashes, mailboxes and requests have their types. *)
THEOREM LinkTypeCorrect == Spec => []TypeOK
  <1>1. IInv => TypeOK
    BY DEF IInv
  <1> QED BY <1>1, InitIInv, NextIInv, PTL DEF Spec

(* _enforce_rate_limit, which reads and increments apart, lets through no  *)
(* more than the limit and one for each other request that overlaps.       *)
THEOREM SendsAreBounded == Spec => []SendsBounded
  <1>1. IInv => SendsBounded
    <2> SUFFICES ASSUME IInv, ~failed, NEW p \in Purposes
                 PROVE  count[p].n < Limit + Cardinality(Requests)
      BY DEF SendsBounded
    <2>1. count[p].n + Cardinality(Counting(p)) < Limit + N
      BY DEF IInv, SendsCounted, N
    <2>2. Cardinality(Counting(p)) \in Nat /\ N \in Nat /\ count[p].n \in Nat /\ Limit \in Nat
      BY CountingType, SomeRequests, OneTimeAssumption DEF IInv, TypeOK
    <2>3. count[p].n < Limit + N
      BY <2>1, <2>2
    <2> QED BY <2>3 DEF N
  <1> QED BY <1>1, InitIInv, NextIInv, PTL DEF Spec

(* _consume_token, which reads and deletes apart, lets a stored link in    *)
(* no more often than requests overlap, each time it is stored.            *)
THEOREM RedemptionsAreBounded == Spec => []RedemptionsBounded
  <1>1. IInv => RedemptionsBounded
    <2> SUFFICES ASSUME IInv, ~failed, NEW t \in Tokens
                 PROVE  wins[t] <= stores[t] * Cardinality(Requests)
      BY DEF RedemptionsBounded
    <2>1. wins[t] + (IF t \in stored THEN N ELSE Cardinality(Redeeming(t))) <= stores[t] * N
      BY DEF IInv, RedemptionsCounted, N
    <2>2. Cardinality(Redeeming(t)) \in Nat /\ N \in Nat /\ wins[t] \in Nat /\ stores[t] \in Nat
      BY RedeemingType, SomeRequests DEF IInv, TypeOK
    <2> DEFINE bound == stores[t] * N
    <2>3. bound \in Nat /\ wins[t] + (IF t \in stored THEN N ELSE Cardinality(Redeeming(t))) <= bound
      BY <2>1, <2>2
    <2> HIDE DEF bound
    <2>4. wins[t] <= bound
      BY <2>2, <2>3
    <2> QED BY <2>4 DEF bound, N
  <1> QED BY <1>1, InitIInv, NextIInv, PTL DEF Spec

-----------------------------------------------------------------------------

LEMMA TheAssumptions ==
  /\ Social!SocialAssumption /\ Factor!TwoFactorAssumption
  /\ Life!LifecycleAssumption /\ Web!WebAssumption
  BY AccountsAssumption

-----------------------------------------------------------------------------
(***************************************************************************)
(* Social log-in.  What each request carries is typed by its place; a link *)
(* once committed stays, so what matters is the link that is only flushed. *)
(***************************************************************************)
Addresses == Emails \cup {"none"}
StateKeys == [provider : {"google", "apple"}, n : 0 .. MaxStates]

(* What a request may know at each place. *)
Requested ==
  {Social!Idle} \cup [at : {"answered"}, code : Nat]
         \cup [at : {"listed"}, providers : SUBSET {"google", "apple"}]
         \cup [at : {"consume"}, identity : Identities, state : StateKeys]
         \cup [at : {"exchange"}, identity : Identities]
         \cup [at : {"link", "email"}, identity : Identities, email : Addresses]
         \cup [at : {"create"}, identity : Identities, email : Emails]
         \cup [at : {"flush"}, identity : Identities, email : Emails, next : {"login", "token"}]
         \cup [at : {"login", "token"}, identity : Identities, user : Emails, new : BOOLEAN]

SocialShape ==
  /\ users \in [Emails -> {"none", "local", "social"}]
  /\ active \subseteq Emails
  /\ links \in [Identities -> Addresses]
  /\ states \subseteq StateKeys
  /\ issued \in 0 .. MaxStates
  /\ cache \in BOOLEAN
  /\ signed \subseteq [identity : Identities, user : Emails]
  /\ req \in [Requests -> Requested]

SigningIn(r) == req[r].at \in {"login", "token"}

(* A request that signs in has found the link, or has flushed it, alone. *)
LinkInv ==
  \A r \in Requests : SigningIn(r) =>
    IF req[r].new
    THEN /\ links[req[r].identity] = "none"
         /\ \A q \in Requests : (SigningIn(q) /\ req[q].new /\ req[q].identity = req[r].identity) => q = r
    ELSE links[req[r].identity] = req[r].user

SocialInv == SocialShape /\ LinkInv /\ Social!SignedInAsLinked

-----------------------------------------------------------------------------
LEMMA AnswerRequested == ASSUME NEW c \in Nat PROVE Social!Answer(c) \in Requested /\ Social!Answer(c).at = "answered"
  BY DEF Social!Answer, Requested

LEMMA IdleRequested == Social!Idle \in Requested /\ Social!Idle.at = "idle"
  BY DEF Social!Idle, Requested

(* What a request knows, by its place. *)
LEMMA RequestedByPlace ==
  ASSUME NEW q \in Requested
  PROVE  /\ q.at = "consume" => q.identity \in Identities /\ q.state \in StateKeys
         /\ q.at = "exchange" => q.identity \in Identities
         /\ q.at \in {"link", "email"} =>
              /\ q.identity \in Identities /\ q.email \in Addresses
              /\ q \in [at : {"link", "email"}, identity : Identities, email : Addresses]
         /\ q.at = "create" => q.identity \in Identities /\ q.email \in Emails
         /\ q.at = "flush" => q.identity \in Identities /\ q.email \in Emails /\ q.next \in {"login", "token"}
         /\ q.at \in {"login", "token"} =>
              /\ q.identity \in Identities /\ q.user \in Emails /\ q.new \in BOOLEAN
              /\ q \in [at : {"login", "token"}, identity : Identities, user : Emails, new : BOOLEAN]
  BY DEF Requested, Social!Idle

(* One request moves. *)
LEMMA SocialMoved ==
  ASSUME SocialShape, NEW r \in Requests, NEW v \in Requested, Social!Go(r, v)
  PROVE  /\ req' \in [Requests -> Requested]
         /\ req'[r] = v
         /\ \A q \in Requests : q # r => req'[q] = req[q]
  BY DEF SocialShape, Social!Go

(* A request that moves elsewhere than to the end of a sign-in disturbs    *)
(* no other.                                                               *)
LEMMA SocialMovesAway ==
  ASSUME SocialInv, NEW r \in Requests, NEW v \in Requested, v.at \notin {"login", "token"},
         Social!Go(r, v), UNCHANGED <<links, signed>>,
         users' \in [Emails -> {"none", "local", "social"}], active' \subseteq Emails,
         states' \subseteq states, UNCHANGED <<issued, cache>>
  PROVE  SocialInv'
  <1>1. /\ req' \in [Requests -> Requested] /\ req'[r] = v
        /\ \A q \in Requests : q # r => req'[q] = req[q]
    BY SocialMoved DEF SocialInv
  <1>2. SocialShape'
    BY <1>1 DEF SocialInv, SocialShape
  <1>3. LinkInv'
    BY <1>1 DEF SocialInv, LinkInv, SigningIn
  <1>4. Social!SignedInAsLinked'
    BY DEF SocialInv, Social!SignedInAsLinked
  <1> QED BY <1>2, <1>3, <1>4 DEF SocialInv

(* Its move to the end of a sign-in, by a link that is there or flushed.   *)
LEMMA MovesToSignIn ==
  ASSUME SocialInv, NEW r \in Requests, NEW place \in {"login", "token"}, NEW i \in Identities,
         NEW email \in Emails, NEW new \in BOOLEAN,
         Social!Go(r, [at |-> place, identity |-> i, user |-> email, new |-> new]),
         req[r].at \notin {"login", "token"},
         IF new THEN links[i] = "none" /\ ~Social!Flushed(i) ELSE links[i] = email,
         UNCHANGED Social!social
  PROVE  SocialInv'
  <1> DEFINE v == [at |-> place, identity |-> i, user |-> email, new |-> new]
  <1>1. v \in Requested /\ v.at = place /\ v.identity = i /\ v.user = email /\ v.new = new
    BY DEF Requested
  <1>2. Social!Go(r, v)
    OBVIOUS
  <1> HIDE DEF v
  <1>3. /\ req' \in [Requests -> Requested] /\ req'[r] = v
        /\ \A q \in Requests : q # r => req'[q] = req[q]
    BY <1>1, <1>2, SocialMoved DEF SocialInv
  <1>4. SocialShape'
    BY <1>3 DEF SocialInv, SocialShape, Social!social
  <1>5. LinkInv'
    <2> SUFFICES ASSUME NEW q \in Requests, SigningIn(q)'
                 PROVE  IF req'[q].new
                        THEN /\ links[req'[q].identity] = "none"
                             /\ \A p \in Requests : (SigningIn(p)' /\ req'[p].new /\ req'[p].identity = req'[q].identity) => p = q
                        ELSE links[req'[q].identity] = req'[q].user
      BY DEF LinkInv, Social!social
    <2>1. CASE q = r
      BY <1>1, <1>3, <2>1 DEF Social!Flushed, SigningIn
    <2>2. CASE q # r
      BY <1>1, <1>3, <2>2 DEF SocialInv, LinkInv, SigningIn, Social!Flushed
    <2> QED BY <2>1, <2>2
  <1>6. Social!SignedInAsLinked'
    BY DEF SocialInv, Social!SignedInAsLinked, Social!social
  <1> QED BY <1>4, <1>5, <1>6 DEF SocialInv

-----------------------------------------------------------------------------
LEMMA SocialInitInv == ASSUME Social!SocialAssumption, Social!Init PROVE SocialInv
  <1>1. \A r \in Requests : req[r] = Social!Idle
    BY DEF Social!Init
  <1>2. SocialShape
    BY IdleRequested DEF Social!Init, SocialShape, Social!SocialAssumption, Addresses
  <1>3. LinkInv
    BY <1>1, IdleRequested DEF LinkInv, SigningIn
  <1>4. Social!SignedInAsLinked
    BY DEF Social!Init, Social!SignedInAsLinked
  <1> QED BY <1>2, <1>3, <1>4 DEF SocialInv

(* Steps of nobody's request. *)
LEMMA NobodysInv ==
  ASSUME Social!SocialAssumption, SocialInv,
         \/ \E p \in {"google", "apple"} : Social!Authorize(p)
         \/ \E s \in states : Social!StateExpires(s)
         \/ \E email \in Emails : Social!Register(email) \/ Social!Suspend(email)
  PROVE  SocialInv'
  <1>1. UNCHANGED <<links, signed, req, cache>>
    BY DEF Social!Authorize, Social!StateExpires, Social!Register, Social!Suspend
  <1>2. users' \in [Emails -> {"none", "local", "social"}] /\ active' \subseteq Emails
    BY DEF Social!Authorize, Social!StateExpires, Social!Register, Social!Suspend, SocialInv, SocialShape
  <1>3. states' \subseteq StateKeys /\ issued' \in 0 .. MaxStates
    BY DEF Social!Authorize, Social!StateExpires, Social!Register, Social!Suspend, SocialInv, SocialShape, Social!SocialAssumption, StateKeys
  <1>4. SocialShape'
    BY <1>1, <1>2, <1>3 DEF SocialInv, SocialShape
  <1>5. LinkInv' /\ Social!SignedInAsLinked'
    BY <1>1 DEF SocialInv, LinkInv, SigningIn, Social!SignedInAsLinked
  <1> QED BY <1>4, <1>5 DEF SocialInv

LEMMA CallbackInv ==
  ASSUME Social!SocialAssumption, SocialInv, NEW r \in Requests, NEW i \in Identities,
         NEW n \in 0 .. issued, Social!Callback(r, i, n)
  PROVE  SocialInv'
  <1> DEFINE s == [provider |-> i.provider, n |-> n]
  <1>1. PICK v : /\ Social!Go(r, v)
                 /\ \/ v = [at |-> "exchange", identity |-> i]
                    \/ v = [at |-> "consume", identity |-> i, state |-> s] /\ s \in states
                    \/ v = Social!Answer(401)
    BY DEF Social!Callback
  <1>2. v \in Requested /\ v.at \notin {"login", "token"}
    BY <1>1, AnswerRequested DEF Requested, SocialInv, SocialShape
  <1> QED BY <1>1, <1>2, SocialMovesAway DEF Social!Callback, Social!social, SocialInv, SocialShape

LEMMA ConsumeStateInv ==
  ASSUME SocialInv, NEW r \in Requests, Social!ConsumeState(r)
  PROVE  SocialInv'
  <1> DEFINE v == [at |-> "exchange", identity |-> req[r].identity]
  <1>1. v \in Requested /\ v.at \notin {"login", "token"}
    BY RequestedByPlace DEF Social!ConsumeState, SocialInv, SocialShape, Requested
  <1> QED BY <1>1, SocialMovesAway DEF Social!ConsumeState, SocialInv, SocialShape

LEMMA ProviderInv ==
  ASSUME SocialInv, NEW r \in Requests,
         Social!GoogleConfirms(r) \/ Social!GoogleFails(r) \/ Social!AppleConfirms(r) \/ Social!AppleFails(r)
  PROVE  SocialInv'
  <1>1. PICK v : /\ Social!Go(r, v) /\ req[r].at = "exchange" /\ UNCHANGED Social!social
                 /\ \/ \E email \in Addresses : v = [at |-> "link", identity |-> req[r].identity, email |-> email]
                    \/ v \in {Social!Answer(401), Social!Answer(502)}
    <2>1. CASE \E p \in {"google", "apple"}, email \in Addresses : Social!Confirmed(r, p, email)
      BY <2>1 DEF Social!Confirmed
    <2>2. CASE \E p \in {"google", "apple"}, code \in {401, 502} : Social!Refused(r, p, code)
      BY <2>2 DEF Social!Refused
    <2> QED BY <2>1, <2>2 DEF Social!GoogleConfirms, Social!GoogleFails, Social!AppleConfirms, Social!AppleFails, Addresses
  <1>2. v \in Requested /\ v.at \notin {"login", "token"}
    BY <1>1, AnswerRequested, RequestedByPlace DEF Requested, SocialInv, SocialShape
  <1> QED BY <1>1, <1>2, SocialMovesAway DEF Social!social, SocialInv, SocialShape

LEMMA FindLinkInv ==
  ASSUME SocialInv, NEW r \in Requests, Social!FindLink(r)
  PROVE  SocialInv'
  <1> DEFINE i == req[r].identity
  <1>1. /\ i \in Identities /\ req[r].at = "link" /\ UNCHANGED Social!social
        /\ req[r] \in [at : {"link", "email"}, identity : Identities, email : Addresses]
    BY RequestedByPlace DEF Social!FindLink, SocialInv, SocialShape
  <1>2. CASE links[i] # "none" /\ links[i] \in active
    <2>1. links[i] \in Emails
      BY <1>1, <1>2 DEF SocialInv, SocialShape, Addresses
    <2>2. Social!Go(r, [at |-> "login", identity |-> i, user |-> links[i], new |-> FALSE])
      BY <1>2 DEF Social!FindLink
    <2> QED BY <1>1, <2>1, <2>2, MovesToSignIn
  <1>3. CASE ~(links[i] # "none" /\ links[i] \in active)
    <2>1. PICK v : Social!Go(r, v) /\ (v = [req[r] EXCEPT !.at = "email"] \/ v = Social!Answer(401))
      BY <1>3 DEF Social!FindLink
    <2>2. v \in Requested /\ v.at \notin {"login", "token"}
      BY <1>1, <2>1, AnswerRequested DEF Requested
    <2> QED BY <1>1, <2>1, <2>2, SocialMovesAway DEF Social!social, SocialInv, SocialShape
  <1> QED BY <1>2, <1>3

LEMMA FindEmailInv ==
  ASSUME SocialInv, NEW r \in Requests, Social!FindEmail(r)
  PROVE  SocialInv'
  <1>1. /\ req[r].at = "email" /\ UNCHANGED Social!social
        /\ req[r] \in [at : {"link", "email"}, identity : Identities, email : Addresses]
    BY RequestedByPlace DEF Social!FindEmail, SocialInv, SocialShape
  <1>2. PICK v : /\ Social!Go(r, v)
                 /\ \/ v = Social!Answer(401)
                    \/ v = [req[r] EXCEPT !.at = "create"] /\ req[r].email # "none"
                    \/ /\ v = [at |-> "flush", identity |-> req[r].identity, email |-> req[r].email, next |-> "login"]
                       /\ req[r].email # "none"
    BY DEF Social!FindEmail
  <1>3. v \in Requested /\ v.at \notin {"login", "token"}
    BY <1>1, <1>2, AnswerRequested DEF Requested, Addresses
  <1> QED BY <1>1, <1>2, <1>3, SocialMovesAway DEF Social!social, SocialInv, SocialShape

LEMMA CreateUserInv ==
  ASSUME SocialInv, NEW r \in Requests, Social!CreateUser(r)
  PROVE  SocialInv'
  <1>1. req[r].at = "create" /\ req[r].identity \in Identities /\ req[r].email \in Emails
    BY RequestedByPlace DEF Social!CreateUser, SocialInv, SocialShape
  <1>2. PICK v : /\ Social!Go(r, v)
                 /\ \/ v = Social!Answer(502)
                    \/ v = [at |-> "flush", identity |-> req[r].identity, email |-> req[r].email, next |-> "token"]
    BY DEF Social!CreateUser
  <1>3. v \in Requested /\ v.at \notin {"login", "token"}
    BY <1>1, <1>2, AnswerRequested DEF Requested
  <1>4. users' \in [Emails -> {"none", "local", "social"}]
    BY DEF Social!CreateUser, SocialInv, SocialShape
  <1> QED BY <1>2, <1>3, <1>4, SocialMovesAway DEF Social!CreateUser, SocialInv, SocialShape

LEMMA FlushLinkInv ==
  ASSUME SocialInv, NEW r \in Requests, Social!FlushLink(r)
  PROVE  SocialInv'
  <1> DEFINE i == req[r].identity
  <1>1. /\ i \in Identities /\ req[r].email \in Emails /\ req[r].next \in {"login", "token"}
        /\ req[r].at = "flush" /\ UNCHANGED Social!social /\ ~Social!Flushed(i)
    BY RequestedByPlace DEF Social!FlushLink, SocialInv, SocialShape
  <1>2. CASE links[i] = "none"
    <2>1. Social!Go(r, [at |-> req[r].next, identity |-> i, user |-> req[r].email, new |-> TRUE])
      BY <1>2 DEF Social!FlushLink
    <2> QED BY <1>1, <1>2, <2>1, MovesToSignIn
  <1>3. CASE links[i] # "none"
    <2>1. Social!Go(r, Social!Answer(502))
      BY <1>3 DEF Social!FlushLink
    <2> QED BY <1>1, <2>1, AnswerRequested, SocialMovesAway DEF Social!social, SocialInv, SocialShape
  <1> QED BY <1>2, <1>3

(* The commit of a link changes nothing for who is signed in, or signs in, *)
(* to another.                                                             *)
LEMMA CommitLinkKeeps ==
  ASSUME Social!SocialAssumption, SocialInv, NEW r \in Requests, SigningIn(r), Social!CommitLink(r)
  PROVE  /\ links' \in [Identities -> Addresses]
         /\ links'[req[r].identity] = req[r].user
         /\ \A i \in Identities : (links[i] # "none" \/ i # req[r].identity) => links'[i] = links[i]
         /\ \A s \in signed : links'[s.identity] = s.user
         /\ \A q \in Requests : (q # r /\ SigningIn(q)) =>
              IF req[q].new
              THEN links'[req[q].identity] = "none"
              ELSE links'[req[q].identity] = req[q].user
  <1>1. req[r].identity \in Identities /\ req[r].user \in Emails /\ req[r].new \in BOOLEAN
    BY RequestedByPlace DEF SocialInv, SocialShape, SigningIn
  <1>2. req[r].new => links[req[r].identity] = "none"
    BY DEF SocialInv, LinkInv
  <1>3. /\ links' \in [Identities -> Addresses]
        /\ links'[req[r].identity] = req[r].user
        /\ \A i \in Identities : (links[i] # "none" \/ i # req[r].identity) => links'[i] = links[i]
    BY <1>1, <1>2 DEF Social!CommitLink, SocialInv, SocialShape, Addresses, LinkInv
  <1>4. ASSUME NEW s \in signed PROVE links'[s.identity] = s.user
    <2>1. s.identity \in Identities /\ s.user \in Emails /\ links[s.identity] = s.user
      BY DEF SocialInv, SocialShape, Social!SignedInAsLinked
    <2>2. s.user # "none"
      BY <2>1 DEF Social!SocialAssumption
    <2> QED BY <1>3, <2>1, <2>2
  <1>5. ASSUME NEW q \in Requests, q # r, SigningIn(q)
        PROVE  IF req[q].new
               THEN links'[req[q].identity] = "none"
               ELSE links'[req[q].identity] = req[q].user
    <2>1. req[q].identity \in Identities /\ req[q].user \in Emails
      BY <1>5, RequestedByPlace DEF SocialInv, SocialShape, SigningIn
    <2>2. req[q].user # "none"
      BY <2>1 DEF Social!SocialAssumption
    <2>3. CASE ~req[q].new
      BY <1>3, <1>5, <2>1, <2>2, <2>3 DEF SocialInv, LinkInv
    <2>4. CASE req[q].new
      <3>1. links[req[q].identity] = "none"
        BY <1>5, <2>4 DEF SocialInv, LinkInv
      <3>2. CASE req[r].new
        <4>1. req[q].identity # req[r].identity
          BY <1>5, <2>4, <3>2 DEF SocialInv, LinkInv
        <4> QED BY <1>3, <2>1, <2>4, <3>1, <4>1
      <3>3. CASE ~req[r].new
        BY <2>4, <3>1, <3>3 DEF Social!CommitLink
      <3> QED BY <1>1, <3>2, <3>3
    <2> QED BY <2>3, <2>4
  <1> QED BY <1>3, <1>4, <1>5

LEMMA CommitLoginInv ==
  ASSUME Social!SocialAssumption, SocialInv, NEW r \in Requests, Social!CommitLogin(r)
  PROVE  SocialInv'
  <1> DEFINE v == [req[r] EXCEPT !.at = "token", !.new = FALSE]
  <1>1. /\ req[r].at = "login" /\ Social!CommitLink(r) /\ Social!Go(r, v)
        /\ UNCHANGED <<users, active, states, issued, cache, signed>>
    BY DEF Social!CommitLogin
  <1>2. req[r] \in [at : {"login", "token"}, identity : Identities, user : Emails, new : BOOLEAN]
    BY <1>1, RequestedByPlace DEF SocialInv, SocialShape
  <1>3. v \in Requested /\ v.at = "token" /\ ~v.new /\ v.identity = req[r].identity /\ v.user = req[r].user
    BY <1>2 DEF Requested
  <1> HIDE DEF v
  <1>4. /\ req' \in [Requests -> Requested] /\ req'[r] = v
        /\ \A q \in Requests : q # r => req'[q] = req[q]
    BY <1>1, <1>3, SocialMoved DEF SocialInv
  <1>5. /\ links' \in [Identities -> Addresses]
        /\ links'[req[r].identity] = req[r].user
        /\ \A s \in signed : links'[s.identity] = s.user
        /\ \A q \in Requests : (q # r /\ SigningIn(q)) =>
             IF req[q].new
             THEN links'[req[q].identity] = "none"
             ELSE links'[req[q].identity] = req[q].user
    BY <1>1, CommitLinkKeeps DEF SigningIn
  <1>6. SocialShape'
    BY <1>1, <1>4, <1>5 DEF SocialInv, SocialShape
  <1>7. Social!SignedInAsLinked'
    BY <1>1, <1>5 DEF Social!SignedInAsLinked
  <1>8. LinkInv'
    BY <1>3, <1>4, <1>5 DEF SocialInv, LinkInv, SigningIn
  <1> QED BY <1>6, <1>7, <1>8 DEF SocialInv

LEMMA IssueTokensInv ==
  ASSUME Social!SocialAssumption, SocialInv, NEW r \in Requests, Social!IssueTokens(r)
  PROVE  SocialInv'
  <1> DEFINE v == Social!Answer(200)   one == [identity |-> req[r].identity, user |-> req[r].user]
  <1>1. /\ req[r].at = "token" /\ Social!CommitLink(r) /\ Social!Go(r, v) /\ signed' = signed \cup {one}
        /\ UNCHANGED <<users, active, states, issued, cache>>
    BY DEF Social!IssueTokens
  <1>2. req[r].identity \in Identities /\ req[r].user \in Emails
    BY <1>1, RequestedByPlace DEF SocialInv, SocialShape
  <1>3. v \in Requested /\ v.at = "answered"
    BY AnswerRequested
  <1> HIDE DEF v
  <1>4. /\ req' \in [Requests -> Requested] /\ req'[r] = v
        /\ \A q \in Requests : q # r => req'[q] = req[q]
    BY <1>1, <1>3, SocialMoved DEF SocialInv
  <1>5. /\ links' \in [Identities -> Addresses]
        /\ links'[req[r].identity] = req[r].user
        /\ \A s \in signed : links'[s.identity] = s.user
        /\ \A q \in Requests : (q # r /\ SigningIn(q)) =>
             IF req[q].new
             THEN links'[req[q].identity] = "none"
             ELSE links'[req[q].identity] = req[q].user
    BY <1>1, CommitLinkKeeps DEF SigningIn
  <1>6. SocialShape'
    BY <1>1, <1>2, <1>4, <1>5 DEF SocialInv, SocialShape
  <1>7. Social!SignedInAsLinked'
    BY <1>1, <1>5 DEF Social!SignedInAsLinked
  <1>8. LinkInv'
    BY <1>3, <1>4, <1>5 DEF SocialInv, LinkInv, SigningIn
  <1> QED BY <1>6, <1>7, <1>8 DEF SocialInv

LEMMA AccountPageInv ==
  ASSUME Social!SocialAssumption, SocialInv, NEW r \in Requests, NEW email \in Emails,
         Social!ListLinked(r, email) \/ \E p \in {"google", "apple"} : Social!Unlink(r, email, p)
  PROVE  SocialInv'
  <1>1. PICK v : /\ Social!Go(r, v) /\ UNCHANGED Social!social
                 /\ \/ v = [at |-> "listed", providers |-> {i.provider : i \in Social!LinksOf(email)}]
                    \/ v \in {Social!Answer(400), Social!Answer(404), Social!Answer(200)}
    BY DEF Social!ListLinked, Social!Unlink
  <1>2. v \in Requested /\ v.at \notin {"login", "token"}
    <2>1. CASE v \in {Social!Answer(400), Social!Answer(404), Social!Answer(200)}
      BY <2>1, AnswerRequested
    <2>2. CASE v = [at |-> "listed", providers |-> {i.provider : i \in Social!LinksOf(email)}]
      <3>1. {i.provider : i \in Social!LinksOf(email)} \in SUBSET {"google", "apple"}
        BY DEF Social!LinksOf, Social!SocialAssumption
      <3> QED BY <2>2, <3>1 DEF Requested
    <2> QED BY <1>1, <2>1, <2>2
  <1> QED BY <1>1, <1>2, SocialMovesAway DEF Social!social, SocialInv, SocialShape

LEMMA SocialNextInv ==
  ASSUME Social!SocialAssumption, SocialInv, [Social!Next]_(Social!vars)
  PROVE  SocialInv'
  <1>1. CASE UNCHANGED Social!vars
    BY <1>1 DEF Social!vars, Social!social, SocialInv, SocialShape, LinkInv, SigningIn, Social!SignedInAsLinked
  <1>2. ASSUME NEW r \in Requests, Social!Serve(r)
        PROVE  SocialInv'
    <2>1. ASSUME Social!Finish(r) PROVE SocialInv'
      BY <2>1, IdleRequested, SocialMovesAway DEF Social!Finish, Social!social, SocialInv, SocialShape
    <2> QED BY <1>2, <2>1, CallbackInv, ConsumeStateInv, ProviderInv, FindLinkInv, FindEmailInv, CreateUserInv,
               FlushLinkInv, CommitLoginInv, IssueTokensInv, AccountPageInv DEF Social!Serve
  <1> QED BY <1>1, <1>2, NobodysInv DEF Social!Next

LEMMA SocialImplied == SocialInv => Social!TypeOK /\ Social!SignedInAsLinked
  <1> SUFFICES ASSUME SocialInv PROVE Social!TypeOK
    BY DEF SocialInv
  <1>1. \A q \in Requested : q.at \in {"idle", "consume", "exchange", "link", "email", "create",
                                        "flush", "login", "token", "answered", "listed"}
    BY DEF Requested, Social!Idle
  <1> QED BY <1>1 DEF Social!TypeOK, SocialInv, SocialShape, StateKeys, Addresses

(* Tables and requests of the social log-in have their types, and an       *)
(* identity is signed in only to its user.                                 *)
THEOREM SocialLoginCorrect == Social!Spec => [](Social!TypeOK /\ Social!SignedInAsLinked)
  <1>1. Social!Init => SocialInv
    BY SocialInitInv, TheAssumptions
  <1>2. SocialInv /\ [Social!Next]_(Social!vars) => SocialInv'
    BY SocialNextInv, TheAssumptions
  <1> QED BY <1>1, <1>2, SocialImplied, PTL DEF Social!Spec

-----------------------------------------------------------------------------
(***************************************************************************)
(* The account's life.  A request that began while the account was not     *)
(* active stays outside until it is active again, and row.active is read   *)
(* from the users row, never from the token-user key.                      *)
(***************************************************************************)
(* What a request that waits for its next step knows. *)
Stations == {"idle", "answered", "insert", "profile", "load", "fill", "admitted", "me", "exported", "erase", "swept"}

LifeShape ==
  /\ row \in [exists : BOOLEAN, active : BOOLEAN, anonymised : BOOLEAN]
  /\ profile \in {"none", "made", "edited"}
  /\ data \in [state : {"kept", "deleted"}, deletable : BOOLEAN]
  /\ token \in {"none", "active"}
  /\ blocked \in BOOLEAN
  /\ changes \in 0 .. MaxChanges
  /\ outside \subseteq Requests
  /\ DOMAIN req = Requests
  /\ \A r \in Requests : req[r].at \in Stations

(* While a request is outside, the account is there and not active; and    *)
(* none of them has got as far as the cache of users.                      *)
GateInv ==
  /\ outside # {} => row.exists /\ ~row.active
  /\ \A r \in outside : req[r].at \notin {"fill", "admitted"}

LifeInv == LifeShape /\ GateInv

LEMMA LifeRecords ==
  /\ Life!Idle.at = "idle" /\ \A c \in {200, 201, 400, 401, 403, 404, 500} : Life!Answer(c).at = "answered"
  BY DEF Life!Idle, Life!Answer

(* A step of one request that leaves the account's state and who is        *)
(* outside alone.                                                          *)
LEMMA LifeStepInv ==
  ASSUME LifeInv, NEW r \in Requests, NEW v, Life!Go(r, v), v.at \in Stations,
         r \in outside => v.at \notin {"fill", "admitted"},
         UNCHANGED <<row, changes, outside>>,
         profile' \in {"none", "made", "edited"},
         data' \in [state : {"kept", "deleted"}, deletable : BOOLEAN],
         token' \in {"none", "active"}, blocked' \in BOOLEAN
  PROVE  LifeInv'
  <1>1. DOMAIN req' = Requests /\ req'[r] = v /\ \A q \in Requests : q # r => req'[q] = req[q]
    BY DEF Life!Go, LifeInv, LifeShape
  <1>2. LifeShape'
    BY <1>1 DEF LifeInv, LifeShape
  <1>3. GateInv'
    BY <1>1 DEF LifeInv, GateInv, LifeShape
  <1> QED BY <1>2, <1>3 DEF LifeInv

LEMMA LifeInitInv == ASSUME Life!LifecycleAssumption, Life!Init PROVE LifeInv
  <1>1. data \in [state : {"kept", "deleted"}, deletable : BOOLEAN]
    <2>1. data \in [state : {"kept"}, deletable : BOOLEAN]
      BY DEF Life!Init
    <2> QED BY <2>1
  <1>2. DOMAIN req = Requests /\ \A r \in Requests : req[r].at \in Stations
    BY LifeRecords DEF Life!Init, Stations
  <1>3. row \in [exists : BOOLEAN, active : BOOLEAN, anonymised : BOOLEAN] /\ blocked \in BOOLEAN
    BY DEF Life!Init
  <1>4. /\ profile \in {"none", "made", "edited"} /\ token \in {"none", "active"}
        /\ changes \in 0 .. MaxChanges /\ outside = {}
    BY DEF Life!Init, Life!LifecycleAssumption
  <1> QED BY <1>1, <1>2, <1>3, <1>4 DEF LifeInv, LifeShape, GateInv

LEMMA RegisterInv ==
  ASSUME LifeInv, NEW r \in Requests, Life!LookUpEmail(r) \/ Life!InsertUser(r) \/ Life!InsertProfile(r)
  PROVE  LifeInv'
  <1>1. CASE Life!LookUpEmail(r)
    <2>1. PICK v : Life!Go(r, v) /\ (v = Life!Answer(400) \/ v = [at |-> "insert"])
      BY <1>1 DEF Life!LookUpEmail, Life!Step
    <2>2. v.at \in Stations /\ v.at \notin {"fill", "admitted"}
      BY <2>1, LifeRecords DEF Stations
    <2> QED BY <1>1, <2>1, <2>2, LifeStepInv DEF Life!LookUpEmail, Life!account, LifeInv, LifeShape
  <1>2. CASE Life!InsertUser(r)
    <2>1. CASE row.exists
      <3>1. Life!Go(r, Life!Answer(500)) /\ UNCHANGED Life!account
        BY <1>2, <2>1 DEF Life!InsertUser, Life!account
      <3> QED BY <3>1, LifeRecords, LifeStepInv DEF Life!account, LifeInv, LifeShape, Stations
    <2>2. CASE ~row.exists
      <3>1. /\ Life!Go(r, [at |-> "profile"]) /\ row' = [row EXCEPT !.exists = TRUE, !.active = TRUE]
            /\ UNCHANGED <<profile, data, token, blocked, changes, outside>>
        BY <1>2, <2>2 DEF Life!InsertUser
      <3>2. DOMAIN req' = Requests /\ req'[r].at = "profile" /\ \A q \in Requests : q # r => req'[q] = req[q]
        BY <3>1 DEF Life!Go, LifeInv, LifeShape
      <3>3. LifeShape'
        BY <3>1, <3>2 DEF LifeInv, LifeShape, Stations
      <3>4. GateInv'
        BY <2>2, <3>1 DEF LifeInv, GateInv
      <3> QED BY <3>3, <3>4 DEF LifeInv
    <2> QED BY <2>1, <2>2
  <1>3. CASE Life!InsertProfile(r)
    BY <1>3, LifeRecords, LifeStepInv DEF Life!InsertProfile, Life!Step, LifeInv, LifeShape, Stations
  <1> QED BY <1>1, <1>2, <1>3

(* The gate. *)
LEMMA GateStepInv ==
  ASSUME LifeInv, NEW r \in Requests, Life!ReadCache(r) \/ Life!LoadUser(r) \/ Life!FillCache(r)
  PROVE  LifeInv'
  <1>1. CASE Life!ReadCache(r)
    <2>1. /\ row.exists /\ Life!Go(r, [at |-> "load"])
          /\ outside' = IF row.active THEN outside \ {r} ELSE outside \cup {r}
          /\ UNCHANGED <<row, profile, data, token, blocked, changes>>
      BY <1>1 DEF Life!ReadCache, Life!Step, Life!Usable
    <2>2. DOMAIN req' = Requests /\ req'[r].at = "load" /\ \A q \in Requests : q # r => req'[q] = req[q]
      BY <2>1 DEF Life!Go, LifeInv, LifeShape
    <2>3. LifeShape'
      BY <2>1, <2>2 DEF LifeInv, LifeShape, Stations
    <2>4. GateInv'
      BY <2>1, <2>2 DEF LifeInv, LifeShape, GateInv
    <2> QED BY <2>3, <2>4 DEF LifeInv
  <1>2. CASE Life!LoadUser(r)
    <2>1. PICK v : /\ Life!Go(r, v) /\ v \in {Life!Answer(401), Life!Answer(403), [at |-> "fill"]}
                   /\ v = [at |-> "fill"] => row.active
      BY <1>2 DEF Life!LoadUser, Life!Step, Life!Answer
    <2>2. v.at \in Stations /\ (r \in outside => v.at \notin {"fill", "admitted"})
      BY <2>1, LifeRecords DEF Stations, LifeInv, GateInv
    <2> QED BY <1>2, <2>1, <2>2, LifeStepInv DEF Life!LoadUser, Life!account, LifeInv, LifeShape
  <1>3. CASE Life!FillCache(r)
    <2>1. r \notin outside /\ Life!Go(r, [at |-> "admitted"]) /\ token' \in {"none", "active"}
      BY <1>3 DEF Life!FillCache, Life!Step, LifeInv, LifeShape, GateInv
    <2> QED BY <1>3, <2>1, LifeStepInv DEF Life!FillCache, LifeInv, LifeShape, Stations
  <1> QED BY <1>1, <1>2, <1>3

(* What an admitted request does, the sweep, and the end of a request. *)
LEMMA AdmittedInv ==
  ASSUME LifeInv, NEW r \in Requests,
         \/ Life!GetMe(r) \/ Life!UpdateProfile(r) \/ Life!LogOut(r) \/ Life!DeleteAccount(r) \/ Life!Export(r)
         \/ Life!EraseData(r) \/ Life!Sweep(r) \/ Life!Finish(r)
  PROVE  LifeInv'
  <1>1. PICK v : Life!Go(r, v) /\ v.at \in {"me", "answered", "exported", "idle", "swept"}
    <2>1. CASE Life!GetMe(r)
      BY <2>1 DEF Life!GetMe, Life!Step
    <2>2. CASE Life!UpdateProfile(r)
      <3>1. Life!Go(r, Life!Answer(IF profile = "none" THEN 404 ELSE 200))
        BY <2>2 DEF Life!UpdateProfile, Life!Step
      <3> QED BY <3>1 DEF Life!Answer
    <2>3. CASE Life!LogOut(r) \/ Life!DeleteAccount(r)
      <3>1. Life!Go(r, Life!Answer(200)) \/ Life!Go(r, Life!Answer(500))
        BY <2>3 DEF Life!LogOut, Life!DeleteAccount, Life!Step
      <3> QED BY <3>1 DEF Life!Answer
    <2>4. CASE Life!Export(r)
      BY <2>4 DEF Life!Export, Life!Step
    <2>5. CASE Life!Sweep(r)
      BY <2>5 DEF Life!Sweep, Life!Step
    <2>6. CASE Life!EraseData(r) \/ Life!Finish(r)
      BY <2>6, LifeRecords DEF Life!EraseData, Life!Finish, Life!Step
    <2> QED BY <2>1, <2>2, <2>3, <2>4, <2>5, <2>6
  <1>2. v.at \in Stations /\ v.at \notin {"fill", "admitted"}
    BY <1>1 DEF Stations
  <1>3. /\ UNCHANGED <<row, changes, outside, token>>
        /\ profile' \in {"none", "made", "edited"} /\ blocked' \in BOOLEAN
    BY DEF Life!GetMe, Life!UpdateProfile, Life!LogOut, Life!DeleteAccount, Life!Export, Life!EraseData, Life!Sweep, Life!Finish, Life!account, LifeInv, LifeShape
  <1>4. data' \in [state : {"kept", "deleted"}, deletable : BOOLEAN]
    BY DEF Life!GetMe, Life!UpdateProfile, Life!LogOut, Life!DeleteAccount, Life!Export, Life!EraseData, Life!Sweep, Life!Finish, Life!account, LifeInv, LifeShape
  <1> QED BY <1>1, <1>2, <1>3, <1>4, LifeStepInv DEF LifeInv, LifeShape

LEMMA AnonymiseInv ==
  ASSUME LifeInv, NEW r \in Requests, Life!Anonymise(r)
  PROVE  LifeInv'
  <1>1. /\ row.exists /\ Life!Go(r, [at |-> "erase"])
        /\ row' = [row EXCEPT !.active = FALSE, !.anonymised = TRUE]
        /\ UNCHANGED <<profile, data, token, blocked, changes, outside>>
    BY DEF Life!Anonymise, Life!Step
  <1>2. DOMAIN req' = Requests /\ req'[r].at = "erase" /\ \A q \in Requests : q # r => req'[q] = req[q]
    BY <1>1 DEF Life!Go, LifeInv, LifeShape
  <1>3. LifeShape'
    BY <1>1, <1>2 DEF LifeInv, LifeShape, Stations
  <1>4. GateInv'
    BY <1>1, <1>2 DEF LifeInv, LifeShape, GateInv
  <1> QED BY <1>3, <1>4 DEF LifeInv

(* A suspension, or its end, lets no request in that is outside. *)
LEMMA SetActiveInv ==
  ASSUME Life!LifecycleAssumption, LifeInv, NEW on \in BOOLEAN, Life!SetActive(on)
  PROVE  LifeInv'
  BY DEF Life!SetActive, LifeInv, LifeShape, GateInv, Life!LifecycleAssumption

LEMMA KeyExpiresInv == ASSUME LifeInv, Life!KeyExpires PROVE LifeInv'
  BY DEF Life!KeyExpires, LifeInv, LifeShape, GateInv

LEMMA LifeNextInv ==
  ASSUME Life!LifecycleAssumption, LifeInv, [Life!Next]_(Life!vars)
  PROVE  LifeInv'
  <1>1. CASE UNCHANGED Life!vars
    BY <1>1 DEF Life!vars, Life!account, LifeInv, LifeShape, GateInv
  <1>2. ASSUME NEW r \in Requests, Life!Serve(r) PROVE LifeInv'
    BY <1>2, RegisterInv, GateStepInv, AdmittedInv, AnonymiseInv DEF Life!Serve
  <1> QED BY <1>1, <1>2, SetActiveInv, KeyExpiresInv DEF Life!Next

LEMMA LifeImplied == LifeInv => Life!TypeOK /\ Life!AdmittedWasActive
  BY DEF LifeInv, LifeShape, GateInv, Life!TypeOK, Life!AdmittedWasActive, Stations

(* get_current_user admits a request only if the account was active since  *)
(* it began; rows, keys and requests have their types.                     *)
THEOREM LifecycleCorrect == Life!Spec => [](Life!TypeOK /\ Life!AdmittedWasActive)
  <1>1. Life!Init => LifeInv
    BY LifeInitInv, TheAssumptions
  <1>2. LifeInv /\ [Life!Next]_(Life!vars) => LifeInv'
    BY LifeNextInv, TheAssumptions
  <1> QED BY <1>1, <1>2, LifeImplied, PTL DEF Life!Spec

-----------------------------------------------------------------------------
(***************************************************************************)
(* The second factor.  A request that commits codes carries a set of them. *)
(***************************************************************************)
(* A request that is about to commit carries a secret, or a set of codes.  *)
FactorRequests ==
  {Factor!Idle} \cup [at : {"answered"}, code : Nat]
         \cup [at : {"secret"}, secret : 1 .. MaxSecrets]
         \cup [at : {"codes"}, codes : 1 .. MaxSecrets, turnOn : BOOLEAN]

Columns == [secret : 0 .. MaxSecrets, key : 0 .. MaxKeys, enabled : BOOLEAN, codes : 0 .. MaxSecrets]

FactorInv == Factor!TypeOK /\ req \in [Requests -> FactorRequests]

LEMMA FactorInitInv == ASSUME Factor!TwoFactorAssumption, Factor!Init PROVE FactorInv
  BY DEF Factor!Init, FactorInv, Factor!TypeOK, Factor!TwoFactorAssumption, FactorRequests, Factor!Idle

(* One request moves, within its types. *)
LEMMA FactorMoved ==
  ASSUME FactorInv, NEW r \in Requests, NEW v \in FactorRequests, Factor!Go(r, v)
  PROVE  /\ req' \in [Requests -> FactorRequests]
         /\ \A q \in Requests : req'[q].at \in {"idle", "answered", "secret", "codes"}
  <1>1. req' \in [Requests -> FactorRequests]
    BY DEF Factor!Go, FactorInv
  <1>2. \A v1 \in FactorRequests : v1.at \in {"idle", "answered", "secret", "codes"}
    BY DEF FactorRequests, Factor!Idle
  <1> QED BY <1>1, <1>2

LEMMA FactorAnswer == Factor!Idle \in FactorRequests /\ \A c \in Nat : Factor!Answer(c) \in FactorRequests
  BY DEF FactorRequests, Factor!Answer

LEMMA FactorCarries ==
  ASSUME NEW q \in FactorRequests
  PROVE  /\ q.at = "secret" => q.secret \in 1 .. MaxSecrets
         /\ q.at = "codes" => q.codes \in 1 .. MaxSecrets /\ q.turnOn \in BOOLEAN
  BY DEF FactorRequests, Factor!Idle

LEMMA SetupInv ==
  ASSUME Factor!TwoFactorAssumption, FactorInv, NEW r \in Requests, Factor!Setup(r)
  PROVE  FactorInv'
  <1>1. PICK v \in FactorRequests : Factor!Go(r, v)
    <2>1. last.secret + 1 \in 1 .. MaxSecrets
      BY DEF Factor!Setup, FactorInv, Factor!TypeOK, Factor!TwoFactorAssumption
    <2> QED BY <2>1, FactorAnswer DEF Factor!Setup, FactorRequests
  <1>2. last' \in [secret : 0 .. MaxSecrets, codes : 0 .. MaxSecrets]
    BY DEF Factor!Setup, FactorInv, Factor!TypeOK, Factor!TwoFactorAssumption
  <1> QED BY <1>1, <1>2, FactorMoved DEF Factor!Setup, FactorInv, Factor!TypeOK

LEMMA CommitSecretInv ==
  ASSUME Factor!TwoFactorAssumption, FactorInv, NEW r \in Requests, Factor!CommitSecret(r)
  PROVE  FactorInv'
  <1>1. req[r].secret \in 1 .. MaxSecrets
    BY FactorCarries DEF Factor!CommitSecret, FactorInv
  <1>2. Factor!Go(r, Factor!Answer(200)) /\ Factor!Answer(200) \in FactorRequests
    BY FactorAnswer DEF Factor!CommitSecret
  <1>3. req[r].secret \in 0 .. MaxSecrets /\ key \in 0 .. MaxKeys /\ columns \in Columns
    BY <1>1 DEF FactorInv, Factor!TypeOK, Columns, Factor!TwoFactorAssumption
  <1>4. /\ columns' \in Columns
        /\ columns'.enabled = columns.enabled /\ columns'.codes = columns.codes
    BY <1>3 DEF Factor!CommitSecret, Columns
  <1>5. phone' \in 0 .. MaxSecrets
    BY <1>3 DEF Factor!CommitSecret, FactorInv, Factor!TypeOK
  <1> QED BY <1>2, <1>4, <1>5, FactorMoved DEF Factor!CommitSecret, FactorInv, Factor!TypeOK, Columns

LEMMA NewCodesType ==
  ASSUME Factor!TwoFactorAssumption, FactorInv, NEW r \in Requests, NEW turnOn \in BOOLEAN, Factor!NewCodes(r, turnOn)
  PROVE  /\ last' \in [secret : 0 .. MaxSecrets, codes : 0 .. MaxSecrets]
         /\ \E v \in FactorRequests : Factor!Go(r, v)
  <1>1. last.codes + 1 \in 1 .. MaxSecrets
    BY DEF Factor!NewCodes, FactorInv, Factor!TypeOK, Factor!TwoFactorAssumption
  <1>2. [at |-> "codes", codes |-> last.codes + 1, turnOn |-> turnOn] \in FactorRequests
    BY <1>1 DEF FactorRequests
  <1>3. last' \in [secret : 0 .. MaxSecrets, codes : 0 .. MaxSecrets]
    BY <1>1 DEF Factor!NewCodes, FactorInv, Factor!TypeOK
  <1> QED BY <1>2, <1>3 DEF Factor!NewCodes

LEMMA EnableInv ==
  ASSUME Factor!TwoFactorAssumption, FactorInv, NEW r \in Requests, Factor!Enable(r) \/ Factor!Regenerate(r)
  PROVE  FactorInv'
  <1>1. /\ last' \in [secret : 0 .. MaxSecrets, codes : 0 .. MaxSecrets]
        /\ \E v \in FactorRequests : Factor!Go(r, v)
    <2>1. CASE Factor!NewCodes(r, TRUE) \/ Factor!NewCodes(r, FALSE)
      BY <2>1, NewCodesType
    <2>2. CASE ~(Factor!NewCodes(r, TRUE) \/ Factor!NewCodes(r, FALSE))
      <3>1. UNCHANGED last /\ \E c \in {400, 401, 409, 500} : Factor!Go(r, Factor!Answer(c))
        <4>1. CASE Factor!Enable(r)
          BY <2>2, <4>1, ZenonT(60) DEF Factor!Enable
        <4>2. CASE Factor!Regenerate(r)
          BY <2>2, <4>2, ZenonT(60) DEF Factor!Regenerate
        <4> QED BY <4>1, <4>2
      <3> QED BY <3>1, FactorAnswer DEF FactorInv, Factor!TypeOK
    <2> QED BY <2>1, <2>2
  <1>2. UNCHANGED <<columns, phone, key>>
    BY DEF Factor!Enable, Factor!Regenerate
  <1> QED BY <1>1, <1>2, FactorMoved DEF FactorInv, Factor!TypeOK

LEMMA CommitCodesInv ==
  ASSUME Factor!TwoFactorAssumption, FactorInv, NEW r \in Requests, Factor!CommitCodes(r)
  PROVE  FactorInv'
  <1>1. req[r].codes \in 1 .. MaxSecrets /\ req[r].turnOn \in BOOLEAN
    BY FactorCarries DEF Factor!CommitCodes, FactorInv
  <1>2. Factor!Go(r, Factor!Answer(200)) /\ Factor!Answer(200) \in FactorRequests
    BY FactorAnswer DEF Factor!CommitCodes
  <1>3. columns \in Columns /\ req[r].codes \in 0 .. MaxSecrets /\ req[r].codes # 0
    BY <1>1 DEF FactorInv, Factor!TypeOK, Columns, Factor!TwoFactorAssumption
  <1>4. (columns.enabled \/ req[r].turnOn) \in BOOLEAN
    OBVIOUS
  <1>5. columns' = [columns EXCEPT !.enabled = columns.enabled \/ req[r].turnOn, !.codes = req[r].codes]
    BY <1>3 DEF Factor!CommitCodes, Columns
  <1>6. columns' \in Columns /\ columns'.codes = req[r].codes
    BY <1>3, <1>4, <1>5 DEF Columns
  <1> QED BY <1>2, <1>3, <1>6, FactorMoved DEF Factor!CommitCodes, FactorInv, Factor!TypeOK, Columns

LEMMA OtherRequestInv ==
  ASSUME FactorInv, NEW r \in Requests, Factor!Disable(r) \/ Factor!Verify(r) \/ Factor!Finish(r)
  PROVE  FactorInv'
  <1>1. \E v \in FactorRequests : Factor!Go(r, v)
    BY FactorAnswer DEF Factor!Disable, Factor!Verify, Factor!Finish
  <1>2. UNCHANGED Factor!factor
    BY DEF Factor!Disable, Factor!Verify, Factor!Finish
  <1> QED BY <1>1, <1>2, FactorMoved DEF Factor!factor, FactorInv, Factor!TypeOK

LEMMA RestartInv == ASSUME Factor!TwoFactorAssumption, FactorInv, Factor!Restart PROVE FactorInv'
  BY DEF Factor!Restart, FactorInv, Factor!TypeOK, Factor!TwoFactorAssumption, FactorRequests, Factor!Idle

LEMMA EraseInv == ASSUME Factor!TwoFactorAssumption, FactorInv, Factor!Erase PROVE FactorInv'
  <1>1. 0 \in 0 .. MaxSecrets
    BY DEF Factor!TwoFactorAssumption
  <1>2. UNCHANGED <<phone, key, last, req>>
    BY DEF Factor!Erase
  <1>3. columns' = [columns EXCEPT !.secret = 0, !.enabled = FALSE, !.codes = 0]
    BY DEF Factor!Erase
  <1>4. columns' \in Columns /\ ~columns'.enabled
    BY <1>1, <1>3 DEF FactorInv, Factor!TypeOK, Columns
  <1> QED BY <1>2, <1>4 DEF FactorInv, Factor!TypeOK, Columns

LEMMA FactorNextInv ==
  ASSUME Factor!TwoFactorAssumption, FactorInv, [Factor!Next]_(Factor!vars)
  PROVE  FactorInv'
  <1>1. CASE UNCHANGED Factor!vars
    BY <1>1 DEF Factor!vars, Factor!factor, FactorInv, Factor!TypeOK
  <1> QED BY <1>1, SetupInv, CommitSecretInv, EnableInv, CommitCodesInv, OtherRequestInv, RestartInv, EraseInv DEF Factor!Next

LEMMA FactorImplied == FactorInv => Factor!TypeOK
  BY DEF FactorInv

(* The columns have their types, and enable_2fa and regenerate, however    *)
(* they overlap with erasure, leave the second factor on only with codes.  *)
THEOREM SecondFactorCorrect == Factor!Spec => [](Factor!TypeOK)
  <1>1. Factor!Init => FactorInv
    BY FactorInitInv, TheAssumptions
  <1>2. FactorInv /\ [Factor!Next]_(Factor!vars) => FactorInv'
    BY FactorNextInv, TheAssumptions
  <1> QED BY <1>1, <1>2, FactorImplied, PTL DEF Factor!Spec

-----------------------------------------------------------------------------
(***************************************************************************)
(* The web client.  The property speaks of the token in storage; what keeps *)
(* it true is the token that is on its way: nobody else has it until it is *)
(* heard, so that no call can have used it up before it is stored.         *)
(***************************************************************************)
Issued == live \cup retired
CallPlaces == {"asked", "found", "denied", "failed", "answered", "user"}
Ways == {"retry", "load", "renew", "again", "replay"}
Call == [at : CallPlaces, page : Pages, way : Ways, sent : Web!Tokens, body : Web!Tokens,
           got : Web!Tokens \cup {0}, awaited : BOOLEAN]

(* The types, as far as the other parts need them. *)
ShapeInv ==
  /\ live \subseteq Web!Tokens /\ retired \subseteq Web!Tokens /\ live \cap retired = {}
  /\ kept \in {0} \cup Issued
  /\ calls \in [Requests -> {Web!Idle} \cup Call]

(* Whatever a call presents, or will present, has been issued. *)
SentInv == \A c \in Requests : calls[c] # Web!Idle => calls[c].sent \in Issued /\ calls[c].body \in Issued

(* The token of an answer nobody has heard yet: somebody waits for it, it  *)
(* is live or was ended by the server, and it is nowhere else.             *)
Unheard(c) ==
  /\ calls[c].awaited
  /\ calls[c].got \in live \cup excused /\ calls[c].got \in Issued
  /\ kept # calls[c].got
  /\ \A d \in Requests :
       /\ calls[d] # Web!Idle => calls[d].sent # calls[c].got /\ calls[d].body # calls[c].got
       /\ (d # c /\ calls[d].at = "answered") => calls[d].got # calls[c].got

AnswerInv == \A c \in Requests : calls[c].at = "answered" => Unheard(c)

(* A call that nobody waits for doesn't use up the stored token, or the    *)
(* page that waited was closed.                                            *)
AbandonedInv ==
  \A c \in Requests : (calls[c] # Web!Idle /\ ~calls[c].awaited) => (calls[c].sent = kept => kept \in excused)

WebInv == ShapeInv /\ SentInv /\ AnswerInv /\ AbandonedInv /\ Web!StoredIsLive

-----------------------------------------------------------------------------
(* 0 is no token. *)
LEMMA ZeroIsNoToken == 0 \notin Web!Tokens
  BY DEF Web!Tokens

(* One call changes, to a value of its type. *)
LEMMA OneCall ==
  ASSUME ShapeInv, NEW c \in Requests, NEW v \in {Web!Idle} \cup Call, Web!Becomes(c, v)
  PROVE  /\ calls' \in [Requests -> {Web!Idle} \cup Call]
         /\ calls'[c] = v
         /\ \A d \in Requests : d # c => calls'[d] = calls[d]
  BY DEF ShapeInv, Web!Becomes

(* Idle is not the record of a call under way. *)
LEMMA IdleIsNoRecord == Web!Idle \notin Call /\ Web!Idle.at = "idle"
  BY DEF Web!Idle, Call, CallPlaces

(* A call that asks with known tokens is of its type. *)
LEMMA AskedType ==
  ASSUME NEW p \in Pages, NEW way \in Ways, NEW t \in Web!Tokens, NEW body \in Web!Tokens
  PROVE  /\ Web!Asked(p, way, t, body) \in Call /\ Web!Asked(p, way, t, body).at = "asked"
         /\ Web!Asked(p, way, t, body).sent = t /\ Web!Asked(p, way, t, body).body = body
         /\ Web!Asked(p, way, t, body).awaited
  BY DEF Web!Asked, Call, CallPlaces

(* What a call under way carries. *)
LEMMA CallType ==
  ASSUME ShapeInv, NEW c \in Requests
  PROVE  /\ calls[c].at # "idle" => calls[c] # Web!Idle
         /\ calls[c] # Web!Idle => calls[c] \in Call
  BY IdleIsNoRecord DEF ShapeInv

LEMMA InitWebInv == Web!Init => WebInv
  <1> SUFFICES ASSUME Web!Init PROVE WebInv
    OBVIOUS
  <1>1. live = {} /\ retired = {} /\ kept = 0 /\ \A c \in Requests : calls[c] = Web!Idle
    BY DEF Web!Init, Web!Store!Init
  <1>2. ShapeInv
    BY <1>1 DEF Web!Init, ShapeInv, Issued
  <1>3. SentInv /\ AnswerInv /\ AbandonedInv
    BY <1>1, IdleIsNoRecord DEF SentInv, AnswerInv, AbandonedInv
  <1>4. Web!StoredIsLive
    BY <1>1 DEF Web!StoredIsLive
  <1> QED BY <1>2, <1>3, <1>4 DEF WebInv

-----------------------------------------------------------------------------
(* Steps that move one call on and leave tokens and storage alone *)

(* The new value is idle, or carries tokens the call or the storage had;   *)
(* no answer comes or goes; and it is waited for, or was not before.       *)
Moves(c, v) ==
  /\ Web!Becomes(c, v) /\ v \in {Web!Idle} \cup Call
  /\ calls[c].at # "answered" /\ v.at # "answered"
  /\ v # Web!Idle =>
       /\ v.sent = kept \/ (calls[c] # Web!Idle /\ v.sent = calls[c].sent)
       /\ v.body = kept \/ (calls[c] # Web!Idle /\ v.body = calls[c].body)
       /\ v.awaited \/ (calls[c] # Web!Idle /\ ~calls[c].awaited /\ v.sent = calls[c].sent)

LEMMA MovesWebInv ==
  ASSUME WebInv, NEW c \in Requests, NEW v, Moves(c, v), UNCHANGED <<live, retired, kept, excused>>
  PROVE  WebInv'
  <1>1. /\ calls' \in [Requests -> {Web!Idle} \cup Call] /\ calls'[c] = v
        /\ \A d \in Requests : d # c => calls'[d] = calls[d]
    BY OneCall DEF WebInv, Moves
  <1>2. ShapeInv'
    BY <1>1 DEF WebInv, ShapeInv, Issued
  <1>3. v # Web!Idle => v.sent \in Web!Tokens /\ v.body \in Web!Tokens
    BY DEF Moves, Call
  <1>4. SentInv'
    BY <1>1, <1>3, ZeroIsNoToken DEF WebInv, SentInv, ShapeInv, Moves, Issued
  <1>5. AnswerInv'
    <2> SUFFICES ASSUME NEW d \in Requests, calls'[d].at = "answered" PROVE Unheard(d)'
      BY DEF AnswerInv
    <2>1. d # c /\ calls'[d] = calls[d] /\ Unheard(d)
      BY <1>1 DEF Moves, WebInv, AnswerInv
    <2>2. v # Web!Idle => v.sent # calls[d].got /\ v.body # calls[d].got
      BY <2>1 DEF Moves, Unheard
    <2> QED BY <1>1, <2>1, <2>2 DEF Unheard, Issued, Moves
  <1>6. AbandonedInv'
    BY <1>1 DEF WebInv, AbandonedInv, Moves
  <1>7. Web!StoredIsLive'
    BY <1>1 DEF WebInv, Web!StoredIsLive, Moves
  <1> QED BY <1>2, <1>4, <1>5, <1>6, <1>7 DEF WebInv

LEMMA AskMoves ==
  ASSUME WebInv, NEW c \in Requests, NEW p \in Pages, NEW way \in Ways, Web!Ask(c, p, way)
  PROVE  WebInv'
  <1>1. kept \in Web!Tokens
    BY DEF Web!Ask, WebInv, ShapeInv, Issued
  <1>2. Moves(c, Web!Asked(p, way, kept, kept))
    BY <1>1, AskedType, IdleIsNoRecord DEF Web!Ask, Moves
  <1> QED BY <1>2, MovesWebInv DEF Web!Ask, Web!ServerUnchanged, Web!ClientUnchanged

(* A call at the server that moves to another place before an answer. *)
LEMMA PlaceMoves ==
  ASSUME WebInv, NEW c \in Requests, NEW at \in CallPlaces \ {"answered"},
         calls[c].at \in {"asked", "found"},
         \/ Web!Becomes(c, [calls[c] EXCEPT !.at = at])
         \/ Web!Leaves(c, [calls[c] EXCEPT !.at = at]),
         UNCHANGED <<live, retired, kept, excused>>
  PROVE  WebInv'
  <1> DEFINE v == [calls[c] EXCEPT !.at = at]
  <1>1. calls[c] # Web!Idle /\ calls[c] \in Call
    BY CallType DEF WebInv
  <1>2. /\ v \in Call /\ v.at = at /\ v.sent = calls[c].sent /\ v.body = calls[c].body
        /\ v.awaited = calls[c].awaited
    BY <1>1 DEF Call, CallPlaces
  <1>3. CASE Web!Becomes(c, v)
    <2>1. Moves(c, v)
      BY <1>1, <1>2, <1>3 DEF Moves, CallPlaces, Call
    <2> QED BY <2>1, MovesWebInv
  <1>4. CASE Web!Leaves(c, v)
    <2>1. CASE calls[c].awaited
      <3>1. Web!Becomes(c, v)
        BY <1>2, <1>4, <2>1 DEF Web!Leaves
      <3> QED BY <1>3, <3>1
    <2>2. CASE ~calls[c].awaited
      <3>1. Web!Becomes(c, Web!Idle)
        BY <1>2, <1>4, <2>2 DEF Web!Leaves
      <3>2. Moves(c, Web!Idle)
        BY <3>1, IdleIsNoRecord DEF Moves
      <3> QED BY <3>2, MovesWebInv
    <2> QED BY <2>1, <2>2
  <1> QED BY <1>3, <1>4

LEMMA ValidateWebInv ==
  ASSUME WebInv, NEW c \in Requests, Web!Validate(c)
  PROVE  WebInv'
  <1>1. /\ calls[c].at = "asked" /\ UNCHANGED <<live, retired, kept, excused>>
        /\ \/ Web!Becomes(c, [calls[c] EXCEPT !.at = "found"])
           \/ Web!Leaves(c, [calls[c] EXCEPT !.at = "denied"])
    BY DEF Web!Validate, Web!Store!Grant, Web!ServerUnchanged, Web!ClientUnchanged
  <1>2. "found" \in CallPlaces \ {"answered"} /\ "denied" \in CallPlaces \ {"answered"}
    BY DEF CallPlaces
  <1> QED BY <1>1, <1>2, PlaceMoves

LEMMA FailWebInv ==
  ASSUME WebInv, NEW c \in Requests, Web!Fail(c)
  PROVE  WebInv'
  <1>1. calls[c].at \in {"asked", "found"} /\ UNCHANGED <<live, retired, kept, excused>>
    BY DEF Web!Fail, Web!Store!Refuse, Web!ServerUnchanged, Web!ClientUnchanged
  <1>2. PICK outcome \in {"denied", "failed"} : Web!Leaves(c, [calls[c] EXCEPT !.at = outcome])
    BY DEF Web!Fail
  <1>3. outcome \in CallPlaces \ {"answered"}
    BY DEF CallPlaces
  <1> QED BY <1>1, <1>2, <1>3, PlaceMoves

LEMMA AgainWebInv ==
  ASSUME WebInv, NEW c \in Requests, Web!Again(c)
  PROVE  WebInv'
  <1>1. kept \in Web!Tokens
    BY DEF Web!Again, WebInv, ShapeInv, Issued
  <1>2. calls[c] # Web!Idle /\ calls[c] \in Call
    BY CallType DEF Web!Again, WebInv
  <1>3. calls[c].page \in Pages /\ calls[c].body \in Web!Tokens /\ "again" \in Ways
    BY <1>2 DEF Call, Ways
  <1>4. Moves(c, Web!Asked(calls[c].page, "again", kept, calls[c].body))
    BY <1>1, <1>2, <1>3, AskedType DEF Web!Again, Moves
  <1> QED BY <1>4, MovesWebInv DEF Web!Again, Web!ServerUnchanged, Web!ClientUnchanged

-----------------------------------------------------------------------------
(* Steps that clear the storage *)

(* What a call becomes when its page doesn't wait any more. *)
LEMMA AbandonedType ==
  ASSUME ShapeInv, NEW c \in Requests, calls[c] # Web!Idle
  PROVE  LET v == Web!Abandoned(calls[c]) IN
         /\ v \in {Web!Idle} \cup Call /\ v.at # "answered"
         /\ v # Web!Idle => /\ v.sent = calls[c].sent /\ v.body = calls[c].body /\ ~v.awaited
                            /\ calls[c].at \in {"asked", "found"}
  BY CallType, IdleIsNoRecord DEF Web!Abandoned, Call

(* The storage is empty, and each call is as it was, idle or abandoned. *)
LEMMA ClearWebInv ==
  ASSUME WebInv, kept' = 0, UNCHANGED <<live, retired, excused>>,
         calls' \in [Requests -> {Web!Idle} \cup Call],
         \A d \in Requests : \/ calls'[d] = calls[d] \/ calls'[d] = Web!Idle
                             \/ calls[d] # Web!Idle /\ calls'[d] = Web!Abandoned(calls[d])
  PROVE  WebInv'
  <1>1. ShapeInv'
    BY DEF WebInv, ShapeInv, Issued
  <1>2. ASSUME NEW d \in Requests, calls'[d] # Web!Idle
        PROVE  calls[d] # Web!Idle /\ calls'[d].sent = calls[d].sent /\ calls'[d].body = calls[d].body
    BY <1>2, AbandonedType DEF WebInv
  <1>3. ASSUME NEW d \in Requests, calls'[d].at = "answered"
        PROVE  calls'[d] = calls[d]
    BY <1>3, AbandonedType, IdleIsNoRecord DEF WebInv
  <1>4. SentInv'
    BY <1>2 DEF WebInv, SentInv, Issued
  <1>5. AnswerInv'
    <2> SUFFICES ASSUME NEW d \in Requests, calls'[d].at = "answered" PROVE Unheard(d)'
      BY DEF AnswerInv
    <2>1. calls'[d] = calls[d] /\ Unheard(d)
      BY <1>3 DEF WebInv, AnswerInv
    <2>2. calls[d].got # 0
      BY <2>1, ZeroIsNoToken DEF Unheard, WebInv, ShapeInv, Issued
    <2> QED BY <1>2, <1>3, <2>1, <2>2 DEF Unheard, Issued
  <1>6. AbandonedInv'
    BY <1>2, ZeroIsNoToken DEF WebInv, AbandonedInv, SentInv, ShapeInv, Issued
  <1>7. Web!StoredIsLive'
    BY ZeroIsNoToken DEF WebInv, Web!StoredIsLive, ShapeInv
  <1> QED BY <1>1, <1>4, <1>5, <1>6, <1>7 DEF WebInv

LEMMA LogOutWebInv == ASSUME WebInv, Web!LogOut PROVE WebInv'
  BY ClearWebInv DEF Web!LogOut, Web!ServerUnchanged, WebInv, ShapeInv

LEMMA GiveUpWebInv ==
  ASSUME WebInv, NEW c \in Requests, Web!GiveUp(c)
  PROVE  WebInv'
  <1>1. /\ calls' \in [Requests -> {Web!Idle} \cup Call] /\ calls'[c] = Web!Idle
        /\ \A d \in Requests : d # c => calls'[d] = calls[d]
    BY OneCall DEF Web!GiveUp, WebInv
  <1> QED BY <1>1, ClearWebInv DEF Web!GiveUp, Web!ServerUnchanged

LEMMA FetchUserWebInv ==
  ASSUME WebInv, NEW c \in Requests, Web!FetchUser(c)
  PROVE  WebInv'
  <1>1. Web!Becomes(c, Web!Idle) /\ UNCHANGED <<live, retired, excused>> /\ calls[c].at = "user"
    BY DEF Web!FetchUser, Web!ServerUnchanged
  <1>2. CASE kept' = kept
    <2>1. Moves(c, Web!Idle)
      BY <1>1, IdleIsNoRecord DEF Moves
    <2> QED BY <1>1, <1>2, <2>1, MovesWebInv
  <1>3. CASE kept' = 0
    <2>1. /\ calls' \in [Requests -> {Web!Idle} \cup Call] /\ calls'[c] = Web!Idle
          /\ \A d \in Requests : d # c => calls'[d] = calls[d]
      BY <1>1, OneCall DEF WebInv
    <2> QED BY <1>1, <1>3, <2>1, ClearWebInv
  <1> QED BY <1>2, <1>3 DEF Web!FetchUser

LEMMA LostWebInv ==
  ASSUME WebInv, NEW c \in Requests, Web!Lost(c)
  PROVE  WebInv'
  <1>1. calls[c] # Web!Idle
    BY CallType DEF Web!Lost, Web!Waiting, WebInv
  <1>2. Web!Abandoned(calls[c]) \in {Web!Idle} \cup Call
    BY <1>1, AbandonedType DEF WebInv
  <1>3. /\ calls' \in [Requests -> {Web!Idle} \cup Call] /\ calls'[c] = Web!Abandoned(calls[c])
        /\ \A d \in Requests : d # c => calls'[d] = calls[d]
    BY <1>2, OneCall DEF Web!Lost, WebInv
  <1> QED BY <1>1, <1>3, ClearWebInv DEF Web!Lost, Web!ServerUnchanged

-----------------------------------------------------------------------------
(* Steps that issue, retire or store tokens *)

LEMMA SignInWebInv ==
  ASSUME WebInv, Web!SignIn
  PROVE  WebInv'
  <1>1. /\ Web!New \in Web!Tokens /\ Web!New \notin Issued /\ live' = live \cup {Web!New}
        /\ kept' \in {kept, Web!New} /\ UNCHANGED <<retired, calls, excused>>
    BY DEF Web!SignIn, Web!Store!Issue, Web!Store!Fresh, Issued
  <1>2. ShapeInv'
    BY <1>1 DEF WebInv, ShapeInv, Issued
  <1>3. SentInv'
    BY <1>1 DEF WebInv, SentInv, Issued
  <1>4. AnswerInv'
    <2> SUFFICES ASSUME NEW d \in Requests, calls[d].at = "answered" PROVE Unheard(d)'
      BY <1>1 DEF AnswerInv
    <2>1. Unheard(d)
      BY DEF WebInv, AnswerInv
    <2> QED BY <1>1, <2>1 DEF Unheard, Issued
  <1>5. AbandonedInv'
    BY <1>1 DEF WebInv, AbandonedInv, SentInv
  <1>6. Web!StoredIsLive'
    BY <1>1 DEF WebInv, Web!StoredIsLive, Issued
  <1> QED BY <1>2, <1>3, <1>4, <1>5, <1>6 DEF WebInv

LEMMA ServerEndsWebInv ==
  ASSUME WebInv, NEW t \in Web!Tokens, Web!ServerEnds(t)
  PROVE  WebInv'
  <1>1. /\ t \in live /\ live' = live \ {t} /\ retired' = retired \cup {t}
        /\ excused' = excused \cup {t} /\ UNCHANGED <<kept, calls>>
    BY DEF Web!ServerEnds, Web!Store!Retire
  <1>2. Issued' = Issued
    BY <1>1 DEF Issued
  <1>3. ShapeInv'
    BY <1>1, <1>2 DEF WebInv, ShapeInv
  <1>4. SentInv' /\ AbandonedInv'
    BY <1>1, <1>2 DEF WebInv, SentInv, AbandonedInv
  <1>5. AnswerInv'
    <2> SUFFICES ASSUME NEW d \in Requests, calls[d].at = "answered" PROVE Unheard(d)'
      BY <1>1 DEF AnswerInv
    <2>1. Unheard(d)
      BY DEF WebInv, AnswerInv
    <2> QED BY <1>1, <1>2, <2>1 DEF Unheard
  <1>6. Web!StoredIsLive'
    BY <1>1 DEF WebInv, Web!StoredIsLive
  <1> QED BY <1>3, <1>4, <1>5, <1>6 DEF WebInv

(* The new token is known to nobody but the call that asked for it; the    *)
(* one presented is stored only if its answer is on its way, or excused.   *)
LEMMA RotateWebInv ==
  ASSUME WebInv, NEW c \in Requests, Web!Rotate(c)
  PROVE  WebInv'
  <1> DEFINE w == [calls[c] EXCEPT !.at = "answered", !.got = Web!New]
             v == IF calls[c].awaited THEN w ELSE Web!Idle
  <1>1. /\ calls[c].at = "found" /\ Web!New \in Web!Tokens /\ Web!New \notin Issued
        /\ live' = (live \ {calls[c].sent}) \cup {Web!New} /\ retired' = retired \cup {calls[c].sent}
        /\ UNCHANGED <<kept, excused>>
    BY DEF Web!Rotate, Web!Store!Exchange, Web!Store!Fresh, Web!ClientUnchanged, Issued
  <1>2. calls[c] # Web!Idle /\ calls[c] \in Call /\ calls[c].sent \in Issued /\ calls[c].body \in Issued
    BY <1>1, CallType DEF WebInv, SentInv
  <1>3. /\ w \in Call /\ w.at = "answered" /\ w.got = Web!New /\ w.awaited = calls[c].awaited
        /\ w.sent = calls[c].sent /\ w.body = calls[c].body
    BY <1>1, <1>2 DEF Call, CallPlaces
  <1>4. Web!Becomes(c, v) /\ v \in {Web!Idle} \cup Call
    BY <1>3 DEF Web!Rotate, Web!Leaves
  <1>5. /\ calls' \in [Requests -> {Web!Idle} \cup Call] /\ calls'[c] = v
        /\ \A d \in Requests : d # c => calls'[d] = calls[d]
    BY <1>4, OneCall DEF WebInv
  <1>6. Issued' = Issued \cup {Web!New}
    BY <1>1, <1>2 DEF Issued
  <1>7. ShapeInv'
    BY <1>1, <1>2, <1>5, <1>6 DEF WebInv, ShapeInv, Issued
  <1>8. /\ calls[c].awaited => calls'[c] = w
        /\ ~calls[c].awaited => calls'[c] = Web!Idle
    BY <1>5
  <1> HIDE DEF v, w
  <1>9. SentInv'
    BY <1>2, <1>3, <1>5, <1>6, <1>8 DEF WebInv, SentInv
  <1>10. ASSUME NEW d \in Requests, d # c, calls'[d].at = "answered"
         PROVE  /\ calls[d] = calls'[d] /\ Unheard(d)
                /\ calls[d].got # Web!New /\ calls[d].got # calls[c].sent
    BY <1>1, <1>2, <1>5, <1>10 DEF WebInv, AnswerInv, Unheard
  <1>11. AnswerInv'
    <2> SUFFICES ASSUME NEW d \in Requests, calls'[d].at = "answered" PROVE Unheard(d)'
      BY DEF AnswerInv
    <2>1. CASE d # c
      <3>1. ASSUME NEW e \in Requests, calls'[e] # Web!Idle
            PROVE  calls'[e].sent # calls[d].got /\ calls'[e].body # calls[d].got
        BY <1>2, <1>3, <1>5, <1>8, <1>10, <2>1, <3>1 DEF Unheard
      <3>2. ASSUME NEW e \in Requests, e # d, calls'[e].at = "answered"
            PROVE  calls'[e].got # calls[d].got
        <4>1. CASE e = c
          BY <1>3, <1>8, <1>10, <2>1, <3>2, <4>1, IdleIsNoRecord
        <4>2. CASE e # c
          BY <1>5, <1>10, <2>1, <3>2, <4>2 DEF Unheard
        <4> QED BY <4>1, <4>2
      <3> QED BY <1>1, <1>6, <1>10, <2>1, <3>1, <3>2 DEF Unheard
    <2>2. CASE d = c
      <3>1. calls[c].awaited /\ calls'[c] = w
        BY <1>8, <2>2, IdleIsNoRecord
      <3>2. ASSUME NEW e \in Requests, calls'[e] # Web!Idle
            PROVE  calls'[e].sent # Web!New /\ calls'[e].body # Web!New
        BY <1>1, <1>2, <1>3, <1>5, <3>1, <3>2 DEF WebInv, SentInv
      <3>3. ASSUME NEW e \in Requests, e # c, calls'[e].at = "answered"
            PROVE  calls'[e].got # Web!New
        BY <1>10, <3>3
      <3>4. kept # Web!New
        BY <1>1, ZeroIsNoToken DEF WebInv, ShapeInv
      <3> QED BY <1>1, <1>3, <1>6, <2>2, <3>1, <3>2, <3>3, <3>4 DEF Unheard
    <2> QED BY <2>1, <2>2
  <1>12. AbandonedInv'
    BY <1>1, <1>3, <1>5, <1>8 DEF WebInv, AbandonedInv
  <1>13. Web!StoredIsLive'
    <2> SUFFICES ASSUME kept \in retired', kept \notin excused
                 PROVE  \E d \in Requests : calls'[d].at = "answered" /\ calls'[d].sent = kept
      BY <1>1 DEF Web!StoredIsLive
    <2>1. CASE kept = calls[c].sent
      BY <1>2, <1>3, <1>8, <2>1 DEF WebInv, AbandonedInv
    <2>2. CASE kept # calls[c].sent
      BY <1>1, <1>5, <2>2 DEF WebInv, Web!StoredIsLive
    <2> QED BY <2>1, <2>2
  <1> QED BY <1>7, <1>9, <1>11, <1>12, <1>13 DEF WebInv

(* The stored token becomes the one nobody else has. *)
LEMMA HearWebInv ==
  ASSUME WebInv, NEW c \in Requests, Web!Hear(c)
  PROVE  WebInv'
  <1> DEFINE got == calls[c].got
  <1>1. /\ calls[c].at = "answered" /\ kept' = got
        /\ UNCHANGED <<live, retired, excused>>
    BY DEF Web!Hear, Web!Stored, Web!ServerUnchanged
  <1>2. calls[c] # Web!Idle /\ calls[c] \in Call /\ Unheard(c)
    BY <1>1, CallType DEF WebInv, AnswerInv
  <1>3. PICK v : /\ Web!Becomes(c, v) /\ v \in {Web!Idle} \cup Call /\ v.at # "answered"
                 /\ v # Web!Idle => /\ v.awaited
                                    /\ v.sent \in {calls[c].sent, calls[c].body} /\ v.body = calls[c].body
    <2>1. CASE calls[c].way = "again"
      <3>1. calls[c].page \in Pages /\ calls[c].body \in Web!Tokens /\ "replay" \in Ways
        BY <1>2 DEF Call, Ways
      <3> QED BY <2>1, <3>1, AskedType DEF Web!Hear
    <2>2. CASE calls[c].way = "load"
      <3>1. Web!Becomes(c, [calls[c] EXCEPT !.at = "user"])
        BY <2>2 DEF Web!Hear
      <3>2. calls[c].awaited
        BY <1>2 DEF Unheard
      <3>3. LET u == [calls[c] EXCEPT !.at = "user"] IN
            /\ u \in Call /\ u.at = "user" /\ u.awaited = calls[c].awaited
            /\ u.sent = calls[c].sent /\ u.body = calls[c].body
        BY <1>2 DEF Call, CallPlaces
      <3> QED BY <3>1, <3>2, <3>3
    <2>3. CASE calls[c].way \notin {"again", "load"}
      BY <2>3, IdleIsNoRecord DEF Web!Hear
    <2> QED BY <2>1, <2>2, <2>3
  <1>4. /\ calls' \in [Requests -> {Web!Idle} \cup Call] /\ calls'[c] = v
        /\ \A d \in Requests : d # c => calls'[d] = calls[d]
    BY <1>3, OneCall DEF WebInv
  <1>5. got \in Issued /\ got \in live \cup excused
    BY <1>2 DEF Unheard
  <1>6. ASSUME NEW d \in Requests, calls'[d] # Web!Idle
        PROVE  \E e \in Requests : /\ calls[e] # Web!Idle /\ calls'[d].body = calls[e].body
                                   /\ calls'[d].sent \in {calls[e].sent, calls[e].body}
    BY <1>2, <1>3, <1>4, <1>6
  <1>7. ShapeInv'
    BY <1>1, <1>4, <1>5 DEF WebInv, ShapeInv, Issued
  <1>8. SentInv'
    BY <1>1, <1>6 DEF WebInv, SentInv, Issued
  <1>9. AnswerInv'
    <2> SUFFICES ASSUME NEW d \in Requests, calls'[d].at = "answered" PROVE Unheard(d)'
      BY DEF AnswerInv
    <2>1. d # c /\ calls'[d] = calls[d] /\ Unheard(d)
      BY <1>3, <1>4 DEF WebInv, AnswerInv
    <2>2. got # calls[d].got
      BY <1>1, <1>2, <2>1 DEF Unheard
    <2>3. ASSUME NEW e \in Requests, calls'[e] # Web!Idle
          PROVE  calls'[e].sent # calls[d].got /\ calls'[e].body # calls[d].got
      BY <1>6, <2>1, <2>3 DEF Unheard
    <2>4. ASSUME NEW e \in Requests, e # d, calls'[e].at = "answered"
          PROVE  calls'[e].got # calls[d].got
      BY <1>3, <1>4, <2>1, <2>4 DEF Unheard
    <2> QED BY <1>1, <2>1, <2>2, <2>3, <2>4 DEF Unheard, Issued
  <1>10. AbandonedInv'
    BY <1>1, <1>2, <1>3, <1>4 DEF AbandonedInv, Unheard
  <1>11. Web!StoredIsLive'
    BY <1>1, <1>5 DEF Web!StoredIsLive, WebInv, ShapeInv
  <1> QED BY <1>7, <1>8, <1>9, <1>10, <1>11 DEF WebInv

LEMMA UnloadWebInv ==
  ASSUME WebInv, NEW p \in Pages, Web!Unload(p)
  PROVE  WebInv'
  <1> DEFINE its == {d \in Requests : calls[d] # Web!Idle /\ calls[d].page = p /\ calls[d].awaited}
  <1>1. /\ calls' = [d \in Requests |-> IF d \in its THEN Web!Abandoned(calls[d]) ELSE calls[d]]
        /\ excused' = excused \cup {calls[d].sent : d \in {d \in its : Web!Waiting(d)}}
        /\ UNCHANGED <<live, retired, kept>>
    BY DEF Web!Unload, Web!ServerUnchanged
  <1>2. ASSUME NEW d \in its
        PROVE  /\ d \in Requests /\ calls[d] # Web!Idle /\ calls[d].awaited /\ calls'[d] = Web!Abandoned(calls[d])
               /\ calls'[d] \in {Web!Idle} \cup Call /\ calls'[d].at # "answered"
               /\ calls'[d] # Web!Idle =>
                    /\ calls'[d].sent = calls[d].sent /\ calls'[d].body = calls[d].body
                    /\ calls[d].at \in {"asked", "found"}
    BY <1>1, AbandonedType DEF WebInv
  <1>3. ASSUME NEW d \in Requests, d \notin its PROVE calls'[d] = calls[d]
    BY <1>1, <1>3
  <1>4. ASSUME NEW d \in its, calls[d].at \in {"asked", "found", "answered"}
        PROVE  calls[d].sent \in excused'
    BY <1>1, <1>2, <1>4 DEF Web!Waiting
  <1> HIDE DEF its
  <1>5. ASSUME NEW d \in Requests, calls'[d] # Web!Idle
        PROVE  calls[d] # Web!Idle /\ calls'[d].sent = calls[d].sent /\ calls'[d].body = calls[d].body
    BY <1>2, <1>3, <1>5
  <1>6. ASSUME NEW d \in Requests, calls'[d].at = "answered"
        PROVE  d \notin its /\ calls'[d] = calls[d]
    BY <1>2, <1>3, <1>6
  <1>7. ShapeInv'
    <2>1. ASSUME NEW d \in Requests PROVE calls'[d] \in {Web!Idle} \cup Call
      BY <1>2, <1>3, <2>1 DEF WebInv, ShapeInv
    <2>2. calls' \in [Requests -> {Web!Idle} \cup Call]
      BY <1>1, <2>1
    <2> QED BY <1>1, <2>2 DEF WebInv, ShapeInv, Issued
  <1>8. SentInv'
    BY <1>1, <1>5 DEF WebInv, SentInv, Issued
  <1>9. AnswerInv'
    <2> SUFFICES ASSUME NEW d \in Requests, calls'[d].at = "answered" PROVE Unheard(d)'
      BY DEF AnswerInv
    <2>1. calls'[d] = calls[d] /\ Unheard(d)
      BY <1>6 DEF WebInv, AnswerInv
    <2> QED BY <1>1, <1>5, <1>6, <2>1 DEF Unheard, Issued
  <1>10. excused \subseteq excused'
    BY <1>1
  <1>11. AbandonedInv'
    <2> SUFFICES ASSUME NEW d \in Requests, calls'[d] # Web!Idle, ~calls'[d].awaited, calls'[d].sent = kept
                 PROVE  kept \in excused'
      BY <1>1 DEF AbandonedInv
    <2>1. CASE d \in its
      BY <1>2, <1>4, <2>1
    <2>2. CASE d \notin its
      BY <1>3, <1>10, <2>2 DEF WebInv, AbandonedInv
    <2> QED BY <2>1, <2>2
  <1>12. Web!StoredIsLive'
    <2> SUFFICES ASSUME kept \in retired, kept \notin excused'
                 PROVE  \E d \in Requests : calls'[d].at = "answered" /\ calls'[d].sent = kept
      BY <1>1 DEF Web!StoredIsLive
    <2>1. PICK d \in Requests : calls[d].at = "answered" /\ calls[d].sent = kept
      BY <1>10 DEF WebInv, Web!StoredIsLive
    <2>2. d \notin its
      BY <1>4, <2>1
    <2> QED BY <1>3, <2>1, <2>2
  <1> QED BY <1>7, <1>8, <1>9, <1>11, <1>12 DEF WebInv

-----------------------------------------------------------------------------
LEMMA NextWebInv == WebInv /\ [Web!Next]_(Web!webVars) => WebInv'
  <1> SUFFICES ASSUME WebInv, [Web!Next]_(Web!webVars) PROVE WebInv'
    OBVIOUS
  <1>1. ASSUME NEW c \in Requests, NEW p \in Pages,
               Web!Unauthorized(c, p) \/ Web!InitAuth(c, p) \/ Web!RefreshSession(c, p)
        PROVE  WebInv'
    <2>1. "retry" \in Ways /\ "load" \in Ways /\ "renew" \in Ways
      BY DEF Ways
    <2> QED BY <1>1, <2>1, AskMoves DEF Web!Unauthorized, Web!InitAuth, Web!RefreshSession
  <1>2. CASE Web!SignIn
    BY <1>2, SignInWebInv
  <1>3. CASE Web!LogOut
    BY <1>3, LogOutWebInv
  <1>4. ASSUME NEW c \in Requests, Web!Validate(c) \/ Web!Rotate(c) \/ Web!Fail(c) PROVE WebInv'
    BY <1>4, ValidateWebInv, RotateWebInv, FailWebInv
  <1>5. ASSUME NEW c \in Requests, Web!Hear(c) \/ Web!FetchUser(c) \/ Web!Again(c) \/ Web!GiveUp(c) \/ Web!Lost(c) PROVE WebInv'
    BY <1>5, HearWebInv, FetchUserWebInv, AgainWebInv, GiveUpWebInv, LostWebInv
  <1>6. ASSUME NEW t \in Web!Tokens, Web!ServerEnds(t) PROVE WebInv'
    BY <1>6, ServerEndsWebInv
  <1>7. ASSUME NEW p \in Pages, Web!Unload(p) PROVE WebInv'
    BY <1>7, UnloadWebInv
  <1>8. CASE UNCHANGED Web!webVars
    BY <1>8 DEF Web!webVars, WebInv, ShapeInv, SentInv, AnswerInv, AbandonedInv, Web!StoredIsLive, Unheard, Issued
  <1> QED BY <1>1, <1>2, <1>3, <1>4, <1>5, <1>6, <1>7, <1>8 DEF Web!Next

-----------------------------------------------------------------------------
(* The grants are those of the calls the server has found, and whatever    *)
(* was excused was issued.                                                 *)
GrantInv == \A x : x \in granted <=> \E c \in Requests : calls[c].at = "found" /\ x = <<c, calls[c].sent>>
WebTypeInv == WebInv /\ GrantInv /\ excused \subseteq Issued

(* A step that moves no call to or from "found". *)
LEMMA GrantsStay ==
  ASSUME GrantInv, UNCHANGED granted,
         \A d \in Requests : /\ calls'[d].at = "found" <=> calls[d].at = "found"
                             /\ calls[d].at = "found" => calls'[d].sent = calls[d].sent
  PROVE  GrantInv'
  BY DEF GrantInv

(* A step that moves one call from "found". *)
LEMMA GrantUsed ==
  ASSUME GrantInv, NEW c \in Requests, calls[c].at = "found", granted' = granted \ {<<c, calls[c].sent>>},
         calls'[c].at # "found", \A d \in Requests : d # c => calls'[d] = calls[d]
  PROVE  GrantInv'
  BY DEF GrantInv

(* A call that leaves to another place. *)
LEMMA LeavesTo ==
  ASSUME ShapeInv, NEW c \in Requests, calls[c] # Web!Idle, NEW at \in CallPlaces \ {"found"},
         NEW got \in Web!Tokens \cup {0},
         Web!Leaves(c, [calls[c] EXCEPT !.at = at, !.got = got])
  PROVE  calls'[c].at # "found" /\ \A d \in Requests : d # c => calls'[d] = calls[d]
  <1> DEFINE w == [calls[c] EXCEPT !.at = at, !.got = got]
             v == IF w.awaited THEN w ELSE Web!Idle
  <1>1. calls[c] \in Call
    BY CallType
  <1>2. w \in Call /\ w.at = at
    BY <1>1 DEF Call
  <1>3. Web!Becomes(c, v)
    BY DEF Web!Leaves
  <1>4. v \in {Web!Idle} \cup Call /\ v.at # "found"
    BY <1>2, IdleIsNoRecord
  <1> HIDE DEF v, w
  <1> QED BY <1>3, <1>4, OneCall

LEMMA ServerGrantInv ==
  ASSUME WebTypeInv, NEW c \in Requests, Web!Validate(c) \/ Web!Rotate(c) \/ Web!Fail(c)
  PROVE  GrantInv'
  <1>1. calls[c] # Web!Idle /\ calls[c] \in Call
    BY CallType DEF WebTypeInv, WebInv, Web!Validate, Web!Rotate, Web!Fail
  <1>2. calls[c] = [calls[c] EXCEPT !.got = calls[c].got] /\ calls[c].got \in Web!Tokens \cup {0}
    BY <1>1 DEF Call
  <1>3. ASSUME NEW at \in {"denied", "failed"}, Web!Leaves(c, [calls[c] EXCEPT !.at = at])
        PROVE  calls'[c].at # "found" /\ \A d \in Requests : d # c => calls'[d] = calls[d]
    <2>1. [calls[c] EXCEPT !.at = at] = [calls[c] EXCEPT !.at = at, !.got = calls[c].got]
      BY <1>1 DEF Call
    <2>2. at \in CallPlaces \ {"found"}
      BY DEF CallPlaces
    <2> QED BY <1>1, <1>2, <1>3, <2>1, <2>2, LeavesTo DEF WebTypeInv, WebInv
  <1>4. CASE Web!Validate(c)
    <2>1. CASE calls[c].sent \in live
      <3>1. /\ calls[c].at = "asked" /\ granted' = granted \cup {<<c, calls[c].sent>>}
            /\ Web!Becomes(c, [calls[c] EXCEPT !.at = "found"])
        BY <1>4, <2>1 DEF Web!Validate, Web!Store!Grant
      <3>2. LET v == [calls[c] EXCEPT !.at = "found"] IN
            v \in Call /\ v.at = "found" /\ v.sent = calls[c].sent
        BY <1>1 DEF Call, CallPlaces
      <3>3. /\ calls'[c].at = "found" /\ calls'[c].sent = calls[c].sent
            /\ \A d \in Requests : d # c => calls'[d] = calls[d]
        BY <3>1, <3>2, OneCall DEF WebTypeInv, WebInv
      <3> QED BY <3>1, <3>3 DEF WebTypeInv, GrantInv
    <2>2. CASE calls[c].sent \notin live
      <3>1. /\ calls[c].at = "asked" /\ UNCHANGED granted
            /\ Web!Leaves(c, [calls[c] EXCEPT !.at = "denied"])
        BY <1>4, <2>2 DEF Web!Validate, Web!ServerUnchanged
      <3> QED BY <1>3, <3>1, GrantsStay DEF WebTypeInv
    <2> QED BY <2>1, <2>2
  <1>5. CASE Web!Rotate(c)
    <2>1. /\ calls[c].at = "found" /\ granted' = granted \ {<<c, calls[c].sent>>}
          /\ Web!New \in Web!Tokens /\ Web!Leaves(c, [calls[c] EXCEPT !.at = "answered", !.got = Web!New])
      BY <1>5 DEF Web!Rotate, Web!Store!Exchange
    <2>2. "answered" \in CallPlaces \ {"found"}
      BY DEF CallPlaces
    <2> QED BY <1>1, <2>1, <2>2, LeavesTo, GrantUsed DEF WebTypeInv, WebInv
  <1>6. CASE Web!Fail(c)
    <2>1. calls'[c].at # "found" /\ \A d \in Requests : d # c => calls'[d] = calls[d]
      BY <1>3, <1>6 DEF Web!Fail
    <2>2. CASE calls[c].at = "asked"
      <3>1. UNCHANGED granted
        BY <1>6, <2>2 DEF Web!Fail, Web!ServerUnchanged
      <3> QED BY <2>1, <2>2, <3>1, GrantsStay DEF WebTypeInv
    <2>3. CASE calls[c].at # "asked"
      <3>1. calls[c].at = "found" /\ granted' = granted \ {<<c, calls[c].sent>>}
        BY <1>6, <2>3 DEF Web!Fail, Web!Store!Refuse
      <3> QED BY <2>1, <3>1, GrantUsed DEF WebTypeInv
    <2> QED BY <2>2, <2>3
  <1> QED BY <1>4, <1>5, <1>6

(* What the client does leaves the calls at the server there. *)
LEMMA ClientGrantInv ==
  ASSUME WebTypeInv,
         \/ \E c \in Requests, p \in Pages : Web!Unauthorized(c, p) \/ Web!InitAuth(c, p) \/ Web!RefreshSession(c, p)
         \/ \E c \in Requests : Web!Hear(c) \/ Web!FetchUser(c) \/ Web!Again(c) \/ Web!GiveUp(c) \/ Web!Lost(c)
         \/ \E p \in Pages : Web!Unload(p)
  PROVE  GrantInv'
  <1>1. UNCHANGED granted
    BY DEF Web!Unauthorized, Web!InitAuth, Web!RefreshSession, Web!Ask, Web!Hear, Web!FetchUser, Web!Again, Web!GiveUp, Web!Lost, Web!Unload, Web!ServerUnchanged
  <1>2. ASSUME NEW c \in Requests, calls[c].at # "found", NEW v, Web!Becomes(c, v), v.at # "found"
        PROVE  GrantInv'
    <2>1. \A d \in Requests : d # c => calls'[d] = calls[d]
      BY <1>2 DEF Web!Becomes, WebTypeInv, WebInv, ShapeInv
    <2>2. calls'[c] = v
      BY <1>2 DEF Web!Becomes, WebTypeInv, WebInv, ShapeInv
    <2> QED BY <1>1, <1>2, <2>1, <2>2, GrantsStay DEF WebTypeInv
  <1>3. \A p, way, t, body : Web!Asked(p, way, t, body).at = "asked"
    BY DEF Web!Asked
  <1>4. ASSUME NEW d \in Requests, calls[d] # Web!Idle
        PROVE  LET v == Web!Abandoned(calls[d]) IN
               /\ v.at = "found" <=> calls[d].at = "found"
               /\ calls[d].at = "found" => v.sent = calls[d].sent
    BY <1>4, CallType, IdleIsNoRecord DEF WebTypeInv, WebInv, Web!Abandoned, Call
  <1>5. ASSUME NEW c \in Requests, NEW p \in Pages, Web!Unauthorized(c, p) \/ Web!InitAuth(c, p) \/ Web!RefreshSession(c, p)
        PROVE  GrantInv'
    <2>1. calls[c] = Web!Idle /\ \E way \in Ways : Web!Becomes(c, Web!Asked(p, way, kept, kept))
      BY <1>5 DEF Web!Unauthorized, Web!InitAuth, Web!RefreshSession, Web!Ask, Ways
    <2> QED BY <1>2, <1>3, <2>1, IdleIsNoRecord
  <1>6. ASSUME NEW c \in Requests, Web!Hear(c) PROVE GrantInv'
    <2>1. calls[c].at = "answered" /\ calls[c] \in Call
      BY <1>6, CallType DEF Web!Hear, WebTypeInv, WebInv
    <2>2. CASE calls[c].way = "again"
      BY <1>2, <1>3, <1>6, <2>1, <2>2 DEF Web!Hear
    <2>3. CASE calls[c].way = "load"
      <3>1. Web!Becomes(c, [calls[c] EXCEPT !.at = "user"])
        BY <1>6, <2>3 DEF Web!Hear
      <3>2. [calls[c] EXCEPT !.at = "user"].at = "user"
        BY <2>1 DEF Call
      <3> QED BY <1>2, <2>1, <3>1, <3>2
    <2>4. CASE calls[c].way \notin {"again", "load"}
      <3>1. Web!Becomes(c, Web!Idle)
        BY <1>6, <2>4 DEF Web!Hear
      <3> QED BY <1>2, <2>1, <3>1, IdleIsNoRecord
    <2> QED BY <2>2, <2>3, <2>4
  <1>7. ASSUME NEW c \in Requests, Web!FetchUser(c) \/ Web!GiveUp(c) PROVE GrantInv'
    <2>1. Web!Becomes(c, Web!Idle) /\ calls[c].at \in {"user", "failed", "denied"}
      BY <1>7 DEF Web!FetchUser, Web!GiveUp
    <2> QED BY <1>2, <2>1, IdleIsNoRecord
  <1>8. ASSUME NEW c \in Requests, Web!Again(c) PROVE GrantInv'
    BY <1>2, <1>3, <1>8 DEF Web!Again
  <1>9. ASSUME NEW c \in Requests, Web!Lost(c) PROVE GrantInv'
    <2>1. Web!Becomes(c, Web!Abandoned(calls[c])) /\ calls[c] # Web!Idle
      BY <1>9, CallType DEF Web!Lost, Web!Waiting, WebTypeInv, WebInv
    <2>2. calls'[c] = Web!Abandoned(calls[c]) /\ \A d \in Requests : d # c => calls'[d] = calls[d]
      BY <2>1 DEF Web!Becomes, WebTypeInv, WebInv, ShapeInv
    <2> QED BY <1>1, <1>4, <2>1, <2>2, GrantsStay DEF WebTypeInv
  <1>10. ASSUME NEW p \in Pages, Web!Unload(p) PROVE GrantInv'
    <2>1. \A d \in Requests : calls'[d] = calls[d] \/ (calls[d] # Web!Idle /\ calls'[d] = Web!Abandoned(calls[d]))
      BY <1>10 DEF Web!Unload
    <2> QED BY <1>1, <1>4, <2>1, GrantsStay DEF WebTypeInv
  <1> QED BY <1>5, <1>6, <1>7, <1>8, <1>9, <1>10

(* Whatever is excused has been issued. *)
LEMMA ExcusedKnown ==
  ASSUME WebTypeInv, [Web!Next]_(Web!webVars)
  PROVE  excused' \subseteq Issued'
  <1>1. Issued \subseteq Issued'
    BY DEF Web!Next, Web!webVars, Issued, Web!Unauthorized, Web!InitAuth, Web!RefreshSession, Web!Ask, Web!SignIn, Web!LogOut, Web!Validate, Web!Rotate, Web!Fail,
           Web!Hear, Web!FetchUser, Web!Again, Web!GiveUp, Web!Lost, Web!ServerEnds, Web!Unload, Web!ServerUnchanged,
           Web!Store!Issue, Web!Store!Grant, Web!Store!Exchange, Web!Store!Refuse, Web!Store!Retire
  <1>2. CASE excused' = excused
    BY <1>1, <1>2 DEF WebTypeInv
  <1>3. ASSUME NEW t \in Web!Tokens, Web!ServerEnds(t) PROVE excused' \subseteq Issued'
    BY <1>1, <1>3 DEF Web!ServerEnds, WebTypeInv, Issued
  <1>4. ASSUME NEW p \in Pages, Web!Unload(p) PROVE excused' \subseteq Issued'
    BY <1>1, <1>4 DEF Web!Unload, WebTypeInv, WebInv, SentInv
  <1> QED BY <1>2, <1>3, <1>4
      DEF Web!Next, Web!webVars, Web!Unauthorized, Web!InitAuth, Web!RefreshSession, Web!Ask, Web!SignIn, Web!LogOut, Web!Validate, Web!Rotate, Web!Fail,
          Web!Hear, Web!FetchUser, Web!Again, Web!GiveUp, Web!Lost, Web!ServerUnchanged, Web!ClientUnchanged

LEMMA InitWebTypeInv == Web!Init => WebTypeInv
  <1> SUFFICES ASSUME Web!Init PROVE WebTypeInv
    OBVIOUS
  <1>1. granted = {} /\ excused = {} /\ \A c \in Requests : calls[c].at # "found"
    BY IdleIsNoRecord DEF Web!Init, Web!Store!Init
  <1> QED BY <1>1, InitWebInv DEF WebTypeInv, GrantInv

LEMMA NextWebTypeInv == WebTypeInv /\ [Web!Next]_(Web!webVars) => WebTypeInv'
  <1> SUFFICES ASSUME WebTypeInv, [Web!Next]_(Web!webVars) PROVE WebTypeInv'
    OBVIOUS
  <1>1. WebInv'
    BY NextWebInv DEF WebTypeInv
  <1>2. GrantInv'
    <2>1. CASE Web!SignIn \/ Web!LogOut \/ (\E t \in Web!Tokens : Web!ServerEnds(t)) \/ UNCHANGED Web!webVars
      BY <2>1, GrantsStay DEF Web!SignIn, Web!LogOut, Web!ServerEnds, Web!webVars, WebTypeInv, Web!ServerUnchanged, Web!Store!Issue, Web!Store!Retire
    <2> QED BY <2>1, ServerGrantInv, ClientGrantInv DEF Web!Next
  <1> QED BY <1>1, <1>2, ExcusedKnown DEF WebTypeInv

LEMMA WebTypes == WebTypeInv => Web!TypeOK /\ Web!StoredIsLive
  <1> SUFFICES ASSUME WebTypeInv PROVE Web!TypeOK
    BY DEF WebTypeInv, WebInv
  <1>1. granted = {<<c, calls[c].sent>> : c \in {c \in Requests : calls[c].at = "found"}}
    BY DEF WebTypeInv, GrantInv
  <1> QED BY <1>1 DEF Web!TypeOK, WebTypeInv, WebInv, ShapeInv, Issued

(* What the client's calls make of the store of sessions.                  *)
LEMMA WebStoreStep == WebTypeInv /\ [Web!Next]_(Web!webVars) => [Web!Store!Next]_(Web!Store!vars)
  <1> SUFFICES ASSUME WebTypeInv, [Web!Next]_(Web!webVars) PROVE [Web!Store!Next]_(Web!Store!vars)
    OBVIOUS
  <1>1. CASE UNCHANGED <<live, retired, granted>>
    BY <1>1 DEF Web!Store!vars
  <1>2. CASE Web!SignIn
    BY <1>2 DEF Web!SignIn, Web!Store!Next
  <1>3. ASSUME NEW c \in Requests, Web!Validate(c) \/ Web!Rotate(c) \/ Web!Fail(c)
        PROVE  [Web!Store!Next]_(Web!Store!vars)
    <2>1. calls[c].sent \in Web!Tokens
      BY <1>3, CallType DEF Web!Validate, Web!Rotate, Web!Fail, WebTypeInv, WebInv, ShapeInv, SentInv, Issued
    <2> QED BY <1>1, <1>3, <2>1 DEF Web!Validate, Web!Rotate, Web!Fail, Web!ServerUnchanged, Web!Store!Next
  <1>4. ASSUME NEW t \in Web!Tokens, Web!ServerEnds(t) PROVE [Web!Store!Next]_(Web!Store!vars)
    BY <1>4 DEF Web!ServerEnds, Web!Store!Next
  <1> QED BY <1>1, <1>2, <1>3, <1>4
      DEF Web!Next, Web!webVars, Web!Unauthorized, Web!InitAuth, Web!RefreshSession, Web!Ask, Web!LogOut,
          Web!Hear, Web!FetchUser, Web!Again, Web!GiveUp, Web!Lost, Web!Unload, Web!ServerUnchanged

(* However many pages and calls overlap and whatever is lost, storeToken   *)
(* and clearTokens never leave a used-up token in storage that no answer   *)
(* on its way will replace, unless its page was closed.                    *)
THEOREM WebClientCorrect == Web!Spec => [](Web!TypeOK /\ Web!StoredIsLive)
  <1>1. Web!Init => WebTypeInv
    BY InitWebTypeInv, TheAssumptions
  <1>2. WebTypeInv /\ [Web!Next]_(Web!webVars) => WebTypeInv'
    BY NextWebTypeInv, TheAssumptions
  <1> QED BY <1>1, <1>2, WebTypes, PTL DEF Web!Spec

(* The client and the routes it calls use the store of sessions as its     *)
(* specification allows, which AuthSessions implements.                    *)
THEOREM ClientImplementsStore == Web!Spec => Web!Store!Spec
  <1>1. Web!Init => WebTypeInv /\ Web!Store!Init
    BY InitWebTypeInv DEF Web!Init
  <1> QED BY <1>1, NextWebTypeInv, WebStoreStep, PTL DEF Web!Spec, Web!Store!Spec

-----------------------------------------------------------------------------
(***************************************************************************)
(* The services together.  One service runs, and runs as its module says.  *)
(***************************************************************************)
LEMMA OneService ==
  ASSUME [AccountsNext]_accountsVars
  PROVE  /\ service' = service
         /\ service \in {"links", "failing"} => [Next]_vars
         /\ service \notin {"links", "failing"} => UNCHANGED linkVars
         /\ service = "social" => [Social!Next]_(Social!vars)
         /\ service = "factor" => [Factor!Next]_(Factor!vars)
         /\ service = "life" => [Life!Next]_(Life!vars)
         /\ service = "web" => [Web!Next]_(Web!webVars)
  BY DEF AccountsNext, LinkStep, FailingStep, SocialStep, FactorStep, LifeStep, WebStep,
         accountsVars, vars, redis, linkVars, socialVars, factorVars, lifeVars, webVars,
         Social!vars, Social!social, Factor!vars, Factor!factor, Life!vars, Life!account, Web!webVars

LEMMA StartOfService ==
  ASSUME AccountsInit
  PROVE  /\ Init /\ Factor!Init /\ Web!Init
         /\ service \in {"links", "failing", "social", "factor", "life", "web"}
         /\ service = "social" => Social!Init
         /\ service = "life" => Life!Init
  BY DEF AccountsInit, SocialStart, LifeStart

(* The composition adds nothing to a service: with it chosen, a behaviour  *)
(* is one of the service's own specification.                              *)
THEOREM EachServiceAlone ==
  AccountsSpec => /\ service \in {"links", "failing"} => Spec
                  /\ service = "social" => Social!Spec
                  /\ service = "factor" => Factor!Spec
                  /\ service = "life" => Life!Spec
                  /\ service = "web" => Web!Spec
  <1>1. service \in {"links", "failing"} /\ [AccountsNext]_accountsVars
          => (service \in {"links", "failing"})' /\ [Next]_vars
    BY OneService
  <1>2. service = "social" /\ [AccountsNext]_accountsVars => (service = "social")' /\ [Social!Next]_(Social!vars)
    BY OneService
  <1>3. service = "factor" /\ [AccountsNext]_accountsVars => (service = "factor")' /\ [Factor!Next]_(Factor!vars)
    BY OneService
  <1>4. service = "life" /\ [AccountsNext]_accountsVars => (service = "life")' /\ [Life!Next]_(Life!vars)
    BY OneService
  <1>5. service = "web" /\ [AccountsNext]_accountsVars => (service = "web")' /\ [Web!Next]_(Web!webVars)
    BY OneService
  <1>6. AccountsInit => /\ Init /\ Factor!Init /\ Web!Init
                        /\ service = "social" => Social!Init
                        /\ service = "life" => Life!Init
    BY StartOfService
  <1> QED BY <1>1, <1>2, <1>3, <1>4, <1>5, <1>6, PTL
      DEF AccountsSpec, Spec, Social!Spec, Factor!Spec, Life!Spec, Web!Spec

(* However the callbacks of one identity overlap, _get_or_create_user      *)
(* signs it in only to the user it is linked to.                           *)
THEOREM IdentityKeepsItsUser == AccountsSpec => []SignedInAsLinked
  <1>1. ~(service = "social") /\ [AccountsNext]_accountsVars => ~(service = "social")'
    BY OneService
  <1>2. Social!SignedInAsLinked => SignedInAsLinked
    BY DEF SignedInAsLinked
  <1>3. ~(service = "social") => SignedInAsLinked
    BY DEF SignedInAsLinked
  <1> QED BY <1>1, <1>2, <1>3, EachServiceAlone, SocialLoginCorrect, PTL DEF AccountsSpec

(* A suspension shuts out every request that comes after it.               *)
THEOREM SuspensionShutsOut == AccountsSpec => []AdmittedWasActive
  <1>1. ~(service = "life") /\ [AccountsNext]_accountsVars => ~(service = "life")'
    BY OneService
  <1>2. Life!AdmittedWasActive => AdmittedWasActive
    BY DEF AdmittedWasActive
  <1>3. ~(service = "life") => AdmittedWasActive
    BY DEF AdmittedWasActive
  <1> QED BY <1>1, <1>2, <1>3, EachServiceAlone, LifecycleCorrect, PTL DEF AccountsSpec

(* However pages and calls overlap, a browser keeps a token that is live,  *)
(* or about to be replaced, or excused.                                    *)
THEOREM StoredTokenIsLive == AccountsSpec => []StoredIsLive
  <1>1. ~(service = "web") /\ [AccountsNext]_accountsVars => ~(service = "web")'
    BY OneService
  <1>2. Web!StoredIsLive => StoredIsLive
    BY DEF StoredIsLive
  <1>3. ~(service = "web") => StoredIsLive
    BY DEF StoredIsLive
  <1> QED BY <1>1, <1>2, <1>3, EachServiceAlone, WebClientCorrect, PTL DEF AccountsSpec

(* While another service runs, no link has been counted or redeemed.       *)
LinksUnused == (\A p \in Purposes : count[p].n = 0) /\ (\A t \in Tokens : wins[t] = 0 /\ stores[t] = 0)

LEMMA LinksStayUnused ==
  /\ AccountsInit => LinksUnused
  /\ LinksUnused /\ ~(service \in {"links", "failing"}) /\ [AccountsNext]_accountsVars
       => LinksUnused' /\ ~(service \in {"links", "failing"})'
  <1>1. AccountsInit => LinksUnused
    BY StartOfService DEF Init, LinksUnused
  <1>2. LinksUnused /\ ~(service \in {"links", "failing"}) /\ [AccountsNext]_accountsVars
          => LinksUnused' /\ ~(service \in {"links", "failing"})'
    BY OneService DEF LinksUnused, linkVars
  <1> QED BY <1>1, <1>2

LEMMA UnusedIsBounded == LinksUnused => SendsBounded /\ RedemptionsBounded
  <1> SUFFICES ASSUME LinksUnused PROVE SendsBounded /\ RedemptionsBounded
    OBVIOUS
  <1>1. Cardinality(Requests) \in Nat
    BY OneTimeAssumption, FS_CardinalityType
  <1>2. SendsBounded
    BY <1>1, OneTimeAssumption DEF LinksUnused, SendsBounded
  <1>3. RedemptionsBounded
    BY <1>1 DEF LinksUnused, RedemptionsBounded
  <1> QED BY <1>2, <1>3

(* _enforce_rate_limit and _consume_token keep their bounds, whichever     *)
(* service runs.                                                           *)
THEOREM MailedLinksBounded == AccountsSpec => [](SendsBounded /\ RedemptionsBounded)
  <1>1. service \in {"links", "failing"} => (AccountsSpec => [](SendsBounded /\ RedemptionsBounded))
    BY EachServiceAlone, SendsAreBounded, RedemptionsAreBounded, PTL
  <1>2. ~(service \in {"links", "failing"}) => (AccountsSpec => [](SendsBounded /\ RedemptionsBounded))
    BY LinksStayUnused, UnusedIsBounded, PTL DEF AccountsSpec
  <1> QED BY <1>1, <1>2

(* Rows, keys, tokens and requests of the service that runs have their     *)
(* types.                                                                  *)
THEOREM AccountsTypeCorrect == AccountsSpec => []AccountsTypeOK
  <1> DEFINE Links == service \in {"links", "failing"}
  <1>1. /\ Links /\ [AccountsNext]_accountsVars => Links'
        /\ service = "social" /\ [AccountsNext]_accountsVars => (service = "social")'
        /\ service = "factor" /\ [AccountsNext]_accountsVars => (service = "factor")'
        /\ service = "life" /\ [AccountsNext]_accountsVars => (service = "life")'
        /\ service = "web" /\ [AccountsNext]_accountsVars => (service = "web")'
    BY OneService
  <1>2. AccountsInit => Links \/ service = "social" \/ service = "factor" \/ service = "life" \/ service = "web"
    BY StartOfService
  <1>3. /\ Links /\ TypeOK => AccountsTypeOK
        /\ service = "social" /\ Social!TypeOK => AccountsTypeOK
        /\ service = "factor" /\ Factor!TypeOK => AccountsTypeOK
        /\ service = "life" /\ Life!TypeOK => AccountsTypeOK
        /\ service = "web" /\ Web!TypeOK => AccountsTypeOK
    BY DEF AccountsTypeOK
  <1> HIDE DEF Links
  <1>4. Links => (AccountsSpec => Spec)
    BY EachServiceAlone DEF Links
  <1> QED BY <1>1, <1>2, <1>3, <1>4, EachServiceAlone, LinkTypeCorrect, SocialLoginCorrect, SecondFactorCorrect,
             LifecycleCorrect, WebClientCorrect, PTL DEF AccountsSpec
=============================================================================

------------------------- MODULE AuthSessionsProofs -------------------------
(***************************************************************************)
(* Proofs about AuthSessions, for any number of users and requests, any    *)
(* clock bound and any Lifetime <= Retention.                              *)
(***************************************************************************)
EXTENDS AuthSessions, TLAPS

(* The token a request is about to store was signed at most StoreDelay     *)
(* seconds ago, and is no older than the one it replaces.                  *)
SignedLately(r) ==
  /\ signed[r] \in Tokens
  /\ signed[r].exp <= now + Lifetime
  /\ now <= signed[r].exp - Lifetime + StoreDelay
  /\ tok[r] # None => /\ signed[r].user = tok[r].user
                      /\ tok[r].exp <= signed[r].exp

(* What a request remembers is what an earlier step of it established. *)
RequestsInv ==
  \A r \in Requests :
    /\ pc[r] \in {"authenticated", "passwordSet"} => usr[r] \in Users /\ tok[r] = None
    /\ pc[r] \in {"validated", "loaded"} => tok[r] \in issued
    /\ tok[r] # None => tok[r] \in issued
    /\ pc[r] = "signed" => SignedLately(r)

(* Clocks of the rows: a token is signed in the past, has a row unless it  *)
(* expired, and is revoked no earlier than it was signed.                  *)
RowsInv ==
  /\ \A t \in issued : t.exp <= now + Lifetime
  /\ \A t \in Tokens : row[t] # "absent" => t \in issued
  /\ \A t \in Tokens : row[t] = "revoked" => t.exp <= revokedAt[t] + Lifetime
  /\ \A u \in Users : cutOffAt[u] <= now
  /\ ended \subseteq issued

IInv ==
  /\ TypeOK
  /\ RequestsInv
  /\ RowsInv
  /\ ReplayableRowsKept
  /\ ChainMovesForward
  /\ PresentedTokenSpent
  /\ DeactivationEndsOldSessions

(* The token signed now is a well-formed token of the user. *)
LEMMA TokenTyped ==
  ASSUME TypeOK, NEW u \in Users, now < MaxTime
  PROVE  /\ Token(u, now) \in Tokens
         /\ Token(u, now).user = u
         /\ Token(u, now).exp = now + Lifetime
BY BoundsAssumption DEF TypeOK, Token, Tokens

(* An insert that the UNIQUE constraint accepts stores a token that was    *)
(* never handed out before: a purged row can't make room for its own token,*)
(* because the token is stored before it can have expired.                 *)
LEMMA InsertIsFresh ==
  ASSUME IInv, NEW r \in Requests, pc[r] = "signed", UniqueHash(signed[r])
  PROVE  signed[r] \notin issued
<1>1. signed[r] \in Tokens /\ now <= signed[r].exp - Lifetime + StoreDelay
  BY DEF IInv, RequestsInv, SignedLately
<1>2. now < signed[r].exp
  BY <1>1, BoundsAssumption DEF IInv, TypeOK, Tokens
<1> QED BY <1>2 DEF IInv, ReplayableRowsKept, UniqueHash

(* A token presented in a refresh belongs to a user. *)
LEMMA TokenUser ==
  ASSUME NEW t \in Tokens
  PROVE  t.user \in Users /\ t.exp \in Nat /\ t # None /\ t = [user |-> t.user, exp |-> t.exp]
BY BoundsAssumption, NoneAssumption DEF Tokens

LEMMA InitIInv == Init => IInv
BY BoundsAssumption, NoneAssumption
   DEF Init, IInv, TypeOK, RequestsInv, RowsInv, ReplayableRowsKept, ChainMovesForward,
       PresentedTokenSpent, DeactivationEndsOldSessions, Stages, Answers, Tokens

LEMMA TypeStep == IInv /\ [Next]_vars => TypeOK'
<1> SUFFICES ASSUME IInv, [Next]_vars PROVE TypeOK'
  OBVIOUS
<1> USE BoundsAssumption DEF IInv, Stages, Answers, accounts, table, session, Begin, Advance, Answer
<1>1. ASSUME NEW r \in Requests, NEW u \in Users, LoginAuthenticate(r, u) PROVE TypeOK'
  BY <1>1 DEF LoginAuthenticate, TypeOK
<1>2. ASSUME NEW r \in Requests, NEW u \in Users, SetPassword(r, u) PROVE TypeOK'
  BY <1>2 DEF SetPassword, TypeOK
<1>3. ASSUME NEW r \in Requests, NEW t \in Tokens, RefreshExpired(r, t) PROVE TypeOK'
  BY <1>3 DEF RefreshExpired, TypeOK
<1>4. ASSUME NEW r \in Requests, NEW t \in Tokens, RefreshValidate(r, t) PROVE TypeOK'
  BY <1>4 DEF RefreshValidate, TypeOK
<1>5. ASSUME NEW r \in Requests, NEW t \in Tokens, RefreshReuse(r, t) PROVE TypeOK'
  BY <1>5 DEF RefreshReuse, TypeOK
<1>6. ASSUME NEW r \in Requests, LoginIssue(r) PROVE TypeOK'
  <2>1. signed[r] \in Tokens
    BY <1>6 DEF LoginIssue, RequestsInv, SignedLately
  <2> QED BY <1>6, <2>1 DEF LoginIssue, TypeOK
<1>7. ASSUME NEW r \in Requests, RefreshLoadUser(r) PROVE TypeOK'
  BY <1>7 DEF RefreshLoadUser, TypeOK
<1>8. ASSUME NEW r \in Requests, RefreshRotate(r) PROVE TypeOK'
  <2>1. tok[r] \in Tokens
    BY <1>8 DEF RefreshRotate, RequestsInv, TypeOK
  <2>2. signed[r] \in Tokens
    BY <1>8 DEF RefreshRotate, RequestsInv, SignedLately
  <2> QED BY <1>8, <2>1, <2>2 DEF RefreshRotate, RotateRows, TypeOK
<1>9. ASSUME NEW r \in Requests, RevokeAfterPassword(r) PROVE TypeOK'
  BY <1>9 DEF RevokeAfterPassword, TypeOK
<1>10. ASSUME NEW t \in Tokens, Logout(t) PROVE TypeOK'
  BY <1>10 DEF Logout, RevokeRows, TypeOK
<1>11. ASSUME NEW u \in Users, Suspend(u) PROVE TypeOK'
  BY <1>11 DEF Suspend, CutOff, RevokeRows, TypeOK
<1>12. ASSUME NEW u \in Users, Unsuspend(u) PROVE TypeOK'
  BY <1>12 DEF Unsuspend, TypeOK
<1>13. ASSUME NEW u \in Users, EraseAccount(u) PROVE TypeOK'
  BY <1>13 DEF EraseAccount, CutOff, RevokeRows, TypeOK
<1>14. CASE Purge
  BY <1>14 DEF Purge, TypeOK
<1>15. CASE Tick
  BY <1>15 DEF Tick, TypeOK
<1>16. CASE UNCHANGED vars
  BY <1>16 DEF vars, TypeOK
<1>17. ASSUME NEW r \in Requests, LoginSign(r) PROVE TypeOK'
  <2>1. usr[r] \in Users
    BY <1>17 DEF LoginSign, RequestsInv
  <2>2. Token(usr[r], now) \in Tokens
    BY <1>17, <2>1, TokenTyped DEF LoginSign, Sign
  <2> QED BY <1>17, <2>2 DEF LoginSign, Sign, TypeOK
<1>18. ASSUME NEW r \in Requests, RefreshSign(r) PROVE TypeOK'
  <2>1. tok[r] \in Tokens
    BY <1>18 DEF RefreshSign, RequestsInv, TypeOK
  <2>2. Token(tok[r].user, now) \in Tokens
    BY <1>18, <2>1, TokenTyped, TokenUser DEF RefreshSign, Sign
  <2> QED BY <1>18, <2>2 DEF RefreshSign, Sign, TypeOK
<1> QED BY <1>1, <1>2, <1>3, <1>4, <1>5, <1>6, <1>7, <1>8, <1>9, <1>10, <1>11, <1>12, <1>13,
           <1>14, <1>15, <1>16, <1>17, <1>18 DEF Next

(* Steps that leave rows, clock and issued tokens alone only need the      *)
(* conjuncts about requests.                                               *)
LEMMA QuietStep ==
  ASSUME IInv, TypeOK', UNCHANGED <<now, cutOffAt, ended, table, issued>>,
         RequestsInv', PresentedTokenSpent'
  PROVE  IInv'
BY DEF IInv, table, RowsInv, ReplayableRowsKept, ChainMovesForward, DeactivationEndsOldSessions,
       Tokens

(* Steps in which tokens of S are revoked now, links from S may be cut and *)
(* the requests don't move.                                                *)
LEMMA RevokeStep ==
  ASSUME IInv, TypeOK', NEW S, S \subseteq Present, RevokeRows(S),
         \A t \in Tokens : replacedBy'[t] \in {replacedBy[t], None},
         UNCHANGED <<now, issued, session>>,
         \A u \in Users : cutOffAt'[u] = cutOffAt[u] \/ (cutOffAt'[u] = now /\ LiveOf(u) \subseteq S),
         \A t \in ended' \ ended : t \in issued /\ (row[t] = "live" => t \in S)
  PROVE  IInv'
<1> USE BoundsAssumption DEF IInv, session
<1>1. RequestsInv'
  BY DEF RequestsInv, SignedLately
<1>2. RowsInv'
  <2>1. ASSUME NEW t \in Tokens, row'[t] = "revoked" PROVE t.exp <= revokedAt'[t] + Lifetime
    BY <2>1 DEF RevokeRows, RowsInv, Present
  <2>2. \A t \in Tokens : row'[t] # "absent" => t \in issued
    BY DEF RevokeRows, RowsInv, Present
  <2>3. \A u \in Users : cutOffAt'[u] <= now
    BY DEF RowsInv, TypeOK
  <2>4. ended' \subseteq issued
    BY DEF RowsInv
  <2> QED BY <2>1, <2>2, <2>3, <2>4 DEF RowsInv
<1>3. ReplayableRowsKept'
  BY DEF ReplayableRowsKept, RevokeRows, TypeOK
<1>4. ChainMovesForward'
  BY DEF ChainMovesForward, RevokeRows
<1>5. PresentedTokenSpent'
  BY DEF PresentedTokenSpent, RevokeRows, RequestsInv, TypeOK
<1>6. DeactivationEndsOldSessions'
  <2> SUFFICES ASSUME NEW t \in Tokens, row'[t] = "live"
               PROVE  t \notin ended' /\ t.exp - Lifetime + StoreDelay >= cutOffAt'[t.user]
    BY DEF DeactivationEndsOldSessions
  <2>1. row[t] = "live" /\ t \notin S
    BY DEF RevokeRows
  <2>2. t \in LiveOf(t.user) /\ t.user \in Users
    BY <2>1, TokenUser DEF LiveOf
  <2>3. t \notin ended'
    BY <2>1 DEF DeactivationEndsOldSessions
  <2> QED BY <2>1, <2>2, <2>3 DEF DeactivationEndsOldSessions
<1> QED BY <1>1, <1>2, <1>3, <1>4, <1>5, <1>6

LEMMA LoginIssueStep ==
  ASSUME IInv, TypeOK', NEW r \in Requests, LoginIssue(r)
  PROVE  IInv'
<1> USE DEF IInv
<1> DEFINE new == signed[r]
<1>1. /\ new \in Tokens /\ new.user \in Users /\ new.exp \in Nat
      /\ new.exp <= now + Lifetime /\ now <= new.exp - Lifetime + StoreDelay
  BY TokenUser DEF LoginIssue, RequestsInv, SignedLately
<1>2. CASE ~UniqueHash(new)
  <2>1. RequestsInv' /\ PresentedTokenSpent'
    BY <1>2 DEF LoginIssue, Answer, RequestsInv, SignedLately, PresentedTokenSpent, TypeOK
  <2> QED BY <1>2, <2>1, QuietStep DEF LoginIssue, accounts, table
<1>3. CASE UniqueHash(new)
  <2>1. new \notin issued
    BY <1>3, InsertIsFresh DEF LoginIssue
  <2>2. /\ row' = [row EXCEPT ![new] = "live"]
        /\ issued' = issued \cup {new}
        /\ Answer(r, "tokens")
        /\ UNCHANGED <<now, accounts, revokedAt, replacedBy>>
    BY <1>3 DEF LoginIssue
  <2>3. RequestsInv'
    BY <2>2 DEF Answer, RequestsInv, SignedLately, TypeOK
  <2>4. RowsInv'
    BY <1>1, <2>2, BoundsAssumption DEF RowsInv, TypeOK, accounts
  <2>5. ReplayableRowsKept'
    BY <1>1, <2>2 DEF ReplayableRowsKept, TypeOK
  <2>6. ChainMovesForward'
    BY <1>1, <1>3, <2>2 DEF ChainMovesForward, UniqueHash, TypeOK
  <2>7. PresentedTokenSpent'
    <3> SUFFICES ASSUME NEW q \in Requests, resp'[q] = "tokens", tok'[q] # None
                 PROVE  row'[tok'[q]] # "live"
      BY DEF PresentedTokenSpent
    <3>0. tok' = tok
      BY <2>2 DEF Answer, TypeOK
    <3>1. tok[q] \in issued /\ tok[q] \in Tokens /\ tok[q] # new
      BY <2>1, <3>0 DEF RequestsInv, TypeOK
    <3>2. CASE q # r
      BY <2>2, <3>0, <3>1, <3>2 DEF Answer, PresentedTokenSpent, TypeOK
    <3>3. CASE q = r
      BY <2>2, <3>0, <3>1, <3>3 DEF LoginIssue, RequestsInv, TypeOK
    <3> QED BY <3>2, <3>3
  <2>8. DeactivationEndsOldSessions'
    BY <1>1, <2>1, <2>2, BoundsAssumption DEF DeactivationEndsOldSessions, RowsInv, TypeOK, accounts
  <2> QED BY <2>3, <2>4, <2>5, <2>6, <2>7, <2>8
<1> QED BY <1>2, <1>3

(* Rotation keeps the invariant even when the token it consumes was        *)
(* revoked or purged after the check.                                      *)
LEMMA RotateStep ==
  ASSUME IInv, TypeOK', NEW r \in Requests, RefreshRotate(r)
  PROVE  IInv'
<1> USE DEF IInv
<1> DEFINE old == tok[r]
           new == signed[r]
<1>0. old \in issued /\ old \in Tokens /\ old.user \in Users
  BY TokenUser DEF RefreshRotate, RequestsInv, TypeOK
<1>1. /\ new \in Tokens /\ new.user = old.user /\ new.exp \in Nat
      /\ new.exp <= now + Lifetime /\ now <= new.exp - Lifetime + StoreDelay
      /\ old.exp <= new.exp
  BY TokenUser DEF RefreshRotate, RequestsInv, SignedLately
<1>2. CASE ~UniqueHash(new)
  <2>1. RequestsInv' /\ PresentedTokenSpent'
    BY <1>2 DEF RefreshRotate, Answer, RequestsInv, SignedLately, PresentedTokenSpent, TypeOK, table
  <2> QED BY <1>2, <2>1, QuietStep DEF RefreshRotate, accounts, table
<1>3. CASE UniqueHash(new)
  <2>1. new \notin issued /\ new # old
    BY <1>0, <1>3, InsertIsFresh DEF RefreshRotate
  <2>2. /\ row' = [t \in Tokens |-> IF t = new THEN "live"
                                    ELSE IF t = old /\ row[old] # "absent" THEN "revoked"
                                    ELSE row[t]]
        /\ issued' = issued \cup {new}
        /\ Answer(r, "tokens")
        /\ UNCHANGED <<now, cutOffAt, ended>>
    BY <1>0, <1>1, <1>3, <2>1 DEF RefreshRotate, RotateRows, accounts, TypeOK
  <2>3. \/ row[old] = "absent" /\ UNCHANGED <<revokedAt, replacedBy>>
        \/ /\ row[old] # "absent"
           /\ revokedAt' = [revokedAt EXCEPT ![old] = now]
           /\ replacedBy' = [replacedBy EXCEPT ![old] = new]
    BY <1>3 DEF RefreshRotate, RotateRows
  <2>4. RequestsInv'
    BY <2>2 DEF Answer, RequestsInv, SignedLately, TypeOK
  <2>5. RowsInv'
    <3>1. \A t \in issued' : t.exp <= now' + Lifetime
      BY <1>1, <2>2, BoundsAssumption DEF RowsInv, TypeOK
    <3>2. \A t \in Tokens : row'[t] # "absent" => t \in issued'
      BY <1>0, <2>2 DEF RowsInv
    <3>3. ASSUME NEW t \in Tokens, row'[t] = "revoked" PROVE t.exp <= revokedAt'[t] + Lifetime
      <4>1. CASE t = old
        BY <1>0, <2>2, <2>3, <3>3, <4>1 DEF RowsInv, TypeOK
      <4>2. CASE t # old
        BY <2>2, <2>3, <3>3, <4>2 DEF RowsInv, TypeOK
      <4> QED BY <4>1, <4>2
    <3>4. \A u \in Users : cutOffAt'[u] <= now'
      BY <2>2 DEF RowsInv
    <3>5. ended' \subseteq issued'
      BY <2>2 DEF RowsInv
    <3> QED BY <3>1, <3>2, <3>3, <3>4, <3>5 DEF RowsInv
  <2>6. ReplayableRowsKept'
    BY <1>1, <2>2 DEF ReplayableRowsKept, TypeOK
  <2>7. ChainMovesForward'
    <3> SUFFICES ASSUME NEW t \in Tokens, replacedBy'[t] # None
                 PROVE  /\ row'[t] = "revoked"
                        /\ replacedBy'[t] \in issued'
                        /\ replacedBy'[t].user = t.user
                        /\ t.exp < replacedBy'[t].exp
      BY DEF ChainMovesForward
    <3>1. CASE t = old /\ row[old] # "absent"
      <4>1. replacedBy'[t] = new /\ row'[t] = "revoked"
        BY <2>1, <2>2, <2>3, <3>1 DEF TypeOK
      <4>2. old.exp # new.exp
        BY <1>0, <1>1, <2>1, TokenUser
      <4>3. old.exp \in Nat /\ new.exp \in Nat
        BY <1>0, <1>1, TokenUser
      <4>4. old.exp < new.exp
        BY <1>1, <4>2, <4>3
      <4> HIDE DEF old, new
      <4> QED BY <1>1, <2>2, <3>1, <4>1, <4>4
    <3>2. CASE ~(t = old /\ row[old] # "absent")
      <4>1. replacedBy'[t] = replacedBy[t]
        BY <2>3, <3>2 DEF TypeOK
      <4>2. t # new
        BY <1>3, <4>1 DEF ChainMovesForward, UniqueHash
      <4> QED BY <2>2, <3>2, <4>1, <4>2 DEF ChainMovesForward
    <3> QED BY <3>1, <3>2
  <2>8. PresentedTokenSpent'
    <3> SUFFICES ASSUME NEW q \in Requests, resp'[q] = "tokens", tok'[q] # None
                 PROVE  row'[tok'[q]] # "live"
      BY DEF PresentedTokenSpent
    <3>0. tok' = tok
      BY <2>2 DEF Answer, TypeOK
    <3>1. tok[q] \in issued /\ tok[q] \in Tokens /\ tok[q] # new
      BY <2>1, <3>0 DEF RequestsInv, TypeOK
    <3>2. CASE q # r
      BY <2>2, <3>0, <3>1, <3>2 DEF Answer, PresentedTokenSpent, TypeOK
    <3>3. CASE q = r
      BY <2>2, <3>0, <3>1, <3>3
    <3> QED BY <3>2, <3>3
  <2>9. DeactivationEndsOldSessions'
    BY <1>0, <1>1, <2>1, <2>2, BoundsAssumption DEF DeactivationEndsOldSessions, RowsInv, TypeOK
  <2> QED BY <2>4, <2>5, <2>6, <2>7, <2>8, <2>9
<1> QED BY <1>2, <1>3

(* The purge removes a revoked row only once its token has expired: it was *)
(* revoked no earlier than it was signed, and Lifetime <= Retention.       *)
LEMMA PurgeStep ==
  ASSUME IInv, TypeOK', Purge
  PROVE  IInv'
<1> USE DEF IInv
<1> PICK S \in SUBSET {t \in Present : MayBeExpired(t) \/ RetentionOver(t)} :
      /\ row' = [t \in Tokens |-> IF t \in S THEN "absent" ELSE row[t]]
      /\ revokedAt' = [t \in Tokens |-> IF t \in S THEN 0 ELSE revokedAt[t]]
      /\ replacedBy' = [t \in Tokens |-> IF t \in S THEN None ELSE replacedBy[t]]
      /\ UNCHANGED <<now, accounts, issued, session>>
  BY DEF Purge
<1>1. RequestsInv'
  BY DEF RequestsInv, SignedLately, session
<1>2. RowsInv'
  BY DEF RowsInv, accounts
<1>3. ReplayableRowsKept'
  <2> SUFFICES ASSUME NEW t \in issued, t \in S PROVE ~(now < t.exp)
    BY DEF ReplayableRowsKept, TypeOK
  <2>1. t \in Tokens /\ t.exp \in Nat
    BY TokenUser DEF TypeOK
  <2>2. CASE MayBeExpired(t)
    BY <2>1, <2>2 DEF MayBeExpired, TypeOK
  <2>3. CASE RetentionOver(t)
    BY <2>1, <2>3, BoundsAssumption DEF RetentionOver, RowsInv, TypeOK
  <2> QED BY <2>2, <2>3
<1>4. ChainMovesForward'
  BY DEF ChainMovesForward
<1>5. PresentedTokenSpent'
  BY DEF PresentedTokenSpent, RequestsInv, TypeOK, session
<1>6. DeactivationEndsOldSessions'
  BY DEF DeactivationEndsOldSessions, accounts
<1> QED BY <1>1, <1>2, <1>3, <1>4, <1>5, <1>6

(* A token is signed for the user of the token it replaces, and no earlier *)
(* than that one was.                                                      *)
LEMMA SignKeepsRequests ==
  ASSUME IInv, TypeOK', NEW r \in Requests, LoginSign(r) \/ RefreshSign(r)
  PROVE  RequestsInv'
<1> USE DEF IInv
<1>1. CASE LoginSign(r)
  <2>1. usr[r] \in Users /\ tok[r] = None
    BY <1>1 DEF LoginSign, RequestsInv
  <2>2. SignedLately(r)'
    BY <1>1, <2>1, TokenTyped, BoundsAssumption DEF LoginSign, Sign, SignedLately, TypeOK
  <2> QED BY <1>1, <2>1, <2>2 DEF LoginSign, Sign, RequestsInv, SignedLately, TypeOK
<1>2. CASE RefreshSign(r)
  <2>1. tok[r] \in issued /\ tok[r] \in Tokens /\ tok[r].user \in Users /\ tok[r].exp <= now + Lifetime
    BY <1>2, TokenUser DEF RefreshSign, RequestsInv, RowsInv, TypeOK
  <2>2. SignedLately(r)'
    BY <1>2, <2>1, TokenTyped, BoundsAssumption DEF RefreshSign, Sign, SignedLately, TypeOK
  <2> QED BY <1>2, <2>1, <2>2 DEF RefreshSign, Sign, RequestsInv, SignedLately, TypeOK
<1> QED BY <1>1, <1>2

LEMMA NextIInv == IInv /\ [Next]_vars => IInv'
<1> SUFFICES ASSUME IInv, [Next]_vars PROVE IInv'
  OBVIOUS
<1>t. TypeOK'
  BY TypeStep
<1> USE DEF Begin, Advance, Answer, accounts, table
<1>1. ASSUME NEW r \in Requests, NEW u \in Users, LoginAuthenticate(r, u) PROVE IInv'
  <2>1. RequestsInv' /\ PresentedTokenSpent'
    BY <1>1 DEF LoginAuthenticate, IInv, RequestsInv, SignedLately, PresentedTokenSpent, TypeOK
  <2> QED BY <1>1, <1>t, <2>1, QuietStep DEF LoginAuthenticate
<1>2. ASSUME NEW r \in Requests, NEW u \in Users, SetPassword(r, u) PROVE IInv'
  <2>1. RequestsInv' /\ PresentedTokenSpent'
    BY <1>2 DEF SetPassword, IInv, RequestsInv, SignedLately, PresentedTokenSpent, TypeOK
  <2> QED BY <1>2, <1>t, <2>1, QuietStep DEF SetPassword
<1>3. ASSUME NEW r \in Requests, NEW t \in Tokens, RefreshExpired(r, t) PROVE IInv'
  <2>1. RequestsInv' /\ PresentedTokenSpent'
    BY <1>3 DEF RefreshExpired, IInv, RequestsInv, SignedLately, PresentedTokenSpent, TypeOK
  <2> QED BY <1>3, <1>t, <2>1, QuietStep DEF RefreshExpired
<1>4. ASSUME NEW r \in Requests, NEW t \in Tokens, RefreshValidate(r, t) PROVE IInv'
  <2>1. RequestsInv' /\ PresentedTokenSpent'
    BY <1>4 DEF RefreshValidate, IInv, RequestsInv, SignedLately, PresentedTokenSpent, TypeOK
  <2> QED BY <1>4, <1>t, <2>1, QuietStep DEF RefreshValidate
<1>5. ASSUME NEW r \in Requests, NEW t \in Tokens, RefreshReuse(r, t) PROVE IInv'
  <2>1. RequestsInv' /\ PresentedTokenSpent'
    BY <1>5 DEF RefreshReuse, IInv, RequestsInv, SignedLately, PresentedTokenSpent, TypeOK
  <2> QED BY <1>5, <1>t, <2>1, QuietStep DEF RefreshReuse
<1>6. ASSUME NEW r \in Requests, LoginIssue(r) PROVE IInv'
  BY <1>6, <1>t, LoginIssueStep
<1>7. ASSUME NEW r \in Requests, RefreshLoadUser(r) PROVE IInv'
  <2>1. RequestsInv' /\ PresentedTokenSpent'
    BY <1>7 DEF RefreshLoadUser, IInv, RequestsInv, SignedLately, PresentedTokenSpent, TypeOK
  <2> QED BY <1>7, <1>t, <2>1, QuietStep DEF RefreshLoadUser
<1>8. ASSUME NEW r \in Requests, RefreshRotate(r) PROVE IInv'
  BY <1>8, <1>t, RotateStep
<1>9. ASSUME NEW r \in Requests, RevokeAfterPassword(r) PROVE IInv'
  <2>1. RequestsInv' /\ PresentedTokenSpent'
    BY <1>9 DEF RevokeAfterPassword, IInv, RequestsInv, SignedLately, PresentedTokenSpent, TypeOK
  <2> QED BY <1>9, <1>t, <2>1, QuietStep DEF RevokeAfterPassword
<1>10. ASSUME NEW t \in Tokens, Logout(t) PROVE IInv'
  <2>1. \A q \in Tokens : replacedBy'[q] \in {replacedBy[q], None}
    BY <1>10 DEF Logout, IInv, TypeOK
  <2>2. {t} \subseteq Present /\ RevokeRows({t})
    BY <1>10 DEF Logout, Present
  <2>3. UNCHANGED <<now, issued, session, cutOffAt, ended>>
    BY <1>10 DEF Logout
  <2> QED BY <1>t, <2>1, <2>2, <2>3, RevokeStep
<1>11. ASSUME NEW u \in Users, Suspend(u) PROVE IInv'
  <2>1. LiveOf(u) \subseteq Present /\ RevokeRows(LiveOf(u))
    BY <1>11 DEF Suspend, Present, LiveOf
  <2>2. UNCHANGED <<now, issued, session, replacedBy>>
    BY <1>11 DEF Suspend
  <2>3. \A v \in Users : \/ cutOffAt'[v] = cutOffAt[v]
                         \/ cutOffAt'[v] = now /\ LiveOf(v) \subseteq LiveOf(u)
    BY <1>11 DEF Suspend, CutOff, IInv, TypeOK
  <2>4. \A t \in ended' \ ended : t \in issued /\ (row[t] = "live" => t \in LiveOf(u))
    BY <1>11 DEF Suspend, CutOff, LiveOf, IInv, TypeOK
  <2> QED BY <1>t, <2>1, <2>2, <2>3, <2>4, RevokeStep
<1>12. ASSUME NEW u \in Users, Unsuspend(u) PROVE IInv'
  <2>1. RequestsInv' /\ PresentedTokenSpent'
    BY <1>12 DEF Unsuspend, IInv, RequestsInv, SignedLately, PresentedTokenSpent, session
  <2> QED BY <1>12, <1>t, <2>1, QuietStep DEF Unsuspend
<1>13. ASSUME NEW u \in Users, EraseAccount(u) PROVE IInv'
  <2>1. LiveOf(u) \subseteq Present /\ RevokeRows(LiveOf(u))
    BY <1>13 DEF EraseAccount, Present, LiveOf
  <2>2. UNCHANGED <<now, issued, session, replacedBy>>
    BY <1>13 DEF EraseAccount
  <2>3. \A v \in Users : \/ cutOffAt'[v] = cutOffAt[v]
                         \/ cutOffAt'[v] = now /\ LiveOf(v) \subseteq LiveOf(u)
    BY <1>13 DEF EraseAccount, CutOff, IInv, TypeOK
  <2>4. \A t \in ended' \ ended : t \in issued /\ (row[t] = "live" => t \in LiveOf(u))
    BY <1>13 DEF EraseAccount, CutOff, LiveOf, IInv, TypeOK
  <2> QED BY <1>t, <2>1, <2>2, <2>3, <2>4, RevokeStep
<1>14. CASE Purge
  BY <1>14, <1>t, PurgeStep
<1>15. CASE Tick
  BY <1>15, <1>t, BoundsAssumption
     DEF Tick, IInv, TypeOK, RequestsInv, SignedLately, RowsInv, ReplayableRowsKept, ChainMovesForward,
         PresentedTokenSpent, DeactivationEndsOldSessions, session, Tokens
<1>16. CASE UNCHANGED vars
  <2>1. RequestsInv' /\ PresentedTokenSpent'
    BY <1>16 DEF vars, session, IInv, RequestsInv, SignedLately, PresentedTokenSpent
  <2> QED BY <1>16, <1>t, <2>1, QuietStep DEF vars
<1>17. ASSUME NEW r \in Requests, LoginSign(r) \/ RefreshSign(r) PROVE IInv'
  <2>1. RequestsInv'
    BY <1>17, <1>t, SignKeepsRequests
  <2>2. PresentedTokenSpent'
    BY <1>17 DEF LoginSign, RefreshSign, Sign, IInv, PresentedTokenSpent
  <2> QED BY <1>17, <1>t, <2>1, <2>2, QuietStep DEF LoginSign, RefreshSign
<1> QED BY <1>1, <1>2, <1>3, <1>4, <1>5, <1>6, <1>7, <1>8, <1>9, <1>10, <1>11, <1>12, <1>13,
           <1>14, <1>15, <1>16, <1>17 DEF Next

(* IInv is inductive and holds initially. *)
THEOREM Inductive == Spec => []IInv
BY InitIInv, NextIInv, PTL DEF Spec

(* Every reachable state is well typed. *)
THEOREM TypeCorrect == Spec => []TypeOK
BY Inductive, PTL DEF IInv

(* Whatever the retention and lifetime, as long as revoked rows are kept   *)
(* at least as long as a token lives, a replayed token still finds its row.*)
THEOREM ReplaysAreFound == Spec => []ReplayableRowsKept
BY Inductive, PTL DEF IInv

(* The rotation chain is acyclic: it moves to later tokens of one user. *)
THEOREM ChainIsAcyclic == Spec => []ChainMovesForward
BY Inductive, PTL DEF IInv

(* A token traded in for a successor is not live. *)
THEOREM TradedTokenIsSpent == Spec => []PresentedTokenSpent
BY Inductive, PTL DEF IInv

(* A deactivation ends the sessions that predate it, for good. *)
THEOREM DeactivationIsFinal == Spec => []DeactivationEndsOldSessions
BY Inductive, PTL DEF IInv

-----------------------------------------------------------------------------
(* How each step changes the set of live tokens: it issues one fresh token *)
(* or none, and otherwise only takes tokens away.                          *)

LEMMA LoginChange ==
  ASSUME IInv, NEW r \in Requests, LoginIssue(r)
  PROVE  \/ UNCHANGED <<row, issued>> /\ Answer(r, "failed")
         \/ \E new \in Tokens : /\ new \notin issued
                                /\ row' = [row EXCEPT ![new] = "live"]
                                /\ issued' = issued \cup {new}
                                /\ Answer(r, "tokens")
<1>1. signed[r] \in Tokens
  BY DEF IInv, RequestsInv, SignedLately, LoginIssue
<1> QED BY <1>1, InsertIsFresh DEF LoginIssue

LEMMA RotateChange ==
  ASSUME IInv, NEW r \in Requests, RefreshRotate(r)
  PROVE  \/ UNCHANGED <<row, issued>> /\ Answer(r, "failed")
         \/ \E new \in Tokens :
              /\ new \notin issued
              /\ row' = [t \in Tokens |-> IF t = new THEN "live"
                                          ELSE IF t = tok[r] /\ row[t] # "absent" THEN "revoked"
                                          ELSE row[t]]
              /\ issued' = issued \cup {new}
              /\ Answer(r, "tokens")
<1> DEFINE new == signed[r]
<1>1. tok[r] \in issued /\ tok[r] \in Tokens
  BY DEF IInv, RequestsInv, RefreshRotate, TypeOK
<1>2. new \in Tokens
  BY DEF IInv, RequestsInv, SignedLately, RefreshRotate
<1>3. CASE UniqueHash(new)
  <2>1. new \notin issued /\ new # tok[r]
    BY <1>1, <1>3, InsertIsFresh DEF RefreshRotate
  <2>2. /\ RotateRows(tok[r], new)
        /\ issued' = issued \cup {new}
        /\ Answer(r, "tokens")
    BY <1>3 DEF RefreshRotate
  <2>3. row' = [t \in Tokens |-> IF t = new THEN "live"
                                 ELSE IF t = tok[r] /\ row[t] # "absent" THEN "revoked"
                                 ELSE row[t]]
    BY <1>1, <1>2, <2>1, <2>2 DEF RotateRows, IInv, TypeOK
  <2> QED BY <1>2, <2>1, <2>2, <2>3
<1>4. CASE ~UniqueHash(new)
  BY <1>4 DEF RefreshRotate, table
<1> QED BY <1>3, <1>4

(* Every other step leaves the issued tokens alone and makes none live. *)
QuietNext ==
  \/ \E r \in Requests, u \in Users : LoginAuthenticate(r, u) \/ SetPassword(r, u)
  \/ \E r \in Requests, t \in Tokens :
       RefreshExpired(r, t) \/ RefreshValidate(r, t) \/ RefreshReuse(r, t)
  \/ \E r \in Requests : \/ LoginSign(r) \/ RefreshSign(r)
                         \/ RefreshLoadUser(r) \/ RevokeAfterPassword(r)
  \/ \E u \in Users : Unsuspend(u)
  \/ Tick
  \/ UNCHANGED vars

RetireNext ==
  \/ \E t \in Tokens : Logout(t)
  \/ \E u \in Users : Suspend(u) \/ EraseAccount(u)
  \/ Purge

LEMMA QuietChange ==
  ASSUME QuietNext PROVE UNCHANGED <<row, issued>>
BY DEF QuietNext, LoginAuthenticate, SetPassword, RefreshExpired, RefreshValidate, RefreshReuse,
       LoginSign, RefreshSign, RefreshLoadUser, RevokeAfterPassword, Unsuspend, Tick, vars, table

LEMMA RetireChange ==
  ASSUME IInv, RetireNext
  PROVE  /\ \A t \in Tokens : row'[t] = "live" => row[t] = "live"
         /\ UNCHANGED <<issued, session>>
<1>1. ASSUME NEW t \in Tokens, Logout(t)
      PROVE  /\ \A q \in Tokens : row'[q] = "live" => row[q] = "live"
             /\ UNCHANGED <<issued, session>>
  BY <1>1 DEF Logout, RevokeRows
<1>2. ASSUME NEW u \in Users, Suspend(u) \/ EraseAccount(u)
      PROVE  /\ \A q \in Tokens : row'[q] = "live" => row[q] = "live"
             /\ UNCHANGED <<issued, session>>
  BY <1>2 DEF Suspend, EraseAccount, RevokeRows
<1>3. ASSUME Purge
      PROVE  /\ \A q \in Tokens : row'[q] = "live" => row[q] = "live"
             /\ UNCHANGED <<issued, session>>
  BY <1>3 DEF Purge
<1> QED BY <1>1, <1>2, <1>3 DEF RetireNext

LEMMA NextCases ==
  ASSUME [Next]_vars
  PROVE  \/ \E r \in Requests : LoginIssue(r) \/ RefreshRotate(r)
         \/ QuietNext
         \/ RetireNext
BY DEF Next, QuietNext, RetireNext

(* A token that was revoked or purged is never accepted again. *)
THEOREM RevocationIsFinal == Spec => NoResurrection
<1>1. ASSUME IInv, [Next]_vars, NEW t \in issued, row[t] # "live"
      PROVE  row'[t] # "live"
  <2>0. t \in Tokens
    BY <1>1 DEF IInv, TypeOK
  <2>1. ASSUME NEW r \in Requests, LoginIssue(r) PROVE row'[t] # "live"
    BY <1>1, <2>0, <2>1, LoginChange DEF IInv, TypeOK
  <2>2. ASSUME NEW r \in Requests, RefreshRotate(r) PROVE row'[t] # "live"
    BY <1>1, <2>0, <2>2, RotateChange DEF IInv, TypeOK
  <2>3. CASE QuietNext
    BY <1>1, <2>3, QuietChange
  <2>4. CASE RetireNext
    BY <1>1, <2>0, <2>4, RetireChange
  <2> QED BY <1>1, <2>1, <2>2, <2>3, <2>4, NextCases
<1>2. IInv /\ [Next]_vars => [\A t \in issued : row[t] # "live" => row'[t] # "live"]_vars
  BY <1>1
<1> QED BY <1>2, Inductive, PTL DEF Spec, NoResurrection

-----------------------------------------------------------------------------
(* Refinement: AuthSessions implements SessionStore *)

LEMMA StutterIfSame ==
  ASSUME UNCHANGED <<row, issued>>, Granted' = Granted
  PROVE  UNCHANGED Store!vars
BY DEF Store!vars, Live

(* A request that is past the check holds exactly one grant. *)
LEMMA GrantOf ==
  ASSUME NEW r \in Requests, NEW t
  PROVE  <<r, t>> \in Granted <=> r \in Checked /\ t = tok[r]
BY DEF Granted, Checked

(* Answering a checked request uses its grant up and leaves the others. *)
LEMMA AnswerSpendsGrant ==
  ASSUME TypeOK, NEW r \in Checked, NEW a, Answer(r, a)
  PROVE  Granted' = Granted \ {<<r, tok[r]>>}
<1>1. Checked' = Checked \ {r} /\ \A q \in Checked' : tok'[q] = tok[q]
  BY DEF Answer, Checked, TypeOK
<1>2. \A q \in Checked : q # r => <<q, tok[q]>> # <<r, tok[r]>>
  OBVIOUS
<1> QED BY <1>1, <1>2 DEF Granted

(* A slot that is not past the check can move without touching any grant. *)
LEMMA UncheckedMove ==
  ASSUME TypeOK, NEW r \in Requests, r \notin Checked, r \notin Checked',
         \A q \in Requests : q # r => pc'[q] = pc[q] /\ tok'[q] = tok[q]
  PROVE  Granted' = Granted
<1>1. Checked' = Checked
  BY DEF Checked, TypeOK
<1>2. \A q \in Checked : tok'[q] = tok[q]
  BY DEF Checked
<1> QED BY <1>1, <1>2 DEF Granted

LEMMA QuietRefines ==
  ASSUME IInv, QuietNext
  PROVE  [Store!Next]_(Store!vars)
<1> USE DEF IInv
<1>0. UNCHANGED <<row, issued>>
  BY QuietChange
<1>1. ASSUME NEW r \in Requests, NEW u \in Users, LoginAuthenticate(r, u) \/ SetPassword(r, u)
      PROVE  Granted' = Granted
  <2>1. /\ r \notin Checked /\ r \notin Checked'
        /\ \A q \in Requests : q # r => pc'[q] = pc[q] /\ tok'[q] = tok[q]
    BY <1>1 DEF LoginAuthenticate, SetPassword, Begin, Checked, TypeOK
  <2> QED BY <2>1, UncheckedMove
<1>2. ASSUME NEW r \in Requests, NEW t \in Tokens, RefreshExpired(r, t) \/ RefreshReuse(r, t)
      PROVE  Granted' = Granted
  <2>1. /\ r \notin Checked /\ r \notin Checked'
        /\ \A q \in Requests : q # r => pc'[q] = pc[q] /\ tok'[q] = tok[q]
    BY <1>2 DEF RefreshExpired, RefreshReuse, Answer, Checked, TypeOK
  <2> QED BY <2>1, UncheckedMove
<1>3. ASSUME NEW r \in Requests, NEW t \in Tokens, RefreshValidate(r, t)
      PROVE  Store!Next
  <2>1. t \in Live /\ r \notin Checked
    BY <1>3 DEF RefreshValidate, Begin, Live, Checked
  <2>2. Checked' = Checked \cup {r} /\ tok' = [tok EXCEPT ![r] = t]
    BY <1>3 DEF RefreshValidate, Begin, Checked, TypeOK
  <2>3. tok'[r] = t /\ \A q \in Checked : tok'[q] = tok[q]
    BY <2>1, <2>2 DEF TypeOK, Checked
  <2>4. Granted' = Granted \cup {<<r, t>>}
    BY <2>2, <2>3 DEF Granted
  <2>5. \A v \in Tokens : <<r, v>> \notin Granted
    BY <2>1, GrantOf
  <2>6. Live' = Live /\ (issued \ Live)' = issued \ Live
    BY <1>0 DEF Live
  <2>7. Store!Grant(r, t)
    BY <2>1, <2>4, <2>5, <2>6 DEF Store!Grant
  <2> QED BY <2>7 DEF Store!Next
<1>4. ASSUME NEW r \in Requests, RefreshLoadUser(r)
      PROVE  Granted' = Granted \/ Store!Next
  <2>1. r \in Checked /\ tok[r] \in Tokens
    BY <1>4 DEF RefreshLoadUser, Checked, RequestsInv, TypeOK
  <2>2. CASE Advance(r, "loaded")
    <3>1. Checked' = Checked /\ tok' = tok
      BY <2>1, <2>2 DEF Advance, Checked, TypeOK
    <3> QED BY <3>1 DEF Granted
  <2>3. CASE Answer(r, "refused")
    <3>1. Granted' = Granted \ {<<r, tok[r]>>}
      BY <2>1, <2>3, AnswerSpendsGrant
    <3>2. <<r, tok[r]>> \in Granted
      BY <2>1, GrantOf DEF Checked
    <3>3. Live' = Live /\ (issued \ Live)' = issued \ Live
      BY <1>0 DEF Live
    <3>4. Store!Refuse(r, tok[r])
      BY <3>1, <3>2, <3>3 DEF Store!Refuse
    <3> QED BY <2>1, <3>4 DEF Store!Next, Checked
  <2> QED BY <1>4, <2>2, <2>3 DEF RefreshLoadUser
<1>5. ASSUME NEW r \in Requests, RevokeAfterPassword(r)
      PROVE  Granted' = Granted
  <2>1. /\ r \notin Checked /\ r \notin Checked'
        /\ \A q \in Requests : q # r => pc'[q] = pc[q] /\ tok'[q] = tok[q]
    BY <1>5 DEF RevokeAfterPassword, Answer, Checked, TypeOK
  <2> QED BY <2>1, UncheckedMove
<1>6. ASSUME (\E u \in Users : Unsuspend(u)) \/ Tick \/ UNCHANGED vars
      PROVE  Granted' = Granted
  BY <1>6 DEF Unsuspend, Tick, vars, session, Granted, Checked
<1>7. ASSUME NEW r \in Requests, LoginSign(r) \/ RefreshSign(r)
      PROVE  Granted' = Granted
  <2>1. tok' = tok /\ Checked' = Checked
    BY <1>7, NoneAssumption DEF LoginSign, RefreshSign, Sign, Checked, RequestsInv, TypeOK
  <2> QED BY <2>1 DEF Granted
<1> QED BY <1>0, <1>1, <1>2, <1>3, <1>4, <1>5, <1>6, <1>7, StutterIfSame DEF QuietNext

LEMMA RetireRefines ==
  ASSUME IInv, RetireNext
  PROVE  [Store!Next]_(Store!vars)
<1> DEFINE S == Live \ Live'
<1>1. Live' \subseteq Live /\ issued' = issued /\ UNCHANGED session
  BY RetireChange DEF Live
<1>2. Live \subseteq issued
  BY DEF Live, IInv, RowsInv
<1>3. Live' = Live \ S /\ (issued \ Live)' = (issued \ Live) \cup S
  BY <1>1, <1>2
<1>4. Granted' = Granted
  BY <1>1 DEF session, Granted, Checked
<1>5. S \in SUBSET Tokens /\ S \subseteq Live
  BY DEF Live
<1>6. Store!Retire(S)
  BY <1>3, <1>4, <1>5 DEF Store!Retire
<1> QED BY <1>5, <1>6 DEF Store!Next

LEMMA LoginRefines ==
  ASSUME IInv, NEW r \in Requests, LoginIssue(r)
  PROVE  [Store!Next]_(Store!vars)
<1>0. r \notin Checked
  BY DEF LoginIssue, Checked
<1>1. Granted' = Granted
  <2>1. \A a : Answer(r, a) => /\ r \notin Checked'
                               /\ \A q \in Requests : q # r => pc'[q] = pc[q] /\ tok'[q] = tok[q]
    BY DEF Answer, Checked, IInv, TypeOK
  <2> QED BY <1>0, <2>1, LoginChange, UncheckedMove DEF IInv
<1>2. CASE UNCHANGED <<row, issued>>
  BY <1>1, <1>2, StutterIfSame
<1>3. ASSUME NEW new \in Tokens, new \notin issued, row' = [row EXCEPT ![new] = "live"],
             issued' = issued \cup {new}
      PROVE  Store!Next
  <2>1. Live \subseteq issued
    BY DEF Live, IInv, RowsInv
  <2>2. Live' = Live \cup {new}
    BY <1>3 DEF Live, IInv, TypeOK
  <2>3. (issued \ Live)' = issued \ Live
    BY <1>3, <2>1, <2>2
  <2>4. Store!Issue(new)
    BY <1>1, <1>3, <2>1, <2>2, <2>3 DEF Store!Issue, Store!Fresh
  <2> QED BY <2>4 DEF Store!Next
<1> QED BY <1>2, <1>3, LoginChange

LEMMA RotateRefines ==
  ASSUME IInv, NEW r \in Requests, RefreshRotate(r)
  PROVE  [Store!Next]_(Store!vars)
<1> DEFINE old == tok[r]
<1>0. r \in Checked /\ old \in issued /\ old \in Tokens
  BY DEF RefreshRotate, Checked, IInv, RequestsInv, TypeOK
<1>1. <<r, old>> \in Granted
  BY <1>0, GrantOf
<1>2. Granted' = Granted \ {<<r, old>>}
  BY <1>0, RotateChange, AnswerSpendsGrant DEF IInv
<1>3. CASE UNCHANGED <<row, issued>>
  <2>1. Live' = Live /\ (issued \ Live)' = issued \ Live
    BY <1>3 DEF Live
  <2>2. Store!Refuse(r, old)
    BY <1>1, <1>2, <2>1 DEF Store!Refuse
  <2> QED BY <1>0, <2>2 DEF Store!Next
<1>4. ASSUME NEW new \in Tokens, new \notin issued,
             row' = [t \in Tokens |-> IF t = new THEN "live"
                                      ELSE IF t = old /\ row[t] # "absent" THEN "revoked"
                                      ELSE row[t]],
             issued' = issued \cup {new}
      PROVE  Store!Next
  <2>1. Live \subseteq issued
    BY DEF Live, IInv, RowsInv
  <2>2. Live' = (Live \ {old}) \cup {new}
    BY <1>4 DEF Live
  <2>3. (issued \ Live)' = (issued \ Live) \cup {old}
    BY <1>0, <1>4, <2>1, <2>2
  <2>4. Store!Exchange(r, old, new)
    BY <1>1, <1>2, <1>4, <2>1, <2>2, <2>3 DEF Store!Exchange, Store!Fresh
  <2> QED BY <1>0, <2>4 DEF Store!Next
<1> QED BY <1>3, <1>4, RotateChange

(* The handlers implement the abstract store: every step is one of its     *)
(* operations or leaves it unchanged.                                      *)
THEOREM Refinement == Spec => ImplementsStore
<1>1. Init => Store!Init
  BY DEF Init, Store!Init, Live, Granted, Checked
<1>2. IInv /\ [Next]_vars => [Store!Next]_(Store!vars)
  BY NextCases, QuietRefines, RetireRefines, LoginRefines, RotateRefines
<1> QED BY <1>1, <1>2, Inductive, PTL DEF Spec, ImplementsStore, Store!Spec
=============================================================================

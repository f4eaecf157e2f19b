---------------------------- MODULE AuthSessions ----------------------------
(***************************************************************************)
(* The life of a refresh token: AuthService, RefreshTokenRepository, the   *)
(* /auth routes that use them, the admin and GDPR handlers that revoke     *)
(* tokens, and the nightly purge.  The refresh_tokens and users tables are *)
(* shared by all requests; every action is one committed transaction or    *)
(* one read, so a request that reads in one action and writes in the next  *)
(* can be overtaken in between, as it can between two awaits.              *)
(***************************************************************************)
EXTENDS Integers

CONSTANTS Users,      \* accounts
          Requests,   \* requests being served at the same time
          MaxTime,    \* bound on the clock, in seconds
          Lifetime,   \* seconds a refresh token is valid (7 days in the code)
          StoreDelay, \* bound on the seconds between signing and the commit
          Retention,  \* seconds a revoked row is kept (7 days in the code)
          None        \* no user, no token

ASSUME BoundsAssumption ==
  /\ MaxTime \in Nat
  /\ Lifetime \in Nat \ {0}
  /\ Retention \in Nat
  /\ Lifetime <= Retention
  /\ StoreDelay \in Nat /\ StoreDelay < Lifetime

(* The payload is the subject and the expiry second, so a token, and with  *)
(* it its SHA-256 hash, is determined by the user and the second.          *)
Tokens == [user : Users, exp : Lifetime .. MaxTime - 1 + Lifetime]

Token(u, second) == [user |-> u, exp |-> second + Lifetime]

ASSUME NoneAssumption == None \notin Users \cup Tokens

VARIABLES
  now,         \* the clock
  active,      \* users.is_active
  erased,      \* accounts anonymised by a GDPR deletion
  cutOffAt,    \* history: when the account was last deactivated
  ended,       \* history: tokens handed out before a deactivation
  row,         \* refresh_tokens: "absent", or present and "live" / "revoked"
  revokedAt,   \* refresh_tokens.revoked_at
  replacedBy,  \* refresh_tokens.replaced_by
  issued,      \* tokens handed out to clients, which may present them again
  pc,          \* how far a request has come
  usr,         \* the user a login or password request is about
  tok,         \* the token a refresh request presented
  signed,      \* the token a request has signed and not committed yet
  resp         \* the answer to the latest request of this slot

accounts == <<active, erased, cutOffAt, ended>>
table    == <<row, revokedAt, replacedBy>>
session  == <<pc, usr, tok, signed, resp>>
vars     == <<now, accounts, table, issued, session>>

Stages == {"idle", "authenticated", "validated", "loaded", "signed", "passwordSet"}
Answers == {"none", "tokens", "refused", "failed"}

TypeOK ==
  /\ now \in 0 .. MaxTime
  /\ active \in [Users -> BOOLEAN]
  /\ erased \in [Users -> BOOLEAN]
  /\ cutOffAt \in [Users -> 0 .. MaxTime]
  /\ ended \subseteq Tokens
  /\ row \in [Tokens -> {"absent", "live", "revoked"}]
  /\ revokedAt \in [Tokens -> 0 .. MaxTime]
  /\ replacedBy \in [Tokens -> Tokens \cup {None}]
  /\ issued \subseteq Tokens
  /\ pc \in [Requests -> Stages]
  /\ usr \in [Requests -> Users \cup {None}]
  /\ tok \in [Requests -> Tokens \cup {None}]
  /\ signed \in [Requests -> Tokens \cup {None}]
  /\ resp \in [Requests -> Answers]

Init ==
  /\ now = 0
  /\ active = [u \in Users |-> TRUE]
  /\ erased = [u \in Users |-> FALSE]
  /\ cutOffAt = [u \in Users |-> 0]
  /\ ended = {}
  /\ row = [t \in Tokens |-> "absent"]
  /\ revokedAt = [t \in Tokens |-> 0]
  /\ replacedBy = [t \in Tokens |-> None]
  /\ issued = {}
  /\ pc = [r \in Requests |-> "idle"]
  /\ usr = [r \in Requests |-> None]
  /\ tok = [r \in Requests |-> None]
  /\ signed = [r \in Requests |-> None]
  /\ resp = [r \in Requests |-> "none"]

-----------------------------------------------------------------------------
(* Helpers *)

(* A new request takes a free slot. *)
Begin(r, stage, u, t) ==
  /\ pc[r] = "idle"
  /\ pc' = [pc EXCEPT ![r] = stage]
  /\ usr' = [usr EXCEPT ![r] = u]
  /\ tok' = [tok EXCEPT ![r] = t]
  /\ resp' = [resp EXCEPT ![r] = "none"]
  /\ UNCHANGED signed

Advance(r, stage) ==
  /\ pc' = [pc EXCEPT ![r] = stage]
  /\ UNCHANGED <<usr, tok, signed, resp>>

(* The token a request signs is of the current second.  Statements that    *)
(* are awaited follow, so the row may be committed in a later one.  (Bound:*)
(* nothing is signed in the last second.)                                  *)
Sign(r, new) ==
  /\ now < MaxTime
  /\ pc' = [pc EXCEPT ![r] = "signed"]
  /\ signed' = [signed EXCEPT ![r] = new]
  /\ UNCHANGED <<usr, tok, resp>>

Answer(r, answer) ==
  /\ pc' = [pc EXCEPT ![r] = "idle"]
  /\ usr' = [usr EXCEPT ![r] = None]
  /\ tok' = [tok EXCEPT ![r] = IF answer = "tokens" THEN @ ELSE None]
  /\ signed' = [signed EXCEPT ![r] = None]
  /\ resp' = [resp EXCEPT ![r] = answer]

(* JWT expiry is checked in whole seconds and allows the last one.  The    *)
(* row's expires_at has microseconds and falls somewhere in that second.   *)
JwtAccepts(t) == now <= t.exp
MayBeExpired(t) == t.exp <= now
Expired(t) == t.exp < now

(* Mutant: an insert that overwrites a row with the same hash. *)
UniqueHashUpsert(t) == TRUE
(* The UNIQUE constraint on token_hash, which the insert relies on. *)
UniqueHash(t) == row[t] = "absent"

Present == {t \in Tokens : row[t] # "absent"}
LiveOf(u) == {t \in Tokens : t.user = u /\ row[t] = "live"}

(* Mutant: writes when the row may go, not when it was revoked. *)
RevokeRowsDeadline(S) ==
  /\ row' = [t \in Tokens |-> IF t \in S THEN "revoked" ELSE row[t]]
  /\ revokedAt' = [t \in Tokens |-> IF t \in S THEN now + Retention ELSE revokedAt[t]]

(* UPDATE refresh_tokens SET is_revoked, revoked_at for every row of S. *)
RevokeRows(S) ==
  /\ row' = [t \in Tokens |-> IF t \in S THEN "revoked" ELSE row[t]]
  /\ revokedAt' = [t \in Tokens |-> IF t \in S THEN now ELSE revokedAt[t]]

-----------------------------------------------------------------------------
(* Login *)

(* authenticate_user found the account by e-mail and the password matched. *)
(* It does not look at is_active.  Failed attempts leave the store alone.  *)
LoginAuthenticate(r, u) ==
  /\ ~erased[u]
  /\ Begin(r, "authenticated", u, None)
  /\ UNCHANGED <<now, accounts, table, issued>>

(* create_user_token signs ... *)
LoginSign(r) ==
  /\ pc[r] = "authenticated"
  /\ Sign(r, Token(usr[r], now))
  /\ UNCHANGED <<now, accounts, table, issued>>

(* ... and then inserts and commits.  An insert that violates the UNIQUE   *)
(* constraint raises and the request ends in an error.                     *)
LoginIssue(r) ==
  LET new == signed[r] IN
  /\ pc[r] = "signed" /\ tok[r] = None
  /\ \/ /\ UniqueHash(new)
        /\ row' = [row EXCEPT ![new] = "live"]
        /\ issued' = issued \cup {new}
        /\ Answer(r, "tokens")
     \/ /\ ~UniqueHash(new)
        /\ Answer(r, "failed")
        /\ UNCHANGED <<row, issued>>
  /\ UNCHANGED <<now, accounts, revokedAt, replacedBy>>

-----------------------------------------------------------------------------
(* Refresh *)

RefreshExpired(r, t) ==
  /\ pc[r] = "idle"
  /\ t \in issued
  /\ ~JwtAccepts(t)
  /\ Answer(r, "refused")
  /\ UNCHANGED <<now, accounts, table, issued>>

(* Mutant: a look-up that forgets WHERE is_revoked = FALSE. *)
RefreshValidateAnyRow(r, t) ==
  /\ t \in issued
  /\ JwtAccepts(t)
  /\ row[t] # "absent"
  /\ Begin(r, "validated", None, t)
  /\ UNCHANGED <<now, accounts, table, issued>>

(* get_valid found the row: present, not revoked, not expired. *)
RefreshValidate(r, t) ==
  /\ t \in issued
  /\ JwtAccepts(t)
  /\ row[t] = "live"
  /\ Begin(r, "validated", None, t)
  /\ UNCHANGED <<now, accounts, table, issued>>

(* get_valid found nothing.  The handler then calls revoke_all_for_user,   *)
(* which RefreshTokenRepository does not define: the AttributeError is     *)
(* swallowed, no row changes, and the request is refused.                  *)
RefreshReuse(r, t) ==
  /\ pc[r] = "idle"
  /\ t \in issued
  /\ JwtAccepts(t)
  /\ row[t] # "live" \/ MayBeExpired(t)
  /\ Answer(r, "refused")
  /\ UNCHANGED <<now, accounts, table, issued>>

(* The user row is read in a query of its own, after the token's. *)
RefreshLoadUser(r) ==
  /\ pc[r] = "validated"
  /\ \/ /\ active[tok[r].user]
        /\ Advance(r, "loaded")
     \/ /\ ~active[tok[r].user]
        /\ Answer(r, "refused")
  /\ UNCHANGED <<now, accounts, table, issued>>

(* Mutant: forgets the UPDATE of the old row. *)
RotateRowsNoRevoke(old, new) ==
  /\ row' = [row EXCEPT ![new] = "live"]
  /\ UNCHANGED <<revokedAt, replacedBy>>

(* Mutant: links the successor to its predecessor. *)
RotateRowsBackLink(old, new) ==
  IF row[old] = "absent"
  THEN /\ row' = [row EXCEPT ![new] = "live"]
       /\ UNCHANGED <<revokedAt, replacedBy>>
  ELSE /\ row' = [row EXCEPT ![new] = "live", ![old] = "revoked"]
       /\ revokedAt' = [revokedAt EXCEPT ![old] = now]
       /\ replacedBy' = [replacedBy EXCEPT ![new] = old]

(* rotate: insert the successor, then UPDATE ... WHERE token_hash = old,   *)
(* which does not ask whether old is still live, in one commit.            *)
RotateRows(old, new) ==
  IF row[old] = "absent"
  THEN /\ row' = [row EXCEPT ![new] = "live"]
       /\ UNCHANGED <<revokedAt, replacedBy>>
  ELSE /\ row' = [row EXCEPT ![new] = "live", ![old] = "revoked"]
       /\ revokedAt' = [revokedAt EXCEPT ![old] = now]
       /\ replacedBy' = [replacedBy EXCEPT ![old] = new]

(* The successor is signed here ... *)
RefreshSign(r) ==
  /\ pc[r] = "loaded"
  /\ Sign(r, Token(tok[r].user, now))
  /\ UNCHANGED <<now, accounts, table, issued>>

(* ... and committed here. *)
RefreshRotate(r) ==
  LET old == tok[r]
      new == signed[r]
  IN
  /\ pc[r] = "signed" /\ tok[r] # None
  /\ \/ /\ UniqueHash(new)
        /\ RotateRows(old, new)
        /\ issued' = issued \cup {new}
        /\ Answer(r, "tokens")
     \/ /\ ~UniqueHash(new)
        /\ Answer(r, "failed")
        /\ UNCHANGED <<table, issued>>
  /\ UNCHANGED <<now, accounts>>

-----------------------------------------------------------------------------
(* Logout, password change, suspension, erasure, purge *)

(* logout_user revokes the one token it is given, whatever its state, and  *)
(* the UPDATE also writes replaced_by = NULL.                              *)
Logout(t) ==
  /\ t \in issued
  /\ row[t] # "absent"
  /\ RevokeRows({t})
  /\ replacedBy' = [replacedBy EXCEPT ![t] = None]
  /\ UNCHANGED <<now, accounts, issued, session>>

(* change_password and reset_password: update_password commits first ...   *)
SetPassword(r, u) ==
  /\ ~erased[u]
  /\ Begin(r, "passwordSet", u, None)
  /\ UNCHANGED <<now, accounts, table, issued>>

(* ... and revoke_all_for_user raises AttributeError: the route answers    *)
(* 500 and the transaction that would have revoked the rows never runs.    *)
RevokeAfterPassword(r) ==
  /\ pc[r] = "passwordSet"
  /\ Answer(r, "failed")
  /\ UNCHANGED <<now, accounts, table, issued>>

(* History of a deactivation: its second, and the tokens it is to end. *)
CutOff(u) ==
  /\ active' = [active EXCEPT ![u] = FALSE]
  /\ cutOffAt' = [cutOffAt EXCEPT ![u] = now]
  /\ ended' = ended \cup {t \in issued : t.user = u}

(* Mutant: sets the flag and leaves the rows. *)
SuspendFlagOnly(u) ==
  /\ CutOff(u)
  /\ UNCHANGED <<now, erased, table, issued, session>>

(* suspend_user: the flag and every live row of the user, in one commit.   *)
Suspend(u) ==
  /\ CutOff(u)
  /\ RevokeRows(LiveOf(u))
  /\ UNCHANGED <<now, erased, replacedBy, issued, session>>

Unsuspend(u) ==
  /\ active' = [active EXCEPT ![u] = TRUE]
  /\ UNCHANGED <<now, erased, cutOffAt, ended, table, issued, session>>

(* The first commit of delete_user_account. *)
EraseAccount(u) ==
  /\ CutOff(u)
  /\ erased' = [erased EXCEPT ![u] = TRUE]
  /\ RevokeRows(LiveOf(u))
  /\ UNCHANGED <<now, replacedBy, issued, session>>

(* Mutant: deletes revoked rows at the first purge. *)
RetentionOverShort(t) == row[t] = "revoked" /\ revokedAt[t] <= now
RetentionOver(t) == row[t] = "revoked" /\ revokedAt[t] + Retention <= now

(* The nightly DELETE.  A row whose expires_at falls in the current second *)
(* may already be past it, or not yet, and so may a retention period.      *)
Purge ==
  \E S \in SUBSET {t \in Present : MayBeExpired(t) \/ RetentionOver(t)} :
    /\ \A t \in Present : Expired(t) => t \in S
    /\ S # {}
    /\ row' = [t \in Tokens |-> IF t \in S THEN "absent" ELSE row[t]]
    /\ revokedAt' = [t \in Tokens |-> IF t \in S THEN 0 ELSE revokedAt[t]]
    /\ replacedBy' = [t \in Tokens |-> IF t \in S THEN None ELSE replacedBy[t]]
    /\ UNCHANGED <<now, accounts, issued, session>>

(* The clock doesn't leave a request between its signing and its commit    *)
(* for longer than StoreDelay.                                             *)
Tick ==
  /\ now < MaxTime
  /\ \A r \in Requests : pc[r] = "signed" => now < signed[r].exp - Lifetime + StoreDelay
  /\ now' = now + 1
  /\ UNCHANGED <<accounts, table, issued, session>>

-----------------------------------------------------------------------------

Next ==
  \/ \E r \in Requests, u \in Users : LoginAuthenticate(r, u) \/ SetPassword(r, u)
  \/ \E r \in Requests, t \in Tokens :
       RefreshExpired(r, t) \/ RefreshValidate(r, t) \/ RefreshReuse(r, t)
  \/ \E r \in Requests :
       \/ LoginSign(r) \/ LoginIssue(r)
       \/ RefreshLoadUser(r) \/ RefreshSign(r) \/ RefreshRotate(r)
       \/ RevokeAfterPassword(r)
  \/ \E t \in Tokens : Logout(t)
  \/ \E u \in Users : Suspend(u) \/ Unsuspend(u) \/ EraseAccount(u)
  \/ Purge
  \/ Tick

Spec == Init /\ [][Next]_vars

-----------------------------------------------------------------------------
(* Properties *)

(* A token that was handed out and has been revoked or purged is never     *)
(* accepted again: not by the rotation that overtook its revocation, not   *)
(* by a login that signs the same token again within the same second, not  *)
(* by a token signed after the row was purged (UNIQUE token_hash, rotate,  *)
(* the purge task).                                                        *)
NoResurrection ==
  [][\A t \in issued : row[t] # "live" => row'[t] # "live"]_vars

(* The purge never forgets a token that its signature would still let a    *)
(* client present: a replay must find the revoked row, so that it can be   *)
(* told from a forgery (purge_expired_refresh_tokens_task keeps revoked    *)
(* rows as long as a token lives).                                         *)
ReplayableRowsKept ==
  \A t \in issued : now < t.exp => row[t] # "absent"

(* replaced_by leads from a revoked token to a token of the same user that *)
(* was signed in a later second, so an audit that follows the chain ends.  *)
ChainMovesForward ==
  \A t \in Tokens : replacedBy[t] # None =>
    /\ row[t] = "revoked"
    /\ replacedBy[t] \in issued
    /\ replacedBy[t].user = t.user
    /\ t.exp < replacedBy[t].exp

(* A client that was given a successor can't use the token it traded in,   *)
(* whatever logouts, suspensions and purges came between the check and the *)
(* rotation (refresh_user_token, rotate).                                  *)
PresentedTokenSpent ==
  \A r \in Requests :
    resp[r] = "tokens" /\ tok[r] # None => row[tok[r]] # "live"

(* Deactivating an account ends every session the account then has, for    *)
(* good: lifting the suspension brings none of them back.  The one kind of *)
(* token that a deactivation misses is one signed before it and committed  *)
(* after it: nothing is live that was signed more than StoreDelay before   *)
(* the cut-off (suspend_user, delete_user_account, create_user_token,      *)
(* rotate).                                                                *)
DeactivationEndsOldSessions ==
  \A t \in Tokens : row[t] = "live" =>
    /\ t \notin ended
    /\ t.exp - Lifetime + StoreDelay >= cutOffAt[t.user]

(* The store seen from outside: which tokens are accepted, which are       *)
(* spent, and which requests have been let past the check.                 *)
Live == {t \in Tokens : row[t] = "live"}
Checked == {r \in Requests : \/ pc[r] \in {"validated", "loaded"}
                             \/ pc[r] = "signed" /\ tok[r] # None}
Granted == {<<r, tok[r]>> : r \in Checked}

Store == INSTANCE SessionStore
           WITH live <- Live, retired <- issued \ Live, granted <- Granted

(* The tables and handlers implement the abstract store: each check lets   *)
(* one exchange through, and every other change only retires tokens.       *)
ImplementsStore == Store!Spec

-----------------------------------------------------------------------------
(* Claims of the documentation *)

(* auth_service.py: a refresh token that was already used is detected and  *)
(* all sessions of the user are revoked.                                   *)
ReuseRevokesAll ==
  [][\A r \in Requests, t \in Tokens :
       RefreshReuse(r, t) /\ row[t] = "revoked" => LiveOf(t.user)' = {}]_vars

(* auth_service.py, auth.py: changing or resetting the password revokes    *)
(* all active sessions, so when the request is over none of the user's     *)
(* tokens is live.                                                         *)
PasswordChangeEndsSessions ==
  [][\A r \in Requests :
       pc[r] = "passwordSet" /\ pc'[r] = "idle" =>
         \A t \in Tokens : t.user = usr[r] => row'[t] # "live"]_vars
=============================================================================

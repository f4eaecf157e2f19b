---------------------------- MODULE OneTimeTokens ----------------------------
(***************************************************************************)
(* The links mailed to one user: VerificationTokenService over RedisCache, *)
(* and the four routes that mail and redeem them.  Every Redis command,    *)
(* query and commit is a step.  A command that fails is swallowed by       *)
(* RedisCache: GET then answers None, and the others do nothing.           *)
(*                                                                         *)
(* A token is signed over the user, the purpose and the second it expires  *)
(* in, so two of one purpose made in one second are the same token.        *)
(***************************************************************************)
EXTENDS Integers, FiniteSets, FiniteSetsExt

CONSTANTS Requests,   \* requests served at the same time
          Purposes,   \* what links are mailed for: "verify", "reset"
          Limit,      \* _RATE_LIMIT_MAX_REQUESTS
          Works,      \* whether a Redis command may work: {TRUE} or BOOLEAN
          MaxMails,   \* bound on the links ever stored
          MaxSecond   \* bound on the seconds

ASSUME OneTimeAssumption ==
  /\ IsFiniteSet(Requests)
  /\ Purposes \subseteq {"verify", "reset"}
  /\ Limit \in Nat \ {0}
  /\ Works \subseteq BOOLEAN
  /\ MaxMails \in Nat /\ MaxSecond \in Nat

Tokens == [purpose : Purposes, second : 0 .. MaxSecond]

VARIABLES
  count,    \* email_rate: the mails of a window, and whether the key expires
  stored,   \* email_verify and pwd_reset: tokens whose hash is in Redis
  mailed,   \* tokens in the user's mailbox that have not expired
  user,     \* the row: verified, active, and whether the password was reset
  req,      \* what each request does next
  second,
  stores,   \* history: how often each token was stored
  wins,     \* history: how often each token was redeemed
  failed    \* history: a Redis command failed

redis == <<count, stored, stores, wins>>
vars == <<redis, mailed, user, req, second, failed>>

Idle == [at |-> "idle"]

Init ==
  /\ count = [p \in Purposes |-> [n |-> 0, ttl |-> FALSE]]
  /\ stored = {}
  /\ mailed = {}
  /\ user = [verified |-> FALSE, active |-> TRUE, reset |-> FALSE]
  /\ req = [r \in Requests |-> Idle]
  /\ second = 0
  /\ stores = [t \in Tokens |-> 0]
  /\ wins = [t \in Tokens |-> 0]
  /\ failed = FALSE

Go(r, next) == req' = [req EXCEPT ![r] = next]
Step(r, from, to) == req[r].at = from /\ Go(r, [req[r] EXCEPT !.at = to])
(* One command of a run may fail. *)
Try(works) == /\ works \in Works /\ (works \/ ~failed)
              /\ failed' = (failed \/ ~works)

-----------------------------------------------------------------------------
(* resend_verification and forgot_password: only a user that may use the   *)
(* link gets one; the answer is 202 in any case.                           *)
Ask(r, p) ==
  /\ req[r] = Idle
  /\ IF p = "verify" THEN ~user.verified ELSE user.active
  /\ Go(r, [at |-> "limit", purpose |-> p])
  /\ UNCHANGED <<redis, mailed, user, second, failed>>

(* Mutant: one more mail. *)
CheckLimitLate(r, works) ==
  LET p == req[r].purpose IN
  /\ req[r].at = "limit"
  /\ Try(works)
  /\ Go(r, IF works /\ count[p].n > Limit THEN Idle ELSE [at |-> "count", purpose |-> p])
  /\ UNCHANGED <<redis, mailed, user, second>>

(* _enforce_rate_limit: the counter is read, and if it is below the limit  *)
(* incremented in another command.                                         *)
CheckLimit(r, works) ==
  LET p == req[r].purpose IN
  /\ req[r].at = "limit"
  /\ Try(works)
  /\ Go(r, IF works /\ count[p].n >= Limit THEN Idle ELSE [at |-> "count", purpose |-> p])
  /\ UNCHANGED <<redis, mailed, user, second>>

(* RedisCache.increment: the first one sets the expiry, in a command of    *)
(* its own.                                                                *)
Count(r, works) ==
  LET p == req[r].purpose IN
  /\ req[r].at = "count"
  /\ Try(works)
  /\ count' = IF works THEN [count EXCEPT ![p].n = @ + 1] ELSE count
  /\ Go(r, [at |-> IF works /\ count[p].n = 0 THEN "expire" ELSE "issue", purpose |-> p])
  /\ UNCHANGED <<stored, stores, wins, mailed, user, second>>

SetExpiry(r, works) ==
  LET p == req[r].purpose IN
  /\ Step(r, "expire", "issue")
  /\ Try(works)
  /\ count' = IF works /\ count[p].n > 0 THEN [count EXCEPT ![p].ttl = TRUE] ELSE count
  /\ UNCHANGED <<stored, stores, wins, mailed, user, second>>

Stored == MapThenSumSet(LAMBDA t : stores[t], Tokens)

(* create_verification_token and create_password_reset_token, and the mail *)
(* that is sent whether or not the hash could be stored.                   *)
Issue(r, works) ==
  LET t == [purpose |-> req[r].purpose, second |-> second] IN
  /\ req[r].at = "issue"
  /\ Stored < MaxMails
  /\ Try(works)
  /\ stored' = IF works THEN stored \cup {t} ELSE stored
  /\ stores' = IF works THEN [stores EXCEPT ![t] = @ + 1] ELSE stores
  /\ mailed' = mailed \cup {t}
  /\ Go(r, Idle)
  /\ UNCHANGED <<count, wins, user, second>>

-----------------------------------------------------------------------------
(* verify_email and reset_password: a link that has expired, or is for the *)
(* other purpose, is refused at once with 400.                             *)
Redeem(r, t) ==
  /\ req[r] = Idle
  /\ t \in mailed
  /\ Go(r, [at |-> "get", token |-> t])
  /\ UNCHANGED <<redis, mailed, user, second, failed>>

(* _consume_token: the hash is read and, if it is there, deleted in        *)
(* another command.                                                        *)
GetHash(r, works) ==
  /\ req[r].at = "get"
  /\ Try(works)
  /\ Go(r, IF works /\ req[r].token \in stored THEN [req[r] EXCEPT !.at = "delete"] ELSE Idle)
  /\ UNCHANGED <<redis, mailed, user, second>>

DeleteHash(r, works) ==
  LET t == req[r].token IN
  /\ Step(r, "delete", "user")
  /\ Try(works)
  /\ stored' = IF works THEN stored \ {t} ELSE stored
  /\ wins' = [wins EXCEPT ![t] = @ + 1]
  /\ UNCHANGED <<count, stores, mailed, user, second>>

(* The link is spent by now; a user who was suspended meanwhile gets 404.  *)
LoadUser(r) ==
  /\ req[r].at = "user"
  /\ Go(r, IF req[r].token.purpose = "verify"
             THEN IF user.verified THEN Idle ELSE [req[r] EXCEPT !.at = "verify"]
             ELSE IF user.active THEN [req[r] EXCEPT !.at = "reset"] ELSE Idle)
  /\ UNCHANGED <<redis, mailed, user, second, failed>>

CommitVerified(r) ==
  /\ req[r].at = "verify"
  /\ user' = [user EXCEPT !.verified = TRUE]
  /\ Go(r, Idle)
  /\ UNCHANGED <<redis, mailed, second, failed>>

(* The password is committed; revoke_all_for_user, called next, does not   *)
(* exist, and the answer is 500.                                           *)
CommitPassword(r) ==
  /\ req[r].at = "reset"
  /\ user' = [user EXCEPT !.reset = TRUE]
  /\ Go(r, Idle)
  /\ UNCHANGED <<redis, mailed, second, failed>>

-----------------------------------------------------------------------------
(* Requests die; keys expire, the hash of a token with the token; accounts *)
(* are suspended and come back; the clock ticks.                           *)

Die(r) ==
  /\ req[r] # Idle
  /\ Go(r, Idle)
  /\ UNCHANGED <<redis, mailed, user, second, failed>>

WindowEnds(p) ==
  /\ count[p].ttl
  /\ count' = [count EXCEPT ![p] = [n |-> 0, ttl |-> FALSE]]
  /\ UNCHANGED <<stored, stores, wins, mailed, user, req, second, failed>>

TokenExpires(t) ==
  /\ t \in mailed /\ t.second < second
  /\ stored' = stored \ {t}
  /\ mailed' = mailed \ {t}
  /\ UNCHANGED <<count, stores, wins, user, req, second, failed>>

Suspend ==
  /\ user' = [user EXCEPT !.active = ~@]
  /\ UNCHANGED <<redis, mailed, req, second, failed>>

Tick ==
  /\ second < MaxSecond
  /\ second' = second + 1
  /\ UNCHANGED <<redis, mailed, user, req, failed>>

Serve(r) ==
  \/ \E p \in Purposes : Ask(r, p)
  \/ \E works \in Works : \/ CheckLimit(r, works)
                          \/ Count(r, works)
                          \/ SetExpiry(r, works)
                          \/ Issue(r, works)
                          \/ GetHash(r, works)
                          \/ DeleteHash(r, works)
  \/ \E t \in Tokens : Redeem(r, t)
  \/ LoadUser(r)
  \/ CommitVerified(r)
  \/ CommitPassword(r)
  \/ Die(r)

Next ==
  \/ \E r \in Requests : Serve(r)
  \/ \E p \in Purposes : WindowEnds(p)
  \/ \E t \in Tokens : TokenExpires(t)
  \/ Suspend
  \/ Tick

Spec == Init /\ [][Next]_vars

-----------------------------------------------------------------------------

Steps == [at : {"idle"}]
           \cup [at : {"limit", "count", "expire", "issue"}, purpose : Purposes]
           \cup [at : {"get", "delete", "user", "verify", "reset"}, token : Tokens]

TypeOK ==
  /\ count \in [Purposes -> [n : Nat, ttl : BOOLEAN]]
  /\ stored \subseteq Tokens /\ mailed \subseteq Tokens
  /\ user \in [verified : BOOLEAN, active : BOOLEAN, reset : BOOLEAN]
  /\ req \in [Requests -> Steps]
  /\ second \in 0 .. MaxSecond
  /\ stores \in [Tokens -> Nat] /\ wins \in [Tokens -> Nat]
  /\ failed \in BOOLEAN

Counting(p) == {r \in Requests : req[r].at = "count" /\ req[r].purpose = p}
Redeeming(t) == {r \in Requests : req[r].at = "delete" /\ req[r].token = t}

(* While Redis works, a window lets through the limit and, at most, one    *)
(* more mail for each further request that overlaps.                       *)
SendsBounded ==
  failed \/ \A p \in Purposes : count[p].n < Limit + Cardinality(Requests)

(* verification_token_service.py: the hash is deleted atomically, with a   *)
(* single-use guarantee, so each time a link is stored it is redeemed at   *)
(* most once, even while every Redis command works.                        *)
RedeemedOnce ==
  failed \/ \A t \in Tokens : wins[t] <= stores[t]

(* How far the code misses that claim: at most one redemption for each     *)
(* request that overlaps, each time the link is stored.                    *)
RedemptionsBounded ==
  failed \/ \A t \in Tokens : wins[t] <= stores[t] * Cardinality(Requests)

(* The inductive forms: the requests about to count, or to delete, are     *)
(* counted with those that have; and a hash that is still stored has let   *)
(* nobody in since it was stored last.                                     *)
SendsCounted ==
  failed \/ \A p \in Purposes : count[p].n + Cardinality(Counting(p)) < Limit + Cardinality(Requests)

RedemptionsCounted ==
  failed \/ \A t \in Tokens :
    wins[t] + (IF t \in stored THEN Cardinality(Requests) ELSE Cardinality(Redeeming(t)))
      <= stores[t] * Cardinality(Requests)

=============================================================================

----------------------------- MODULE SocialLogin -----------------------------
(***************************************************************************)
(* Signing in with Google or Apple: OAuthService over its repositories.    *)
(* Every Redis command, query and commit is a step; what a request has     *)
(* flushed and not committed is in its record and, for the UNIQUE keys,    *)
(* holds up others.                                                        *)
(*                                                                         *)
(* An identity is an account at a provider; the provider may report        *)
(* another e-mail address for it each time, Apple none at all.  Left out:  *)
(* URLs, signatures, names, pictures and the providers' own tokens.        *)
(***************************************************************************)
EXTENDS Integers, FiniteSets

CONSTANTS Requests,    \* callbacks and other requests at the same time
          Identities,  \* records [provider, uid]
          Emails,
          Cached,      \* whether there is a Redis: a set of booleans
          MaxStates    \* bound on the states handed out

SocialAssumption ==
  /\ \A i \in Identities : i.provider \in {"google", "apple"}
  /\ Cached \subseteq BOOLEAN /\ MaxStates \in Nat
  /\ "none" \notin Emails

VARIABLES
  users,    \* by e-mail address: "none", "local" (with a password), "social"
  active,   \* addresses whose user is active
  links,    \* oauth_accounts: the address an identity is linked to, or "none"
  states,   \* oauth_state keys in Redis, by provider
  issued,   \* states ever handed out
  cache,    \* whether there is a Redis
  signed,   \* sessions: which identity signed in to which address
  req

social == <<users, active, links, states, issued, cache, signed>>
vars == <<social, req>>

Idle == [at |-> "idle"]
Answer(c) == [at |-> "answered", code |-> c]

Init ==
  /\ users \in [Emails -> {"none", "local"}]
  /\ active = Emails
  /\ links = [i \in Identities |-> "none"]
  /\ states = {}
  /\ issued = 0
  /\ cache \in Cached
  /\ signed = {}
  /\ req = [r \in Requests |-> Idle]

Go(r, next) == req' = [req EXCEPT ![r] = next]

-----------------------------------------------------------------------------
(* oauth_authorize, generate_oauth_state.  Without Redis the state is not  *)
(* kept.                                                                   *)
Authorize(provider) ==
  /\ issued < MaxStates
  /\ issued' = issued + 1
  /\ states' = IF cache THEN states \cup {[provider |-> provider, n |-> issued]} ELSE states
  /\ UNCHANGED <<users, active, links, cache, signed, req>>

StateExpires(s) ==
  /\ states' = states \ {s}
  /\ UNCHANGED <<users, active, links, issued, cache, signed, req>>

(* google_callback, apple_callback: the state is read, and in another      *)
(* command deleted.                                                        *)
Callback(r, i, n) ==
  LET s == [provider |-> i.provider, n |-> n] IN
  /\ req[r] = Idle
  /\ Go(r, IF ~cache THEN [at |-> "exchange", identity |-> i]
           ELSE IF s \in states THEN [at |-> "consume", identity |-> i, state |-> s]
           ELSE Answer(401))
  /\ UNCHANGED social

ConsumeState(r) ==
  /\ req[r].at = "consume"
  /\ states' = states \ {req[r].state}
  /\ Go(r, [at |-> "exchange", identity |-> req[r].identity])
  /\ UNCHANGED <<users, active, links, issued, cache, signed>>

Confirmed(r, provider, email) ==
  /\ req[r].at = "exchange" /\ req[r].identity.provider = provider
  /\ Go(r, [at |-> "link", identity |-> req[r].identity, email |-> email])
  /\ UNCHANGED social

Refused(r, provider, code) ==
  /\ req[r].at = "exchange" /\ req[r].identity.provider = provider
  /\ Go(r, Answer(code))
  /\ UNCHANGED social

(* handle_google_callback: the code buys an ID token with an address, or   *)
(* the answer is 401; other failures are 502.                              *)
GoogleConfirms(r) == \E email \in Emails : Confirmed(r, "google", email)
GoogleFails(r) == \E code \in {401, 502} : Refused(r, "google", code)

(* handle_apple_callback: the ID token comes with the request, or is       *)
(* bought; there may be no address.                                        *)
AppleConfirms(r) == \E email \in Emails \cup {"none"} : Confirmed(r, "apple", email)
AppleFails(r) == \E code \in {401, 502} : Refused(r, "apple", code)

(* _get_or_create_user, 1: a linked identity signs in to its user.  The    *)
(* provider's tokens are replaced in the same transaction.                 *)
FindLink(r) ==
  LET i == req[r].identity IN
  /\ req[r].at = "link"
  /\ Go(r, IF links[i] = "none" THEN [req[r] EXCEPT !.at = "email"]
           ELSE IF links[i] \in active
           THEN [at |-> "login", identity |-> i, user |-> links[i], new |-> FALSE]
           ELSE Answer(401))
  /\ UNCHANGED social

(* 2 and 3: without a link, by the address. *)
FindEmail(r) ==
  LET i == req[r].identity   email == req[r].email IN
  /\ req[r].at = "email"
  /\ Go(r, IF email = "none" THEN Answer(401)
           ELSE IF users[email] = "none" THEN [req[r] EXCEPT !.at = "create"]
           ELSE IF email \in active THEN [at |-> "flush", identity |-> i, email |-> email, next |-> "login"]
           ELSE Answer(401))
  /\ UNCHANGED social

(* create_oauth_user commits; the address is UNIQUE. *)
CreateUser(r) ==
  LET email == req[r].email IN
  /\ req[r].at = "create"
  /\ IF users[email] = "none"
     THEN /\ users' = [users EXCEPT ![email] = "social"]
          /\ Go(r, [at |-> "flush", identity |-> req[r].identity, email |-> email, next |-> "token"])
     ELSE UNCHANGED users /\ Go(r, Answer(502))
  /\ UNCHANGED <<active, links, states, issued, cache, signed>>

Flushed(i) == \E q \in Requests : req[q].at \in {"login", "token"} /\ req[q].new /\ req[q].identity = i

(* Mutant: a link that exists is left as it is, and taken for the new one. *)
FlushLinkIfAbsent(r) ==
  LET i == req[r].identity IN
  /\ req[r].at = "flush" /\ ~Flushed(i)
  /\ Go(r, [at |-> req[r].next, identity |-> i, user |-> req[r].email, new |-> links[i] = "none"])
  /\ UNCHANGED social

(* oauth_repo.create flushes and does not commit: (provider, uid) is       *)
(* UNIQUE, and waits for another request that has flushed the same one.    *)
FlushLink(r) ==
  LET i == req[r].identity IN
  /\ req[r].at = "flush" /\ ~Flushed(i)
  /\ Go(r, IF links[i] = "none"
           THEN [at |-> req[r].next, identity |-> i, user |-> req[r].email, new |-> TRUE]
           ELSE Answer(502))
  /\ UNCHANGED social

CommitLink(r) == links' = IF req[r].new THEN [links EXCEPT ![req[r].identity] = req[r].user] ELSE links

(* update_last_login commits, for a user who was there before, the link.   *)
CommitLogin(r) ==
  /\ req[r].at = "login"
  /\ CommitLink(r)
  /\ Go(r, [req[r] EXCEPT !.at = "token", !.new = FALSE])
  /\ UNCHANGED <<users, active, states, issued, cache, signed>>

(* _issue_app_tokens: the refresh token's commit is a new user's link's.   *)
IssueTokens(r) ==
  /\ req[r].at = "token"
  /\ CommitLink(r)
  /\ signed' = signed \cup {[identity |-> req[r].identity, user |-> req[r].user]}
  /\ Go(r, Answer(200))
  /\ UNCHANGED <<users, active, states, issued, cache>>

-----------------------------------------------------------------------------
(* unlink_provider.  A user without a password has to keep another link.   *)
(* The UPDATE is never committed: the answer is 200, and the link stays.   *)
LinksOf(email) == {i \in Identities : links[i] = email}

Unlink(r, email, provider) ==
  LET mine == LinksOf(email)
      theirs == {i \in mine : i.provider = provider}
  IN
  /\ req[r] = Idle
  /\ users[email] # "none" /\ email \in active
  /\ Go(r, IF users[email] = "social" /\ mine = theirs THEN Answer(400)
           ELSE IF theirs = {} THEN Answer(404) ELSE Answer(200))
  /\ UNCHANGED social

ListLinked(r, email) ==
  /\ req[r] = Idle
  /\ email \in active
  /\ Go(r, [at |-> "listed", providers |-> {i.provider : i \in LinksOf(email)}])
  /\ UNCHANGED social

(* A user registers with a password, is suspended or comes back; a request *)
(* dies, and with it what it has only flushed.                             *)
Register(email) ==
  /\ users[email] = "none"
  /\ users' = [users EXCEPT ![email] = "local"]
  /\ UNCHANGED <<active, links, states, issued, cache, signed, req>>

Suspend(email) ==
  /\ users[email] # "none"
  /\ active' = IF email \in active THEN active \ {email} ELSE active \cup {email}
  /\ UNCHANGED <<users, links, states, issued, cache, signed, req>>

Finish(r) ==
  /\ req[r] # Idle
  /\ Go(r, Idle)
  /\ UNCHANGED social

Serve(r) ==
  \/ \E i \in Identities, n \in 0 .. issued : Callback(r, i, n)
  \/ ConsumeState(r)
  \/ GoogleConfirms(r) \/ GoogleFails(r)
  \/ AppleConfirms(r) \/ AppleFails(r)
  \/ FindLink(r)
  \/ FindEmail(r)
  \/ CreateUser(r)
  \/ FlushLink(r)
  \/ CommitLogin(r)
  \/ IssueTokens(r)
  \/ \E email \in Emails : ListLinked(r, email) \/ \E p \in {"google", "apple"} : Unlink(r, email, p)
  \/ Finish(r)

Next ==
  \/ \E p \in {"google", "apple"} : Authorize(p)
  \/ \E s \in states : StateExpires(s)
  \/ \E email \in Emails : Register(email) \/ Suspend(email)
  \/ \E r \in Requests : Serve(r)

Spec == Init /\ [][Next]_vars

-----------------------------------------------------------------------------

TypeOK ==
  /\ users \in [Emails -> {"none", "local", "social"}]
  /\ active \subseteq Emails
  /\ links \in [Identities -> Emails \cup {"none"}]
  /\ states \subseteq [provider : {"google", "apple"}, n : 0 .. MaxStates]
  /\ issued \in 0 .. MaxStates
  /\ cache \in BOOLEAN
  /\ signed \subseteq [identity : Identities, user : Emails]
  /\ \A r \in Requests : req[r].at \in {"idle", "consume", "exchange", "link", "email", "create",
                                        "flush", "login", "token", "answered", "listed"}

(* An identity is only ever signed in to the user it is linked to, however *)
(* callbacks of one identity, reporting different addresses, overlap: two  *)
(* users never share an identity.                                          *)
SignedInAsLinked == \A s \in signed : links[s.identity] = s.user

=============================================================================

------------------------------ MODULE WebSession ------------------------------
(***************************************************************************)
(* The web client's refresh token: the interceptor of services/api.js, the *)
(* initAuth, refreshSession, login and logout of store/authStore.js, and   *)
(* utils/tokenManager.js, against the refresh route.  Pages of a browser   *)
(* share one local storage, and any of them may be presenting its token    *)
(* when another one replaces or clears it.                                 *)
(*                                                                         *)
(* The server is SessionStore, which AuthSessions implements.  A token is  *)
(* a number, 0 when none is stored.  Access tokens are left out: one may   *)
(* be found expired, by the client or by the server, at any time.          *)
(***************************************************************************)
EXTENDS Integers, FiniteSets

CONSTANTS Pages,     \* open pages of one browser
          Calls,     \* calls of the refresh route that may overlap
          MaxTokens  \* bound on the tokens issued

WebAssumption == MaxTokens \in Nat

Tokens == 1 .. MaxTokens

VARIABLES
  live, retired, granted,  \* the server's, see SessionStore
  kept,                    \* the refresh token in local storage
  calls,                   \* per call, what it presents and how far it is
  excused                  \* tokens the server ended by itself, and those
                           \* presented by a page that was closed since

Store == INSTANCE SessionStore WITH Requests <- Calls

webVars == <<live, retired, granted, kept, calls, excused>>

(* A call is sent by the interceptor ("retry"), by initAuth ("load"), or   *)
(* by refreshSession ("renew"); the last goes through the interceptor,     *)
(* which answers its 401 with a call of its own ("again") and then repeats *)
(* the original one ("replay").                                            *)
Idle == [at |-> "idle"]
Asked(p, way, token, body) ==
  [at |-> "asked", page |-> p, way |-> way, sent |-> token, body |-> body, got |-> 0, awaited |-> TRUE]

Init ==
  /\ Store!Init
  /\ kept = 0
  /\ calls = [c \in Calls |-> Idle]
  /\ excused = {}

Becomes(c, value) == calls' = [calls EXCEPT ![c] = value]
ServerUnchanged == UNCHANGED <<live, retired, granted>>
ClientUnchanged == UNCHANGED <<kept, excused>>

New == Cardinality(live \cup retired) + 1

-----------------------------------------------------------------------------
(* The client asks *)

Ask(c, p, way) ==
  /\ calls[c] = Idle /\ kept # 0
  /\ Becomes(c, Asked(p, way, kept, kept))
  /\ ServerUnchanged /\ ClientUnchanged

Unauthorized(c, p) == Ask(c, p, "retry")  \* some request was answered 401
InitAuth(c, p) == Ask(c, p, "load")
RefreshSession(c, p) == Ask(c, p, "renew")

(* An answer to log-in is stored, or never arrives. *)
SignIn ==
  /\ New \in Tokens /\ Store!Issue(New)
  /\ kept' \in {kept, New}
  /\ UNCHANGED <<calls, excused>>

(* Only local storage is cleared; the server is not told.  The timer that  *)
(* sees an access token expire does the same.                              *)
LogOut ==
  /\ kept # 0 /\ kept' = 0
  /\ ServerUnchanged /\ UNCHANGED <<calls, excused>>

-----------------------------------------------------------------------------
(* The server answers, whether or not anyone still waits *)

Leaves(c, call) == Becomes(c, IF call.awaited THEN call ELSE Idle)

Validate(c) ==
  /\ calls[c].at = "asked"
  /\ IF calls[c].sent \in live
     THEN Store!Grant(c, calls[c].sent) /\ Becomes(c, [calls[c] EXCEPT !.at = "found"])
     ELSE ServerUnchanged /\ Leaves(c, [calls[c] EXCEPT !.at = "denied"])
  /\ ClientUnchanged

Rotate(c) ==
  /\ calls[c].at = "found" /\ New \in Tokens
  /\ Store!Exchange(c, calls[c].sent, New)
  /\ Leaves(c, [calls[c] EXCEPT !.at = "answered", !.got = New])
  /\ ClientUnchanged

(* The account is refused with 401, or the server fails. *)
Fail(c) ==
  /\ \/ calls[c].at = "asked" /\ ServerUnchanged
     \/ calls[c].at = "found" /\ Store!Refuse(c, calls[c].sent)
  /\ \E outcome \in {"denied", "failed"} : Leaves(c, [calls[c] EXCEPT !.at = outcome])
  /\ ClientUnchanged

(* Another device's password reset or log-out, the purge, or time ends t. *)
ServerEnds(t) ==
  /\ t \in live /\ Store!Retire({t})
  /\ excused' = excused \cup {t}
  /\ UNCHANGED <<kept, calls>>

-----------------------------------------------------------------------------
(* The client hears *)

(* Mutant: the token that was sent is stored with the new access token. *)
StoredOld(c) == calls[c].sent

(* What storeToken is given of an answer. *)
Stored(c) == calls[c].got

(* The answer is stored.  The interceptor then repeats the original call,  *)
(* with the token that was in its body; initAuth fetches the user.         *)
Hear(c) ==
  /\ calls[c].at = "answered"
  /\ kept' = Stored(c)
  /\ Becomes(c, CASE calls[c].way = "again" -> Asked(calls[c].page, "replay", calls[c].body, calls[c].body)
                  [] calls[c].way = "load" -> [calls[c] EXCEPT !.at = "user"]
                  [] OTHER -> Idle)
  /\ ServerUnchanged /\ UNCHANGED excused

(* Without a user, initAuth gives the new token up as well. *)
FetchUser(c) ==
  /\ calls[c].at = "user"
  /\ kept' \in {kept, 0}
  /\ Becomes(c, Idle)
  /\ ServerUnchanged /\ UNCHANGED excused

(* A 401 to refreshSession is met by presenting the token stored by now. *)
Again(c) ==
  /\ calls[c].at = "denied" /\ calls[c].way = "renew" /\ kept # 0
  /\ Becomes(c, Asked(calls[c].page, "again", kept, calls[c].body))
  /\ ServerUnchanged /\ ClientUnchanged

(* Any other error clears the storage, whatever token is in it by now. *)
GiveUp(c) ==
  /\ calls[c].at = "failed" \/ (calls[c].at = "denied" /\ (calls[c].way = "renew" => kept = 0))
  /\ kept' = 0
  /\ Becomes(c, Idle)
  /\ ServerUnchanged /\ UNCHANGED excused

(* A call as the server knows it once nobody waits for its answer. *)
Abandoned(call) == IF call.at \in {"asked", "found"} THEN [call EXCEPT !.awaited = FALSE] ELSE Idle
Waiting(c) == calls[c].at \in {"asked", "found", "answered"} /\ calls[c].awaited

(* The network loses the call or its answer: an error like the others. *)
Lost(c) ==
  /\ Waiting(c)
  /\ kept' = 0
  /\ Becomes(c, Abandoned(calls[c]))
  /\ ServerUnchanged /\ UNCHANGED excused

(* The page is closed, reloaded, or sent to another address. *)
Unload(p) ==
  LET its == {c \in Calls : calls[c] # Idle /\ calls[c].page = p /\ calls[c].awaited} IN
  /\ its # {}
  /\ calls' = [c \in Calls |-> IF c \in its THEN Abandoned(calls[c]) ELSE calls[c]]
  /\ excused' = excused \cup {calls[c].sent : c \in {c \in its : Waiting(c)}}
  /\ ServerUnchanged /\ UNCHANGED kept

Next ==
  \/ \E c \in Calls, p \in Pages : Unauthorized(c, p) \/ InitAuth(c, p) \/ RefreshSession(c, p)
  \/ SignIn \/ LogOut
  \/ \E c \in Calls : \/ Validate(c) \/ Rotate(c) \/ Fail(c)
                      \/ Hear(c) \/ FetchUser(c) \/ Again(c) \/ GiveUp(c) \/ Lost(c)
  \/ \E t \in Tokens : ServerEnds(t)
  \/ \E p \in Pages : Unload(p)

Spec == Init /\ [][Next]_webVars

-----------------------------------------------------------------------------
(* The stored token was issued, and grants are those of calls in progress. *)
TypeOK ==
  /\ live \cup retired \subseteq Tokens /\ live \cap retired = {}
  /\ kept \in {0} \cup live \cup retired
  /\ excused \subseteq live \cup retired
  /\ granted = {<<c, calls[c].sent>> : c \in {c \in Calls : calls[c].at = "found"}}

(* However pages and calls overlap, and whatever is lost: a browser is     *)
(* left with a token that was used up only while the answer that replaces  *)
(* it is on its way, or after the page that waited for it was closed.      *)
StoredIsLive ==
  kept \in retired =>
    \/ kept \in excused
    \/ \E c \in Calls : calls[c].at = "answered" /\ calls[c].sent = kept
=============================================================================

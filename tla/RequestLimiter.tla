--------------------------- MODULE RequestLimiter ---------------------------
(***************************************************************************)
(* The rate limit on every request: rate_limit_middleware of main.py, the  *)
(* RateLimitMiddleware it delegates to and RedisRateLimiter.               *)
(*                                                                         *)
(* A key's requests are the members of a sorted set, scored with the time  *)
(* that the process read; one script removes the old ones, counts the rest *)
(* and adds the new one.  A process reads its own clock and waits for      *)
(* Redis after that, so that scores lag behind the time of the script by   *)
(* up to Lag.  Within a script math.random gives the same number every     *)
(* time, so a member is known by its score alone; and Lua writes the score *)
(* into the member with four decimals, so a tick stands for a tenth of a   *)
(* millisecond.                                                            *)
(*                                                                         *)
(* Limits and windows differ between rules only in number; one pair stands *)
(* for them.  Left out: headers other than the remaining count, and a      *)
(* Redis whose memory is full (allkeys-lru): a key it evicts starts over.  *)
(***************************************************************************)
EXTENDS Integers, FiniteSets

CONSTANTS Users,     \* subjects of bearer tokens
          Addresses, \* addresses of clients
          Endpoints, \* the paths requested, up to what the rules tell apart
          Limit,     \* requests of a key allowed in a window
          Window,    \* length of the window
          Lag,       \* how far a score may lie behind the time of its script
          MaxClock   \* bound on the time

ASSUME LimiterAssumption ==
  /\ Limit \in Nat \ {0} /\ Window \in Nat \ {0} /\ Lag \in 0 .. Window /\ MaxClock \in Nat
  /\ Users \cap Addresses = {}

VARIABLES
  clock,
  log,      \* the scores in each key's sorted set
  expires,  \* when Redis drops the key
  asking,   \* the keys whose remaining count is being asked for
  admitted, \* every request a script has let through: key, time and score
  answer    \* what the last request was told

vars == <<clock, log, expires, asking, admitted, answer>>

Groups == {"auth_login", "auth_register", "auth_forgot", "auth_refresh", "auth_oauth", "exports",
           "analytics", "api", "public"}
Identifiers == Users \cup Addresses
Keys == Groups \X Identifiers

Excluded == {"health", "metrics", "docs", "redoc", "openapi.json"}

Init ==
  /\ clock = Lag
  /\ log = [k \in Keys |-> {}]
  /\ expires = [k \in Keys |-> 0]
  /\ asking = {}
  /\ admitted = {}
  /\ answer = [status |-> "passed", remaining |-> 0]

-----------------------------------------------------------------------------
(* The most specific rule for a path; two of the paths share their group.  *)
RuleGroup(endpoint, authenticated) ==
  CASE endpoint \in {"auth_login", "auth_register", "auth_forgot", "auth_refresh", "auth_oauth", "exports"} -> endpoint
    [] endpoint \in {"expenses/analytics", "expenses/trends"} -> "analytics"
    [] OTHER -> IF authenticated THEN "api" ELSE "public"

(* _get_identifier: the subject of the bearer token if there is one, else  *)
(* the address.                                                            *)
ScopedKey(endpoint, identifier) == <<RuleGroup(endpoint, identifier \in Users), identifier>>

Live(k) == IF clock < expires[k] THEN log[k] ELSE {}

(* ZREMRANGEBYSCORE 0 window_start *)
Kept(k, now) == {s \in Live(k) : s > now - Window}

(* Mutant: the count is compared after the member is added. *)
MayPassOne(k, now) == Cardinality(Kept(k, now)) <= Limit

MayPass(k, now) == Cardinality(Kept(k, now)) < Limit

Tell(status, remaining) == answer' = [status |-> status, remaining |-> remaining]

(* The script, for a request that may pass: call_next runs the route. *)
Admit(k, now) ==
  /\ MayPass(k, now)
  /\ log' = [log EXCEPT ![k] = Kept(k, now) \cup {now}]
  /\ expires' = [expires EXCEPT ![k] = clock + Window]
  /\ admitted' = admitted \cup {[key |-> k, at |-> clock, score |-> now]}
  /\ Tell("passed", Limit - (Cardinality(Kept(k, now)) + 1))
  /\ UNCHANGED <<clock, asking>>

(* The script, for one that may not: 429. *)
Refuse(k, now) ==
  /\ ~MayPass(k, now)
  /\ log' = [log EXCEPT ![k] = Kept(k, now)]
  /\ Tell("refused", 0)
  /\ UNCHANGED <<clock, expires, asking, admitted>>

Request(endpoint, identifier) ==
  /\ endpoint \notin Excluded
  /\ \E now \in clock - Lag .. clock :
       LET k == ScopedKey(endpoint, identifier) IN Admit(k, now) \/ Refuse(k, now)

(* The script fails: the request passes and is not counted. *)
FailOpen(endpoint) ==
  /\ endpoint \notin Excluded
  /\ Tell("passed", Limit)
  /\ UNCHANGED <<clock, log, expires, asking, admitted>>

(* An excluded path, or no limiter since Redis was down at the start. *)
PassUnlimited ==
  /\ Tell("passed", 0)
  /\ UNCHANGED <<clock, log, expires, asking, admitted>>

(* get_remaining removes what is old and, in a second command, counts.  An *)
(* error in either makes it answer with the whole limit.                   *)
GetRemaining(k) ==
  /\ \E now \in clock - Lag .. clock : log' = [log EXCEPT ![k] = Kept(k, now)]
  /\ asking' = asking \cup {k}
  /\ UNCHANGED <<clock, expires, admitted, answer>>

CountRemaining(k) ==
  /\ k \in asking
  /\ LET left == Limit - Cardinality(Live(k)) IN Tell("asked", IF left > 0 THEN left ELSE 0)
  /\ asking' = asking \ {k}
  /\ UNCHANGED <<clock, log, expires, admitted>>

RemainingFails(k) ==
  /\ Tell("asked", Limit)
  /\ asking' = asking \ {k}
  /\ UNCHANGED <<clock, log, expires, admitted>>

(* reset forgets a key, and with it what it admitted. *)
Reset(k) ==
  /\ log' = [log EXCEPT ![k] = {}]
  /\ expires' = [expires EXCEPT ![k] = 0]
  /\ admitted' = {a \in admitted : a.key # k}
  /\ UNCHANGED <<clock, asking, answer>>

Tick == clock < MaxClock /\ clock' = clock + 1 /\ UNCHANGED <<log, expires, asking, admitted, answer>>

UsedKeys == {ScopedKey(e, i) : e \in Endpoints \ Excluded, i \in Identifiers}

Next ==
  \/ \E e \in Endpoints, i \in Identifiers : Request(e, i)
  \/ \E e \in Endpoints : FailOpen(e)
  \/ PassUnlimited
  \/ \E k \in UsedKeys : GetRemaining(k) \/ CountRemaining(k) \/ RemainingFails(k) \/ Reset(k)
  \/ Tick

Spec == Init /\ [][Next]_vars

-----------------------------------------------------------------------------
Admissions == [key : Keys, at : Nat, score : Nat]

(* The sorted sets, their expiry, the history and the answer have their types. *)
TypeOK ==
  /\ clock \in Nat
  /\ log \in [Keys -> SUBSET Nat]
  /\ expires \in [Keys -> Nat]
  /\ asking \subseteq Keys
  /\ admitted \subseteq Admissions
  /\ answer \in [status : {"passed", "refused", "asked"}, remaining : Nat]

Recent(a) == {b \in admitted : b.key = a.key /\ b.at <= a.at /\ b.at > a.at - (Window - Lag)}
Scores(S) == {b.score : b \in S}

(* The limit holds in every window and not only in windows that the code   *)
(* happens to cut: since the last reset, a key's requests that went        *)
(* through a script during any time shorter by Lag than the window had no  *)
(* more than Limit different scores.                                       *)
WindowRespected == \A a \in admitted : Cardinality(Scores(Recent(a))) <= Limit
=============================================================================

------------------------------ MODULE MCAccounts ------------------------------
(***************************************************************************)
(* What surrounds the sessions of an account, for TLC.  A behaviour        *)
(* exercises one of the services: mailed links, the same with a Redis      *)
(* command that fails, social log-in, the second factor, the account's     *)
(* life, or the web client's session; they share only the requests here.   *)
(*                                                                         *)
(* One mail per window, so that two overlapping requests exceed the limit; *)
(* two seconds, so that a link may be made anew, or twice, in one; and two *)
(* addresses, so that a provider can report another one.  Two pages and    *)
(* three refresh tokens, so that a token and its successor may both be     *)
(* presented.  AccountsProofs holds for any values of these constants.     *)
(***************************************************************************)
EXTENDS OneTimeTokens, TLC

CONSTANTS MaxFailing,                      \* bound on the links stored when a command may fail
          Uids, Emails, MaxStates,         \* see SocialLogin
          KeySet, MaxSecrets, MaxKeys,     \* see TwoFactor
          Tables, MaxChanges,              \* see AccountLifecycle
          Pages, MaxTokens                 \* see WebSession

VARIABLES service,
          users, active, links, states, issued, cache, signed,
          columns, phone, key, last,
          row, profile, data, token, blocked, changes, outside,
          live, retired, granted, kept, calls, excused

linkVars == <<count, stored, mailed, user, second, stores, wins, failed>>
socialVars == <<users, active, links, states, issued, cache, signed>>
factorVars == <<columns, phone, key, last>>
lifeVars == <<row, profile, data, token, blocked, changes, outside>>
webVars == <<live, retired, granted, kept, calls, excused>>

accountsVars == <<vars, service, socialVars, factorVars, lifeVars, webVars>>

Identities == [provider : {"google", "apple"}, uid : Uids]

Social == INSTANCE SocialLogin WITH Cached <- BOOLEAN
Factor == INSTANCE TwoFactor
Life == INSTANCE AccountLifecycle WITH SoftDeletes <- BOOLEAN
Web == INSTANCE WebSession WITH Calls <- Requests

ASSUME AccountsAssumption ==
  /\ Social!SocialAssumption /\ Factor!TwoFactorAssumption
  /\ Life!LifecycleAssumption /\ Web!WebAssumption

SocialStart ==
  IF service = "social" THEN Social!Init
  ELSE /\ users = "unused" /\ active = {} /\ links = "unused" /\ states = {}
       /\ issued = 0 /\ cache = FALSE /\ signed = {}

LifeStart ==
  IF service = "life" THEN Life!Init
  ELSE /\ row = "unused" /\ profile = "none" /\ data = "unused" /\ token = "none"
       /\ blocked = FALSE /\ changes = 0 /\ outside = {}

AccountsInit ==
  /\ service \in {"links", "failing", "social", "factor", "life", "web"}
  /\ Init
  /\ SocialStart
  /\ Factor!Init
  /\ LifeStart
  /\ Web!Init

(* More links are followed while Redis works than when a command may fail. *)
LinkStep == service = "links" /\ Next /\ ~failed' /\ UNCHANGED <<service, socialVars, factorVars, lifeVars, webVars>>
FailingStep == /\ service = "failing" /\ Next /\ Stored' <= MaxFailing
               /\ UNCHANGED <<service, socialVars, factorVars, lifeVars, webVars>>
SocialStep == service = "social" /\ Social!Next /\ UNCHANGED <<service, linkVars, factorVars, lifeVars, webVars>>
FactorStep == service = "factor" /\ Factor!Next /\ UNCHANGED <<service, linkVars, socialVars, lifeVars, webVars>>
LifeStep == service = "life" /\ Life!Next /\ UNCHANGED <<service, linkVars, socialVars, factorVars, webVars>>
WebStep == service = "web" /\ Web!Next /\ UNCHANGED <<service, vars, socialVars, factorVars, lifeVars>>

AccountsNext == LinkStep \/ FailingStep \/ SocialStep \/ FactorStep \/ LifeStep \/ WebStep

AccountsSpec == AccountsInit /\ [][AccountsNext]_accountsVars

(* Rows, keys and requests have their types. *)
AccountsTypeOK == CASE service \in {"links", "failing"} -> TypeOK
                    [] service = "social" -> Social!TypeOK
                    [] service = "factor" -> Factor!TypeOK
                    [] service = "life" -> Life!TypeOK
                    [] service = "web" -> Web!TypeOK

(* See SocialLogin, AccountLifecycle and WebSession. *)
SignedInAsLinked == service = "social" => Social!SignedInAsLinked
AdmittedWasActive == service = "life" => Life!AdmittedWasActive
StoredIsLive == service = "web" => Web!StoredIsLive

Symmetry == Permutations(Requests)
=============================================================================

--------------------------- MODULE AccountLifecycle ---------------------------
(***************************************************************************)
(* One account from registration to erasure: the gate every request with   *)
(* an access token passes (get_current_user and its token-user cache), the *)
(* profile, log-out, suspension by an administrator, export, erasure and   *)
(* the retention sweep.  Users are in one database, profiles and finances  *)
(* in another.  Every cache command, query and commit is a step.           *)
(*                                                                         *)
(* delete_user_account has two callers and neither gets to it: the route   *)
(* fails on the hasher's missing method, and the sweep on its cutoff, a    *)
(* time with a zone for a column without.  It may run at any time here.    *)
(***************************************************************************)
EXTENDS Integers, FiniteSets

CONSTANTS Requests,
          Tables,      \* tables that hold the user's finances: how many
          SoftDeletes, \* whether they have a deleted_at: a set of booleans
          MaxChanges   \* bound on the suspensions

LifecycleAssumption == Tables \in Nat /\ SoftDeletes \subseteq BOOLEAN /\ MaxChanges \in Nat

VARIABLES
  row,      \* the users row: exists, active, anonymised
  profile,  \* the user_profiles row: "none", "made", "edited"
  data,     \* the finances: "kept" or "deleted"; and whether they can be
  token,    \* the token_user key: "none", or what it says of is_active
  blocked,  \* the user_blacklist key
  changes,
  req,
  outside   \* history: requests that began after the account was suspended,
            \* and since when it has not been active again

account == <<row, profile, data, token, blocked, changes, outside>>
vars == <<account, req>>

Idle == [at |-> "idle"]
Answer(c) == [at |-> "answered", code |-> c]

Init ==
  /\ row = [exists |-> FALSE, active |-> FALSE, anonymised |-> FALSE]
  /\ profile = "none"
  /\ data \in [state : {"kept"}, deletable : SoftDeletes]
  /\ token = "none"
  /\ blocked = FALSE
  /\ changes = 0
  /\ req = [r \in Requests |-> Idle]
  /\ outside = {}

Go(r, next) == req' = [req EXCEPT ![r] = next]
Step(r, from, next) == req[r].at = from /\ Go(r, next)

-----------------------------------------------------------------------------
(* register: the user is looked for and committed, then the profile.       *)

LookUpEmail(r) ==
  /\ ~row.anonymised
  /\ Step(r, "idle", IF row.exists THEN Answer(400) ELSE [at |-> "insert"])
  /\ UNCHANGED account

(* The address is UNIQUE.  Once the user is erased, the address belongs to *)
(* another account, which is left out.                                     *)
InsertUser(r) ==
  /\ req[r].at = "insert"
  /\ IF row.exists
     THEN Go(r, Answer(500)) /\ UNCHANGED row
     ELSE Go(r, [at |-> "profile"]) /\ row' = [row EXCEPT !.exists = TRUE, !.active = TRUE]
  /\ UNCHANGED <<profile, data, token, blocked, changes, outside>>

InsertProfile(r) ==
  /\ Step(r, "profile", Answer(201))
  /\ profile' = "made"
  /\ UNCHANGED <<row, data, token, blocked, changes, outside>>

-----------------------------------------------------------------------------
(* get_current_user *)

(* Mutant: the cached user can be used. *)
UsableOnce == TRUE

(* _build_user_from_cache assigns to an instance made by __new__, which    *)
(* SQLAlchemy refuses; the error is swallowed, and every hit is a miss.    *)
Usable == FALSE

(* A request with the user's access token, which outlives suspensions.     *)
ReadCache(r) ==
  /\ row.exists
  /\ Step(r, "idle", IF token = "none" \/ ~Usable THEN [at |-> "load"]
                     ELSE IF token = "active" THEN [at |-> "admitted"] ELSE Answer(403))
  /\ outside' = IF row.active THEN outside \ {r} ELSE outside \cup {r}
  /\ UNCHANGED <<row, profile, data, token, blocked, changes>>

LoadUser(r) ==
  /\ Step(r, "load", IF ~row.exists THEN Answer(401)
                     ELSE IF row.active THEN [at |-> "fill"] ELSE Answer(403))
  /\ UNCHANGED account

(* The key is set, if Redis works, and nothing deletes it before its time. *)
FillCache(r) ==
  /\ Step(r, "fill", [at |-> "admitted"])
  /\ token' \in {token, "active"}
  /\ UNCHANGED <<row, profile, data, blocked, changes, outside>>

-----------------------------------------------------------------------------
(* What an admitted request does. *)

(* get_me falls back to the user's own columns without a profile. *)
GetMe(r) ==
  /\ Step(r, "admitted", [at |-> "me", profile |-> profile])
  /\ UNCHANGED account

UpdateProfile(r) ==
  /\ Step(r, "admitted", Answer(IF profile = "none" THEN 404 ELSE 200))
  /\ profile' = IF profile = "none" THEN profile ELSE "edited"
  /\ UNCHANGED <<row, data, token, blocked, changes, outside>>

(* logout_user: a key that no request reads. *)
LogOut(r) ==
  /\ Step(r, "admitted", Answer(200))
  /\ blocked' \in {blocked, TRUE}
  /\ UNCHANGED <<row, profile, data, token, changes, outside>>

(* delete_account *)
DeleteAccount(r) ==
  /\ Step(r, "admitted", Answer(500))
  /\ UNCHANGED account

(* export_user_data: a table that can't be read is exported as empty, and  *)
(* so is every table after it, in the transaction that failed.             *)
Export(r) ==
  /\ \E read \in 0 .. Tables :
       Step(r, "admitted", [at |-> "exported", tables |-> IF data.deletable THEN read ELSE 0])
  /\ UNCHANGED account

-----------------------------------------------------------------------------
(* suspend_user, by somebody else: one commit, and the token-user key is   *)
(* left as it is.  An erased account can be made active again.             *)
SetActive(active) ==
  /\ row.exists /\ changes < MaxChanges
  /\ row' = [row EXCEPT !.active = active]
  /\ outside' = IF active THEN {} ELSE outside
  /\ changes' = changes + 1
  /\ UNCHANGED <<profile, data, token, blocked, req>>

(* delete_user_account: the user is anonymised in one database, and then   *)
(* the finances are soft-deleted in the other.                             *)
Anonymise(r) ==
  /\ row.exists
  /\ Step(r, "idle", [at |-> "erase"])
  /\ row' = [row EXCEPT !.active = FALSE, !.anonymised = TRUE]
  /\ UNCHANGED <<profile, data, token, blocked, changes, outside>>

(* Without the columns, or if the audit table is missing, which aborts the *)
(* transaction, nothing is deleted.  The profile stays in any case.        *)
EraseData(r) ==
  /\ Step(r, "erase", Idle)
  /\ \E audited \in BOOLEAN :
       data' = IF data.deletable /\ audited THEN [data EXCEPT !.state = "deleted"] ELSE data
  /\ UNCHANGED <<row, profile, token, blocked, changes, outside>>

(* purge_inactive_accounts looks for inactive accounts that haven't been   *)
(* anonymised; the query fails, and the task reports an error.             *)
Sweep(r) ==
  /\ Step(r, "idle", [at |-> "swept", purged |-> 0])
  /\ UNCHANGED account

KeyExpires ==
  /\ \/ token' = "none" /\ UNCHANGED blocked
     \/ blocked' = FALSE /\ UNCHANGED token
  /\ UNCHANGED <<row, profile, data, changes, req, outside>>

Finish(r) ==
  /\ req[r] # Idle
  /\ Go(r, Idle)
  /\ UNCHANGED account

Serve(r) ==
  \/ LookUpEmail(r)
  \/ InsertUser(r)
  \/ InsertProfile(r)
  \/ ReadCache(r)
  \/ LoadUser(r)
  \/ FillCache(r)
  \/ GetMe(r)
  \/ UpdateProfile(r)
  \/ LogOut(r)
  \/ DeleteAccount(r)
  \/ Export(r)
  \/ Anonymise(r)
  \/ EraseData(r)
  \/ Sweep(r)
  \/ Finish(r)

Next ==
  \/ \E r \in Requests : Serve(r)
  \/ \E active \in BOOLEAN : SetActive(active)
  \/ KeyExpires

Spec == Init /\ [][Next]_vars

-----------------------------------------------------------------------------

TypeOK ==
  /\ row \in [exists : BOOLEAN, active : BOOLEAN, anonymised : BOOLEAN]
  /\ profile \in {"none", "made", "edited"}
  /\ data \in [state : {"kept", "deleted"}, deletable : BOOLEAN]
  /\ token \in {"none", "active"}
  /\ blocked \in BOOLEAN
  /\ changes \in 0 .. MaxChanges
  /\ outside \subseteq Requests
  /\ \A r \in Requests : req[r].at \in {"idle", "answered", "insert", "profile", "load", "fill", "admitted",
                                        "me", "exported", "erase", "swept"}

(* A request is admitted only if the account was active at some time since *)
(* it began, whatever the token-user key still says of it: a suspension,   *)
(* once committed, shuts out every request that comes after it.            *)
AdmittedWasActive == \A r \in outside : req[r].at # "admitted"

=============================================================================

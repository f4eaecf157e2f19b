---------------------------- MODULE LoginLockout ----------------------------
(***************************************************************************)
(* The lockout of one e-mail address after failed log-ins: authenticate_   *)
(* user and its helpers over RedisCache.  The counter lockout:{email} is   *)
(* read in one command, incremented in another after the password check,   *)
(* and given its expiry in a third.  Addresses have keys of their own and  *)
(* don't affect each other.                                                *)
(***************************************************************************)
EXTENDS Integers, FiniteSets, Functions

CONSTANTS Requests,     \* log-ins being served at the same time
          MaxFailures,  \* _FAILED_LOGIN_MAX
          Window,       \* _FAILED_LOGIN_WINDOW, in steps of the clock
          MaxOpen       \* bound on the reads that fail in a run

ASSUME LimitsAssumption ==
  /\ MaxFailures \in Nat \ {0}
  /\ Window \in Nat \ {0}
  /\ MaxOpen \in Nat

ASSUME RequestsAssumption == IsFiniteSet(Requests)

VARIABLES
  counter,   \* the key's value; 0 if there is no key
  ttl,       \* what is left of the key's life; 0 if it has no expiry
  pc,        \* the requests: past the check, or about to set the expiry
  orphaned,  \* history: the key has no expiry, its EXPIRE never ran
  opened,    \* history: how many checks failed open
  recent     \* history: recorded failures by age, since the last success

key  == <<counter, ttl, orphaned>>
vars == <<counter, ttl, pc, orphaned, opened, recent>>

Ages == 0 .. Window - 1

TypeOK ==
  /\ counter \in Nat
  /\ ttl \in 0 .. Window
  /\ pc \in [Requests -> {"idle", "checked", "expiring"}]
  /\ orphaned \in BOOLEAN
  /\ opened \in 0 .. MaxOpen
  /\ recent \in [Ages -> Nat]

Init ==
  /\ counter = 0
  /\ ttl = 0
  /\ pc = [r \in Requests |-> "idle"]
  /\ orphaned = FALSE
  /\ opened = 0
  /\ recent = [a \in Ages |-> 0]

Move(r, from, to) ==
  /\ pc[r] = from
  /\ pc' = [pc EXCEPT ![r] = to]

-----------------------------------------------------------------------------

(* Mutant: locks one failure late. *)
CheckLate(r) ==
  /\ counter <= MaxFailures
  /\ Move(r, "idle", "checked")
  /\ UNCHANGED <<key, opened, recent>>

(* _is_locked_out says no.  When it says yes the log-in is refused and     *)
(* nothing changes: the attempt isn't counted.                             *)
Check(r) ==
  /\ counter < MaxFailures
  /\ Move(r, "idle", "checked")
  /\ UNCHANGED <<key, opened, recent>>

(* The read fails: RedisCache answers None, and the log-in goes on.        *)
CheckFailsOpen(r) ==
  /\ opened < MaxOpen
  /\ opened' = opened + 1
  /\ Move(r, "idle", "checked")
  /\ UNCHANGED <<key, recent>>

(* Mutant: sets the expiry when the account locks. *)
RecordFailureExpiryAtLock(r) ==
  /\ Move(r, "checked", IF counter + 1 = MaxFailures THEN "expiring" ELSE "idle")
  /\ counter' = counter + 1
  /\ recent' = [recent EXCEPT ![0] = @ + 1]
  /\ UNCHANGED <<ttl, orphaned, opened>>

(* Mutant: writes the counter back with SET, which drops the expiry. *)
RecordFailureBySet(r) ==
  /\ Move(r, "checked", IF counter = 0 THEN "expiring" ELSE "idle")
  /\ counter' = counter + 1
  /\ ttl' = 0
  /\ recent' = [recent EXCEPT ![0] = @ + 1]
  /\ UNCHANGED <<orphaned, opened>>

(* No such user, or a wrong password: INCR.  Only the request that sees    *)
(* the value 1 goes on to EXPIRE.                                          *)
RecordFailure(r) ==
  /\ Move(r, "checked", IF counter = 0 THEN "expiring" ELSE "idle")
  /\ counter' = counter + 1
  /\ recent' = [recent EXCEPT ![0] = @ + 1]
  /\ UNCHANGED <<ttl, orphaned, opened>>

(* INCR ran, but its answer was lost: RedisCache logs the error and        *)
(* returns 0, so there is no EXPIRE.                                       *)
RecordFailureUnanswered(r) ==
  /\ Move(r, "checked", "idle")
  /\ counter' = counter + 1
  /\ recent' = [recent EXCEPT ![0] = @ + 1]
  /\ orphaned' = (orphaned \/ counter = 0)
  /\ UNCHANGED <<ttl, opened>>

(* Mutant: a window in minutes where seconds are meant. *)
SetExpiryShort(r) ==
  /\ Move(r, "expiring", "idle")
  /\ ttl' = IF counter > 0 THEN 1 ELSE ttl
  /\ orphaned' = FALSE
  /\ UNCHANGED <<counter, opened, recent>>

(* EXPIRE does nothing if the key is gone.  If the key was deleted and     *)
(* created again meanwhile, it is the new key whose window starts now.     *)
SetExpiry(r) ==
  /\ Move(r, "expiring", "idle")
  /\ ttl' = IF counter > 0 THEN Window ELSE ttl
  /\ orphaned' = FALSE
  /\ UNCHANGED <<counter, opened, recent>>

(* The password was right: DEL. *)
ClearFailures(r) ==
  /\ Move(r, "checked", "idle")
  /\ counter' = 0
  /\ ttl' = 0
  /\ orphaned' = FALSE
  /\ recent' = [a \in Ages |-> 0]
  /\ UNCHANGED opened

(* The process dies, or the next command never reaches Redis. *)
Abandon(r) ==
  /\ pc[r] # "idle"
  /\ pc' = [pc EXCEPT ![r] = "idle"]
  /\ orphaned' = (orphaned \/ (pc[r] = "expiring" /\ counter > 0 /\ ttl = 0))
  /\ UNCHANGED <<counter, ttl, opened, recent>>

(* Mutant: nothing removes the key. *)
TickKeepsKey ==
  /\ ttl > 0 \/ \E a \in Ages : recent[a] > 0
  /\ recent' = [a \in Ages |-> IF a = 0 THEN 0 ELSE recent[a - 1]]
  /\ ttl' = IF counter > 0 THEN ttl - 1 ELSE ttl
  /\ UNCHANGED <<counter, pc, orphaned, opened>>

(* Time passes, and Redis removes the key at the end of its life. *)
Tick ==
  /\ ttl > 0 \/ \E a \in Ages : recent[a] > 0
  /\ recent' = [a \in Ages |-> IF a = 0 THEN 0 ELSE recent[a - 1]]
  /\ ttl' = IF ttl > 0 THEN ttl - 1 ELSE 0
  /\ counter' = IF ttl = 1 THEN 0 ELSE counter
  /\ UNCHANGED <<pc, orphaned, opened>>

Finish(r) ==
  RecordFailure(r) \/ RecordFailureUnanswered(r) \/ SetExpiry(r) \/ ClearFailures(r) \/ Abandon(r)

Next ==
  \/ \E r \in Requests : Check(r) \/ CheckFailsOpen(r) \/ Finish(r)
  \/ Tick

(* Time passes, and a request that has begun comes to an end, if only by   *)
(* an error.  Nothing says that anybody logs in.                           *)
Fairness == WF_vars(Tick) /\ \A r \in Requests : WF_vars(Finish(r))

Spec == Init /\ [][Next]_vars /\ Fairness

-----------------------------------------------------------------------------
(* Properties *)

Checked == {r \in Requests : pc[r] = "checked"}
Expiring == {r \in Requests : pc[r] = "expiring"}

(* The check and the increment are two commands, so overlapping log-ins    *)
(* can pass the threshold, but only by as many as overlap: one for each    *)
(* request but the one that locks the account, and one for each read that  *)
(* failed (authenticate_user).                                             *)
CounterBounded ==
  counter + Cardinality(Checked) <= MaxFailures - 1 + Cardinality(Requests) + opened

(* A counter without an expiry is one whose first failure is about to set  *)
(* it, or whose EXPIRE was lost; however deletions, expiries and late      *)
(* EXPIREs of an earlier key interleave (RedisCache.increment).            *)
ExpiryScheduled ==
  counter > 0 /\ ttl = 0 => orphaned \/ Expiring # {}

(* The window starts with the first failure and doesn't slide.  Still, no  *)
(* Window seconds see more failures than two lives of the key allow.       *)
FailuresBounded ==
  SumFunction(recent) <= 2 * (MaxFailures - 1 + Cardinality(Requests)) + opened

(* A locked account is unlocked again, as long as the EXPIRE wasn't lost.  *)
LockoutEnds ==
  counter >= MaxFailures ~> counter < MaxFailures \/ orphaned

-----------------------------------------------------------------------------
(* Claims of the documentation *)

(* auth_service.py: "Account temporarily locked.  Try again later."        *)
LockIsTemporary ==
  counter >= MaxFailures ~> counter < MaxFailures
=============================================================================

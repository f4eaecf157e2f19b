------------------------------ MODULE TwoFactor ------------------------------
(***************************************************************************)
(* Two-factor authentication of one user: TwoFactorService and its routes. *)
(* A request loads the user's row and commits the columns it changes, in   *)
(* two steps.  Secrets and sets of backup codes are numbered; secret 0 and *)
(* set 0 are NULL.                                                         *)
(*                                                                         *)
(* No log-in asks for the second factor.  Turning it off always fails,     *)
(* with the hasher's missing method; a right code answers 500, since its   *)
(* time has a zone and the column has none; and a backup code is longer    *)
(* than a request may carry.  These are answers here.                      *)
(***************************************************************************)
EXTENDS Integers, FiniteSets

CONSTANTS Requests,
          KeySet,      \* TOTP_ENCRYPTION_KEY is set: else a restart makes a new key
          MaxSecrets,  \* bound on the secrets, and on the sets of codes
          MaxKeys      \* bound on the keys

TwoFactorAssumption == KeySet \in BOOLEAN /\ MaxSecrets \in Nat /\ MaxKeys \in Nat \ {0}

VARIABLES
  columns,     \* the user's columns
  phone,   \* the secret in the authenticator app
  key,     \* the service's encryption key
  last,    \* the secret and the set of codes made last
  req

factor == <<columns, phone, key, last>>
vars == <<factor, req>>

Idle == [at |-> "idle"]
Answer(c) == [at |-> "answered", code |-> c]

Init ==
  /\ columns = [secret |-> 0, key |-> 0, enabled |-> FALSE, codes |-> 0]
  /\ phone = 0
  /\ key = 1
  /\ last = [secret |-> 0, codes |-> 0]
  /\ req = [r \in Requests |-> Idle]

Go(r, next) == req' = [req EXCEPT ![r] = next]

(* _require_2fa_enabled *)
Enabled == columns.enabled /\ columns.secret # 0
(* decrypt_secret *)
Readable == columns.key = key
(* verify_code: the app knows the secret. *)
RightCode == phone = columns.secret

-----------------------------------------------------------------------------

(* setup_2fa: a new secret, encrypted; 409 if the second factor is on. *)
Setup(r) ==
  /\ req[r] = Idle
  /\ last.secret < MaxSecrets
  /\ IF columns.enabled THEN Go(r, Answer(409)) /\ UNCHANGED last
     ELSE /\ last' = [last EXCEPT !.secret = @ + 1]
          /\ Go(r, [at |-> "secret", secret |-> last.secret + 1])
  /\ UNCHANGED <<columns, phone, key>>

(* The app scans what the answer shows. *)
CommitSecret(r) ==
  /\ req[r].at = "secret"
  /\ columns' = [columns EXCEPT !.secret = req[r].secret, !.key = key]
  /\ \E scanned \in BOOLEAN : phone' = IF scanned THEN req[r].secret ELSE phone
  /\ Go(r, Answer(200))
  /\ UNCHANGED <<key, last>>

NewCodes(r, turnOn) ==
  /\ last.codes < MaxSecrets
  /\ last' = [last EXCEPT !.codes = @ + 1]
  /\ Go(r, [at |-> "codes", codes |-> last.codes + 1, turnOn |-> turnOn])

(* enable_2fa: the first right code turns the second factor on. *)
Enable(r) ==
  /\ req[r] = Idle
  /\ IF columns.secret # 0 /\ ~columns.enabled /\ Readable /\ RightCode
     THEN NewCodes(r, TRUE)
     ELSE /\ Go(r, Answer(IF columns.secret = 0 THEN 400 ELSE IF columns.enabled THEN 409
                          ELSE IF ~Readable THEN 500 ELSE 401))
          /\ UNCHANGED last
  /\ UNCHANGED <<columns, phone, key>>

(* regenerate_backup_codes asks for no code. *)
Regenerate(r) ==
  /\ req[r] = Idle
  /\ IF Enabled THEN NewCodes(r, FALSE) ELSE Go(r, Answer(400)) /\ UNCHANGED last
  /\ UNCHANGED <<columns, phone, key>>

(* Mutant: the codes are shown and not stored. *)
CommitFlagOnly(r) ==
  /\ req[r].at = "codes"
  /\ columns' = [columns EXCEPT !.enabled = @ \/ req[r].turnOn]
  /\ Go(r, Answer(200))
  /\ UNCHANGED <<phone, key, last>>

(* The commit of either. *)
CommitCodes(r) ==
  /\ req[r].at = "codes"
  /\ columns' = [columns EXCEPT !.enabled = @ \/ req[r].turnOn, !.codes = req[r].codes]
  /\ Go(r, Answer(200))
  /\ UNCHANGED <<phone, key, last>>

(* disable_2fa *)
Disable(r) ==
  /\ req[r] = Idle
  /\ Go(r, Answer(IF Enabled THEN 500 ELSE 400))
  /\ UNCHANGED factor

(* verify_2fa *)
Verify(r) ==
  /\ req[r] = Idle
  /\ \E code \in {"right", "wrong"} :
       Go(r, Answer(IF ~Enabled THEN 400
                    ELSE IF ~Readable \/ (code = "right" /\ RightCode) THEN 500 ELSE 401))
  /\ UNCHANGED factor

(* The process restarts and, unless the key is set, makes another; its     *)
(* requests die.                                                           *)
Restart ==
  /\ key < MaxKeys
  /\ key' = IF KeySet THEN key ELSE key + 1
  /\ req' = [r \in Requests |-> Idle]
  /\ UNCHANGED <<columns, phone, last>>

(* delete_user_account clears the columns. *)
Erase ==
  /\ columns' = [columns EXCEPT !.secret = 0, !.enabled = FALSE, !.codes = 0]
  /\ UNCHANGED <<phone, key, last, req>>

Finish(r) ==
  /\ req[r] # Idle
  /\ Go(r, Idle)
  /\ UNCHANGED factor

Next ==
  \/ \E r \in Requests : \/ Setup(r)
                         \/ CommitSecret(r)
                         \/ Enable(r)
                         \/ Regenerate(r)
                         \/ CommitCodes(r)
                         \/ Disable(r)
                         \/ Verify(r)
                         \/ Finish(r)
  \/ Restart
  \/ Erase

Spec == Init /\ [][Next]_vars

-----------------------------------------------------------------------------

(* The columns have their types, and the second factor is on only with     *)
(* backup codes.                                                           *)
TypeOK ==
  /\ columns \in [secret : 0 .. MaxSecrets, key : 0 .. MaxKeys, enabled : BOOLEAN, codes : 0 .. MaxSecrets]
  /\ columns.enabled => columns.codes # 0
  /\ phone \in 0 .. MaxSecrets
  /\ key \in 1 .. MaxKeys
  /\ last \in [secret : 0 .. MaxSecrets, codes : 0 .. MaxSecrets]
  /\ \A r \in Requests : req[r].at \in {"idle", "answered", "secret", "codes"}

=============================================================================

---------------------------- MODULE SessionStore ----------------------------
(***************************************************************************)
(* What the refresh-token store promises its callers, without rows, clocks *)
(* or transactions.  A token is issued once, may be exchanged for a new    *)
(* token only by a request that found it live, and never comes back once   *)
(* it has been retired.  AuthSessions implements this specification.       *)
(***************************************************************************)
CONSTANTS Tokens,    \* every refresh token that could be signed
          Requests   \* the requests the API serves concurrently

VARIABLES live,      \* tokens that a refresh would accept
          retired,   \* tokens that were issued and are no longer accepted
          granted    \* <<r, t>>: request r found t live and may exchange it

vars == <<live, retired, granted>>

Fresh(t) == t \notin live \cup retired

Init == /\ live = {}
        /\ retired = {}
        /\ granted = {}

Issue(t) ==
  /\ Fresh(t)
  /\ live' = live \cup {t}
  /\ UNCHANGED <<retired, granted>>

Grant(r, t) ==
  /\ t \in live
  /\ \A u \in Tokens : <<r, u>> \notin granted
  /\ granted' = granted \cup {<<r, t>>}
  /\ UNCHANGED <<live, retired>>

(* The presented token is retired in the same step that issues its         *)
(* successor.  It may already have been retired by someone else: only the  *)
(* grant is needed, and the exchange uses it up.                           *)
Exchange(r, t, new) ==
  /\ <<r, t>> \in granted
  /\ Fresh(new)
  /\ live' = (live \ {t}) \cup {new}
  /\ retired' = retired \cup {t}
  /\ granted' = granted \ {<<r, t>>}

Refuse(r, t) ==
  /\ <<r, t>> \in granted
  /\ granted' = granted \ {<<r, t>>}
  /\ UNCHANGED <<live, retired>>

Retire(S) ==
  /\ S \subseteq live
  /\ live' = live \ S
  /\ retired' = retired \cup S
  /\ UNCHANGED granted

Next ==
  \/ \E t \in Tokens : Issue(t)
  \/ \E r \in Requests, t \in Tokens : Grant(r, t) \/ Refuse(r, t)
  \/ \E r \in Requests, t, new \in Tokens : Exchange(r, t, new)
  \/ \E S \in SUBSET Tokens : Retire(S)

Spec == Init /\ [][Next]_vars
=============================================================================

---------------------------- MODULE ServedCopies ----------------------------
(***************************************************************************)
(* Copies of what the API answers: ETagMiddleware, which lets a browser    *)
(* keep the answer to a GET for a while and spares it the body when it     *)
(* asks again, and the cache-aside helpers of CacheService and             *)
(* cache_decorator, which keep a copy in Redis.                            *)
(*                                                                         *)
(* One path with a lifetime and one user; the body is a value, and its     *)
(* tag, a hash of it, is the value itself.  No route uses the cache-aside  *)
(* helpers, so that what a browser gets comes straight from the database;  *)
(* their readers are modelled beside the browsers.  Left out: Last-        *)
(* Modified, the metrics, and the names of keys.                           *)
(***************************************************************************)
EXTENDS Integers, Sequences

CONSTANTS Browsers,
          Readers,   \* calls of a cache-aside helper
          Bodies,    \* what the answer to the GET may be
          Ttl,       \* the lifetime that _get_ttl finds for the path
          MaxClock   \* bound on the time

CopiesAssumption == Ttl \in Nat \ {0} /\ MaxClock \in Nat

VARIABLES
  time,
  body,     \* what the database would give now
  leftAt,   \* when each body but the current one was last current
  copy,     \* what each browser keeps: <<>> or one copy
  lenient,  \* the browsers whose copy a 304 has renewed
  request,  \* the GET each browser has under way, and its answer
  display,  \* where the body came from that each browser shows, and its age
  entry,    \* the copy in Redis: <<>> or one entry
  reader    \* where each reader is

vars == <<time, body, leftAt, copy, lenient, request, display, entry, reader>>

NoRequest == [at |-> "none"]
NotYet == [source |-> "none"]
AtRest == [at |-> "rest"]

Init ==
  /\ time = 0
  /\ body \in Bodies
  /\ leftAt = [b \in Bodies |-> 0]
  /\ copy = [b \in Browsers |-> <<>>]
  /\ lenient = {}
  /\ request = [b \in Browsers |-> NoRequest]
  /\ display = [b \in Browsers |-> NotYet]
  /\ entry = <<>>
  /\ reader = [r \in Readers |-> AtRest]

Age(x) == IF x = body THEN 0 ELSE time - leftAt[x]

Show(b, what) == display' = [display EXCEPT ![b] = what]

-----------------------------------------------------------------------------
(* The browser *)

Fresh(b) == copy[b] # <<>> /\ time < copy[b][1].until

(* A copy within its lifetime is shown without asking the server. *)
UseCopy(b) ==
  /\ request[b].at = "none" /\ Fresh(b)
  /\ Show(b, [source |-> "copy", age |-> Age(copy[b][1].body)])
  /\ UNCHANGED <<time, body, leftAt, copy, lenient, request, entry, reader>>

(* An older copy only lends its tag. *)
Ask(b) ==
  /\ request[b].at = "none" /\ ~Fresh(b)
  /\ request' = [request EXCEPT ![b] = [at |-> "sent", since |-> time, tag |-> copy[b]]]
  /\ UNCHANGED <<time, body, leftAt, copy, lenient, display, entry, reader>>

(* The browser measures the lifetime from its request, to be sure. *)
Keep(x, since) == <<[body |-> x, until |-> since + Ttl]>>

Receive(b) ==
  /\ request[b].at = "answered"
  /\ LET answer == request[b].answer IN
       CASE answer.status = 200 -> /\ copy' = [copy EXCEPT ![b] = Keep(answer.body, request[b].since)]
                                   /\ lenient' = lenient \ {b}
                                   /\ Show(b, [source |-> "server"])
         [] answer.status = 304 -> /\ copy' = [copy EXCEPT ![b] = Keep(copy[b][1].body, request[b].since)]
                                   /\ lenient' = lenient \cup {b}
                                   /\ Show(b, [source |-> "server"])
         [] OTHER -> UNCHANGED <<copy, lenient, display>>
  /\ request' = [request EXCEPT ![b] = NoRequest]
  /\ UNCHANGED <<time, body, leftAt, entry, reader>>

(* The 200 says must-revalidate, the 304 does not: when the server cannot  *)
(* be reached, a copy renewed by a 304 may be shown however old it is.     *)
Disconnect(b) ==
  /\ request[b].at # "none"
  /\ request' = [request EXCEPT ![b] = NoRequest]
  /\ IF b \in lenient THEN Show(b, [source |-> "disconnected"]) ELSE UNCHANGED display
  /\ UNCHANGED <<time, body, leftAt, copy, lenient, entry, reader>>

(* Vary: Authorization.  A copy kept for an older access token is no use. *)
NewToken(b) ==
  /\ request[b].at = "none" /\ copy[b] # <<>>
  /\ copy' = [copy EXCEPT ![b] = <<>>] /\ lenient' = lenient \ {b}
  /\ UNCHANGED <<time, body, leftAt, request, display, entry, reader>>

-----------------------------------------------------------------------------
(* ETagMiddleware.dispatch *)

(* Mutant: any tag at all earns a 304. *)
AnswerAnyTag(b) ==
  IF request[b].tag # <<>> THEN [status |-> 304] ELSE [status |-> 200, body |-> body]

(* 304 for a client that has the tag of the body, the body otherwise. *)
Answer(b) ==
  IF request[b].tag # <<>> /\ request[b].tag[1].body = body
  THEN [status |-> 304] ELSE [status |-> 200, body |-> body]

Serve(b) ==
  /\ request[b].at = "sent"
  /\ request' = [request EXCEPT ![b] = [at |-> "answered", since |-> @.since, answer |-> Answer(b)]]
  /\ UNCHANGED <<time, body, leftAt, copy, lenient, display, entry, reader>>

(* Not a 2xx, or not JSON: the answer passes as it is, to be kept by nobody. *)
ServeBare(b) ==
  /\ request[b].at = "sent"
  /\ request' = [request EXCEPT ![b] = [at |-> "answered", since |-> @.since, answer |-> [status |-> 500]]]
  /\ UNCHANGED <<time, body, leftAt, copy, lenient, display, entry, reader>>

-----------------------------------------------------------------------------
(* CacheService *)

Live == entry # <<>> /\ time < entry[1].until

(* Redis failing reads like a miss. *)
Lookup(r) ==
  /\ reader[r].at = "rest"
  /\ \/ Live /\ UNCHANGED reader
     \/ reader' = [reader EXCEPT ![r] = [at |-> "missed"]]
  /\ UNCHANGED <<time, body, leftAt, copy, lenient, request, display, entry>>

LoadBody(r) ==
  /\ reader[r].at = "missed"
  /\ reader' = [reader EXCEPT ![r] = [at |-> "loaded", got |-> body]]
  /\ UNCHANGED <<time, body, leftAt, copy, lenient, request, display, entry>>

(* The lifetime starts only here, however old the value is. *)
Fill(r) ==
  /\ reader[r].at = "loaded"
  /\ entry' \in {entry, Keep(reader[r].got, time)}
  /\ reader' = [reader EXCEPT ![r] = AtRest]
  /\ UNCHANGED <<time, body, leftAt, copy, lenient, request, display>>

(* A write gives the path another body, perhaps an earlier one.  A service *)
(* with a cache clears the user's keys after that; one without, or with a  *)
(* Redis that fails, does not.                                             *)
Write ==
  /\ body' \in Bodies \ {body}
  /\ leftAt' = [leftAt EXCEPT ![body] = time, ![body'] = 0]
  /\ UNCHANGED <<time, copy, lenient, request, display, entry, reader>>

Invalidate ==
  /\ entry # <<>> /\ entry' = <<>>
  /\ UNCHANGED <<time, body, leftAt, copy, lenient, request, display, reader>>

Tick ==
  /\ time < MaxClock /\ time' = time + 1
  /\ UNCHANGED <<body, leftAt, copy, lenient, request, display, entry, reader>>

Next ==
  \/ \E b \in Browsers : UseCopy(b) \/ Ask(b) \/ Receive(b) \/ Disconnect(b) \/ NewToken(b) \/ Serve(b) \/ ServeBare(b)
  \/ \E r \in Readers : Lookup(r) \/ LoadBody(r) \/ Fill(r)
  \/ Write \/ Invalidate \/ Tick

Spec == Init /\ [][Next]_vars

-----------------------------------------------------------------------------
IsCopy(c) == c = <<>> \/ (Len(c) = 1 /\ c[1].body \in Bodies /\ c[1].until \in Nat)

(* Copies, requests and readers have their types. *)
TypeOK ==
  /\ time \in 0 .. MaxClock /\ body \in Bodies /\ leftAt \in [Bodies -> 0 .. MaxClock]
  /\ \A b \in Browsers :
       /\ IsCopy(copy[b]) /\ request[b].at \in {"none", "sent", "answered"}
       /\ display[b].source \in {"none", "copy", "server", "disconnected"}
  /\ lenient \subseteq Browsers
  /\ IsCopy(entry)
  /\ \A r \in Readers : reader[r].at \in {"rest", "missed", "loaded"}

(* However its copy was renewed, and whatever was written meanwhile: what  *)
(* a browser shows out of its own copy was the answer of the server less   *)
(* than the lifetime of the path ago.  (Not while it is disconnected.)     *)
StaleAtMostTtl == \A b \in Browsers : display[b].source = "copy" => display[b].age < Ttl
=============================================================================

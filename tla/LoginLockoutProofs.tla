------------------------- MODULE LoginLockoutProofs -------------------------
(***************************************************************************)
(* Proofs about LoginLockout, for any number of overlapping log-ins, any   *)
(* threshold and any window.                                               *)
(***************************************************************************)
EXTENDS LoginLockout, FiniteSums

(* No key has no expiry and no history, and an expiry ends being orphaned. *)
KeyInv ==
  /\ counter = 0 => ttl = 0 /\ ~orphaned
  /\ ttl > 0 => ~orphaned

IInv ==
  /\ TypeOK
  /\ KeyInv
  /\ CounterBounded
  /\ ExpiryScheduled

-----------------------------------------------------------------------------

LEMMA CountFacts ==
  ASSUME NEW S, S \subseteq Requests, NEW r \in Requests
  PROVE  /\ Cardinality(Requests) \in Nat
         /\ Cardinality(S) \in 0 .. Cardinality(Requests)
         /\ Cardinality(S \ {r}) = IF r \in S THEN Cardinality(S) - 1 ELSE Cardinality(S)
         /\ Cardinality(S \cup {r}) \in 0 .. Cardinality(Requests)
<1>1. /\ IsFiniteSet(S) /\ Cardinality(S) <= Cardinality(Requests)
      /\ IsFiniteSet(S \cup {r}) /\ Cardinality(S \cup {r}) <= Cardinality(Requests)
  <2>1. S \cup {r} \subseteq Requests
    OBVIOUS
  <2> QED  BY <2>1, RequestsAssumption, FS_Subset
<1>2. Cardinality(S \ {r}) = IF r \in S THEN Cardinality(S) - 1 ELSE Cardinality(S)
  BY <1>1, FS_RemoveElement
<1> QED  BY <1>1, <1>2, RequestsAssumption, FS_CardinalityType

(* What a request's move does to the two sets that are counted. *)
LEMMA MoveFacts ==
  ASSUME TypeOK, NEW r \in Requests, NEW to, pc' = [pc EXCEPT ![r] = to]
  PROVE  /\ Checked' = IF to = "checked" THEN Checked \cup {r} ELSE Checked \ {r}
         /\ Expiring' = IF to = "expiring" THEN Expiring \cup {r} ELSE Expiring \ {r}
BY DEF TypeOK, Checked, Expiring

(* A request that leaves the check behind and counts one failure at most   *)
(* uses up the place it had among the checked.                             *)
LEMMA LeaveCheck ==
  ASSUME IInv, NEW r \in Requests, r \in Checked, Checked' = Checked \ {r},
         counter' \in 0 .. counter + 1, opened' = opened
  PROVE  CounterBounded'
<1>1. /\ Cardinality(Requests) \in Nat
      /\ Cardinality(Checked) \in Nat
      /\ Cardinality(Checked') = Cardinality(Checked) - 1
  <2>1. Checked \subseteq Requests
    BY DEF Checked
  <2> QED  BY <2>1, CountFacts
<1> QED  BY <1>1, LimitsAssumption DEF IInv, TypeOK, CounterBounded

-----------------------------------------------------------------------------

LEMMA InitIInv == Init => IInv
<1> SUFFICES ASSUME Init PROVE IInv
  OBVIOUS
<1>1. TypeOK
  <2>1. orphaned \in BOOLEAN
    BY Zenon DEF Init
  <2>2. ttl \in 0 .. Window /\ opened \in 0 .. MaxOpen /\ recent \in [Ages -> Nat]
    BY LimitsAssumption DEF Init
  <2> QED  BY <2>1, <2>2 DEF Init, TypeOK
<1>2. KeyInv
  BY DEF Init, KeyInv
<1>3. ExpiryScheduled
  BY DEF Init, ExpiryScheduled
<1>4. Checked = {}
  BY DEF Init, Checked
<1>5. Cardinality({}) = 0 /\ Cardinality(Requests) \in Nat
  BY RequestsAssumption, FS_EmptySet, FS_CardinalityType
<1>6. CounterBounded
  BY <1>4, <1>5, LimitsAssumption DEF Init, CounterBounded
<1> QED  BY <1>1, <1>2, <1>3, <1>6 DEF IInv

LEMMA CountsStayNat ==
  ASSUME TypeOK, recent' = [recent EXCEPT ![0] = @ + 1]
  PROVE  recent' \in [Ages -> Nat]
<1>1. 0 \in Ages
  BY LimitsAssumption DEF Ages
<1> QED  BY <1>1 DEF TypeOK

LEMMA TypeStep == TypeOK /\ [Next]_vars => TypeOK'
<1> SUFFICES ASSUME TypeOK, [Next]_vars PROVE TypeOK'
  OBVIOUS
<1> USE LimitsAssumption DEF TypeOK
<1>1. ASSUME NEW r \in Requests, Check(r) \/ CheckFailsOpen(r)
      PROVE  TypeOK'
  BY <1>1 DEF Check, CheckFailsOpen, Move, key
<1>2. ASSUME NEW r \in Requests, RecordFailure(r)
      PROVE  TypeOK'
  <2>1. recent' \in [Ages -> Nat]
    BY <1>2, CountsStayNat DEF RecordFailure
  <2> QED  BY <1>2, <2>1 DEF RecordFailure, Move
<1>3. ASSUME NEW r \in Requests, RecordFailureUnanswered(r)
      PROVE  TypeOK'
  <2>1. recent' \in [Ages -> Nat]
    BY <1>3, CountsStayNat DEF RecordFailureUnanswered
  <2>2. orphaned' \in BOOLEAN
    BY <1>3, Zenon DEF RecordFailureUnanswered
  <2> QED  BY <1>3, <2>1, <2>2 DEF RecordFailureUnanswered, Move
<1>4. ASSUME NEW r \in Requests, SetExpiry(r)
      PROVE  TypeOK'
  <2>1. orphaned' \in BOOLEAN
    BY <1>4, Zenon DEF SetExpiry
  <2> QED  BY <1>4, <2>1 DEF SetExpiry, Move
<1>5. ASSUME NEW r \in Requests, ClearFailures(r)
      PROVE  TypeOK'
  <2>1. orphaned' \in BOOLEAN
    BY <1>5, Zenon DEF ClearFailures
  <2>2. ttl' \in 0 .. Window /\ recent' \in [Ages -> Nat]
    BY <1>5 DEF ClearFailures
  <2> QED  BY <1>5, <2>1, <2>2 DEF ClearFailures, Move
<1>6. ASSUME NEW r \in Requests, Abandon(r)
      PROVE  TypeOK'
  <2>1. orphaned' \in BOOLEAN
    BY <1>6, Zenon DEF Abandon
  <2> QED  BY <1>6, <2>1 DEF Abandon
<1>7. CASE Tick
  BY <1>7 DEF Tick, Ages
<1>8. CASE UNCHANGED vars
  BY <1>8 DEF vars
<1> QED  BY <1>1, <1>2, <1>3, <1>4, <1>5, <1>6, <1>7, <1>8 DEF Next, Finish

LEMMA NextIInv == IInv /\ [Next]_vars => IInv'
<1> SUFFICES ASSUME IInv, [Next]_vars PROVE IInv'
  OBVIOUS
<1>0. TypeOK /\ TypeOK'
  BY TypeStep DEF IInv
<1> SUFFICES KeyInv' /\ CounterBounded' /\ ExpiryScheduled'
  BY <1>0 DEF IInv
<1>1. ASSUME NEW r \in Requests, Check(r)
      PROVE  KeyInv' /\ CounterBounded' /\ ExpiryScheduled'
  <2>1. Checked' = Checked \cup {r} /\ Expiring' = Expiring \ {r} /\ r \notin Expiring
    BY <1>0, <1>1, MoveFacts DEF Check, Move, Expiring
  <2>2. KeyInv' /\ ExpiryScheduled'
    BY <1>1, <2>1 DEF Check, key, IInv, KeyInv, ExpiryScheduled
  <2>3. Cardinality(Checked') \in 0 .. Cardinality(Requests) /\ Cardinality(Requests) \in Nat
    BY <2>1, CountFacts DEF Checked
  <2>4. CounterBounded'
    BY <1>0, <1>1, <2>3, LimitsAssumption DEF Check, key, TypeOK, CounterBounded
  <2> QED  BY <2>2, <2>4
<1>2. ASSUME NEW r \in Requests, CheckFailsOpen(r)
      PROVE  KeyInv' /\ CounterBounded' /\ ExpiryScheduled'
  <2>1. /\ Checked' = Checked \cup {r} /\ Expiring' = Expiring \ {r} /\ r \notin Expiring
        /\ r \notin Checked
    BY <1>0, <1>2, MoveFacts DEF CheckFailsOpen, Move, Expiring, Checked
  <2>2. KeyInv' /\ ExpiryScheduled'
    BY <1>2, <2>1 DEF CheckFailsOpen, key, IInv, KeyInv, ExpiryScheduled
  <2>3. /\ IsFiniteSet(Checked) /\ Cardinality(Requests) \in Nat /\ Cardinality(Checked) \in Nat
        /\ Cardinality(Checked') = Cardinality(Checked) + 1
    <3>1. Checked \subseteq Requests
      BY DEF Checked
    <3> QED  BY <2>1, <3>1, RequestsAssumption, FS_Subset, FS_AddElement, FS_CardinalityType
  <2>4. CounterBounded'
    BY <1>0, <1>2, <2>3, LimitsAssumption DEF CheckFailsOpen, key, IInv, TypeOK, CounterBounded
  <2> QED  BY <2>2, <2>4
<1>3. ASSUME NEW r \in Requests, RecordFailure(r)
      PROVE  KeyInv' /\ CounterBounded' /\ ExpiryScheduled'
  <2>1. CounterBounded'
    <3>1. r \in Checked /\ Checked' = Checked \ {r}
      BY <1>0, <1>3, MoveFacts DEF RecordFailure, Move, Checked
    <3>2. counter' \in 0 .. counter + 1 /\ opened' = opened
      BY <1>0, <1>3 DEF RecordFailure, TypeOK
    <3> QED  BY <3>1, <3>2, LeaveCheck
  <2>2. KeyInv'
    BY <1>0, <1>3 DEF RecordFailure, IInv, KeyInv, TypeOK
  <2>3. Expiring' = IF counter = 0 THEN Expiring \cup {r} ELSE Expiring
    BY <1>0, <1>3, MoveFacts, ZenonT(60) DEF RecordFailure, Move, Expiring
  <2>4. ExpiryScheduled'
    BY <1>0, <1>3, <2>3 DEF RecordFailure, IInv, ExpiryScheduled, TypeOK
  <2> QED  BY <2>1, <2>2, <2>4
<1>4. ASSUME NEW r \in Requests, RecordFailureUnanswered(r)
      PROVE  KeyInv' /\ CounterBounded' /\ ExpiryScheduled'
  <2>1. CounterBounded'
    <3>1. r \in Checked /\ Checked' = Checked \ {r}
      BY <1>0, <1>4, MoveFacts DEF RecordFailureUnanswered, Move, Checked
    <3>2. counter' \in 0 .. counter + 1 /\ opened' = opened
      BY <1>0, <1>4 DEF RecordFailureUnanswered, TypeOK
    <3> QED  BY <3>1, <3>2, LeaveCheck
  <2>2. KeyInv'
    BY <1>0, <1>4 DEF RecordFailureUnanswered, IInv, KeyInv, TypeOK
  <2>3. Expiring' = Expiring
    BY <1>0, <1>4, MoveFacts DEF RecordFailureUnanswered, Move, Expiring
  <2>4. ExpiryScheduled'
    <3>1. counter = 0 \/ orphaned => orphaned'
      BY <1>4, Zenon DEF RecordFailureUnanswered
    <3>2. ttl' = ttl /\ (counter = 0 \/ counter > 0)
      BY <1>0, <1>4 DEF RecordFailureUnanswered, TypeOK
    <3> QED  BY <2>3, <3>1, <3>2 DEF IInv, ExpiryScheduled
  <2> QED  BY <2>1, <2>2, <2>4
<1>5. ASSUME NEW r \in Requests, SetExpiry(r)
      PROVE  KeyInv' /\ CounterBounded' /\ ExpiryScheduled'
  <2>1. Checked' = Checked
    BY <1>0, <1>5, MoveFacts DEF SetExpiry, Move, Checked
  <2>2. KeyInv' /\ ExpiryScheduled'
    BY <1>0, <1>5, LimitsAssumption DEF SetExpiry, IInv, KeyInv, ExpiryScheduled, TypeOK
  <2> QED  BY <1>5, <2>1, <2>2 DEF SetExpiry, IInv, CounterBounded
<1>6. ASSUME NEW r \in Requests, ClearFailures(r)
      PROVE  KeyInv' /\ CounterBounded' /\ ExpiryScheduled'
  <2>1. CounterBounded'
    <3>1. r \in Checked /\ Checked' = Checked \ {r}
      BY <1>0, <1>6, MoveFacts DEF ClearFailures, Move, Checked
    <3>2. counter' \in 0 .. counter + 1 /\ opened' = opened
      BY <1>0, <1>6 DEF ClearFailures, TypeOK
    <3> QED  BY <3>1, <3>2, LeaveCheck
  <2> QED  BY <1>6, <2>1 DEF ClearFailures, KeyInv, ExpiryScheduled
<1>7. ASSUME NEW r \in Requests, Abandon(r)
      PROVE  KeyInv' /\ CounterBounded' /\ ExpiryScheduled'
  <2>1. CASE pc[r] = "checked"
    <3>1. CounterBounded'
      <4>1. r \in Checked /\ Checked' = Checked \ {r}
        BY <1>0, <1>7, <2>1, MoveFacts DEF Abandon, Checked
      <4>2. counter' \in 0 .. counter + 1 /\ opened' = opened
        BY <1>0, <1>7 DEF Abandon, TypeOK
      <4> QED  BY <4>1, <4>2, LeaveCheck
    <3>2. Expiring' = Expiring
      BY <1>0, <1>7, <2>1, MoveFacts DEF Abandon, Expiring
    <3> QED  BY <1>7, <2>1, <3>1, <3>2 DEF Abandon, IInv, KeyInv, ExpiryScheduled
  <2>2. CASE pc[r] = "expiring"
    <3>1. Checked' = Checked
      BY <1>0, <1>7, <2>2, MoveFacts DEF Abandon, Checked
    <3>2. orphaned' <=> (orphaned \/ (counter > 0 /\ ttl = 0))
      BY <1>7, <2>2, Zenon DEF Abandon
    <3>3. UNCHANGED <<counter, ttl, opened>>
      BY <1>7 DEF Abandon
    <3> QED  BY <1>0, <3>1, <3>2, <3>3 DEF IInv, KeyInv, ExpiryScheduled, CounterBounded, TypeOK
  <2> QED  BY <1>0, <1>7, <2>1, <2>2 DEF Abandon, TypeOK
<1>8. CASE Tick
  <2>1. Checked' = Checked /\ Expiring' = Expiring
    BY <1>8 DEF Tick, Checked, Expiring
  <2>2. Cardinality(Checked) \in Nat /\ Cardinality(Requests) \in Nat
    <3>1. Checked \subseteq Requests
      BY DEF Checked
    <3> QED  BY <3>1, RequestsAssumption, FS_Subset, FS_CardinalityType
  <2>3. KeyInv' /\ ExpiryScheduled'
    BY <1>0, <1>8, <2>1 DEF Tick, IInv, KeyInv, ExpiryScheduled, TypeOK
  <2>4. CounterBounded'
    BY <1>0, <1>8, <2>1, <2>2, LimitsAssumption DEF Tick, IInv, CounterBounded, TypeOK
  <2> QED  BY <2>3, <2>4
<1>9. CASE UNCHANGED vars
  BY <1>9 DEF vars, IInv, KeyInv, CounterBounded, ExpiryScheduled, Checked, Expiring
<1> QED
  BY <1>1, <1>2, <1>3, <1>4, <1>5, <1>6, <1>7, <1>8, <1>9 DEF Next, Finish

-----------------------------------------------------------------------------

(* The key, its expiry and the requests that are about to set it stay      *)
(* consistent, whatever is lost on the way (RedisCache.increment).         *)
THEOREM Inductive == Spec => []IInv
BY InitIInv, NextIInv, PTL DEF Spec

(* An address takes at most one failure more than the threshold for each   *)
(* log-in but one that overlaps, and for each read that failed             *)
(* (authenticate_user).                                                    *)
THEOREM OvershootIsBounded == Spec => []CounterBounded
<1>1. IInv => CounterBounded
  BY DEF IInv
<1> QED  BY <1>1, Inductive, PTL

(* A counter that will never expire is one whose EXPIRE was lost: no       *)
(* interleaving of requests alone leads there (RedisCache.increment).      *)
THEOREM ExpiryIsNeverForgotten == Spec => []ExpiryScheduled
<1>1. IInv => ExpiryScheduled
  BY DEF IInv
<1> QED  BY <1>1, Inductive, PTL

(* The state keeps its types: no counter goes below zero, no window beyond *)
(* its length (RedisCache.increment, RedisCache.expire).                   *)
THEOREM TypeCorrect == Spec => []TypeOK
<1>1. IInv => TypeOK
  BY DEF IInv
<1> QED  BY <1>1, Inductive, PTL

-----------------------------------------------------------------------------
(***************************************************************************)
(* How many failures a window sees.  They are those of two lives of the    *)
(* key at most: the failures younger than start belong to the present key, *)
(* and are no more than it counts; the older ones to the key before it.    *)
(* spare tells how many of the reads that failed were spent on that one.   *)
(* The present key can't expire before its predecessor's failures are out  *)
(* of the window.                                                          *)
(***************************************************************************)
Allowed == MaxFailures - 1 + Cardinality(Requests)

Part(from, to) == SumFunctionOnSet(recent, from .. to)

CountedIn(spare) == counter + Cardinality(Checked) <= Allowed + (opened - spare)

LivesAt(start, spare) ==
  /\ Part(0, start - 1) <= counter
  /\ Part(start, Window - 1) <= Allowed + spare
  /\ CountedIn(spare)
  /\ ttl > 0 => start + ttl >= Window

TwoLives == \E start \in 1 .. Window, spare \in 0 .. opened : LivesAt(start, spare)

-----------------------------------------------------------------------------

LEMMA AllowedNat == Allowed \in Nat /\ Cardinality(Requests) \in Nat
<1>1. Cardinality(Requests) \in Nat
  BY RequestsAssumption, FS_CardinalityType
<1> QED  BY <1>1, LimitsAssumption DEF Allowed

LEMMA CheckedCount == Cardinality(Checked) \in 0 .. Cardinality(Requests)
<1>1. Checked \subseteq Requests
  BY DEF Checked
<1> QED  BY <1>1, RequestsAssumption, FS_Subset, FS_CardinalityType

LEMMA PartOfAges ==
  ASSUME NEW f \in [Ages -> Nat], NEW from \in Nat, NEW to \in Int, to < Window
  PROVE  /\ from .. to \subseteq Ages /\ IsFiniteSet(from .. to)
         /\ SumFunctionOnSet(f, from .. to) \in Nat
<1>1. from .. to \subseteq Ages
  BY LimitsAssumption DEF Ages
<1>2. IsFiniteSet(from .. to)
  BY FS_Interval
<1>3. \A a \in from .. to : f[a] \in Nat
  BY <1>1
<1> QED  BY <1>1, <1>2, <1>3, SumNat

(* One more failure now adds one to a part that begins with now. *)
LEMMA OneMoreNow ==
  ASSUME NEW f \in [Ages -> Nat], NEW g \in [Ages -> Nat], NEW start \in 1 .. Window,
         g[0] = f[0] + 1, \A a \in Ages \ {0} : g[a] = f[a]
  PROVE  /\ SumFunctionOnSet(g, 0 .. start - 1) = SumFunctionOnSet(f, 0 .. start - 1) + 1
         /\ SumFunctionOnSet(g, start .. Window - 1) = SumFunctionOnSet(f, start .. Window - 1)
<1>1. 0 \in Ages /\ f[0] \in Nat
  BY LimitsAssumption DEF Ages
<1>2. 0 .. start - 1 \subseteq Ages /\ IsFiniteSet(0 .. start - 1) /\ SumFunctionOnSet(f, 0 .. start - 1) \in Nat
  BY LimitsAssumption, PartOfAges
<1>3. 0 \in 0 .. start - 1 /\ start .. Window - 1 \subseteq Ages \ {0}
  BY LimitsAssumption DEF Ages
<1>4. SumFunctionOnSet(g, 0 .. start - 1) = SumFunctionOnSet(f, 0 .. start - 1) - f[0] + g[0]
  <2> DEFINE S == 0 .. start - 1
  <2>1. IsFiniteSet(S) /\ 0 \in S
    BY <1>2, <1>3
  <2>2. \A a \in S : f[a] \in Int /\ g[a] \in Int
    BY <1>1, <1>2
  <2>3. \A a \in S \ {0} : g[a] = f[a]
    BY <1>1, <1>2
  <2> HIDE DEF S
  <2>4. SumFunctionOnSet(g, S) = SumFunctionOnSet(f, S) - f[0] + g[0]
    BY <2>1, <2>2, <2>3, SumChanged
  <2> QED  BY <2>4 DEF S
<1>5. SumFunctionOnSet(g, start .. Window - 1) = SumFunctionOnSet(f, start .. Window - 1)
  <2>1. start \in Int /\ Window - 1 \in Int
    BY LimitsAssumption
  <2>2. IsFiniteSet(start .. Window - 1)
    BY <2>1, FS_Interval
  <2>3. \A a \in start .. Window - 1 : g[a] = f[a]
    BY <1>1, <1>3
  <2> DEFINE S == start .. Window - 1
  <2> HIDE DEF S
  <2>4. SumFunctionOnSet(g, S) = SumFunctionOnSet(f, S)
    BY <2>2, <2>3, SumSame DEF S
  <2> QED  BY <2>4 DEF S
<1> QED  BY <1>1, <1>2, <1>4, <1>5

(* As time passes, every failure gets a step older. *)
Older(f, g) == \A a \in Ages \ {0} : g[a] = f[a - 1]

LEMMA PartAges ==
  ASSUME NEW f \in [Ages -> Nat], NEW g \in [Ages -> Nat], Older(f, g),
         NEW from \in Nat, NEW to \in Int, to < Window - 1,
         NEW from1, from1 = from + 1, NEW to1, to1 = to + 1
  PROVE  SumFunctionOnSet(g, from1 .. to1) = SumFunctionOnSet(f, from .. to)
<1> DEFINE S == from .. to
           next == [a \in S |-> a + 1]
<1>1. S \subseteq Ages /\ IsFiniteSet(S)
  <2>1. to < Window
    BY LimitsAssumption
  <2> QED  BY <2>1, PartOfAges
<1>2. {next[a] : a \in S} = from1 .. to1
  <2>1. ASSUME NEW b \in from1 .. to1 PROVE b - 1 \in S /\ next[b - 1] = b
    BY <2>1
  <2> QED  BY <2>1
<1>3. \A a \in S : f[a] \in Int /\ g[next[a]] = f[a]
  BY <1>1, LimitsAssumption DEF Ages, Older
<1>4. \A a, b \in S : next[a] = next[b] => a = b
  OBVIOUS
<1>5. PICK name : name = next
  OBVIOUS
<1>6. SumFunctionOnSet(g, {name[a] : a \in S}) = SumFunctionOnSet(f, S)
  <2> HIDE DEF S, next
  <2> QED  BY <1>1, <1>3, <1>4, <1>5, SumRenamed
<1> QED  BY <1>2, <1>5, <1>6

(* The youngest place is empty then. *)
LEMMA PartFromNow ==
  ASSUME NEW f \in [Ages -> Nat], f[0] = 0, NEW to \in Nat, to < Window
  PROVE  SumFunctionOnSet(f, 0 .. to) = SumFunctionOnSet(f, 1 .. to)
<1>1. IsFiniteSet(1 .. to)
  BY FS_Interval
<1>2. \A a \in (1 .. to) \cup {0} : f[a] \in Int
  BY LimitsAssumption DEF Ages
<1>3. 0 .. to = (1 .. to) \cup {0} /\ 0 \notin 1 .. to
  OBVIOUS
<1> DEFINE S == 1 .. to
<1> HIDE DEF S
<1>4. SumFunctionOnSet(f, S) \in Int /\ SumFunctionOnSet(f, S \cup {0}) = f[0] + SumFunctionOnSet(f, S)
  BY <1>1, <1>2, <1>3, SumInt, SumAdd DEF S
<1>5. SumFunctionOnSet(f, S \cup {0}) = SumFunctionOnSet(f, S)
  BY <1>4
<1> QED  BY <1>3, <1>5 DEF S

-----------------------------------------------------------------------------

(* The parts and the counter are numbers, and the lives stay as they are   *)
(* while nothing is recorded and nothing expires.                          *)
LEMMA PartsNat ==
  ASSUME TypeOK, NEW start \in 1 .. Window
  PROVE  Part(0, start - 1) \in Nat /\ Part(start, Window - 1) \in Nat
<1>1. recent \in [Ages -> Nat] /\ 0 \in Nat /\ start \in Nat
  BY LimitsAssumption DEF TypeOK
<1>2. start - 1 \in Int /\ start - 1 < Window /\ Window - 1 \in Int /\ Window - 1 < Window
  BY LimitsAssumption
<1> QED  BY <1>1, <1>2, PartOfAges DEF Part

LEMMA LivesGoOn ==
  ASSUME TypeOK, TypeOK', NEW start \in 1 .. Window, NEW spare \in 0 .. opened, LivesAt(start, spare),
         recent' = recent, counter' = counter, ttl' = ttl \/ ttl' = Window, opened' >= opened,
         CountedIn(spare)'
  PROVE  TwoLives'
<1>1. spare \in 0 .. opened'
  BY DEF TypeOK
<1>2. Part(0, start - 1)' <= counter' /\ Part(start, Window - 1)' <= Allowed + spare
  BY DEF LivesAt, Part
<1>3. ttl' > 0 => start + ttl' >= Window
  BY LimitsAssumption DEF LivesAt
<1>4. LivesAt(start, spare)'
  BY <1>2, <1>3 DEF LivesAt, Allowed
<1> QED  BY <1>1, <1>4 DEF TwoLives

(* A failure is recorded in the life of the present key. *)
LEMMA FailureLives ==
  ASSUME TypeOK, TypeOK', NEW r \in Requests, pc[r] = "checked", Checked' = Checked \ {r}, TwoLives,
         recent' = [recent EXCEPT ![0] = @ + 1], counter' = counter + 1, UNCHANGED <<ttl, opened>>
  PROVE  TwoLives'
<1>1. PICK start \in 1 .. Window, spare \in 0 .. opened : LivesAt(start, spare)
  BY DEF TwoLives
<1>2. /\ recent \in [Ages -> Nat] /\ recent' \in [Ages -> Nat]
      /\ recent'[0] = recent[0] + 1 /\ \A a \in Ages \ {0} : recent'[a] = recent[a]
  BY LimitsAssumption DEF TypeOK, Ages
<1>3. PICK f \in [Ages -> Nat], g \in [Ages -> Nat] : f = recent /\ g = recent'
  BY <1>2
<1>a. g[0] = f[0] + 1 /\ \A a \in Ages \ {0} : g[a] = f[a]
  BY <1>2, <1>3
<1>4. /\ SumFunctionOnSet(g, 0 .. start - 1) = SumFunctionOnSet(f, 0 .. start - 1) + 1
      /\ SumFunctionOnSet(g, start .. Window - 1) = SumFunctionOnSet(f, start .. Window - 1)
  BY <1>a, OneMoreNow
<1>5. Part(0, start - 1)' = Part(0, start - 1) + 1 /\ Part(start, Window - 1)' = Part(start, Window - 1)
  BY <1>3, <1>4 DEF Part
<1>6. Part(0, start - 1) \in Nat /\ counter \in Nat
  BY PartsNat DEF TypeOK
<1>7. Part(0, start - 1)' <= counter' /\ Part(start, Window - 1)' <= Allowed + spare
  BY <1>1, <1>5, <1>6 DEF LivesAt
<1>8. CountedIn(spare)'
  <2>1. Cardinality(Checked') = Cardinality(Checked) - 1 /\ Cardinality(Checked) \in Nat
    BY CountFacts, CheckedCount DEF Checked
  <2> QED  BY <1>1, <1>6, <2>1 DEF LivesAt, CountedIn, Allowed
<1>9. LivesAt(start, spare)'
  BY <1>1, <1>7, <1>8 DEF LivesAt, Allowed
<1> QED  BY <1>9 DEF TwoLives

(* A success ends both lives. *)
LEMMA ClearLives ==
  ASSUME TypeOK, TypeOK', NEW r \in Requests, pc[r] = "checked", Checked' = Checked \ {r}, TwoLives,
         recent' = [a \in Ages |-> 0], counter' = 0, ttl' = 0, UNCHANGED opened
  PROVE  TwoLives'
<1>1. PICK start \in 1 .. Window, spare \in 0 .. opened : LivesAt(start, spare)
  BY DEF TwoLives
<1>2. Part(0, start - 1)' = 0 /\ Part(start, Window - 1)' = 0
  <2>1. 0 .. start - 1 \subseteq Ages /\ start .. Window - 1 \subseteq Ages
    BY LimitsAssumption DEF Ages
  <2>2. IsFiniteSet(0 .. start - 1) /\ IsFiniteSet(start .. Window - 1)
    BY FS_Interval, LimitsAssumption
  <2>3. (\A a \in 0 .. start - 1 : recent'[a] = 0) /\ \A a \in start .. Window - 1 : recent'[a] = 0
    BY <2>1
  <2> QED  BY <2>2, <2>3, SumZero DEF Part
<1>3. CountedIn(spare)'
  <2>1. Cardinality(Checked') = Cardinality(Checked) - 1 /\ Cardinality(Checked) \in Nat
    BY CountFacts, CheckedCount DEF Checked
  <2> QED  BY <1>1, <2>1, AllowedNat DEF LivesAt, CountedIn, TypeOK, Allowed
<1>4. LivesAt(start, spare)'
  BY <1>2, <1>3, AllowedNat DEF LivesAt, Allowed
<1> QED  BY <1>4 DEF TwoLives

-----------------------------------------------------------------------------

(* As time passes the boundary between the lives gets older with the       *)
(* failures, until the failures of the first life have left the window;    *)
(* and when the present key expires, it is the first of two.               *)
LEMMA TickLives ==
  ASSUME TypeOK, TypeOK', TwoLives, Tick
  PROVE  TwoLives'
<1>1. PICK start \in 1 .. Window, spare \in 0 .. opened : LivesAt(start, spare)
  BY DEF TwoLives
<1>2. PICK f \in [Ages -> Nat], g \in [Ages -> Nat] : f = recent /\ g = recent'
  BY DEF TypeOK
<1>3. g[0] = 0 /\ Older(f, g)
  BY <1>2, LimitsAssumption DEF Tick, Ages, Older
<1>a. 0 \in Nat /\ Window - 2 \in Int /\ Window - 2 < Window - 1 /\ start \in Nat
  BY LimitsAssumption
<1>b. start - 1 \in Int /\ start - 1 < Window /\ Window - 1 \in Int /\ Window - 1 < Window /\ Window - 2 < Window
  BY LimitsAssumption
<1>4. Checked' = Checked /\ opened' = opened
  BY DEF Tick, Checked
<1>5. counter \in Nat /\ opened \in Nat /\ ttl \in 0 .. Window
  BY LimitsAssumption DEF TypeOK
<1>6. Part(0, start - 1) \in Nat /\ Part(start, Window - 1) \in Nat
  BY PartsNat
<1>7. CASE ttl = 1
  <2>1. start >= Window - 1 /\ counter' = 0 /\ ttl' = 0
    BY <1>1, <1>7, LimitsAssumption DEF LivesAt, Tick
  <2>2. Part(0, 0)' = 0
    <3>1. IsFiniteSet(0 .. 0)
      <4>1. 0 \in Int
        OBVIOUS
      <4> QED  BY <4>1, FS_Interval
    <3>2. \A a \in 0 .. 0 : g[a] = 0
      BY <1>3
    <3> QED  BY <1>2, <3>1, <3>2, SumZero DEF Part
  <2>3. Part(1, Window - 1)' = Part(0, Window - 2)
    <3>1. 1 = 0 + 1 /\ Window - 1 = (Window - 2) + 1
      BY LimitsAssumption
    <3>2. SumFunctionOnSet(g, 1 .. Window - 1) = SumFunctionOnSet(f, 0 .. Window - 2)
      BY <1>3, <1>a, <3>1, PartAges
    <3> QED  BY <1>2, <3>2 DEF Part
  <2>4. Part(0, Window - 2) <= Part(0, start - 1)
    <3>1. 0 .. Window - 2 \subseteq 0 .. start - 1
      BY <2>1, LimitsAssumption
    <3>2. 0 .. start - 1 \subseteq Ages /\ IsFiniteSet(0 .. start - 1)
      BY <1>2, <1>a, <1>b, PartOfAges
    <3> QED  BY <1>2, <3>1, <3>2, SumPart DEF Part
  <2>5. Part(0, Window - 2) \in Nat
    BY <1>2, <1>a, <1>b, PartOfAges DEF Part
  <2>6. Part(1, Window - 1)' <= Allowed + opened
    <3>1. Part(0, start - 1) <= counter /\ counter + Cardinality(Checked) <= Allowed + (opened - spare)
      BY <1>1 DEF LivesAt, CountedIn
    <3>2. Cardinality(Checked) \in Nat /\ Allowed \in Nat
      BY CheckedCount, AllowedNat
    <3> QED  BY <1>5, <1>6, <2>3, <2>4, <2>5, <3>1, <3>2
  <2>7. CountedIn(opened)'
    <3>1. Cardinality(Checked) <= Allowed
      BY CheckedCount, AllowedNat, LimitsAssumption DEF Allowed
    <3> QED  BY <1>4, <1>5, <2>1, <3>1, CheckedCount, AllowedNat DEF CountedIn, Allowed
  <2>8. LivesAt(1, opened)'
    <3>1. 1 - 1 = 0
      OBVIOUS
    <3> QED  BY <1>4, <2>1, <2>2, <2>6, <2>7, <3>1 DEF LivesAt, Allowed
  <2> QED  BY <1>4, <1>5, <2>8, LimitsAssumption DEF TwoLives
<1>8. CASE ttl # 1
  <2>1. counter' = counter /\ ttl' = IF ttl > 0 THEN ttl - 1 ELSE 0
    BY <1>8 DEF Tick
  <2>2. CountedIn(spare)'
    BY <1>1, <1>4, <2>1 DEF LivesAt, CountedIn, Allowed
  <2>3. CASE start < Window
    <3>1. Part(0, start)' = Part(0, start - 1)
      <4>1. SumFunctionOnSet(g, 0 .. start) = SumFunctionOnSet(g, 1 .. start)
        BY <1>3, <2>3, LimitsAssumption, PartFromNow
      <4>2. SumFunctionOnSet(g, 1 .. start) = SumFunctionOnSet(f, 0 .. start - 1)
        <5>1. PICK last \in Int : last = start - 1
          BY <1>b
        <5>2. last < Window - 1 /\ 1 = 0 + 1 /\ start = last + 1
          BY <2>3, <5>1, LimitsAssumption
        <5>3. SumFunctionOnSet(g, 1 .. start) = SumFunctionOnSet(f, 0 .. last)
          BY <1>3, <1>a, <5>2, PartAges
        <5> QED  BY <5>1, <5>3
      <4> QED  BY <1>2, <4>1, <4>2 DEF Part
    <3>2. Part(start + 1, Window - 1)' <= Part(start, Window - 1)
      <4>1. Window - 1 = (Window - 2) + 1
        BY LimitsAssumption
      <4>2. SumFunctionOnSet(g, start + 1 .. Window - 1) = SumFunctionOnSet(f, start .. Window - 2)
        <5>1. PICK older : older = start + 1
          OBVIOUS
        <5>2. SumFunctionOnSet(g, older .. Window - 1) = SumFunctionOnSet(f, start .. Window - 2)
          BY <1>3, <1>a, <4>1, <5>1, PartAges
        <5> QED  BY <5>1, <5>2
      <4>3. SumFunctionOnSet(f, start .. Window - 2) <= SumFunctionOnSet(f, start .. Window - 1)
        <5>1. start .. Window - 2 \subseteq start .. Window - 1
          BY LimitsAssumption
        <5>2. start .. Window - 1 \subseteq Ages /\ IsFiniteSet(start .. Window - 1)
          BY <1>2, <1>a, <1>b, PartOfAges
        <5> QED  BY <5>1, <5>2, SumPart
      <4> QED  BY <1>2, <4>2, <4>3 DEF Part
    <3>3. Part(start + 1, Window - 1)' \in Nat
      <4>1. start + 1 \in 1 .. Window
        BY <2>3, LimitsAssumption
      <4>2. start + 1 \in Nat /\ Window - 1 \in Int /\ Window - 1 < Window
        BY <4>1, LimitsAssumption
      <4> QED  BY <1>2, <4>2, PartOfAges DEF Part
    <3>4. Part(0, start)' <= counter' /\ Part(start + 1, Window - 1)' <= Allowed + spare
      BY <1>1, <1>6, <2>1, <3>1, <3>2, <3>3, AllowedNat DEF LivesAt
    <3>5. ttl' > 0 => (start + 1) + ttl' >= Window
      BY <1>1, <1>5, <2>1, LimitsAssumption DEF LivesAt
    <3>6. LivesAt(start + 1, spare)'
      <4>1. (start + 1) - 1 = start
        OBVIOUS
      <4> QED  BY <2>2, <3>4, <3>5, <4>1 DEF LivesAt, Allowed
    <3>7. start + 1 \in 1 .. Window
      BY <2>3, LimitsAssumption
    <3> QED  BY <1>4, <3>6, <3>7 DEF TwoLives
  <2>4. CASE start = Window
    <3>1. Part(0, Window - 1)' <= Part(0, Window - 1)
      <4>1. SumFunctionOnSet(g, 0 .. Window - 1) = SumFunctionOnSet(g, 1 .. Window - 1)
        BY <1>3, LimitsAssumption, PartFromNow
      <4>2. 1 = 0 + 1 /\ Window - 1 = (Window - 2) + 1
        BY LimitsAssumption
      <4>3. SumFunctionOnSet(g, 1 .. Window - 1) = SumFunctionOnSet(f, 0 .. Window - 2)
        BY <1>3, <1>a, <4>2, PartAges
      <4>4. SumFunctionOnSet(f, 0 .. Window - 2) <= SumFunctionOnSet(f, 0 .. Window - 1)
        <5>1. 0 .. Window - 2 \subseteq 0 .. Window - 1
          BY LimitsAssumption
        <5>2. 0 .. Window - 1 \subseteq Ages /\ IsFiniteSet(0 .. Window - 1)
          BY <1>2, <1>a, <1>b, PartOfAges
        <5> QED  BY <5>1, <5>2, SumPart
      <4> QED  BY <1>2, <4>1, <4>3, <4>4 DEF Part
    <3>2. Part(0, Window - 1)' \in Nat
      BY <1>2, <1>a, <1>b, PartOfAges DEF Part
    <3>3. Part(0, start - 1)' <= counter'
      BY <1>1, <1>5, <1>6, <2>1, <2>4, <3>1, <3>2 DEF LivesAt
    <3>4. Part(start, Window - 1)' <= Allowed + spare
      <4>1. Window .. Window - 1 = {}
        BY LimitsAssumption
      <4>2. Part(start, Window - 1)' = 0
        BY <2>4, <4>1, SumEmpty DEF Part
      <4> QED  BY <4>2, AllowedNat
    <3>5. ttl' > 0 => start + ttl' >= Window
      BY <1>5, <2>1, <2>4, LimitsAssumption
    <3>6. LivesAt(start, spare)'
      BY <2>2, <3>3, <3>4, <3>5 DEF LivesAt, Allowed
    <3> QED  BY <1>4, <3>6 DEF TwoLives
  <2> QED  BY <2>3, <2>4, LimitsAssumption
<1> QED  BY <1>7, <1>8

-----------------------------------------------------------------------------

LEMMA InitTwoLives == Init => TwoLives
<1> SUFFICES ASSUME Init PROVE TwoLives
  OBVIOUS
<1>1. IsFiniteSet(0 .. 0) /\ IsFiniteSet(1 .. Window - 1)
  <2>1. Window - 1 \in Int /\ 0 \in Int /\ 1 \in Int
    BY LimitsAssumption
  <2> QED  BY <2>1, FS_Interval
<1>2. (\A a \in 0 .. 0 : recent[a] = 0) /\ \A a \in 1 .. Window - 1 : recent[a] = 0
  BY LimitsAssumption DEF Init, Ages
<1>3. Part(0, 0) = 0 /\ Part(1, Window - 1) = 0
  BY <1>1, <1>2, SumZero DEF Part
<1>4. CountedIn(0)
  <2>1. Checked = {} /\ Cardinality({}) = 0
    BY FS_EmptySet DEF Init, Checked
  <2> QED  BY <2>1, AllowedNat DEF Init, CountedIn
<1>5. 1 - 1 = 0
  OBVIOUS
<1>6. LivesAt(1, 0)
  BY <1>3, <1>4, <1>5, AllowedNat DEF Init, LivesAt
<1> QED  BY <1>6, LimitsAssumption DEF Init, TwoLives

LEMMA NextTwoLives == TypeOK /\ TypeOK' /\ TwoLives /\ [Next]_vars => TwoLives'
<1> SUFFICES ASSUME TypeOK, TypeOK', TwoLives, [Next]_vars PROVE TwoLives'
  OBVIOUS
<1>0. PICK start \in 1 .. Window, spare \in 0 .. opened : LivesAt(start, spare)
  BY DEF TwoLives
<1>1. CountedIn(spare) /\ counter \in Nat /\ opened \in Nat
  BY <1>0, LimitsAssumption DEF LivesAt, TypeOK
<1>2. ASSUME NEW r \in Requests, Check(r)
      PROVE  TwoLives'
  <2>1. Checked' = Checked \cup {r}
    BY <1>2, MoveFacts DEF Check, Move
  <2>2. Cardinality(Checked') \in 0 .. Cardinality(Requests)
    BY <2>1, CountFacts DEF Checked
  <2>3. counter <= MaxFailures - 1 /\ UNCHANGED <<counter, ttl, opened, recent>>
    BY <1>1, <1>2, LimitsAssumption DEF Check, key
  <2>4. CountedIn(spare)'
    BY <1>1, <2>2, <2>3, AllowedNat, LimitsAssumption DEF CountedIn, Allowed
  <2> QED  BY <1>0, <1>1, <2>3, <2>4, LivesGoOn
<1>3. ASSUME NEW r \in Requests, CheckFailsOpen(r)
      PROVE  TwoLives'
  <2>1. Checked' = Checked \cup {r} /\ r \notin Checked
    BY <1>3, MoveFacts DEF CheckFailsOpen, Move, Checked
  <2>2. Cardinality(Checked') = Cardinality(Checked) + 1 /\ Cardinality(Checked) \in Nat
    <3>1. Checked \subseteq Requests
      BY DEF Checked
    <3> QED  BY <2>1, <3>1, RequestsAssumption, FS_Subset, FS_AddElement, FS_CardinalityType
  <2>3. opened' = opened + 1 /\ UNCHANGED <<counter, ttl, recent>>
    BY <1>3 DEF CheckFailsOpen, key
  <2>4. CountedIn(spare)'
    BY <1>1, <2>2, <2>3, AllowedNat DEF CountedIn, Allowed
  <2> QED  BY <1>0, <1>1, <2>3, <2>4, LivesGoOn
<1>4. ASSUME NEW r \in Requests, RecordFailure(r) \/ RecordFailureUnanswered(r)
      PROVE  TwoLives'
  <2>1. pc[r] = "checked" /\ Checked' = Checked \ {r}
    BY <1>4, MoveFacts DEF RecordFailure, RecordFailureUnanswered, Move
  <2> QED  BY <1>4, <2>1, FailureLives DEF RecordFailure, RecordFailureUnanswered
<1>5. ASSUME NEW r \in Requests, SetExpiry(r)
      PROVE  TwoLives'
  <2>1. Checked' = Checked
    BY <1>5, MoveFacts DEF SetExpiry, Move, Checked
  <2>2. UNCHANGED <<counter, opened, recent>> /\ (ttl' = ttl \/ ttl' = Window)
    BY <1>5 DEF SetExpiry
  <2>3. CountedIn(spare)'
    BY <1>1, <2>1, <2>2 DEF CountedIn, Allowed
  <2> QED  BY <1>0, <1>1, <2>2, <2>3, LivesGoOn
<1>6. ASSUME NEW r \in Requests, ClearFailures(r)
      PROVE  TwoLives'
  <2>1. pc[r] = "checked" /\ Checked' = Checked \ {r}
    <3>1. pc[r] = "checked" /\ pc' = [pc EXCEPT ![r] = "idle"]
      BY <1>6 DEF ClearFailures, Move
    <3> QED  BY <3>1, MoveFacts DEF Checked
  <2> QED  BY <1>6, <2>1, ClearLives DEF ClearFailures
<1>7. ASSUME NEW r \in Requests, Abandon(r)
      PROVE  TwoLives'
  <2>1. Checked' = Checked \ {r}
    <3>1. pc' = [pc EXCEPT ![r] = "idle"]
      BY <1>7 DEF Abandon
    <3> QED  BY <3>1, MoveFacts DEF Checked
  <2>2. Cardinality(Checked') <= Cardinality(Checked) /\ Cardinality(Checked') \in Nat /\ Cardinality(Checked) \in Nat
    BY <2>1, CountFacts, CheckedCount, FS_RemoveElement, FS_CardinalityType, RequestsAssumption, FS_Subset DEF Checked
  <2>3. UNCHANGED <<counter, ttl, opened, recent>>
    BY <1>7 DEF Abandon
  <2>4. CountedIn(spare)'
    BY <1>1, <2>2, <2>3, AllowedNat DEF CountedIn, Allowed
  <2> QED  BY <1>0, <1>1, <2>3, <2>4, LivesGoOn
<1>8. CASE Tick
  BY <1>8, TickLives
<1>9. CASE UNCHANGED vars
  <2>1. Checked' = Checked /\ UNCHANGED <<counter, ttl, opened, recent>>
    BY <1>9 DEF vars, Checked
  <2>2. CountedIn(spare)'
    BY <1>1, <2>1 DEF CountedIn, Allowed
  <2> QED  BY <1>0, <1>1, <2>1, <2>2, LivesGoOn
<1> QED
  BY <1>2, <1>3, <1>4, <1>5, <1>6, <1>7, <1>8, <1>9 DEF Next, Finish

(* No window sees more failures than two lives of the key allow, although  *)
(* the key's window doesn't slide and its expiry may be set late, or for   *)
(* another key than the one it was meant for (authenticate_user).          *)
THEOREM FailuresAreBounded == Spec => []FailuresBounded
<1>1. TypeOK /\ TwoLives => FailuresBounded
  <2> SUFFICES ASSUME TypeOK, TwoLives PROVE FailuresBounded
    OBVIOUS
  <2>1. PICK start \in 1 .. Window, spare \in 0 .. opened : LivesAt(start, spare)
    BY DEF TwoLives
  <2>2. PICK f \in [Ages -> Nat] : f = recent
    BY DEF TypeOK
  <2>3. SumFunction(f) = SumFunctionOnSet(f, Ages)
    BY DEF SumFunction
  <2> DEFINE Young == 0 .. start - 1
             Old   == start .. Window - 1
  <2>4. Ages = Young \cup Old /\ Young \cap Old = {}
    BY LimitsAssumption DEF Ages
  <2>5. IsFiniteSet(Young) /\ IsFiniteSet(Old)
    BY FS_Interval, LimitsAssumption
  <2>6. \A a \in Young \cup Old : f[a] \in Int
    BY <2>4
  <2>7. SumFunctionOnSet(f, Young \cup Old) = SumFunctionOnSet(f, Young) + SumFunctionOnSet(f, Old)
    <3> HIDE DEF Young, Old
    <3> QED  BY <2>4, <2>5, <2>6, SumUnion
  <2>8. SumFunction(recent) = Part(0, start - 1) + Part(start, Window - 1)
    BY <2>2, <2>3, <2>4, <2>7 DEF Part
  <2>9. Part(0, start - 1) \in Nat /\ Part(start, Window - 1) \in Nat
    BY PartsNat
  <2>10. /\ Part(0, start - 1) <= counter /\ Part(start, Window - 1) <= Allowed + spare
         /\ counter + Cardinality(Checked) <= Allowed + (opened - spare)
    BY <2>1 DEF LivesAt, CountedIn
  <2>11. counter \in Nat /\ opened \in Nat /\ Cardinality(Checked) \in Nat /\ Allowed \in Nat
    BY LimitsAssumption, CheckedCount, AllowedNat DEF TypeOK
  <2>12. SumFunction(recent) <= 2 * Allowed + opened
    BY <2>8, <2>9, <2>10, <2>11
  <2> QED  BY <2>12 DEF FailuresBounded, Allowed
<1> QED  BY <1>1, TypeCorrect, InitTwoLives, NextTwoLives, PTL DEF Spec
=============================================================================

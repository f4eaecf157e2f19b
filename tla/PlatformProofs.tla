---------------------------- MODULE PlatformProofs ----------------------------
(***************************************************************************)
(* Proofs about what lies around the services: the rate limit, copies of   *)
(* answers, the assistant and the reports, each for any number of keys,    *)
(* browsers, callers, rows and any limits; and then of MCPlatform, whose   *)
(* behaviours are theirs.                                                  *)
(***************************************************************************)
EXTENDS MCPlatform, Sequences, FiniteSums

LEMMA TheAssumptions == Copies!CopiesAssumption /\ Chat!AssistantAssumption /\ Report!ReportsAssumption
  BY PlatformAssumption

-----------------------------------------------------------------------------
(***************************************************************************)
(* The rate limit.  It counts what the code forgets as well as what it     *)
(* remembers, so the invariant says how long an admission is remembered:   *)
(* its score lies in the sorted set of its key for at least the window     *)
(* less the lag.                                                           *)
(***************************************************************************)
(* No sorted set ever holds more than the limit. *)
Bounded == \A k \in Keys : IsFiniteSet(log[k]) /\ Cardinality(log[k]) <= Limit

(* What an admission was recorded with, and that Redis keeps its key. *)
Recorded ==
  \A b \in admitted :
    /\ b.at <= clock
    /\ b.at - Lag <= b.score
    /\ b.at + Window <= expires[b.key]

(* A recent admission is still counted. *)
Remembered == \A b \in admitted : b.at > clock - (Window - Lag) => b.score \in log[b.key]

(* No score is negative. *)
LateEnough == Lag <= clock

LimiterInv == TypeOK /\ Bounded /\ Recorded /\ Remembered /\ WindowRespected /\ LateEnough

-----------------------------------------------------------------------------
(* A request's key is one of the keys. *)
LEMMA KeyType ==
  ASSUME NEW e, NEW i \in Identifiers
  PROVE  ScopedKey(e, i) \in Keys
  <1>1. RuleGroup(e, TRUE) \in Groups /\ RuleGroup(e, FALSE) \in Groups
    BY DEF RuleGroup, Groups
  <1>2. (i \in Users) \in BOOLEAN
    OBVIOUS
  <1>3. RuleGroup(e, i \in Users) \in Groups
    BY <1>1, <1>2
  <1> QED BY <1>3 DEF ScopedKey, Keys

(* What a script keeps of a key is part of what was there. *)
LEMMA KeptIsPart ==
  ASSUME LimiterInv, NEW k \in Keys, NEW now \in clock - Lag .. clock
  PROVE  /\ Kept(k, now) \subseteq log[k] /\ Kept(k, now) \in SUBSET Nat
         /\ IsFiniteSet(Kept(k, now))
         /\ Cardinality(Kept(k, now)) \in Nat /\ Cardinality(Kept(k, now)) <= Limit
  <1>1. Kept(k, now) \subseteq log[k]
    BY DEF Kept, Live
  <1>2. log[k] \in SUBSET Nat
    BY DEF LimiterInv, TypeOK
  <1>3. IsFiniteSet(log[k]) /\ Cardinality(log[k]) <= Limit
    BY DEF LimiterInv, Bounded
  <1>4. /\ IsFiniteSet(Kept(k, now))
        /\ Cardinality(Kept(k, now)) <= Cardinality(log[k])
    BY <1>1, <1>3, FS_Subset
  <1>5. Cardinality(Kept(k, now)) \in Nat /\ Cardinality(log[k]) \in Nat
    BY <1>3, <1>4, FS_CardinalityType
  <1>6. Limit \in Nat
    BY LimiterAssumption
  <1>7. Cardinality(Kept(k, now)) <= Limit
    BY <1>3, <1>4, <1>5, <1>6
  <1> QED BY <1>1, <1>2, <1>4, <1>5, <1>7

(* A script removes nothing that went in less than Window - Lag ago. *)
LEMMA RecentIsKept ==
  ASSUME LimiterInv, NEW k \in Keys, NEW now \in clock - Lag .. clock,
         NEW b \in admitted, b.key = k, b.at > clock - (Window - Lag)
  PROVE  b.score \in Kept(k, now)
  <1>1. /\ clock \in Nat /\ b.at \in Nat /\ b.score \in Nat /\ expires[k] \in Nat
        /\ Window \in Nat /\ Lag \in Nat /\ Lag <= Window
    BY LimiterAssumption DEF LimiterInv, TypeOK, Admissions
  <1>2. b.score \in log[k]
    BY DEF LimiterInv, Remembered
  <1>3. b.at - Lag <= b.score /\ b.at + Window <= expires[k]
    BY DEF LimiterInv, Recorded
  <1>4. clock < expires[k]
    BY <1>1, <1>3
  <1>5. b.score > now - Window
    BY <1>1, <1>3
  <1> QED BY <1>2, <1>4, <1>5 DEF Kept, Live

-----------------------------------------------------------------------------
(* The invariant holds at the start. *)
LEMMA LimiterInitInv == Init => LimiterInv
  <1> SUFFICES ASSUME Init PROVE LimiterInv
    OBVIOUS
  <1>1. TypeOK
    BY LimiterAssumption DEF Init, TypeOK
  <1>2. Bounded
    BY LimiterAssumption, FS_EmptySet DEF Init, Bounded
  <1>3. Recorded /\ Remembered /\ WindowRespected
    BY DEF Init, Recorded, Remembered, WindowRespected
  <1>4. LateEnough
    BY LimiterAssumption DEF Init, LateEnough
  <1> QED BY <1>1, <1>2, <1>3, <1>4 DEF LimiterInv

-----------------------------------------------------------------------------
(* A script that admits nothing forgets nothing recent. *)
LEMMA OnlyForgets ==
  ASSUME LimiterInv, NEW k \in Keys, NEW now \in clock - Lag .. clock,
         log' = [log EXCEPT ![k] = Kept(k, now)], UNCHANGED <<clock, expires, admitted>>,
         asking' \subseteq Keys, answer' \in [status : {"passed", "refused", "asked"}, remaining : Nat]
  PROVE  LimiterInv'
  <1>0. /\ TypeOK /\ Bounded /\ Recorded /\ Remembered /\ WindowRespected
        /\ log \in [Keys -> SUBSET Nat]
    BY DEF LimiterInv, TypeOK
  <1>1. Kept(k, now) \in SUBSET Nat
    BY KeptIsPart
  <1>2. TypeOK'
    BY <1>0, <1>1 DEF TypeOK
  <1>3. Bounded'
    <2> SUFFICES ASSUME NEW j \in Keys PROVE IsFiniteSet(log'[j]) /\ Cardinality(log'[j]) <= Limit
      BY DEF Bounded
    <2>1. CASE j = k
      BY <2>1, <1>0, KeptIsPart
    <2>2. CASE j # k
      BY <2>2, <1>0 DEF Bounded
    <2> QED BY <2>1, <2>2
  <1>4. Recorded'
    BY <1>0 DEF Recorded
  <1>5. Remembered'
    <2> SUFFICES ASSUME NEW b \in admitted, b.at > clock - (Window - Lag) PROVE b.score \in log'[b.key]
      BY DEF Remembered
    <2>1. b.key \in Keys
      BY <1>0 DEF TypeOK, Admissions
    <2>2. CASE b.key = k
      BY <2>2, <1>0, RecentIsKept
    <2>3. CASE b.key # k
      BY <2>1, <2>3, <1>0 DEF Remembered
    <2> QED BY <2>2, <2>3
  <1>6. WindowRespected'
    BY <1>0 DEF WindowRespected, Recent, Scores
  <1>7. LateEnough'
    BY DEF LimiterInv, LateEnough
  <1> QED BY <1>2, <1>3, <1>4, <1>5, <1>6, <1>7 DEF LimiterInv

(* An admission fits: the recent ones of its key are all in the sorted set, *)
(* which still has room.                                                    *)
LEMMA AdmitInv ==
  ASSUME LimiterInv, NEW k \in Keys, NEW now \in clock - Lag .. clock, Admit(k, now)
  PROVE  LimiterInv'
  <1> DEFINE new == [key |-> k, at |-> clock, score |-> now]
  <1>0. /\ TypeOK /\ Bounded /\ Recorded /\ Remembered /\ WindowRespected
        /\ log \in [Keys -> SUBSET Nat] /\ expires \in [Keys -> Nat]
        /\ admitted \subseteq Admissions /\ clock \in Nat
    BY DEF LimiterInv, TypeOK
  <1>1. Limit \in Nat /\ Window \in Nat /\ Lag \in Nat /\ Lag <= Window
    BY LimiterAssumption
  <1>2. /\ log' = [log EXCEPT ![k] = Kept(k, now) \cup {now}]
        /\ expires' = [expires EXCEPT ![k] = clock + Window]
        /\ admitted' = admitted \cup {new}
        /\ clock' = clock /\ asking' = asking
        /\ answer' = [status |-> "passed", remaining |-> Limit - (Cardinality(Kept(k, now)) + 1)]
        /\ Cardinality(Kept(k, now)) < Limit
    BY DEF Admit, Tell, MayPass
  <1>3. /\ Kept(k, now) \in SUBSET Nat /\ IsFiniteSet(Kept(k, now)) /\ Cardinality(Kept(k, now)) \in Nat
    BY KeptIsPart
  <1>4. IsFiniteSet(log'[k]) /\ Cardinality(log'[k]) <= Limit
    <2>1. log'[k] = Kept(k, now) \cup {now}
      BY <1>0, <1>2
    <2>2. /\ IsFiniteSet(Kept(k, now) \cup {now})
          /\ Cardinality(Kept(k, now) \cup {now}) =
               IF now \in Kept(k, now) THEN Cardinality(Kept(k, now)) ELSE Cardinality(Kept(k, now)) + 1
      BY <1>3, FS_AddElement
    <2> QED BY <2>1, <2>2, <1>1, <1>2, <1>3
  <1>5. now \in Int /\ now <= clock /\ clock - Lag <= now
    BY <1>0, <1>1
  <1>6. now \in Nat
    BY <1>0, <1>1, <1>5 DEF LimiterInv, LateEnough
  <1>7. TypeOK'
    <2>1. new \in Admissions
      BY <1>0, <1>6 DEF Admissions
    <2>2. log' \in [Keys -> SUBSET Nat] /\ expires' \in [Keys -> Nat]
      BY <1>0, <1>1, <1>2, <1>3, <1>6
    <2>3. Limit - (Cardinality(Kept(k, now)) + 1) \in Nat
      BY <1>1, <1>2, <1>3
    <2> QED BY <2>1, <2>2, <2>3, <1>0, <1>2 DEF TypeOK
  <1>8. Bounded'
    BY <1>0, <1>2, <1>4 DEF Bounded
  <1>9. Recorded'
    <2> SUFFICES ASSUME NEW b \in admitted'
                 PROVE  b.at <= clock /\ b.at - Lag <= b.score /\ b.at + Window <= expires'[b.key]
      BY <1>2 DEF Recorded
    <2>1. CASE b = new
      BY <2>1, <1>0, <1>1, <1>2, <1>5
    <2>2. CASE b \in admitted
      <3>1. /\ b.at \in Nat /\ b.key \in Keys
            /\ b.at <= clock /\ b.at - Lag <= b.score /\ b.at + Window <= expires[b.key]
        BY <2>2, <1>0 DEF Recorded, Admissions
      <3>2. CASE b.key = k
        BY <3>1, <3>2, <1>0, <1>1, <1>2
      <3>3. CASE b.key # k
        BY <3>1, <3>3, <1>0, <1>2
      <3> QED BY <3>2, <3>3
    <2> QED BY <2>1, <2>2, <1>2
  <1>10. Remembered'
    <2> SUFFICES ASSUME NEW b \in admitted', b.at > clock - (Window - Lag) PROVE b.score \in log'[b.key]
      BY <1>2 DEF Remembered
    <2>1. CASE b = new
      BY <2>1, <1>0, <1>2
    <2>2. CASE b \in admitted /\ b.key = k
      BY <2>2, <1>0, <1>2, RecentIsKept
    <2>3. CASE b \in admitted /\ b.key # k
      BY <2>3, <1>0, <1>2 DEF Remembered, Admissions
    <2> QED BY <2>1, <2>2, <2>3, <1>2
  <1>11. WindowRespected'
    <2> SUFFICES ASSUME NEW a \in admitted' PROVE Cardinality(Scores(Recent(a)')) <= Limit
      BY DEF WindowRespected, Scores
    <2>1. a.at \in Nat /\ a.at <= clock
      BY <1>0, <1>2 DEF Recorded, Admissions
    <2>2. CASE a.key = k /\ a.at = clock
      <3>1. Scores(Recent(a)') \subseteq log'[k]
        BY <2>2, <1>2, <1>10 DEF Scores, Recent, Remembered
      <3>2. Cardinality(Scores(Recent(a)')) <= Cardinality(log'[k])
        BY <3>1, <1>4, FS_Subset
      <3>3. /\ Cardinality(log'[k]) \in Nat /\ Cardinality(Scores(Recent(a)')) \in Nat
        BY <3>1, <1>4, FS_Subset, FS_CardinalityType
      <3> QED BY <3>2, <3>3, <1>1, <1>4
    <2>3. CASE ~(a.key = k /\ a.at = clock)
      <3>1. a \in admitted
        BY <2>3, <1>2
      <3>2. Recent(a)' = Recent(a)
        BY <2>1, <2>3, <1>0, <1>2 DEF Recent
      <3> QED BY <3>1, <3>2, <1>0 DEF WindowRespected
    <2> QED BY <2>2, <2>3
  <1>12. LateEnough'
    BY <1>2 DEF LimiterInv, LateEnough
  <1> QED BY <1>7, <1>8, <1>9, <1>10, <1>11, <1>12 DEF LimiterInv

(* A step that only answers. *)
LEMMA OnlyAnswers ==
  ASSUME LimiterInv, UNCHANGED <<clock, log, expires, admitted>>,
         asking' \subseteq Keys, answer' \in [status : {"passed", "refused", "asked"}, remaining : Nat]
  PROVE  LimiterInv'
  BY DEF LimiterInv, TypeOK, Bounded, Recorded, Remembered, WindowRespected, Recent, Scores, LateEnough

(* Every step of a request and of the two operations beside it. *)
LEMMA RequestInv ==
  ASSUME LimiterInv, NEW e, NEW i \in Identifiers, Request(e, i)
  PROVE  LimiterInv'
  <1>1. PICK now \in clock - Lag .. clock : Admit(ScopedKey(e, i), now) \/ Refuse(ScopedKey(e, i), now)
    BY DEF Request
  <1>2. ScopedKey(e, i) \in Keys
    BY KeyType
  <1>3. CASE Admit(ScopedKey(e, i), now)
    BY <1>2, <1>3, AdmitInv
  <1>4. CASE Refuse(ScopedKey(e, i), now)
    <2>1. answer' \in [status : {"passed", "refused", "asked"}, remaining : Nat]
      BY <1>4 DEF Refuse, Tell
    <2>2. /\ log' = [log EXCEPT ![ScopedKey(e, i)] = Kept(ScopedKey(e, i), now)]
          /\ UNCHANGED <<clock, expires, asking, admitted>>
      BY <1>4 DEF Refuse
    <2> QED BY <1>2, <2>1, <2>2, OnlyForgets DEF LimiterInv, TypeOK
  <1> QED BY <1>1, <1>3, <1>4

LEMMA GetRemainingInv ==
  ASSUME LimiterInv, NEW k \in Keys, GetRemaining(k)
  PROVE  LimiterInv'
  <1>1. PICK now \in clock - Lag .. clock : log' = [log EXCEPT ![k] = Kept(k, now)]
    BY DEF GetRemaining
  <1>2. asking' \subseteq Keys /\ UNCHANGED <<clock, expires, admitted, answer>>
    BY DEF GetRemaining, LimiterInv, TypeOK
  <1> QED BY <1>1, <1>2, OnlyForgets DEF LimiterInv, TypeOK

LEMMA CountRemainingInv ==
  ASSUME LimiterInv, NEW k \in Keys, CountRemaining(k)
  PROVE  LimiterInv'
  <1> DEFINE left == Limit - Cardinality(Live(k))
  <1>1. answer' = [status |-> "asked", remaining |-> IF left > 0 THEN left ELSE 0]
    BY DEF CountRemaining, Tell
  <1>2. left \in Int
    <2>1. IsFiniteSet(Live(k))
      BY FS_EmptySet DEF Live, LimiterInv, Bounded
    <2> QED BY <2>1, FS_CardinalityType, LimiterAssumption
  <1>3. answer' \in [status : {"passed", "refused", "asked"}, remaining : Nat]
    <2> HIDE DEF left
    <2> QED BY <1>1, <1>2
  <1>4. asking' \subseteq Keys /\ UNCHANGED <<clock, log, expires, admitted>>
    BY DEF CountRemaining, LimiterInv, TypeOK
  <1> QED BY <1>3, <1>4, OnlyAnswers

LEMMA RemainingFailsInv ==
  ASSUME LimiterInv, NEW k \in Keys, RemainingFails(k)
  PROVE  LimiterInv'
  <1>1. asking' \subseteq Keys /\ UNCHANGED <<clock, log, expires, admitted>>
    BY DEF RemainingFails, LimiterInv, TypeOK
  <1>2. answer' \in [status : {"passed", "refused", "asked"}, remaining : Nat]
    BY LimiterAssumption DEF RemainingFails, Tell
  <1> QED BY <1>1, <1>2, OnlyAnswers

LEMMA ResetInv ==
  ASSUME LimiterInv, NEW k \in Keys, Reset(k)
  PROVE  LimiterInv'
  <1>0. /\ TypeOK /\ Bounded /\ Recorded /\ Remembered /\ WindowRespected /\ LateEnough
        /\ log \in [Keys -> SUBSET Nat] /\ expires \in [Keys -> Nat] /\ admitted \subseteq Admissions
    BY DEF LimiterInv, TypeOK
  <1>1. /\ log' = [log EXCEPT ![k] = {}] /\ expires' = [expires EXCEPT ![k] = 0]
        /\ admitted' = {a \in admitted : a.key # k}
        /\ UNCHANGED <<clock, asking, answer>>
    BY DEF Reset
  <1>2. TypeOK'
    BY <1>0, <1>1 DEF TypeOK
  <1>3. Bounded'
    BY <1>0, <1>1, FS_EmptySet, LimiterAssumption DEF Bounded
  <1>4. \A b \in admitted' : /\ b \in admitted /\ b.key \in Keys
                             /\ log'[b.key] = log[b.key] /\ expires'[b.key] = expires[b.key]
    BY <1>0, <1>1 DEF Admissions
  <1>5. Recorded' /\ Remembered' /\ LateEnough'
    BY <1>0, <1>1, <1>4 DEF Recorded, Remembered, LateEnough
  <1>6. ASSUME NEW a \in admitted' PROVE Recent(a)' = Recent(a)
    BY <1>1, <1>6 DEF Recent
  <1>7. WindowRespected'
    BY <1>0, <1>4, <1>6 DEF WindowRespected, Scores
  <1> QED BY <1>2, <1>3, <1>5, <1>7 DEF LimiterInv

LEMMA TickLimiterInv == LimiterInv /\ Tick => LimiterInv'
  <1> SUFFICES ASSUME LimiterInv, Tick PROVE LimiterInv'
    OBVIOUS
  <1>0. /\ TypeOK /\ Bounded /\ Recorded /\ Remembered /\ WindowRespected /\ LateEnough
        /\ admitted \subseteq Admissions /\ clock \in Nat /\ Window \in Nat /\ Lag \in Nat
    BY LimiterAssumption DEF LimiterInv, TypeOK
  <1>1. clock' = clock + 1 /\ UNCHANGED <<log, expires, asking, admitted, answer>>
    BY DEF Tick
  <1>2. TypeOK' /\ Bounded' /\ LateEnough'
    BY <1>0, <1>1 DEF TypeOK, Bounded, LateEnough
  <1>3. Recorded' /\ Remembered'
    BY <1>0, <1>1 DEF Recorded, Remembered, Admissions
  <1>4. WindowRespected'
    BY <1>0, <1>1 DEF WindowRespected, Recent, Scores
  <1> QED BY <1>2, <1>3, <1>4 DEF LimiterInv

-----------------------------------------------------------------------------
(* The invariant is inductive. *)
LEMMA LimiterNextInv == LimiterInv /\ [Next]_vars => LimiterInv'
  <1> SUFFICES ASSUME LimiterInv, [Next]_vars PROVE LimiterInv'
    OBVIOUS
  <1>1. ASSUME NEW e \in Endpoints, NEW i \in Identifiers, Request(e, i) PROVE LimiterInv'
    BY <1>1, RequestInv
  <1>2. ASSUME NEW e \in Endpoints, FailOpen(e) PROVE LimiterInv'
    BY <1>2, OnlyAnswers, LimiterAssumption DEF FailOpen, Tell, LimiterInv, TypeOK
  <1>3. CASE PassUnlimited
    BY <1>3, OnlyAnswers DEF PassUnlimited, Tell, LimiterInv, TypeOK
  <1>4. ASSUME NEW k \in UsedKeys PROVE k \in Keys
    BY KeyType DEF UsedKeys
  <1>5. ASSUME NEW k \in UsedKeys, GetRemaining(k) \/ CountRemaining(k) \/ RemainingFails(k) PROVE LimiterInv'
    BY <1>4, <1>5, GetRemainingInv, CountRemainingInv, RemainingFailsInv
  <1>6. ASSUME NEW k \in UsedKeys, Reset(k) PROVE LimiterInv'
    BY <1>4, <1>6, ResetInv
  <1>7. CASE Tick
    BY <1>7, TickLimiterInv
  <1>8. CASE UNCHANGED vars
    BY <1>8, OnlyAnswers DEF vars, LimiterInv, TypeOK
  <1> QED BY <1>1, <1>2, <1>3, <1>5, <1>6, <1>7, <1>8 DEF Next

(* The sets, the expiry, the history and the answers have their types in   *)
(* every state that requests, failures and resets reach.                   *)
THEOREM LimiterTypeCorrect == Spec => []TypeOK
  <1>1. LimiterInv => TypeOK
    BY DEF LimiterInv
  <1> QED BY <1>1, LimiterInitInv, LimiterNextInv, PTL DEF Spec

(* The sliding window of check_rate_limit keeps its limit whatever the     *)
(* numbers: in any time shorter by the lag than the window, no key lets    *)
(* through more scores than the limit.                                     *)
THEOREM WindowIsRespected == Spec => []WindowRespected
  <1>1. LimiterInv => WindowRespected
    BY DEF LimiterInv
  <1> QED BY <1>1, LimiterInitInv, LimiterNextInv, PTL DEF Spec
-----------------------------------------------------------------------------
(***************************************************************************)
(* Copies of answers.  The property is about what a browser shows; what    *)
(* makes it true is how old its copy may be, and how old the answer on its *)
(* way, since the request for it went out.                                 *)
(***************************************************************************)
(* What a browser or Redis keeps: at most one copy. *)
Copied == [body : Bodies, until : Nat]
KeptCopies == {<<>>} \cup {<<c>> : c \in Copied}

Answers == [status : {200}, body : Bodies] \cup [status : {304, 500}]

Gets ==
  {Copies!NoRequest} \cup [at : {"sent"}, since : Nat, tag : KeptCopies]
              \cup [at : {"answered"}, since : Nat, answer : Answers]

Displays == {Copies!NotYet} \cup [source : {"copy"}, age : Int] \cup [source : {"server", "disconnected"}]
ReaderPlaces == {Copies!AtRest} \cup [at : {"missed"}] \cup [at : {"loaded"}, got : Bodies]

CopiesShape ==
  /\ time \in 0 .. MaxTime /\ body \in Bodies /\ leftAt \in [Bodies -> 0 .. MaxTime]
  /\ copy \in [Browsers -> KeptCopies] /\ lenient \subseteq Browsers
  /\ request \in [Browsers -> Gets]
  /\ display \in [Browsers -> Displays]
  /\ entry \in KeptCopies
  /\ reader \in [Readers -> ReaderPlaces]

(* A copy was the answer when its lifetime began. *)
CopyInv(b) ==
  copy[b] # <<>> =>
    /\ copy[b][1].until <= time + Ttl
    /\ Copies!Age(copy[b][1].body) <= time - (copy[b][1].until - Ttl)

(* An answer on its way was true since the request for it: of its body, or *)
(* of the copy that it renews, which is still there.                       *)
GetInv(b) ==
  /\ request[b].at = "sent" => request[b].since <= time /\ request[b].tag = copy[b]
  /\ request[b].at = "answered" =>
       /\ request[b].since <= time
       /\ request[b].answer.status = 200 => Copies!Age(request[b].answer.body) <= time - request[b].since
       /\ request[b].answer.status = 304 => copy[b] # <<>> /\ Copies!Age(copy[b][1].body) <= time - request[b].since

CopiesInv ==
  /\ CopiesShape
  /\ \A x \in Bodies : leftAt[x] <= time
  /\ \A b \in Browsers : CopyInv(b) /\ GetInv(b)
  /\ Copies!StaleAtMostTtl

-----------------------------------------------------------------------------
(* A copy that is kept. *)
LEMMA KeptCopy ==
  ASSUME NEW c \in KeptCopies
  PROVE  /\ Copies!IsCopy(c)
         /\ c # <<>> => c[1] \in Copied /\ c[1].body \in Bodies /\ c[1].until \in Nat
  BY DEF KeptCopies, Copied, Copies!IsCopy

LEMMA KeepKept ==
  ASSUME NEW x \in Bodies, NEW since \in Nat
  PROVE  /\ Copies!Keep(x, since) \in KeptCopies /\ Copies!Keep(x, since) # <<>>
         /\ Copies!Keep(x, since)[1].body = x /\ Copies!Keep(x, since)[1].until = since + Ttl
  BY TheAssumptions DEF Copies!Keep, KeptCopies, Copied, Copies!CopiesAssumption

LEMMA GetsByPlace ==
  ASSUME NEW q \in Gets
  PROVE  /\ q.at \in {"none", "sent", "answered"}
         /\ q.at = "sent" => q.since \in Nat /\ q.tag \in KeptCopies
         /\ q.at = "answered" => /\ q.since \in Nat /\ q.answer \in Answers
                                 /\ q.answer.status \in {200, 304, 500}
                                 /\ q.answer.status = 200 => q.answer.body \in Bodies
  BY DEF Gets, Answers, Copies!NoRequest

(* How old a body is. *)
LEMMA AgeType ==
  ASSUME CopiesInv, NEW x \in Bodies
  PROVE  Copies!Age(x) \in Nat /\ time \in Nat
  BY TheAssumptions DEF CopiesInv, CopiesShape, Copies!Age, Copies!CopiesAssumption

LEMMA TypesOfInv ==
  ASSUME CopiesInv, NEW b \in Browsers
  PROVE  /\ copy[b] \in KeptCopies /\ request[b] \in Gets
         /\ copy[b] # <<>> => /\ copy[b][1].body \in Bodies /\ copy[b][1].until \in Nat
                              /\ Copies!Age(copy[b][1].body) \in Nat
         /\ time \in Nat /\ Ttl \in Nat \ {0}
  <1>1. copy[b] \in KeptCopies /\ request[b] \in Gets
    BY DEF CopiesInv, CopiesShape
  <1>2. copy[b] # <<>> => copy[b][1].body \in Bodies /\ copy[b][1].until \in Nat
    BY <1>1, KeptCopy
  <1> QED BY <1>1, <1>2, AgeType, TheAssumptions DEF Copies!CopiesAssumption, CopiesInv, CopiesShape

(* Neither a write nor the clock makes a body older than time passes. *)
LEMMA OlderWithTime ==
  ASSUME CopiesInv, Copies!Write \/ Copies!Tick, NEW x \in Bodies
  PROVE  Copies!Age(x)' - Copies!Age(x) <= time' - time /\ Copies!Age(x)' \in Nat
  <1>1. time \in Nat /\ body \in Bodies /\ leftAt \in [Bodies -> 0 .. MaxTime] /\ leftAt[x] <= time /\ leftAt[x] \in Nat
    BY TheAssumptions DEF CopiesInv, CopiesShape, Copies!CopiesAssumption
  <1>2. CASE Copies!Tick
    BY <1>1, <1>2 DEF Copies!Tick, Copies!Age
  <1>3. CASE Copies!Write
    <2>1. body' \in Bodies \ {body} /\ time' = time
      BY <1>3 DEF Copies!Write
    <2>2. leftAt' = [leftAt EXCEPT ![body] = time, ![body'] = 0]
      BY <1>3 DEF Copies!Write
    <2>3. x # body /\ x # body' => leftAt'[x] = leftAt[x]
      BY <1>1, <2>1, <2>2
    <2>4. leftAt'[body] = time
      BY <1>1, <2>1, <2>2
    <2> QED BY <1>1, <2>1, <2>3, <2>4 DEF Copies!Age
  <1> QED BY <1>2, <1>3

LEMMA CopiesInitInv == Copies!Init => CopiesInv
  <1> SUFFICES ASSUME Copies!Init PROVE CopiesInv
    OBVIOUS
  <1>1. MaxTime \in Nat /\ Copies!NoRequest \in Gets /\ Copies!NotYet \in Displays /\ Copies!AtRest \in ReaderPlaces /\ <<>> \in KeptCopies
    BY TheAssumptions DEF Copies!CopiesAssumption, Gets, Displays, ReaderPlaces, KeptCopies
  <1>2. CopiesShape
    BY <1>1 DEF Copies!Init, CopiesShape
  <1>3. \A b \in Browsers : CopyInv(b) /\ GetInv(b)
    BY DEF Copies!Init, CopyInv, GetInv, Copies!NoRequest
  <1>4. Copies!StaleAtMostTtl
    BY DEF Copies!Init, Copies!StaleAtMostTtl, Copies!NotYet
  <1> QED BY <1>2, <1>3, <1>4 DEF CopiesInv, Copies!Init

-----------------------------------------------------------------------------
(* One browser moves: its copy, its request and what it shows. *)
LEMMA OneBrowser ==
  ASSUME CopiesInv, NEW b \in Browsers, UNCHANGED <<time, body, leftAt, entry, reader>>, lenient' \subseteq Browsers,
         copy' \in [Browsers -> KeptCopies], request' \in [Browsers -> Gets], display' \in [Browsers -> Displays],
         \A o \in Browsers \ {b} : copy'[o] = copy[o] /\ request'[o] = request[o] /\ display'[o] = display[o],
         CopyInv(b)', GetInv(b)', display'[b].source = "copy" => display'[b].age < Ttl
  PROVE  CopiesInv'
  <1>1. CopiesShape'
    BY DEF CopiesInv, CopiesShape
  <1>2. (\A x \in Bodies : leftAt[x] <= time)'
    BY DEF CopiesInv
  <1>3. \A o \in Browsers : CopyInv(o)' /\ GetInv(o)'
    <2> SUFFICES ASSUME NEW o \in Browsers, o # b PROVE CopyInv(o)' /\ GetInv(o)'
      OBVIOUS
    <2>1. CopyInv(o) /\ GetInv(o) /\ copy'[o] = copy[o] /\ request'[o] = request[o]
      BY DEF CopiesInv
    <2> QED BY <2>1 DEF CopyInv, GetInv, Copies!Age
  <1>4. Copies!StaleAtMostTtl'
    BY DEF CopiesInv, Copies!StaleAtMostTtl
  <1> QED BY <1>1, <1>2, <1>3, <1>4 DEF CopiesInv

LEMMA UseCopyInv == ASSUME CopiesInv, NEW b \in Browsers, Copies!UseCopy(b) PROVE CopiesInv'
  <1> DEFINE a == Copies!Age(copy[b][1].body)
             what == [source |-> "copy", age |-> a]
  <1>1. /\ copy[b] # <<>> /\ time < copy[b][1].until /\ display' = [display EXCEPT ![b] = what]
        /\ UNCHANGED <<time, body, leftAt, copy, lenient, request, entry, reader>>
    BY DEF Copies!UseCopy, Copies!Fresh, Copies!Show
  <1>2. CopyInv(b) /\ GetInv(b) /\ CopiesShape
    BY DEF CopiesInv
  <1>3. a \in Nat /\ a < Ttl
    BY <1>1, <1>2, TypesOfInv DEF CopyInv
  <1>4. what \in Displays /\ what.source = "copy" /\ what.age = a
    BY <1>3 DEF Displays
  <1> HIDE DEF what
  <1>5. display' \in [Browsers -> Displays] /\ display'[b] = what /\ \A o \in Browsers \ {b} : display'[o] = display[o]
    BY <1>1, <1>2, <1>4 DEF CopiesShape
  <1>6. CopyInv(b)' /\ GetInv(b)'
    BY <1>1, <1>2 DEF CopyInv, GetInv, Copies!Age
  <1> QED BY <1>1, <1>2, <1>3, <1>4, <1>5, <1>6, OneBrowser DEF CopiesShape

(* A request moves and nothing else does. *)
LEMMA RequestMoves ==
  ASSUME CopiesInv, NEW b \in Browsers, NEW q \in Gets, request' = [request EXCEPT ![b] = q],
         UNCHANGED <<time, body, leftAt, copy, lenient, display, entry, reader>>,
         q.at = "sent" => q.since <= time /\ q.tag = copy[b],
         q.at = "answered" =>
           /\ q.since <= time
           /\ q.answer.status = 200 => Copies!Age(q.answer.body) <= time - q.since
           /\ q.answer.status = 304 => copy[b] # <<>> /\ Copies!Age(copy[b][1].body) <= time - q.since
  PROVE  CopiesInv'
  <1>1. /\ request' \in [Browsers -> Gets] /\ request'[b] = q
        /\ \A o \in Browsers \ {b} : request'[o] = request[o]
    BY DEF CopiesInv, CopiesShape
  <1>2. CopyInv(b)'
    BY DEF CopiesInv, CopyInv, Copies!Age
  <1>3. GetInv(b)'
    BY <1>1 DEF GetInv, Copies!Age
  <1>4. display[b].source = "copy" => display[b].age < Ttl
    BY DEF CopiesInv, Copies!StaleAtMostTtl
  <1> QED BY <1>1, <1>2, <1>3, <1>4, OneBrowser DEF CopiesInv, CopiesShape

LEMMA AskInv == ASSUME CopiesInv, NEW b \in Browsers, Copies!Ask(b) PROVE CopiesInv'
  <1> DEFINE q == [at |-> "sent", since |-> time, tag |-> copy[b]]
  <1>1. q \in Gets /\ q.at = "sent" /\ q.since = time /\ q.tag = copy[b]
    BY TypesOfInv DEF Gets
  <1>2. request' = [request EXCEPT ![b] = q] /\ UNCHANGED <<time, body, leftAt, copy, lenient, display, entry, reader>>
    BY DEF Copies!Ask
  <1>3. q.since <= time
    BY <1>1, TypesOfInv
  <1> HIDE DEF q
  <1>4. q.at # "answered"
    BY <1>1
  <1> QED BY <1>1, <1>2, <1>3, <1>4, RequestMoves

(* The middleware answers what is true at that moment. *)
LEMMA ServeInv == ASSUME CopiesInv, NEW b \in Browsers, Copies!Serve(b) PROVE CopiesInv'
  <1> DEFINE q == [at |-> "answered", since |-> request[b].since, answer |-> Copies!Answer(b)]
  <1>1. request' = [request EXCEPT ![b] = q] /\ UNCHANGED <<time, body, leftAt, copy, lenient, display, entry, reader>>
    BY DEF Copies!Serve
  <1>2. /\ request[b].at = "sent" /\ request[b].since \in Nat /\ request[b].since <= time
        /\ request[b].tag = copy[b]
    BY TypesOfInv, GetsByPlace DEF Copies!Serve, CopiesInv, GetInv
  <1>3. body \in Bodies /\ time \in Nat /\ Copies!Age(body) = 0
    BY TypesOfInv DEF CopiesInv, CopiesShape, Copies!Age
  <1>4. /\ Copies!Answer(b) \in Answers
        /\ Copies!Answer(b).status = 200 => Copies!Answer(b).body = body
        /\ Copies!Answer(b).status = 304 => copy[b] # <<>> /\ copy[b][1].body = body
    BY <1>2, <1>3 DEF Copies!Answer, Answers
  <1>5. q \in Gets /\ q.at = "answered" /\ q.since = request[b].since /\ q.answer = Copies!Answer(b)
    BY <1>2, <1>4 DEF Gets
  <1> HIDE DEF q
  <1>6. q.at # "sent" /\ q.since <= time
    BY <1>2, <1>5
  <1>7. q.answer.status = 200 => Copies!Age(q.answer.body) <= time - q.since
    BY <1>2, <1>3, <1>4, <1>5
  <1>8. q.answer.status = 304 => copy[b] # <<>> /\ Copies!Age(copy[b][1].body) <= time - q.since
    BY <1>2, <1>3, <1>4, <1>5
  <1> QED BY <1>1, <1>5, <1>6, <1>7, <1>8, RequestMoves

LEMMA ServeBareInv == ASSUME CopiesInv, NEW b \in Browsers, Copies!ServeBare(b) PROVE CopiesInv'
  <1> DEFINE failure == [status |-> 500]
             q == [at |-> "answered", since |-> request[b].since, answer |-> failure]
  <1>1. request' = [request EXCEPT ![b] = q] /\ UNCHANGED <<time, body, leftAt, copy, lenient, display, entry, reader>>
    BY DEF Copies!ServeBare
  <1>2. request[b].since \in Nat /\ request[b].since <= time
    BY TypesOfInv, GetsByPlace DEF Copies!ServeBare, CopiesInv, GetInv
  <1>3. failure \in Answers /\ failure.status = 500
    BY DEF Answers
  <1>4. q \in Gets /\ q.at = "answered" /\ q.since = request[b].since /\ q.answer = failure
    BY <1>2, <1>3 DEF Gets
  <1> HIDE DEF q, failure
  <1>5. q.at # "sent" /\ q.since <= time /\ q.answer.status # 200 /\ q.answer.status # 304
    BY <1>2, <1>3, <1>4
  <1> QED BY <1>1, <1>4, <1>5, RequestMoves

(* What is kept after an answer was true when it was asked for. *)
LEMMA ReceiveInv == ASSUME CopiesInv, NEW b \in Browsers, Copies!Receive(b) PROVE CopiesInv'
  <1> DEFINE q == request[b]
  <1>1. /\ q.at = "answered" /\ q.since \in Nat /\ q.since <= time
        /\ q.answer.status \in {200, 304, 500}
        /\ q.answer.status = 200 => q.answer.body \in Bodies /\ Copies!Age(q.answer.body) <= time - q.since
        /\ q.answer.status = 304 => copy[b] # <<>> /\ Copies!Age(copy[b][1].body) <= time - q.since
    BY TypesOfInv, GetsByPlace DEF Copies!Receive, CopiesInv, GetInv
  <1>2. /\ request' = [request EXCEPT ![b] = Copies!NoRequest] /\ lenient' \subseteq Browsers
        /\ UNCHANGED <<time, body, leftAt, entry, reader>>
    <2>1. q.answer.status \in {200, 304, 500} /\ lenient \subseteq Browsers
      BY <1>1 DEF CopiesInv, CopiesShape
    <2>2. lenient' \in {lenient, lenient \ {b}, lenient \cup {b}}
      BY <2>1 DEF Copies!Receive
    <2> QED BY <2>1, <2>2 DEF Copies!Receive
  <1>3. /\ request' \in [Browsers -> Gets] /\ request'[b] = Copies!NoRequest
        /\ \A o \in Browsers \ {b} : request'[o] = request[o]
    BY <1>2 DEF CopiesInv, CopiesShape, Gets
  <1>4. GetInv(b)'
    BY <1>3 DEF GetInv, Copies!NoRequest
  <1>5. CASE q.answer.status = 500
    <2>1. UNCHANGED <<copy, display>>
      BY <1>5 DEF Copies!Receive
    <2>2. CopyInv(b)'
      BY <1>2, <2>1 DEF CopiesInv, CopyInv, Copies!Age
    <2>3. display[b].source = "copy" => display[b].age < Ttl
      BY DEF CopiesInv, Copies!StaleAtMostTtl
    <2> QED BY <1>2, <1>3, <1>4, <2>1, <2>2, <2>3, OneBrowser DEF CopiesInv, CopiesShape
  <1>6. CASE q.answer.status \in {200, 304}
    <2>1. PICK x \in Bodies : /\ copy' = [copy EXCEPT ![b] = Copies!Keep(x, q.since)]
                              /\ Copies!Show(b, [source |-> "server"])
                              /\ Copies!Age(x) <= time - q.since
      <3>1. CASE q.answer.status = 200
        BY <1>1, <3>1 DEF Copies!Receive
      <3>2. CASE q.answer.status = 304
        BY <1>1, <3>2, TypesOfInv DEF Copies!Receive
      <3> QED BY <1>6, <3>1, <3>2
    <2>2. /\ Copies!Keep(x, q.since) \in KeptCopies /\ Copies!Keep(x, q.since)[1].body = x
          /\ Copies!Keep(x, q.since)[1].until = q.since + Ttl
      BY <1>1, KeepKept
    <2>3. /\ copy' \in [Browsers -> KeptCopies] /\ copy'[b] = Copies!Keep(x, q.since)
          /\ \A o \in Browsers \ {b} : copy'[o] = copy[o]
      BY <2>1, <2>2 DEF CopiesInv, CopiesShape
    <2> DEFINE what == [source |-> "server"]
    <2>4. what \in Displays /\ what.source = "server" /\ display' = [display EXCEPT ![b] = what]
      BY <2>1 DEF Displays, Copies!Show
    <2> HIDE DEF what
    <2>5. /\ display' \in [Browsers -> Displays] /\ display'[b] = what
          /\ \A o \in Browsers \ {b} : display'[o] = display[o]
      BY <2>4 DEF CopiesInv, CopiesShape
    <2>6. CopyInv(b)'
      <3>1. copy'[b][1].body = x /\ copy'[b][1].until = q.since + Ttl
        BY <2>2, <2>3
      <3>2. time \in Nat /\ Ttl \in Nat /\ Copies!Age(x) \in Nat
        BY AgeType, TypesOfInv
      <3>3. Copies!Age(x)' = Copies!Age(x) /\ time' = time
        BY <1>2 DEF Copies!Age
      <3>4. (Copies!Age(copy[b][1].body))' = Copies!Age(x)'
        BY <3>1 DEF Copies!Age
      <3> HIDE DEF q
      <3> QED BY <1>1, <2>1, <3>1, <3>2, <3>3, <3>4 DEF CopyInv
    <2> QED BY <1>2, <1>3, <1>4, <2>3, <2>4, <2>5, <2>6, OneBrowser
  <1> QED BY <1>1, <1>5, <1>6

LEMMA DisconnectInv == ASSUME CopiesInv, NEW b \in Browsers, Copies!Disconnect(b) PROVE CopiesInv'
  <1> DEFINE what == [source |-> "disconnected"]
  <1>1. /\ request' = [request EXCEPT ![b] = Copies!NoRequest]
        /\ UNCHANGED <<time, body, leftAt, copy, lenient, entry, reader>>
        /\ display' = display \/ display' = [display EXCEPT ![b] = what]
    BY DEF Copies!Disconnect, Copies!Show
  <1>2. /\ request' \in [Browsers -> Gets] /\ request'[b] = Copies!NoRequest
        /\ \A o \in Browsers \ {b} : request'[o] = request[o]
    BY <1>1 DEF CopiesInv, CopiesShape, Gets
  <1>3. what \in Displays /\ what.source # "copy"
    BY DEF Displays
  <1> HIDE DEF what
  <1>4. /\ display' \in [Browsers -> Displays] /\ display'[b] \in {display[b], what}
        /\ \A o \in Browsers \ {b} : display'[o] = display[o]
    BY <1>1, <1>3 DEF CopiesInv, CopiesShape
  <1>5. display[b].source = "copy" => display[b].age < Ttl
    BY DEF CopiesInv, Copies!StaleAtMostTtl
  <1>6. CopyInv(b)' /\ GetInv(b)'
    BY <1>1, <1>2 DEF CopiesInv, CopyInv, GetInv, Copies!Age, Copies!NoRequest
  <1> QED BY <1>1, <1>2, <1>3, <1>4, <1>5, <1>6, OneBrowser DEF CopiesInv, CopiesShape

LEMMA NewTokenInv == ASSUME CopiesInv, NEW b \in Browsers, Copies!NewToken(b) PROVE CopiesInv'
  <1>1. /\ request[b].at = "none" /\ copy' = [copy EXCEPT ![b] = <<>>] /\ lenient' \subseteq Browsers
        /\ UNCHANGED <<time, body, leftAt, request, display, entry, reader>>
    BY DEF Copies!NewToken, CopiesInv, CopiesShape
  <1>2. /\ copy' \in [Browsers -> KeptCopies] /\ copy'[b] = <<>>
        /\ \A o \in Browsers \ {b} : copy'[o] = copy[o]
    BY <1>1 DEF CopiesInv, CopiesShape, KeptCopies
  <1>3. CopyInv(b)' /\ GetInv(b)'
    BY <1>1, <1>2 DEF CopyInv, GetInv
  <1>4. display[b].source = "copy" => display[b].age < Ttl
    BY DEF CopiesInv, Copies!StaleAtMostTtl
  <1> QED BY <1>1, <1>2, <1>3, <1>4, OneBrowser DEF CopiesInv, CopiesShape

-----------------------------------------------------------------------------
(* Nothing that browsers keep or show comes from the copy in Redis. *)
LEMMA RedisAlone ==
  ASSUME CopiesInv, UNCHANGED <<time, body, leftAt, copy, lenient, request, display>>,
         entry' \in KeptCopies, reader' \in [Readers -> ReaderPlaces]
  PROVE  CopiesInv'
  <1>1. CopiesShape'
    BY DEF CopiesInv, CopiesShape
  <1>2. \A b \in Browsers : CopyInv(b)' /\ GetInv(b)'
    <2> SUFFICES ASSUME NEW b \in Browsers PROVE CopyInv(b)' /\ GetInv(b)'
      OBVIOUS
    <2>1. CopyInv(b) /\ GetInv(b)
      BY DEF CopiesInv
    <2> QED BY <2>1 DEF CopyInv, GetInv, Copies!Age
  <1> QED BY <1>1, <1>2 DEF CopiesInv, Copies!StaleAtMostTtl

LEMMA ReaderInv ==
  ASSUME CopiesInv, NEW r \in Readers, Copies!Lookup(r) \/ Copies!LoadBody(r) \/ Copies!Fill(r)
  PROVE  CopiesInv'
  <1>1. /\ entry \in KeptCopies /\ reader \in [Readers -> ReaderPlaces] /\ reader[r] \in ReaderPlaces
        /\ body \in Bodies /\ time \in Nat
    BY TheAssumptions DEF CopiesInv, CopiesShape, Copies!CopiesAssumption
  <1>2. [at |-> "missed"] \in ReaderPlaces /\ [at |-> "loaded", got |-> body] \in ReaderPlaces /\ Copies!AtRest \in ReaderPlaces
    BY <1>1 DEF ReaderPlaces
  <1>3. CASE Copies!Lookup(r)
    BY <1>1, <1>2, <1>3, RedisAlone DEF Copies!Lookup
  <1>4. CASE Copies!LoadBody(r)
    BY <1>1, <1>2, <1>4, RedisAlone DEF Copies!LoadBody
  <1>5. CASE Copies!Fill(r)
    <2>1. reader[r].got \in Bodies
      BY <1>1, <1>5 DEF Copies!Fill, ReaderPlaces, Copies!AtRest
    <2>2. Copies!Keep(reader[r].got, time) \in KeptCopies
      BY <1>1, <2>1, KeepKept
    <2> QED BY <1>1, <1>2, <1>5, <2>2, RedisAlone DEF Copies!Fill
  <1> QED BY <1>3, <1>4, <1>5

LEMMA InvalidateInv == ASSUME CopiesInv, Copies!Invalidate PROVE CopiesInv'
  BY RedisAlone DEF Copies!Invalidate, KeptCopies, CopiesInv, CopiesShape

(* Writes and time make copies older, and no older than they may be. *)
LEMMA OlderInv == ASSUME CopiesInv, Copies!Write \/ Copies!Tick PROVE CopiesInv'
  <1>1. /\ time' \in 0 .. MaxTime /\ time \in Nat /\ time' \in Nat /\ time' >= time
        /\ body' \in Bodies /\ leftAt' \in [Bodies -> 0 .. MaxTime]
        /\ UNCHANGED <<copy, lenient, request, display, entry, reader>>
    <2>1. CASE Copies!Tick
      BY <2>1, TheAssumptions DEF Copies!Tick, CopiesInv, CopiesShape, Copies!CopiesAssumption
    <2>2. CASE Copies!Write
      BY <2>2, TheAssumptions DEF Copies!Write, CopiesInv, CopiesShape, Copies!CopiesAssumption
    <2> QED BY <2>1, <2>2
  <1>2. CopiesShape'
    BY <1>1 DEF CopiesInv, CopiesShape
  <1>3. \A x \in Bodies : leftAt'[x] <= time'
    <2>1. CASE Copies!Tick
      BY <1>1, <2>1, TheAssumptions DEF Copies!Tick, CopiesInv, CopiesShape, Copies!CopiesAssumption
    <2>2. CASE Copies!Write
      BY <1>1, <2>2, TheAssumptions DEF Copies!Write, CopiesInv, CopiesShape, Copies!CopiesAssumption
    <2> QED BY <2>1, <2>2
  <1>4. \A b \in Browsers : CopyInv(b)' /\ GetInv(b)'
    <2> SUFFICES ASSUME NEW b \in Browsers PROVE CopyInv(b)' /\ GetInv(b)'
      OBVIOUS
    <2>1. CopyInv(b) /\ GetInv(b) /\ copy'[b] = copy[b] /\ request'[b] = request[b]
      BY <1>1 DEF CopiesInv
    <2>2. \A x \in Bodies : Copies!Age(x)' - Copies!Age(x) <= time' - time /\ Copies!Age(x)' \in Nat /\ Copies!Age(x) \in Nat
      BY OlderWithTime, AgeType
    <2>3. /\ copy[b] # <<>> => copy[b][1].body \in Bodies /\ copy[b][1].until \in Nat
          /\ request[b] \in Gets /\ Ttl \in Nat
      BY TypesOfInv
    <2>4. CopyInv(b)'
      <3> DEFINE x == copy[b][1].body
      <3> SUFFICES ASSUME copy[b] # <<>> PROVE copy[b][1].until <= time' + Ttl /\ Copies!Age(x)' <= time' - (copy[b][1].until - Ttl)
        BY <2>1 DEF CopyInv, Copies!Age
      <3>1. Copies!Age(x)' - Copies!Age(x) <= time' - time /\ Copies!Age(x)' \in Nat /\ Copies!Age(x) \in Nat /\ copy[b][1].until \in Nat
        <4>1. PICK y \in Bodies : y = x
          BY <2>3
        <4>2. Copies!Age(y)' - Copies!Age(y) <= time' - time /\ Copies!Age(y)' \in Nat /\ Copies!Age(y) \in Nat
          BY <2>2
        <4>3. Copies!Age(x)' = Copies!Age(y)' /\ Copies!Age(x) = Copies!Age(y)
          BY <1>1, <4>1 DEF Copies!Age
        <4> QED BY <2>3, <4>2, <4>3
      <3>2. copy[b][1].until <= time + Ttl /\ Copies!Age(x) <= time - (copy[b][1].until - Ttl)
        BY <2>1 DEF CopyInv
      <3>3. PICK older \in Nat, younger \in Nat, until \in Nat :
              older = Copies!Age(x)' /\ younger = Copies!Age(x) /\ until = copy[b][1].until
        BY <3>1, Zenon
      <3>4. PICK now \in Nat, later \in Nat : now = time /\ later = time' /\ now <= later
        BY <1>1, Zenon
      <3>5. older - younger <= later - now /\ until <= now + Ttl /\ younger <= now - (until - Ttl)
        BY <3>1, <3>2, <3>3, <3>4, Zenon
      <3>6. until <= later + Ttl /\ older <= later - (until - Ttl)
        <4>1. Ttl \in Nat
          BY <2>3
        <4> QED BY <3>5, <4>1
      <3> QED BY <3>3, <3>4, <3>6, Zenon
    <2>5. GetInv(b)'
      <3>1. request[b].at = "sent" => request[b].since <= time'
        BY <1>1, <2>1, <2>3, GetsByPlace DEF GetInv
      <3>2. ASSUME request[b].at = "answered", NEW x \in Bodies, Copies!Age(x) <= time - request[b].since
            PROVE  Copies!Age(x)' <= time' - request[b].since
        <4>1. request[b].since \in Nat
          BY <2>3, <3>2, GetsByPlace
        <4>2. Copies!Age(x)' - Copies!Age(x) <= time' - time /\ Copies!Age(x)' \in Nat /\ Copies!Age(x) \in Nat
          BY <2>2
        <4> QED BY <1>1, <3>2, <4>1, <4>2
      <3>3. request[b].at = "answered" =>
              /\ request[b].since <= time'
              /\ request[b].answer.status = 200 => Copies!Age(request[b].answer.body)' <= time' - request[b].since
              /\ request[b].answer.status = 304 => copy[b] # <<>> /\ Copies!Age(copy[b][1].body)' <= time' - request[b].since
        <4> SUFFICES ASSUME request[b].at = "answered"
                     PROVE  /\ request[b].since <= time'
                            /\ request[b].answer.status = 200 => Copies!Age(request[b].answer.body)' <= time' - request[b].since
                            /\ request[b].answer.status = 304 => copy[b] # <<>> /\ Copies!Age(copy[b][1].body)' <= time' - request[b].since
          OBVIOUS
        <4>1. request[b].since <= time'
          BY <1>1, <2>1, <2>3, GetsByPlace DEF GetInv
        <4>2. ASSUME request[b].answer.status = 200 PROVE Copies!Age(request[b].answer.body)' <= time' - request[b].since
          <5>1. request[b].answer.body \in Bodies
            BY <2>3, <4>2, GetsByPlace
          <5>2. Copies!Age(request[b].answer.body) <= time - request[b].since
            BY <2>1, <4>2 DEF GetInv
          <5>3. request'[b].answer.body = request[b].answer.body
            BY <1>1
          <5>4. PICK x \in Bodies : x = request[b].answer.body
            BY <5>1
          <5>5. Copies!Age(x)' <= time' - request[b].since
            BY <3>2, <5>2, <5>4
          <5> QED BY <5>3, <5>4, <5>5 DEF Copies!Age
        <4>3. ASSUME request[b].answer.status = 304
              PROVE  copy[b] # <<>> /\ Copies!Age(copy[b][1].body)' <= time' - request[b].since
          <5>1. copy[b] # <<>> /\ copy[b][1].body \in Bodies /\ Copies!Age(copy[b][1].body) <= time - request[b].since
            BY <2>1, <2>3, <4>3 DEF GetInv
          <5>2. PICK x \in Bodies : x = copy[b][1].body
            BY <5>1
          <5>3. Copies!Age(x)' <= time' - request[b].since
            BY <3>2, <5>1, <5>2
          <5> QED BY <2>1, <5>1, <5>2, <5>3 DEF Copies!Age
        <4> QED BY <4>1, <4>2, <4>3
      <3> QED BY <1>1, <2>1, <3>1, <3>3 DEF GetInv, Copies!Age
    <2> QED BY <2>4, <2>5
  <1>5. Copies!StaleAtMostTtl'
    BY <1>1 DEF CopiesInv, Copies!StaleAtMostTtl
  <1> QED BY <1>2, <1>3, <1>4, <1>5 DEF CopiesInv

LEMMA CopiesNextInv == CopiesInv /\ [Copies!Next]_(Copies!vars) => CopiesInv'
  <1> SUFFICES ASSUME CopiesInv, [Copies!Next]_(Copies!vars) PROVE CopiesInv'
    OBVIOUS
  <1>1. ASSUME NEW b \in Browsers,
               \/ Copies!UseCopy(b) \/ Copies!Ask(b) \/ Copies!Receive(b) \/ Copies!Disconnect(b) \/ Copies!NewToken(b)
               \/ Copies!Serve(b) \/ Copies!ServeBare(b)
        PROVE  CopiesInv'
    BY <1>1, UseCopyInv, AskInv, ReceiveInv, DisconnectInv, NewTokenInv, ServeInv, ServeBareInv
  <1>2. ASSUME NEW r \in Readers, Copies!Lookup(r) \/ Copies!LoadBody(r) \/ Copies!Fill(r) PROVE CopiesInv'
    BY <1>2, ReaderInv
  <1>3. CASE Copies!Write \/ Copies!Tick
    BY <1>3, OlderInv
  <1>4. CASE Copies!Invalidate
    BY <1>4, InvalidateInv
  <1>5. CASE UNCHANGED Copies!vars
    <2>1. UNCHANGED <<time, body, leftAt, copy, lenient, request, display>> /\ entry' = entry /\ reader' = reader
      BY <1>5 DEF Copies!vars
    <2> QED BY <2>1, RedisAlone DEF CopiesInv, CopiesShape
  <1> QED BY <1>1, <1>2, <1>3, <1>4, <1>5 DEF Copies!Next

LEMMA CopiesImplied == CopiesInv => Copies!TypeOK /\ Copies!StaleAtMostTtl
  <1> SUFFICES ASSUME CopiesInv PROVE Copies!TypeOK /\ Copies!StaleAtMostTtl
    OBVIOUS
  <1>1. ASSUME NEW b \in Browsers
        PROVE  /\ Copies!IsCopy(copy[b]) /\ request[b].at \in {"none", "sent", "answered"}
               /\ display[b].source \in {"none", "copy", "server", "disconnected"}
    <2>1. display[b] \in Displays
      BY DEF CopiesInv, CopiesShape
    <2>2. display[b].source \in {"none", "copy", "server", "disconnected"}
      BY <2>1 DEF Displays, Copies!NotYet
    <2> QED BY <2>2, TypesOfInv, KeptCopy, GetsByPlace
  <1>2. Copies!IsCopy(entry)
    BY KeptCopy DEF CopiesInv, CopiesShape
  <1>3. ASSUME NEW r \in Readers PROVE reader[r].at \in {"rest", "missed", "loaded"}
    <2>1. reader[r] \in ReaderPlaces
      BY DEF CopiesInv, CopiesShape
    <2> QED BY <2>1 DEF ReaderPlaces, Copies!AtRest
  <1> QED BY <1>1, <1>2, <1>3 DEF CopiesInv, CopiesShape, Copies!TypeOK

(* Whatever the middleware answers and however late the answers arrive, a  *)
(* browser shows of its own only what the server gave less than the        *)
(* lifetime of the path ago.                                               *)
THEOREM CopiesAreFresh == Copies!Spec => [](Copies!TypeOK /\ Copies!StaleAtMostTtl)
  <1>1. Copies!Init => CopiesInv
    BY CopiesInitInv, PlatformAssumption
  <1>2. CopiesInv /\ [Copies!Next]_(Copies!vars) => CopiesInv'
    BY CopiesNextInv, PlatformAssumption
  <1> QED BY <1>1, <1>2, CopiesImplied, PTL DEF Copies!Spec
-----------------------------------------------------------------------------
(***************************************************************************)
(* Conversations.  A history under way ends with the newest question it    *)
(* knows, and a history that is saved with the answer to it.               *)
(***************************************************************************)
(* Every question but the last has an answer behind it, and only earlier   *)
(* turns before it.                                                        *)
Ordered(h) ==
  \A i \in 1 .. Len(h) : h[i].role = "user" =>
    /\ i < Len(h) => h[i + 1].role = "assistant" /\ h[i + 1].turn <= h[i].turn
    /\ \A j \in 1 .. i - 1 : h[j].turn < h[i].turn

UpTo(n, h) == \A i \in 1 .. Len(h) : h[i].turn <= n

(* A history that is kept. *)
Settled(n, h) == Chat!IsHistory(h) /\ Ordered(h) /\ UpTo(n, h) /\ (h # <<>> => h[Len(h)].role = "assistant")

(* The history of a request under way ends with its question. *)
Pending(n, h) ==
  /\ h \in Seq(Chat!Messages) /\ h # <<>> /\ Len(h) <= 2 * MaxHistory
  /\ Ordered(h) /\ UpTo(n, h) /\ h[Len(h)].role = "user"

ChatRequests ==
  [at : {"idle"}]
    \cup [at : {"model", "tools"}, worker : Workers, talk : Talks, history : Seq(Chat!Messages)]

Saying == {"nothing", "reply", "tip", "created", "none", "list", "history"}

(* A store of histories. *)
Stored(n, histories) == \A t \in DOMAIN histories : t \in Talks /\ Settled(n, histories[t])

ChatInv ==
  /\ asked \in 0 .. MaxQuestions
  /\ told \in Saying
  /\ Stored(asked, redis)
  /\ memory = [w \in Workers |-> memory[w]]
  /\ \A w \in Workers : Stored(asked, memory[w])
  /\ call \in [Callers -> ChatRequests]
  /\ \A c \in Callers : call[c].at # "idle" => Pending(asked, call[c].history)

-----------------------------------------------------------------------------
(* Histories *)

LEMMA ChatBounds == MaxHistory \in Nat \ {0} /\ MaxQuestions \in Nat
  BY TheAssumptions DEF Chat!AssistantAssumption

LEMMA EmptySettled == ASSUME NEW n PROVE Settled(n, <<>>)
  BY ChatBounds DEF Settled, Chat!IsHistory, Ordered, UpTo

LEMMA MessageType == ASSUME NEW m \in Chat!Messages PROVE m.role \in {"user", "assistant"} /\ m.turn \in 0 .. MaxQuestions /\ m.turn \in Nat
  BY ChatBounds DEF Chat!Messages

(* Elements of a history. *)
LEMMA MessageAt ==
  ASSUME NEW h \in Seq(Chat!Messages), NEW i \in 1 .. Len(h)
  PROVE  h[i] \in Chat!Messages /\ h[i].role \in {"user", "assistant"} /\ h[i].turn \in Nat
  <1>1. h[i] \in Chat!Messages
    OBVIOUS
  <1> QED BY <1>1, MessageType

LEMMA OneMessageMore ==
  ASSUME NEW h \in Seq(Chat!Messages), NEW m \in Chat!Messages
  PROVE  /\ Append(h, m) \in Seq(Chat!Messages) /\ Len(Append(h, m)) = Len(h) + 1 /\ Append(h, m) # <<>>
         /\ Append(h, m)[Len(h) + 1] = m
         /\ \A i \in 1 .. Len(h) : Append(h, m)[i] = h[i]
  OBVIOUS

LEMMA CutOff ==
  ASSUME NEW h \in Seq(Chat!Messages), NEW d \in Nat, d < Len(h)
  PROVE  LET g == SubSeq(h, d + 1, Len(h))
         IN g \in Seq(Chat!Messages) /\ Len(g) = Len(h) - d /\ \A i \in 1 .. Len(h) - d : g[i] = h[i + d]
  OBVIOUS

(* A question goes on top of a settled history. *)
LEMMA QuestionOnTop ==
  ASSUME NEW n \in 0 .. MaxQuestions - 1, NEW h, Settled(n, h)
  PROVE  LET g == Append(h, Chat!Question(n + 1))
         IN g \in Seq(Chat!Messages) /\ g # <<>> /\ Ordered(g) /\ UpTo(n + 1, g) /\ g[Len(g)].role = "user"
  <1> DEFINE m == Chat!Question(n + 1)
             g == Append(h, m)
  <1>1. n \in Nat /\ m \in Chat!Messages /\ m.role = "user" /\ m.turn = n + 1
    BY ChatBounds DEF Chat!Question, Chat!Messages
  <1>2. h \in Seq(Chat!Messages) /\ Ordered(h) /\ UpTo(n, h) /\ (h # <<>> => h[Len(h)].role = "assistant")
    BY DEF Settled, Chat!IsHistory
  <1> HIDE DEF m
  <1>3. /\ g \in Seq(Chat!Messages) /\ Len(g) = Len(h) + 1 /\ g # <<>> /\ g[Len(h) + 1] = m
        /\ \A i \in 1 .. Len(h) : g[i] = h[i]
    BY <1>1, <1>2, OneMessageMore
  <1> HIDE DEF g
  <1>4. Len(h) \in Nat
    BY <1>2
  <1>5. UpTo(n + 1, g)
    <2> SUFFICES ASSUME NEW i \in 1 .. Len(g) PROVE g[i].turn <= n + 1
      BY DEF UpTo
    <2>1. CASE i = Len(h) + 1
      BY <1>1, <1>3, <2>1
    <2>2. CASE i \in 1 .. Len(h)
      BY <1>1, <1>2, <1>3, <2>2, MessageAt DEF UpTo
    <2> QED BY <1>3, <1>4, <2>1, <2>2
  <1>6. Ordered(g)
    <2> SUFFICES ASSUME NEW i \in 1 .. Len(g), g[i].role = "user"
                 PROVE  /\ i < Len(g) => g[i + 1].role = "assistant" /\ g[i + 1].turn <= g[i].turn
                        /\ \A j \in 1 .. i - 1 : g[j].turn < g[i].turn
      BY DEF Ordered
    <2>1. CASE i = Len(h) + 1
      <3>1. \A j \in 1 .. Len(h) : h[j].turn < n + 1
        BY <1>1, <1>2, MessageAt DEF UpTo
      <3> QED BY <1>1, <1>3, <1>4, <2>1, <3>1
    <2>2. CASE i \in 1 .. Len(h)
      <3>1. h[i].role = "user" /\ g[i] = h[i] /\ h # <<>>
        BY <1>2, <1>3, <2>2
      <3>2. i # Len(h)
        BY <1>2, <3>1
      <3>3. h[i + 1].role = "assistant" /\ h[i + 1].turn <= h[i].turn /\ g[i + 1] = h[i + 1]
        BY <1>2, <1>3, <1>4, <2>2, <3>1, <3>2 DEF Ordered
      <3>4. \A j \in 1 .. i - 1 : h[j].turn < h[i].turn /\ g[j] = h[j]
        BY <1>2, <1>3, <1>4, <2>2, <3>1 DEF Ordered
      <3> QED BY <3>1, <3>3, <3>4
    <2> QED BY <1>3, <1>4, <2>1, <2>2
  <1> QED BY <1>1, <1>3, <1>5, <1>6 DEF g, m

(* Cutting the oldest messages off leaves the order. *)
LEMMA TrimmedPending ==
  ASSUME NEW n, NEW h \in Seq(Chat!Messages), h # <<>>, Ordered(h), UpTo(n, h), h[Len(h)].role = "user"
  PROVE  Pending(n, Chat!Trimmed(h))
  <1>1. MaxHistory \in Nat \ {0} /\ Len(h) \in Nat \ {0}
    BY ChatBounds
  <1>2. CASE Len(h) > 2 * MaxHistory
    <2> DEFINE d == Len(h) - 2 * MaxHistory
               g == SubSeq(h, d + 1, Len(h))
    <2>0. d \in Nat /\ d < Len(h) /\ d + 2 * MaxHistory = Len(h) /\ Len(h) - d = 2 * MaxHistory
      BY <1>1, <1>2
    <2>1. d \in Nat /\ d < Len(h) /\ d + 2 * MaxHistory = Len(h) /\ Chat!Trimmed(h) = g
      BY <1>2, <2>0 DEF Chat!Trimmed
    <2> HIDE DEF d
    <2>2. /\ g \in Seq(Chat!Messages) /\ Len(g) = 2 * MaxHistory
          /\ \A i \in 1 .. 2 * MaxHistory : g[i] = h[i + d]
      BY <2>0, CutOff
    <2> HIDE DEF g
    <2>3. UpTo(n, g)
      BY <1>1, <2>1, <2>2 DEF UpTo
    <2>4. Ordered(g)
      <3> SUFFICES ASSUME NEW i \in 1 .. Len(g), g[i].role = "user"
                   PROVE  /\ i < Len(g) => g[i + 1].role = "assistant" /\ g[i + 1].turn <= g[i].turn
                          /\ \A j \in 1 .. i - 1 : g[j].turn < g[i].turn
        BY DEF Ordered
      <3>1. i + d \in 1 .. Len(h) /\ h[i + d].role = "user" /\ g[i] = h[i + d]
        BY <1>1, <2>1, <2>2
      <3>2. i < Len(g) => i + d < Len(h) /\ g[i + 1] = h[(i + d) + 1]
        BY <1>1, <2>1, <2>2
      <3>3. i < Len(g) => g[i + 1].role = "assistant" /\ g[i + 1].turn <= g[i].turn
        BY <3>1, <3>2 DEF Ordered
      <3>4. ASSUME NEW j \in 1 .. i - 1 PROVE g[j].turn < g[i].turn
        <4>1. j + d \in 1 .. (i + d) - 1 /\ g[j] = h[j + d]
          BY <1>1, <2>1, <2>2, SMTT(30)
        <4> QED BY <3>1, <4>1 DEF Ordered
      <3> QED BY <3>3, <3>4
    <2>5. g[Len(g)] = h[Len(h)] /\ g # <<>>
      <3>1. 2 * MaxHistory \in 1 .. 2 * MaxHistory /\ 2 * MaxHistory + d = Len(h)
        BY <1>1, <2>1
      <3>2. g[2 * MaxHistory] = h[2 * MaxHistory + d]
        BY <2>2, <3>1
      <3>3. Len(g) # 0
        BY <1>1, <2>2
      <3> QED BY <2>2, <3>1, <3>2, <3>3
    <2> QED BY <1>1, <2>1, <2>2, <2>3, <2>4, <2>5 DEF Pending
  <1>3. CASE ~(Len(h) > 2 * MaxHistory)
    BY <1>1, <1>3 DEF Chat!Trimmed, Pending
  <1> QED BY <1>2, <1>3

(* Whatever is replied is an answer, to the last question or an earlier.   *)
LEMMA ReplyIsOlder ==
  ASSUME NEW n, NEW h, Pending(n, h), NEW reply \in Chat!Replies(h)
  PROVE  reply \in Chat!Messages /\ reply.role = "assistant" /\ reply.turn <= h[Len(h)].turn
  <1> DEFINE z == Len(h)
  <1>1. h \in Seq(Chat!Messages) /\ z \in Nat \ {0} /\ h[z].role = "user" /\ Ordered(h)
    BY DEF Pending
  <1>2. h[z] \in Chat!Messages /\ h[z].turn \in 0 .. MaxQuestions /\ h[z].turn \in Nat
    BY <1>1, MessageType
  <1>3. CASE reply = Chat!Answer(h[z].turn) \/ reply = Chat!Answer(0)
    BY <1>2, <1>3, ChatBounds DEF Chat!Answer, Chat!Messages
  <1>4. ASSUME NEW i \in DOMAIN h, h[i].role = "assistant", reply = h[i]
        PROVE  reply \in Chat!Messages /\ reply.role = "assistant" /\ reply.turn <= h[z].turn
    <2>1. i \in 1 .. z - 1
      BY <1>1, <1>4
    <2>2. h[i].turn < h[z].turn
      BY <1>1, <2>1 DEF Ordered
    <2>3. h[i] \in Chat!Messages /\ h[i].turn \in Nat
      BY <1>1, <2>1, MessageType
    <2> QED BY <1>2, <1>4, <2>2, <2>3
  <1> QED BY <1>3, <1>4 DEF Chat!Replies, Chat!Last

(* The answer settles the history. *)
LEMMA AnswerOnTop ==
  ASSUME NEW n \in Nat, NEW h, Pending(n, h), NEW reply \in Chat!Replies(h)
  PROVE  Settled(n, Append(h, reply))
  <1> DEFINE z == Len(h)
             g == Append(h, reply)
  <1>1. /\ h \in Seq(Chat!Messages) /\ z \in Nat \ {0} /\ h[z].role = "user" /\ Ordered(h) /\ UpTo(n, h)
        /\ z <= 2 * MaxHistory /\ MaxHistory \in Nat
    BY ChatBounds DEF Pending
  <1>2. reply \in Chat!Messages /\ reply.role = "assistant" /\ reply.turn <= h[z].turn /\ reply.turn \in Nat
    BY ReplyIsOlder, MessageType
  <1>3. /\ g \in Seq(Chat!Messages) /\ Len(g) = z + 1 /\ g # <<>> /\ g[z + 1] = reply
        /\ \A i \in 1 .. z : g[i] = h[i]
    BY <1>1, <1>2, OneMessageMore
  <1>4. h[z].turn <= n /\ h[z].turn \in Nat
    BY <1>1, MessageAt DEF UpTo
  <1> HIDE DEF g
  <1>5. UpTo(n, g)
    <2> SUFFICES ASSUME NEW i \in 1 .. Len(g) PROVE g[i].turn <= n
      BY DEF UpTo
    <2>1. CASE i = z + 1
      BY <1>2, <1>3, <1>4, <2>1
    <2>2. CASE i \in 1 .. z
      BY <1>1, <1>3, <2>2 DEF UpTo
    <2> QED BY <1>1, <1>3, <2>1, <2>2
  <1>6. Ordered(g)
    <2> SUFFICES ASSUME NEW i \in 1 .. Len(g), g[i].role = "user"
                 PROVE  /\ i < Len(g) => g[i + 1].role = "assistant" /\ g[i + 1].turn <= g[i].turn
                        /\ \A j \in 1 .. i - 1 : g[j].turn < g[i].turn
      BY DEF Ordered
    <2>1. i \in 1 .. z /\ g[i] = h[i] /\ h[i].role = "user"
      BY <1>1, <1>2, <1>3
    <2>2. \A j \in 1 .. i - 1 : h[j].turn < h[i].turn /\ g[j] = h[j]
      BY <1>1, <1>3, <2>1 DEF Ordered
    <2>3. CASE i = z
      BY <1>2, <1>3, <2>1, <2>2, <2>3
    <2>4. CASE i # z
      <3>1. h[i + 1].role = "assistant" /\ h[i + 1].turn <= h[i].turn /\ g[i + 1] = h[i + 1]
        BY <1>1, <1>3, <2>1, <2>4 DEF Ordered
      <3> QED BY <2>1, <2>2, <3>1
    <2> QED BY <2>3, <2>4
  <1> QED BY <1>1, <1>2, <1>3, <1>5, <1>6 DEF Settled, Chat!IsHistory, g

(* What was settled stays so as more is asked. *)
LEMMA LaterSettled ==
  ASSUME NEW n \in Nat, NEW h
  PROVE  /\ Settled(n, h) => Settled(n + 1, h)
         /\ Pending(n, h) => Pending(n + 1, h)
  <1>1. h \in Seq(Chat!Messages) /\ UpTo(n, h) => UpTo(n + 1, h)
    BY MessageAt DEF UpTo
  <1> QED BY <1>1 DEF Settled, Pending, Chat!IsHistory

-----------------------------------------------------------------------------
(* Stores of histories *)

LEMMA PutStored ==
  ASSUME NEW n, NEW histories, Stored(n, histories), NEW t \in Talks, NEW h, Settled(n, h)
  PROVE  Stored(n, Chat!Put(histories, t, h))
  BY DEF Stored, Chat!Put

LEMMA WithoutStored ==
  ASSUME NEW n, NEW histories, Stored(n, histories), NEW t
  PROVE  Stored(n, Chat!Without(histories, t))
  BY DEF Stored, Chat!Without

LEMMA GetSettled ==
  ASSUME NEW n, NEW histories, Stored(n, histories), NEW t
  PROVE  Settled(n, Chat!Get(histories, t))
  BY EmptySettled DEF Stored, Chat!Get

LEMMA EmptyStored == ASSUME NEW n PROVE Stored(n, Chat!NoHistory)
  BY DEF Stored, Chat!NoHistory

(* One worker's memory changes. *)
LEMMA OneMemory ==
  ASSUME ChatInv, NEW w \in Workers, NEW m, Stored(asked, m), memory' = [memory EXCEPT ![w] = m]
  PROVE  memory' = [v \in Workers |-> memory'[v]] /\ \A v \in Workers : Stored(asked, memory'[v])
  <1>1. memory = [v \in Workers |-> memory[v]]
    BY DEF ChatInv
  <1>2. \A v \in Workers : memory'[v] = IF v = w THEN m ELSE memory[v]
    BY <1>1
  <1>3. memory' = [v \in Workers |-> memory'[v]]
    BY <1>1, <1>2
  <1> QED BY <1>2, <1>3 DEF ChatInv

(* A history is saved. *)
LEMMA SaveKeeps ==
  ASSUME ChatInv, NEW w \in Workers, NEW t \in Talks, NEW h, Settled(asked, h), Chat!SaveHistory(w, t, h)
  PROVE  /\ Stored(asked, redis') /\ memory' = [v \in Workers |-> memory'[v]]
         /\ \A v \in Workers : Stored(asked, memory'[v])
  <1>1. CASE redis' = Chat!Put(redis, t, h) /\ UNCHANGED memory
    BY <1>1, PutStored DEF ChatInv
  <1>2. CASE memory' = [memory EXCEPT ![w] = Chat!Put(@, t, h)] /\ redis' \in {redis, Chat!Put(redis, t, h)}
    <2>1. Stored(asked, memory[w]) /\ memory = [v \in Workers |-> memory[v]]
      BY DEF ChatInv
    <2>2. PICK m : m = Chat!Put(memory[w], t, h)
      OBVIOUS
    <2>3. Stored(asked, m)
      BY <2>1, <2>2, PutStored
    <2>4. memory' = [memory EXCEPT ![w] = m]
      BY <1>2, <2>2
    <2>5. Stored(asked, redis')
      BY <1>2, PutStored DEF ChatInv
    <2> QED BY <2>3, <2>4, <2>5, OneMemory
  <1> QED BY <1>1, <1>2 DEF Chat!SaveHistory

(* A caller's request changes. *)
LEMMA OneCall ==
  ASSUME ChatInv, NEW c \in Callers, NEW q \in ChatRequests, call' = [call EXCEPT ![c] = q], asked' = asked,
         q.at # "idle" => Pending(asked, q.history)
  PROVE  call' \in [Callers -> ChatRequests] /\ \A d \in Callers : call'[d].at # "idle" => Pending(asked', call'[d].history)
  BY DEF ChatInv

LEMMA IdleRequest == Chat!Nobody \in ChatRequests /\ Chat!Nobody.at = "idle"
  BY DEF Chat!Nobody, ChatRequests

LEMMA BusyRequest ==
  ASSUME NEW q \in ChatRequests, q.at # "idle"
  PROVE  /\ q.at \in {"model", "tools"} /\ q.worker \in Workers /\ q.talk \in Talks
         /\ q \in [at : {"model", "tools"}, worker : Workers, talk : Talks, history : Seq(Chat!Messages)]
  BY DEF ChatRequests

LEMMA ChatInitInv == Chat!Init => ChatInv
  <1> SUFFICES ASSUME Chat!Init PROVE ChatInv
    OBVIOUS
  <1>1. asked = 0 /\ asked \in 0 .. MaxQuestions /\ told \in Saying
    BY ChatBounds DEF Chat!Init, Saying
  <1>2. call \in [Callers -> ChatRequests] /\ \A c \in Callers : call[c].at = "idle"
    BY IdleRequest DEF Chat!Init
  <1>3. \A w \in Workers : memory[w] = Chat!NoHistory
    BY DEF Chat!Init
  <1>4. memory = [w \in Workers |-> memory[w]]
    BY DEF Chat!Init
  <1> QED BY <1>1, <1>2, <1>3, <1>4, EmptyStored DEF ChatInv, Chat!Init

-----------------------------------------------------------------------------
LEMMA LoadInv == ASSUME ChatInv, NEW c \in Callers, NEW w \in Workers, NEW t \in Talks, Chat!Load(c, w, t) PROVE ChatInv'
  <1>1. /\ asked < MaxQuestions /\ asked' = asked + 1 /\ UNCHANGED <<redis, memory, told>>
        /\ asked \in 0 .. MaxQuestions - 1 /\ asked \in Nat
    BY ChatBounds DEF Chat!Load, ChatInv
  <1>2. PICK h \in Chat!Histories(w, t) :
          call' = [call EXCEPT ![c] = [at |-> "model", worker |-> w, talk |-> t,
                                       history |-> Chat!Trimmed(Append(h, Chat!Question(asked + 1)))]]
    BY DEF Chat!Load
  <1>3. Settled(asked, h)
    BY <1>2, GetSettled DEF Chat!Histories, ChatInv
  <1>4. PICK g : g = Append(h, Chat!Question(asked + 1))
    OBVIOUS
  <1>5. Pending(asked + 1, Chat!Trimmed(g))
    BY <1>1, <1>3, <1>4, QuestionOnTop, TrimmedPending
  <1>6. PICK k : k = Chat!Trimmed(g)
    OBVIOUS
  <1> DEFINE q == [at |-> "model", worker |-> w, talk |-> t, history |-> k]
  <1>7. q \in ChatRequests /\ q.history = k /\ k \in Seq(Chat!Messages)
    BY <1>5, <1>6 DEF ChatRequests, Pending
  <1>8. call' = [call EXCEPT ![c] = q]
    BY <1>2, <1>4, <1>6
  <1> HIDE DEF q
  <1>9. /\ call' \in [Callers -> ChatRequests] /\ call'[c] = q
        /\ \A d \in Callers : d # c => call'[d] = call[d]
    BY <1>7, <1>8 DEF ChatInv
  <1>10. \A d \in Callers : call'[d].at # "idle" => Pending(asked', call'[d].history)
    <2> SUFFICES ASSUME NEW d \in Callers, call'[d].at # "idle" PROVE Pending(asked + 1, call'[d].history)
      BY <1>1
    <2>1. CASE d = c
      BY <1>5, <1>6, <1>7, <1>9, <2>1
    <2>2. CASE d # c
      BY <1>1, <1>9, <2>2, LaterSettled DEF ChatInv
    <2> QED BY <2>1, <2>2
  <1>11. \A histories : Stored(asked, histories) => Stored(asked + 1, histories)
    BY <1>1, LaterSettled DEF Stored
  <1>12. asked' \in 0 .. MaxQuestions
    BY <1>1, ChatBounds
  <1> QED BY <1>1, <1>9, <1>10, <1>11, <1>12 DEF ChatInv

(* Between model and tools the history of a request stays as it is. *)
LEMMA ToolsInv == ASSUME ChatInv, NEW c \in Callers, Chat!CallTools(c) \/ Chat!ToolsAnswer(c) PROVE ChatInv'
  <1>1. PICK place \in {"model", "tools"} :
          call[c].at # "idle" /\ call' = [call EXCEPT ![c].at = place] /\ UNCHANGED <<redis, memory, asked, told>>
    BY DEF Chat!CallTools, Chat!ToolsAnswer
  <1>2. call \in [Callers -> ChatRequests] /\ Pending(asked, call[c].history)
    BY <1>1 DEF ChatInv
  <1>3. call[c] \in [at : {"model", "tools"}, worker : Workers, talk : Talks, history : Seq(Chat!Messages)]
    BY <1>1, <1>2, BusyRequest
  <1> DEFINE q == [call[c] EXCEPT !.at = place]
  <1>4. q \in ChatRequests /\ q.history = call[c].history
    BY <1>3 DEF ChatRequests
  <1>5. call' = [call EXCEPT ![c] = q]
    BY <1>1, <1>2
  <1> HIDE DEF q
  <1>6. call' \in [Callers -> ChatRequests] /\ \A d \in Callers : call'[d].at # "idle" => Pending(asked', call'[d].history)
    BY <1>1, <1>2, <1>4, <1>5, OneCall
  <1> QED BY <1>1, <1>6 DEF ChatInv

LEMMA FinishKeeps ==
  ASSUME ChatInv, NEW c \in Callers, NEW what \in Saying, Chat!Finish(c, what)
  PROVE  /\ asked' = asked /\ told' \in Saying /\ call' \in [Callers -> ChatRequests]
         /\ \A d \in Callers : call'[d].at # "idle" => Pending(asked', call'[d].history)
  BY IdleRequest, OneCall DEF Chat!Finish

LEMMA ReplyInv == ASSUME ChatInv, NEW c \in Callers, Chat!Reply(c) PROVE ChatInv'
  <1>1. call[c].at = "model" /\ call[c] \in ChatRequests /\ asked \in Nat
    BY ChatBounds DEF Chat!Reply, ChatInv
  <1>2. PICK h : h = call[c].history
    OBVIOUS
  <1>3. Pending(asked, h) /\ call[c].worker \in Workers /\ call[c].talk \in Talks
    BY <1>1, <1>2, BusyRequest DEF ChatInv
  <1>4. PICK reply \in Chat!Replies(h) :
          Chat!SaveHistory(call[c].worker, call[c].talk, Append(h, reply)) /\ Chat!Finish(c, "reply")
    BY <1>2 DEF Chat!Reply, Chat!Saved
  <1>5. Settled(asked, Append(h, reply))
    BY <1>1, <1>3, AnswerOnTop
  <1>6. PICK w \in Workers, t \in Talks : w = call[c].worker /\ t = call[c].talk
    BY <1>3
  <1>7. /\ Stored(asked, redis') /\ memory' = [v \in Workers |-> memory'[v]]
        /\ \A v \in Workers : Stored(asked, memory'[v])
    BY <1>4, <1>5, <1>6, SaveKeeps
  <1>8. "reply" \in Saying
    BY DEF Saying
  <1> QED BY <1>4, <1>7, <1>8, FinishKeeps DEF ChatInv

LEMMA FallbackInv == ASSUME ChatInv, NEW c \in Callers, Chat!Fallback(c) PROVE ChatInv'
  <1>1. "tip" \in Saying
    BY DEF Saying
  <1> QED BY <1>1, FinishKeeps DEF Chat!Fallback, ChatInv

(* The calls of a worker that restarts are gone. *)
LEMMA RestartInv == ASSUME ChatInv, NEW w \in Workers, Chat!Restart(w) PROVE ChatInv'
  <1>1. /\ memory' = [memory EXCEPT ![w] = Chat!NoHistory] /\ UNCHANGED <<redis, asked, told>>
        /\ call' = [c \in Callers |-> IF call[c].at # "idle" /\ call[c].worker = w THEN Chat!Nobody ELSE call[c]]
    BY DEF Chat!Restart
  <1>2. memory' = [v \in Workers |-> memory'[v]] /\ \A v \in Workers : Stored(asked, memory'[v])
    BY <1>1, EmptyStored, OneMemory
  <1>3. call' \in [Callers -> ChatRequests] /\ \A c \in Callers : call'[c] = Chat!Nobody \/ call'[c] = call[c]
    BY <1>1, IdleRequest DEF ChatInv
  <1>4. \A c \in Callers : call'[c].at # "idle" => Pending(asked, call'[c].history)
    BY <1>3, IdleRequest DEF ChatInv
  <1> QED BY <1>1, <1>2, <1>3, <1>4 DEF ChatInv

LEMMA DeleteInv == ASSUME ChatInv, NEW w \in Workers, NEW t \in Talks, Chat!DeleteConversation(w, t) PROVE ChatInv'
  <1>1. /\ redis' \in {redis, Chat!Without(redis, t)} /\ memory' = [memory EXCEPT ![w] = Chat!Without(@, t)]
        /\ UNCHANGED <<asked, call, told>>
    BY DEF Chat!DeleteConversation
  <1>2. PICK m : m = Chat!Without(memory[w], t)
    OBVIOUS
  <1>3. Stored(asked, m) /\ Stored(asked, redis')
    BY <1>1, <1>2, WithoutStored DEF ChatInv
  <1>4. memory' = [memory EXCEPT ![w] = m]
    BY <1>1, <1>2
  <1>5. memory' = [v \in Workers |-> memory'[v]] /\ \A v \in Workers : Stored(asked, memory'[v])
    BY <1>3, <1>4, OneMemory
  <1> QED BY <1>1, <1>3, <1>5 DEF ChatInv

LEMMA CreateInv == ASSUME ChatInv, NEW w \in Workers, NEW t \in Talks, Chat!CreateConversation(w, t) PROVE ChatInv'
  <1>1. Settled(asked, <<>>)
    BY EmptySettled
  <1>2. Chat!SaveHistory(w, t, <<>>) /\ told' \in Saying /\ UNCHANGED <<asked, call>>
    BY DEF Chat!CreateConversation, Saying
  <1>3. /\ Stored(asked, redis') /\ memory' = [v \in Workers |-> memory'[v]]
        /\ \A v \in Workers : Stored(asked, memory'[v])
    BY <1>1, <1>2, SaveKeeps
  <1> QED BY <1>2, <1>3 DEF ChatInv

LEMMA OtherChatInv ==
  ASSUME ChatInv,
         \/ \E w \in Workers : Chat!ListConversations(w) \/ \E t \in Talks : Chat!GetHistory(w, t)
         \/ \E t \in Talks : Chat!Expire(t)
         \/ Chat!Offline \/ UNCHANGED Chat!vars
  PROVE  ChatInv'
  <1>1. CASE \/ \E w \in Workers : Chat!ListConversations(w) \/ \E t \in Talks : Chat!GetHistory(w, t)
             \/ Chat!Offline \/ UNCHANGED Chat!vars
    <2>1. UNCHANGED <<redis, memory, asked, call>> /\ told' \in Saying
      BY <1>1 DEF Chat!ListConversations, Chat!GetHistory, Chat!Offline, Chat!vars, Saying, ChatInv
    <2> QED BY <2>1 DEF ChatInv
  <1>2. ASSUME NEW t \in Talks, Chat!Expire(t) PROVE ChatInv'
    BY <1>2, WithoutStored DEF Chat!Expire, ChatInv
  <1> QED BY <1>1, <1>2

LEMMA ChatNextInv == ChatInv /\ [Chat!Next]_(Chat!vars) => ChatInv'
  <1> SUFFICES ASSUME ChatInv, [Chat!Next]_(Chat!vars) PROVE ChatInv'
    OBVIOUS
  <1>1. ASSUME NEW c \in Callers, Chat!CallTools(c) \/ Chat!ToolsAnswer(c) \/ Chat!Reply(c) \/ Chat!Fallback(c) PROVE ChatInv'
    BY <1>1, ToolsInv, ReplyInv, FallbackInv
  <1>2. ASSUME NEW c \in Callers, NEW w \in Workers, NEW t \in Talks, Chat!Load(c, w, t) PROVE ChatInv'
    BY <1>2, LoadInv
  <1>3. ASSUME NEW w \in Workers, NEW t \in Talks, Chat!CreateConversation(w, t) \/ Chat!DeleteConversation(w, t) PROVE ChatInv'
    BY <1>3, CreateInv, DeleteInv
  <1>4. ASSUME NEW w \in Workers, Chat!Restart(w) PROVE ChatInv'
    BY <1>4, RestartInv
  <1> QED BY <1>1, <1>2, <1>3, <1>4, OtherChatInv DEF Chat!Next

(* An answered history is in order. *)
LEMMA SettledInOrder == ASSUME NEW n, NEW h, Settled(n, h) PROVE Chat!InOrder(h) /\ Chat!IsHistory(h)
  <1>1. h \in Seq(Chat!Messages) /\ Len(h) \in Nat /\ Ordered(h) /\ (h # <<>> => h[Len(h)].role = "assistant") /\ Chat!IsHistory(h)
    BY DEF Settled, Chat!IsHistory
  <1>2. ASSUME NEW i \in 1 .. Len(h), h[i].role = "user" PROVE i < Len(h)
    BY <1>1, <1>2
  <1>3. DOMAIN h = 1 .. Len(h)
    BY <1>1
  <1> QED BY <1>1, <1>2, <1>3 DEF Chat!InOrder, Ordered

LEMMA ChatImplied == ChatInv => Chat!TypeOK /\ Chat!TurnsInOrder
  <1> SUFFICES ASSUME ChatInv PROVE Chat!TypeOK /\ Chat!TurnsInOrder
    OBVIOUS
  <1>1. ASSUME NEW c \in Callers
        PROVE  call[c].at \in {"idle", "model", "tools"} /\ (call[c].at # "idle" => Chat!IsHistory(call[c].history))
    <2>1. call[c] \in ChatRequests
      BY DEF ChatInv
    <2>2. \A h : Pending(asked, h) => Chat!IsHistory(h)
      BY ChatBounds DEF Pending, Chat!IsHistory
    <2> QED BY <2>1, <2>2, BusyRequest DEF ChatInv
  <1>2. Chat!TypeOK
    BY <1>1, SettledInOrder DEF ChatInv, Chat!TypeOK, Stored, Saying
  <1>3. Chat!TurnsInOrder
    BY SettledInOrder DEF ChatInv, Chat!TurnsInOrder, Stored
  <1> QED BY <1>2, <1>3

(* However the requests of one conversation overlap, and whatever Redis    *)
(* loses or a worker forgets, send_message saves histories in order, none  *)
(* longer than the limit and one answer.                                   *)
THEOREM ChatKeepsOrder == Chat!Spec => [](Chat!TypeOK /\ Chat!TurnsInOrder)
  <1>1. Chat!Init => ChatInv
    BY ChatInitInv, PlatformAssumption
  <1>2. ChatInv /\ [Chat!Next]_(Chat!vars) => ChatInv'
    BY ChatNextInv, PlatformAssumption
  <1> QED BY <1>1, <1>2, ChatImplied, PTL DEF Chat!Spec
-----------------------------------------------------------------------------
(***************************************************************************)
(* Reports                                                                 *)
(***************************************************************************)
ReportPlaces == {"none", "month", "list", "budgets", "tool", "average", "insights"}

-----------------------------------------------------------------------------
(* What only reads leaves the rows and the alerts alone; these reads are   *)
(* not the monthly report's.                                               *)
Reads ==
  /\ UNCHANGED <<expenses, budgets, alerts>>
  /\ report' = report \/ report'.at \in ReportPlaces \ {"month"}
  /\ shown'.kind # "month"

LEMMA TellReads == ASSUME NEW what, Report!Tell(what), what.kind # "month" PROVE Reads
  BY DEF Report!Tell, Reads

LEMMA ReportsOnExpenses ==
  ASSUME Report!TypeOK,
         \/ \E from, to \in Report!Days : Report!Summary(from, to, expenses) \/ \E c \in Categories : Report!Summary(from, to, Report!Of(expenses, c))
         \/ \E from \in Report!Days :
              Report!ByCategory(from) \/ Report!MonthlyTrend(from) \/ Report!CategoryTrends(from) \/ Report!WeeklyPattern(from)
                \/ Report!ToolExpenses(from)
         \/ Report!Analytics \/ Report!Trends
         \/ \E limit \in 1 .. 2 : Report!ToolTransactions(limit)
  PROVE  Reads
  <1>1. ASSUME NEW from \in Report!Days,
               Report!ByCategory(from) \/ Report!MonthlyTrend(from) \/ Report!CategoryTrends(from) \/ Report!WeeklyPattern(from)
                 \/ Report!ToolExpenses(from)
        PROVE  Reads
    <2>1. CASE Report!ByCategory(from)
      BY <2>1, TellReads DEF Report!ByCategory
    <2>2. CASE Report!MonthlyTrend(from) \/ Report!CategoryTrends(from) \/ Report!WeeklyPattern(from)
      BY <2>2, TellReads DEF Report!MonthlyTrend, Report!CategoryTrends, Report!WeeklyPattern
    <2>3. CASE Report!ToolExpenses(from)
      BY <2>3, TellReads DEF Report!ToolExpenses
    <2> QED BY <1>1, <2>1, <2>2, <2>3
  <1>2. ASSUME NEW from, NEW to, NEW S, Report!Summary(from, to, S) PROVE Reads
    BY <1>2, TellReads DEF Report!Summary
  <1>3. CASE Report!Analytics \/ Report!Trends
    BY <1>3, TellReads DEF Report!Analytics, Report!Trends
  <1>4. ASSUME NEW limit, Report!ToolTransactions(limit) PROVE Reads
    BY <1>4, TellReads DEF Report!ToolTransactions
  <1> QED BY <1>1, <1>2, <1>3, <1>4

LEMMA ReportsOnBudgets ==
  ASSUME Report!TypeOK,
         \/ Report!BudgetSummary \/ Report!NotYetWritten \/ Report!UnreadAlerts
         \/ \E limit \in 1 .. 2 : Report!RecentAlerts(limit)
         \/ \E from, to \in Months : Report!ListBudgets(from, to)
         \/ \E unreadOnly \in BOOLEAN : Report!ShowAlerts(unreadOnly)
         \/ \E i \in BudgetIds : Report!GetBudget(i)
  PROVE  Reads
  <1>1. CASE Report!BudgetSummary \/ Report!NotYetWritten \/ Report!UnreadAlerts
    BY <1>1, TellReads DEF Report!BudgetSummary, Report!NotYetWritten, Report!UnreadAlerts
  <1>2. ASSUME NEW limit, Report!RecentAlerts(limit) PROVE Reads
    BY <1>2, TellReads DEF Report!RecentAlerts
  <1>3. ASSUME NEW from, NEW to, Report!ListBudgets(from, to) PROVE Reads
    BY <1>3, TellReads DEF Report!ListBudgets
  <1>4. ASSUME NEW unreadOnly, Report!ShowAlerts(unreadOnly) PROVE Reads
    BY <1>4, TellReads DEF Report!ShowAlerts
  <1>5. ASSUME NEW i, Report!GetBudget(i) PROVE Reads
    BY <1>5, TellReads DEF Report!GetBudget
  <1> QED BY <1>1, <1>2, <1>3, <1>4, <1>5

(* The other reports of two queries. *)
LEMMA ReportsOfTwoQueries ==
  ASSUME Report!TypeOK,
         \/ Report!AddAlertCount \/ Report!ReportFails \/ Report!ToolBudgets \/ Report!LatestBudgets
         \/ \E c \in Categories : Report!CountExpenses(c)
         \/ \E skip, limit \in 0 .. 2 : Report!PageOfExpenses(skip, limit)
         \/ \E from, to \in Months : Report!BudgetAnalytics(from, to)
         \/ \E from \in Report!Days :
              Report!Anomalies(from) \/ Report!RecentAnomalies(from) \/ Report!CompareWithAverages(from)
         \/ Report!Insights
  PROVE  Reads
  <1> USE DEF Reads, ReportPlaces, Report!NoReport, Report!Nothing
  <1>2. \A B : Report!BudgetLines(B).kind # "month"
    BY DEF Report!BudgetLines
  <1>3. CASE Report!AddAlertCount \/ Report!ReportFails
    BY <1>3 DEF Report!AddAlertCount, Report!ReportFails
  <1>4. CASE Report!ToolBudgets
    BY <1>2, <1>4 DEF Report!ToolBudgets
  <1>5. CASE Report!LatestBudgets
    BY <1>2, <1>5 DEF Report!LatestBudgets
  <1>6. ASSUME NEW c, Report!CountExpenses(c) PROVE Reads
    BY <1>6 DEF Report!CountExpenses
  <1>7. ASSUME NEW skip, NEW limit, Report!PageOfExpenses(skip, limit) PROVE Reads
    BY <1>7 DEF Report!PageOfExpenses
  <1>8. ASSUME NEW from, NEW to, Report!BudgetAnalytics(from, to) PROVE Reads
    BY <1>8 DEF Report!BudgetAnalytics, Report!TypeOK
  <1>9. ASSUME NEW from, Report!Anomalies(from) \/ Report!RecentAnomalies(from) PROVE Reads
    <2>1. CASE Report!Anomalies(from)
      BY <2>1 DEF Report!Anomalies
    <2>2. CASE Report!RecentAnomalies(from)
      BY <2>2 DEF Report!RecentAnomalies
    <2> QED BY <1>9, <2>1, <2>2
  <1>10. ASSUME NEW from, Report!CompareWithAverages(from) PROVE Reads
    BY <1>10 DEF Report!CompareWithAverages
  <1>11. CASE Report!Insights
    BY <1>11 DEF Report!Insights
  <1> QED BY <1>3, <1>4, <1>5, <1>6, <1>7, <1>8, <1>9, <1>10, <1>11

LEMMA ReadsKeepTypes == ASSUME Report!TypeOK, Reads PROVE Report!TypeOK'
  BY DEF Report!TypeOK, Reads, ReportPlaces

-----------------------------------------------------------------------------
(* The writes *)

LEMMA ExpenseWrites == ASSUME Report!TypeOK, NEW i \in ExpenseIds, Report!WriteExpense(i) PROVE Report!TypeOK'
  BY DEF Report!TypeOK, Report!WriteExpense, Report!Done

LEMMA BudgetWrites == ASSUME Report!TypeOK, NEW i \in BudgetIds, Report!CreateBudget(i) \/ Report!UpdateBudget(i) PROVE Report!TypeOK'
  <1>1. CASE Report!CreateBudget(i)
    BY <1>1 DEF Report!TypeOK, Report!CreateBudget, Report!Done
  <1>2. CASE Report!UpdateBudget(i)
    <2>1. PICK x \in budgets, pot \in (Allocations \X Spendings) : x.id = i /\ budgets' = (budgets \ {x}) \cup {[x EXCEPT !.pot = pot]}
      BY <1>2 DEF Report!UpdateBudget
    <2>2. PICK y : y = [x EXCEPT !.pot = pot]
      OBVIOUS
    <2>3. x \in Report!Budgets
      BY <2>1 DEF Report!TypeOK
    <2>4. y \in Report!Budgets /\ y.id = x.id
      BY <2>2, <2>3 DEF Report!Budgets
    <2>5. budgets' = (budgets \ {x}) \cup {y} /\ UNCHANGED <<report, expenses, alerts>>
      BY <1>2, <2>1, <2>2 DEF Report!UpdateBudget, Report!Done
    <2> QED BY <2>4, <2>5 DEF Report!TypeOK
  <1> QED BY <1>1, <1>2

LEMMA AlertWrites ==
  ASSUME Report!TypeOK, (\E i \in BudgetIds : Report!DeleteBudget(i)) \/ Report!RaiseAlert \/ Report!MarkAlertRead
  PROVE  Report!TypeOK'
  <1>1. alerts \in [unread : Nat, read : Nat] /\ alerts.unread + alerts.read <= MaxAlerts /\ MaxAlerts \in Nat
    BY TheAssumptions DEF Report!TypeOK, Report!ReportsAssumption
  <1>2. ASSUME NEW i \in BudgetIds, Report!DeleteBudget(i) PROVE Report!TypeOK'
    <2>1. alerts' \in [unread : 0 .. alerts.unread, read : 0 .. alerts.read]
      BY <1>2 DEF Report!DeleteBudget
    <2>2. alerts' \in [unread : Nat, read : Nat] /\ alerts'.unread + alerts'.read <= MaxAlerts
      BY <1>1, <2>1
    <2> QED BY <1>2, <2>2 DEF Report!TypeOK, Report!DeleteBudget, Report!Done
  <1>3. CASE Report!RaiseAlert
    <2>1. alerts.unread + alerts.read < MaxAlerts /\ alerts' = [alerts EXCEPT !.unread = @ + 1]
          /\ UNCHANGED <<report, expenses, budgets>>
      BY <1>3 DEF Report!RaiseAlert, Report!Done
    <2>2. alerts' \in [unread : Nat, read : Nat] /\ alerts'.unread + alerts'.read <= MaxAlerts
      BY <1>1, <2>1
    <2> QED BY <2>1, <2>2 DEF Report!TypeOK
  <1>4. CASE Report!MarkAlertRead
    <2>1. alerts' \in [unread : Nat, read : Nat] /\ alerts'.unread + alerts'.read <= MaxAlerts
      BY <1>1, <1>4 DEF Report!MarkAlertRead
    <2> QED BY <1>4, <2>1 DEF Report!TypeOK, Report!MarkAlertRead, Report!Done
  <1> QED BY <1>2, <1>3, <1>4

LEMMA ReportsInitType == Report!Init => Report!TypeOK
  BY TheAssumptions DEF Report!Init, Report!TypeOK, Report!NoReport, Report!ReportsAssumption

LEMMA ReportsNextType == Report!TypeOK /\ [Report!Next]_(Report!rvars) => Report!TypeOK'
  <1> SUFFICES ASSUME Report!TypeOK, [Report!Next]_(Report!rvars) PROVE Report!TypeOK'
    OBVIOUS
  <1>1. CASE UNCHANGED Report!rvars
    BY <1>1 DEF Report!rvars, Report!TypeOK
  <1>2. ASSUME NEW i \in BudgetIds, Report!CreateBudget(i) \/ Report!UpdateBudget(i) PROVE Report!TypeOK'
    BY <1>2, BudgetWrites
  <1>3. ASSUME NEW i \in ExpenseIds, Report!WriteExpense(i) PROVE Report!TypeOK'
    BY <1>3, ExpenseWrites
  <1>4. ASSUME (\E i \in BudgetIds : Report!DeleteBudget(i)) \/ Report!RaiseAlert \/ Report!MarkAlertRead PROVE Report!TypeOK'
    BY <1>4, AlertWrites
  <1>5. Reads => Report!TypeOK'
    BY ReadsKeepTypes
  <1>6. (\E m \in Months : Report!ReadBudgets(m)) \/ Report!MonthlyAnalytics => Report!TypeOK'
    BY DEF Report!ReadBudgets, Report!MonthlyAnalytics, Report!TypeOK, Report!NoReport
  <1> QED BY <1>1, <1>2, <1>3, <1>4, <1>5, <1>6, ReportsOnExpenses, ReportsOnBudgets, ReportsOfTwoQueries DEF Report!Next

(* Rows, alerts and reports under way have their types, and ids are        *)
(* unique.                                                                 *)
THEOREM ReportTypesCorrect == Report!Spec => []Report!TypeOK
  BY ReportsInitType, ReportsNextType, PTL DEF Report!Spec

-----------------------------------------------------------------------------
(***************************************************************************)
(* The monthly report's pie                                                *)
(***************************************************************************)
(* The slices of a pie: one for each row of R, which is of a category of   *)
(* its own, and one for each category of K with spending but no row.       *)
Sliced(pie, K, spending, R, of, slice, U, rest) ==
  /\ \A c \in K : spending[c] \in Nat
  /\ \A x, y \in R : of[x] = of[y] => x = y
  /\ \A x, y \in R : slice[x] = slice[y] => x = y
  /\ \A x \in R : slice[x].amount = IF of[x] \in K THEN spending[of[x]] ELSE 0
  /\ U = {c \in K : \A x \in R : of[x] # c}
  /\ \A c, d \in U : rest[c] = rest[d] => c = d
  /\ \A c \in U : rest[c].amount = spending[c]
  /\ \A x \in R, c \in U : slice[x] # rest[c]
  /\ pie = {slice[x] : x \in R} \cup {rest[c] : c \in U}

(* They add up to the spending. *)
LEMMA SlicesAddUp ==
  ASSUME NEW pie, NEW K, IsFiniteSet(K), NEW spending, NEW R, IsFiniteSet(R), NEW of, NEW slice, NEW U, NEW rest,
         Sliced(pie, K, spending, R, of, slice, U, rest)
  PROVE  SumFunction([p \in pie |-> p.amount]) = SumFunctionOnSet(spending, K)
  <1> USE DEF Sliced
  <1> DEFINE amount == [p \in pie |-> p.amount]
             in == [x \in R |-> IF of[x] \in K THEN spending[of[x]] ELSE 0]
             Budgeted == {slice[x] : x \in R}
             Others == {rest[c] : c \in U}
             Inside == {x \in R : of[x] \in K}
             Covered == {of[x] : x \in Inside}
  <1>1. IsFiniteSet(U) /\ IsFiniteSet(Inside)
    BY FS_Subset
  <1>2. SumFunctionOnSet(amount, Budgeted) = SumFunctionOnSet(in, R)
    <2>1. \A x \in R : in[x] \in Int /\ amount[slice[x]] = in[x]
      OBVIOUS
    <2> HIDE DEF in
    <2> QED BY <2>1, SumRenamed
  <1>3. SumFunctionOnSet(amount, Others) = SumFunctionOnSet(spending, U)
    <2>1. \A c \in U : spending[c] \in Int /\ amount[rest[c]] = spending[c]
      OBVIOUS
    <2> QED BY <1>1, <2>1, SumRenamed
  <1>4. SumFunctionOnSet(in, R) = SumFunctionOnSet(in, Inside)
    <2>1. R = Inside \cup (R \ Inside) /\ Inside \cap (R \ Inside) = {} /\ IsFiniteSet(R \ Inside)
      BY FS_Subset
    <2>2. (\A x \in Inside \cup (R \ Inside) : in[x] \in Int) /\ \A x \in R \ Inside : in[x] = 0
      OBVIOUS
    <2>3. \A x \in Inside : in[x] \in Int
      OBVIOUS
    <2> HIDE DEF in, Inside
    <2>4. SumFunctionOnSet(in, R \ Inside) = 0
      BY <2>1, <2>2, SumZero
    <2>5. SumFunctionOnSet(in, Inside \cup (R \ Inside)) = SumFunctionOnSet(in, Inside) + SumFunctionOnSet(in, R \ Inside)
      BY <1>1, <2>1, <2>2, SumUnion
    <2>6. SumFunctionOnSet(in, Inside) \in Int
      BY <1>1, <2>3, SumInt
    <2>7. SumFunctionOnSet(in, Inside \cup (R \ Inside)) = SumFunctionOnSet(in, Inside)
      BY <2>4, <2>5, <2>6
    <2>8. R = Inside \cup (R \ Inside)
      BY <2>1
    <2> QED BY <2>7, <2>8
  <1>5. SumFunctionOnSet(spending, Covered) = SumFunctionOnSet(in, Inside)
    <2>1. (\A x \in Inside : in[x] \in Int /\ spending[of[x]] = in[x]) /\ \A x, y \in Inside : of[x] = of[y] => x = y
      OBVIOUS
    <2> HIDE DEF in, Inside
    <2> QED BY <1>1, <2>1, SumRenamed
  <1>6. SumFunctionOnSet(spending, K) = SumFunctionOnSet(spending, Covered) + SumFunctionOnSet(spending, U)
    <2>1. K = Covered \cup U /\ Covered \cap U = {} /\ IsFiniteSet(Covered)
      <3>1. Covered \subseteq K /\ K = Covered \cup U /\ Covered \cap U = {}
        OBVIOUS
      <3> HIDE DEF Covered
      <3> QED BY <3>1, FS_Subset
    <2>2. \A c \in Covered \cup U : spending[c] \in Int
      BY <2>1
    <2> HIDE DEF Covered
    <2> QED BY <1>1, <2>1, <2>2, SumUnion
  <1>7. SumFunctionOnSet(amount, pie) = SumFunctionOnSet(amount, Budgeted) + SumFunctionOnSet(amount, Others)
    <2>1. pie = Budgeted \cup Others /\ Budgeted \cap Others = {}
      OBVIOUS
    <2>2. \A p \in Budgeted \cup Others : amount[p] \in Int
      OBVIOUS
    <2>3. IsFiniteSet(Budgeted) /\ IsFiniteSet(Others)
      BY <1>1, FiniteImage
    <2> HIDE DEF Budgeted, Others
    <2> QED BY <2>1, <2>2, <2>3, SumUnion
  <1>8. SumFunction(amount) = SumFunctionOnSet(amount, pie)
    BY DEF SumFunction
  <1> HIDE DEF amount, in, Budgeted, Others, Inside, Covered
  <1>9. SumFunction(amount) = SumFunctionOnSet(spending, K)
    BY <1>2, <1>3, <1>4, <1>5, <1>6, <1>7, <1>8
  <1> QED BY <1>9 DEF amount

LEMMA ReportsSum == ASSUME NEW f PROVE Report!SumFunction(f) = SumFunction(f)
  BY DEF Report!SumFunction, SumFunction, Report!SumFunctionOnSet, SumFunctionOnSet,
         Report!FoldFunctionOnSet, FoldFunctionOnSet, Report!MapThenFoldSet, MapThenFoldSet

LEMMA SpentNat ==
  ASSUME NEW S \in SUBSET Report!Expenses, IsFiniteSet(S)
  PROVE  Report!Spent(S) \in Nat
  <1> DEFINE amount == [e \in S |-> e.amount]
  <1>1. Report!Spent(S) = SumFunctionOnSet(amount, S)
    BY ReportsSum DEF Report!Spent, SumFunction
  <1>2. \A e \in S : amount[e] \in Nat
    BY TheAssumptions DEF Report!Expenses, Report!ReportsAssumption
  <1> HIDE DEF amount
  <1> QED BY <1>1, <1>2, SumNat

LEMMA GroupsAddUp ==
  ASSUME NEW S \in SUBSET Report!Expenses, IsFiniteSet(S),
         NEW spending, spending = Report!Grouped(S, LAMBDA e : e.category)
  PROVE  /\ IsFiniteSet(DOMAIN spending) /\ DOMAIN spending \subseteq Categories
         /\ \A c \in DOMAIN spending : spending[c] \in Nat
         /\ SumFunctionOnSet(spending, DOMAIN spending) = Report!Spent(S)
  <1> DEFINE K == {e.category : e \in S}
             amount == [e \in S |-> e.amount]
             category == [e \in S |-> e.category]
  <1>1. spending = [k \in K |-> Report!Spent({e \in S : e.category = k})]
    BY DEF Report!Grouped
  <1>2. IsFiniteSet(K)
    <2>1. IsFiniteSet({category[e] : e \in S})
      <3> HIDE DEF category
      <3> QED BY FiniteImage
    <2>2. {category[e] : e \in S} = K
      OBVIOUS
    <2> QED BY <2>1, <2>2
  <1>3. \A k \in K : IsFiniteSet({e \in S : e.category = k})
    BY FS_Subset
  <1>4. DOMAIN spending = K /\ K \subseteq Categories /\ \A c \in K : spending[c] \in Nat
    BY <1>1, <1>3, SpentNat DEF Report!Expenses
  <1>5. \A k \in K : spending[k] = SumFunctionOnSet(amount, {e \in S : category[e] = k})
    <2> SUFFICES ASSUME NEW k \in K PROVE spending[k] = SumFunctionOnSet(amount, {e \in S : category[e] = k})
      OBVIOUS
    <2> DEFINE G == {e \in S : e.category = k}
               own == [e \in G |-> e.amount]
    <2>1. spending[k] = SumFunctionOnSet(own, G)
      BY <1>1, ReportsSum DEF Report!Spent, SumFunction
    <2>2. \A e \in G : own[e] = amount[e]
      OBVIOUS
    <2>3. G = {e \in S : category[e] = k}
      OBVIOUS
    <2> HIDE DEF own, amount
    <2>4. SumFunctionOnSet(own, G) = SumFunctionOnSet(amount, G)
      BY <1>3, <2>2, SumSame
    <2> QED BY <2>1, <2>3, <2>4
  <1>6. Report!Spent(S) = SumFunctionOnSet(amount, S)
    BY ReportsSum DEF Report!Spent, SumFunction
  <1>7. (\A e \in S : amount[e] \in Int) /\ \A e \in S : category[e] \in K
    BY TheAssumptions DEF Report!Expenses, Report!ReportsAssumption
  <1> HIDE DEF K, amount, category
  <1>8. SumFunctionOnSet(spending, K) = SumFunctionOnSet(amount, S)
    BY <1>2, <1>5, <1>7, SumGrouped
  <1> QED BY <1>2, <1>4, <1>6, <1>8

-----------------------------------------------------------------------------

(* What a monthly report holds after its first query. *)
MonthRead ==
  report.at = "month" =>
    /\ report.budgets \subseteq Report!Budgets /\ IsFiniteSet(report.budgets)
    /\ \A x, y \in report.budgets : x.id = y.id => x = y

PieInv ==
  /\ Report!TypeOK
  /\ IsFiniteSet(expenses) /\ IsFiniteSet(budgets)
  /\ MonthRead
  /\ Report!PieAddsUp

LEMMA PieOfTheMonth ==
  ASSUME PieInv, report.at = "month",
         NEW S \in SUBSET expenses, NEW spending, spending = Report!Grouped(S, LAMBDA e : e.category),
         \A x, y \in report.budgets : x.category = y.category => x = y
  PROVE  SumFunction([slice \in Report!Pie(spending) |-> slice.amount]) = Report!Spent(S)
  <1> DEFINE R == report.budgets
             K == DOMAIN spending
             U == {c \in K : Report!Of(R, c) = {}}
             slice == [b \in R |-> [budget |-> b.id, category |-> b.category, amount |-> Report!SpentIn(spending, b.category),
                                    status |-> Report!Level(Report!Utilization(Report!SpentIn(spending, b.category), b.pot[1]))]]
             rest == [c \in U |-> [budget |-> "none", category |-> c, amount |-> spending[c]]]
             of == [b \in R |-> b.category]
             pie == Report!Pie(spending)
  <1>1. /\ R \subseteq Report!Budgets /\ IsFiniteSet(R) /\ \A x, y \in R : x.id = y.id => x = y
        /\ S \subseteq Report!Expenses /\ IsFiniteSet(S)
    BY FS_Subset DEF PieInv, MonthRead, Report!TypeOK
  <1>2. /\ IsFiniteSet(K) /\ K \subseteq Categories /\ \A c \in K : spending[c] \in Nat
        /\ SumFunctionOnSet(spending, K) = Report!Spent(S)
    BY <1>1, GroupsAddUp
  <1>3. \A x, y \in R : of[x] = of[y] => x = y
    OBVIOUS
  <1>4. \A x, y \in R : slice[x] = slice[y] => x = y
    <2> SUFFICES ASSUME NEW x \in R, NEW y \in R, slice[x] = slice[y] PROVE x = y
      OBVIOUS
    <2>1. slice[x].budget = x.id /\ slice[y].budget = y.id
      OBVIOUS
    <2> QED BY <1>1, <2>1
  <1>5. \A x \in R : slice[x].amount = IF of[x] \in K THEN spending[of[x]] ELSE 0
    BY DEF Report!SpentIn
  <1>6. U = {c \in K : \A x \in R : of[x] # c}
    BY DEF Report!Of
  <1>7. (\A c, d \in U : rest[c] = rest[d] => c = d) /\ \A c \in U : rest[c].amount = spending[c]
    <2>1. \A c \in U : rest[c].category = c /\ rest[c].amount = spending[c]
      OBVIOUS
    <2> HIDE DEF rest
    <2> QED BY <2>1
  <1>8. \A x \in R, c \in U : slice[x] # rest[c]
    <2>1. \A x \in R : "status" \in DOMAIN slice[x]
      OBVIOUS
    <2>2. \A c \in U : "status" \notin DOMAIN rest[c]
      OBVIOUS
    <2> HIDE DEF slice, rest
    <2> QED BY <2>1, <2>2
  <1>9. pie = {slice[x] : x \in R} \cup {rest[c] : c \in U}
    <2>1. Report!Unbudgeted(spending) = U
      BY DEF Report!Unbudgeted
    <2> QED BY <2>1 DEF Report!Pie
  <1>10. Sliced(pie, K, spending, R, of, slice, U, rest)
    <2> HIDE DEF R, K, U, slice, rest, of, pie
    <2> QED BY <1>2, <1>3, <1>4, <1>5, <1>6, <1>7, <1>8, <1>9 DEF Sliced
  <1>11. SumFunction([p \in pie |-> p.amount]) = SumFunctionOnSet(spending, K)
    <2> HIDE DEF R, K, U, slice, rest, of, pie
    <2> QED BY <1>1, <1>2, <1>10, SlicesAddUp
  <1> QED BY <1>2, <1>11

-----------------------------------------------------------------------------

LEMMA PieInit == Report!Init => PieInv
  <1> SUFFICES ASSUME Report!Init PROVE PieInv
    OBVIOUS
  <1>1. Report!TypeOK
    BY ReportsInitType
  <1>2. IsFiniteSet(expenses) /\ IsFiniteSet(budgets)
    BY FS_EmptySet DEF Report!Init
  <1> QED BY <1>1, <1>2 DEF Report!Init, Report!NoReport, Report!Nothing, PieInv, MonthRead, Report!PieAddsUp

(* A step that tells nothing of a month only has to keep the rows finite. *)
LEMMA PieUntold ==
  ASSUME PieInv, Report!TypeOK', IsFiniteSet(expenses'), IsFiniteSet(budgets'), shown'.kind # "month",
         report' = report \/ report'.at # "month"
  PROVE  PieInv'
  <1>1. Report!PieAddsUp'
    BY DEF Report!PieAddsUp
  <1>2. MonthRead'
    BY DEF PieInv, MonthRead
  <1> QED BY <1>1, <1>2 DEF PieInv

LEMMA PieWrites ==
  ASSUME PieInv, Report!TypeOK',
         \/ \E i \in ExpenseIds : Report!WriteExpense(i)
         \/ \E i \in BudgetIds : Report!CreateBudget(i) \/ Report!UpdateBudget(i) \/ Report!DeleteBudget(i)
         \/ Report!RaiseAlert \/ Report!MarkAlertRead
  PROVE  PieInv'
  <1>1. IsFiniteSet(expenses) /\ IsFiniteSet(budgets)
    BY DEF PieInv
  <1>2. Report!Done
    BY DEF Report!WriteExpense, Report!CreateBudget, Report!UpdateBudget, Report!DeleteBudget,
           Report!RaiseAlert, Report!MarkAlertRead
  <1>3. \E e : expenses' \subseteq expenses \cup {e}
    BY DEF Report!WriteExpense, Report!CreateBudget, Report!UpdateBudget, Report!DeleteBudget,
           Report!RaiseAlert, Report!MarkAlertRead
  <1>4. \E b : budgets' \subseteq budgets \cup {b}
    BY DEF Report!WriteExpense, Report!CreateBudget, Report!UpdateBudget, Report!DeleteBudget,
           Report!RaiseAlert, Report!MarkAlertRead
  <1>5. IsFiniteSet(expenses') /\ IsFiniteSet(budgets')
    BY <1>1, <1>3, <1>4, FS_AddElement, FS_Subset
  <1>6. report' = report /\ shown'.kind # "month"
    BY <1>2 DEF Report!Done, Report!Nothing
  <1> QED BY <1>5, <1>6, PieUntold

LEMMA PieReads == ASSUME PieInv, Report!TypeOK', Reads PROVE PieInv'
  BY PieUntold DEF PieInv, Reads

LEMMA PieFirstQuery == ASSUME PieInv, Report!TypeOK', NEW m, Report!ReadBudgets(m) PROVE PieInv'
  <1>1. report' = [at |-> "month", month |-> m, budgets |-> {b \in budgets : b.month = m}]
        /\ shown'.kind # "month" /\ UNCHANGED <<expenses, budgets>>
    BY DEF Report!ReadBudgets, Report!Nothing
  <1>2. IsFiniteSet({b \in budgets : b.month = m})
    BY FS_Subset DEF PieInv
  <1>3. MonthRead'
    BY <1>1, <1>2 DEF MonthRead, PieInv, Report!TypeOK
  <1>4. Report!PieAddsUp'
    BY <1>1 DEF Report!PieAddsUp
  <1> QED BY <1>1, <1>3, <1>4 DEF PieInv

LEMMA PieSecondQuery == ASSUME PieInv, Report!TypeOK', Report!MonthlyAnalytics PROVE PieInv'
  <1> DEFINE S == {e \in expenses : Report!MonthOf(e.day) = report.month}
             spending == Report!Grouped(S, LAMBDA e : e.category)
  <1>1. /\ S \in SUBSET expenses
        /\ shown' = [kind |-> "month", pie |-> Report!Pie(spending), spent |-> Report!Spent(S),
                     budgeted |-> Report!Allocated(report.budgets),
                     single |-> \A x, y \in report.budgets : x.category = y.category => x = y]
    BY Zenon DEF Report!MonthlyAnalytics
  <1>2. report.at = "month" /\ report'.at = "none" /\ UNCHANGED <<expenses, budgets>>
    BY DEF Report!MonthlyAnalytics, Report!NoReport
  <1>3. ASSUME shown'.single
        PROVE  SumFunction([slice \in shown'.pie |-> slice.amount]) = shown'.spent
    <2>1. \A x, y \in report.budgets : x.category = y.category => x = y
      BY <1>1, <1>3
    <2>2. SumFunction([slice \in Report!Pie(spending) |-> slice.amount]) = Report!Spent(S)
      BY <1>1, <1>2, <2>1, PieOfTheMonth
    <2> QED BY <1>1, <2>2
  <1>4. Report!PieAddsUp'
    BY <1>3, ReportsSum DEF Report!PieAddsUp
  <1>5. MonthRead'
    BY <1>2 DEF MonthRead
  <1> QED BY <1>2, <1>4, <1>5 DEF PieInv

LEMMA PieNext == PieInv /\ [Report!Next]_(Report!rvars) => PieInv'
  <1> SUFFICES ASSUME PieInv, [Report!Next]_(Report!rvars) PROVE PieInv'
    OBVIOUS
  <1>1. Report!TypeOK /\ Report!TypeOK'
    BY ReportsNextType DEF PieInv
  <1>2. CASE UNCHANGED Report!rvars
    BY <1>2 DEF Report!rvars, PieInv, MonthRead, Report!TypeOK, Report!PieAddsUp
  <1>3. Reads => PieInv'
    BY <1>1, PieReads
  <1>4. (\E m \in Months : Report!ReadBudgets(m)) \/ Report!MonthlyAnalytics => PieInv'
    BY <1>1, PieFirstQuery, PieSecondQuery
  <1>5. (\E i \in ExpenseIds : Report!WriteExpense(i))
          \/ (\E i \in BudgetIds : Report!CreateBudget(i) \/ Report!UpdateBudget(i) \/ Report!DeleteBudget(i))
          \/ Report!RaiseAlert \/ Report!MarkAlertRead => PieInv'
    BY <1>1, PieWrites
  <1> QED BY <1>1, <1>2, <1>3, <1>4, <1>5, ReportsOnExpenses, ReportsOnBudgets, ReportsOfTwoQueries DEF Report!Next

(* The slices of a monthly report's pie add up to the total beside it,     *)
(* whatever is written between its two queries, however many expenses and  *)
(* categories there are, as long as no category has two budgets.           *)
THEOREM SlicesMakeTheTotal == Report!Spec => []Report!PieAddsUp
  <1>1. PieInv => Report!PieAddsUp
    BY DEF PieInv
  <1> QED BY <1>1, PieInit, PieNext, PTL DEF Report!Spec

-----------------------------------------------------------------------------
(***************************************************************************)
(* All of it together.  One service runs, and runs as its module says; the *)
(* others wait.                                                            *)
(***************************************************************************)
LEMMA OneRuns ==
  ASSUME [PlatformNext]_platformVars
  PROVE  /\ service' = service
         /\ [Next]_vars /\ [Chat!Next]_(Chat!vars) /\ [Report!Next]_(Report!rvars)
         /\ service = "copies" => [Copies!Next]_(Copies!vars)
         /\ service # "copies" => UNCHANGED copyVars
  BY DEF PlatformNext, LimiterStep, CopiesStep, ChatStep, ReportStep,
         platformVars, vars, copyVars, chatVars, reportVars, Copies!vars, Chat!vars, Report!rvars

(* With a service chosen, a behaviour is one of the service's own          *)
(* specification; and the ones that wait allow it too.                     *)
THEOREM PlatformAlone ==
  PlatformSpec => Spec /\ Chat!Spec /\ Report!Spec /\ (service = "copies" => Copies!Spec)
  <1>1. [PlatformNext]_platformVars => [Next]_vars /\ [Chat!Next]_(Chat!vars) /\ [Report!Next]_(Report!rvars)
    BY OneRuns
  <1>2. service = "copies" /\ [PlatformNext]_platformVars => (service = "copies")' /\ [Copies!Next]_(Copies!vars)
    BY OneRuns
  <1>3. PlatformInit => Init /\ Chat!Init /\ Report!Init /\ (service = "copies" => Copies!Init)
    BY DEF PlatformInit, CopiesStart
  <1> QED BY <1>1, <1>2, <1>3, PTL DEF PlatformSpec, Spec, Chat!Spec, Report!Spec, Copies!Spec

(* The limiter keeps its window, whatever else runs.                       *)
THEOREM PlatformKeepsWindow == PlatformSpec => []WindowRespected
  BY PlatformAlone, WindowIsRespected, PTL

(* A browser's own copy is never shown when it is older than its lifetime. *)
THEOREM PlatformCopiesFresh == PlatformSpec => []StaleAtMostTtl
  <1>1. ~(service = "copies") /\ [PlatformNext]_platformVars => ~(service = "copies")'
    BY OneRuns
  <1>2. Copies!StaleAtMostTtl => StaleAtMostTtl
    BY DEF StaleAtMostTtl
  <1>3. ~(service = "copies") => StaleAtMostTtl
    BY DEF StaleAtMostTtl
  <1> QED BY <1>1, <1>2, <1>3, PlatformAlone, CopiesAreFresh, PTL DEF PlatformSpec

(* Histories keep questions and answers in order.                          *)
THEOREM PlatformTalksInOrder == PlatformSpec => []TurnsInOrder
  <1>1. Chat!TurnsInOrder => TurnsInOrder
    BY DEF TurnsInOrder
  <1> QED BY <1>1, PlatformAlone, ChatKeepsOrder, PTL

(* The pie of a monthly report adds up, whatever else runs.                *)
THEOREM PlatformPiesAddUp == PlatformSpec => []PieAddsUp
  <1>1. Report!PieAddsUp => PieAddsUp
    BY DEF PieAddsUp
  <1> QED BY <1>1, PlatformAlone, SlicesMakeTheTotal, PTL

(* The state of the service that runs has its types.                       *)
THEOREM PlatformTypeCorrect == PlatformSpec => []PlatformTypeOK
  <1>1. service = "copies" /\ [PlatformNext]_platformVars => (service = "copies")'
    BY OneRuns
  <1>2. ~(service = "copies") /\ [PlatformNext]_platformVars => ~(service = "copies")'
    BY OneRuns
  <1>3. PlatformInit => service \in {"limiter", "copies", "chat", "reports"}
    BY DEF PlatformInit
  <1>4. [PlatformNext]_platformVars /\ service \in {"limiter", "copies", "chat", "reports"}
          => (service \in {"limiter", "copies", "chat", "reports"})'
    BY OneRuns
  <1>5. /\ service = "copies" /\ Copies!TypeOK => PlatformTypeOK
        /\ /\ ~(service = "copies") /\ service \in {"limiter", "copies", "chat", "reports"}
           /\ TypeOK /\ Chat!TypeOK /\ Report!TypeOK
           => PlatformTypeOK
    BY DEF PlatformTypeOK
  <1> QED BY <1>1, <1>2, <1>3, <1>4, <1>5, PlatformAlone, LimiterTypeCorrect, CopiesAreFresh, ChatKeepsOrder,
             ReportTypesCorrect, PTL DEF PlatformSpec
=============================================================================

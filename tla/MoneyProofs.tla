----------------------------- MODULE MoneyProofs -----------------------------
(***************************************************************************)
(* Proofs about overlapping payments, for any number of loans and of       *)
(* requests, any amounts, any rate and any unit of calculation.            *)
(*                                                                         *)
(* A payment is computed on a copy of the loan that may be old.  What      *)
(* stays true of every copy is what NothingRepaidTwice says of the loan:   *)
(* with what the payments since then repaid, its balance makes up for the  *)
(* least amount the loan was ever set to.                                  *)
(*                                                                         *)
(* And about the calculators, for any loans and dates: the schedule is a   *)
(* recursion whose values are bounded by the powers in the annuity         *)
(* formula, the due dates one that keeps the least day met so far.         *)
(***************************************************************************)
EXTENDS MCMoney, FiniteSums

-----------------------------------------------------------------------------
(***************************************************************************)
(* The repayment schedule.                                                 *)
(***************************************************************************)

(* The balance after an instalment. *)
Repaid(r, emi, b) == b - Least(emi * Unit - (b * r) \div Unit, b)

IsDebt(f, P, r, emi, n) == f = [k \in 0 .. n |-> IF k = 0 THEN P * Unit ELSE Repaid(r, emi, f[k - 1])]
Debt(P, r, emi, n) == CHOOSE f : IsDebt(f, P, r, emi, n)
Endings(f, n) == {k \in 1 .. n : f[k] <= 0}
Ending(f, n) == IF Endings(f, n) = {} THEN n ELSE CHOOSE k \in Endings(f, n) : \A j \in Endings(f, n) : k <= j

LEMMA ScheduleIs ==
  ASSUME NEW P, NEW r, NEW emi, NEW n
  PROVE  Schedule(P, r, emi, n) = [k \in 1 .. Ending(Debt(P, r, emi, n), n) |-> Most(0, Debt(P, r, emi, n)[k])]
  BY Zenon DEF Schedule, Repaid, IsDebt, Debt, Endings, Ending

IsPower(f, b, n) == f = [k \in 0 .. n |-> IF k = 0 THEN 1 ELSE b * f[k - 1]]
LEMMA PowerIs == ASSUME NEW b, NEW n PROVE Power(b, n) = (CHOOSE f : IsPower(f, b, n))[n]
  BY Zenon DEF Power, IsPower

Times(b) == [x \in Nat |-> b * x]

LEMMA PowerRuns ==
  ASSUME NEW b \in Nat, NEW n \in Nat
  PROVE  \E f \in [0 .. n -> Nat] : Power(b, n) = f[n] /\ Runs(f, 1, Times(b), n)
  <1> DEFINE f == CHOOSE g : IsPower(g, b, n)
  <1>1. Times(b) \in [Nat -> Nat] /\ \A x \in Nat : Times(b)[x] = b * x
    BY DEF Times
  <1>2. PICK g \in [0 .. n -> Nat] : Runs(g, 1, Times(b), n)
    BY <1>1, RecursionExists
  <1>3. IsPower(g, b, n)
    <2>1. g[0] = 1
      BY <1>2 DEF Runs
    <2>2. ASSUME NEW k \in 1 .. n PROVE g[k] = b * g[k - 1]
      <3>1. g[k - 1] \in Nat /\ g[k] = Times(b)[g[k - 1]]
        BY <1>2 DEF Runs
      <3> QED BY <1>1, <3>1
    <2> QED BY <1>2, <2>1, <2>2 DEF IsPower
  <1>4. IsPower(f, b, n) /\ Power(b, n) = f[n]
    BY <1>3, PowerIs, Zenon
  <1> HIDE DEF f
  <1>5. f[0] = 1 /\ \A k \in 1 .. n : f[k] = b * f[k - 1]
    BY <1>4 DEF IsPower
  <1>6. \A k \in 0 .. n : f[k] \in Nat
    <2> DEFINE C == {k \in 0 .. n : f[k] \in Nat}
    <2>1. 0 \in C
      BY <1>5
    <2>2. ASSUME NEW k \in 1 .. n, k - 1 \in C PROVE k \in C
      BY <1>5, <2>2
    <2> HIDE DEF C
    <2>3. \A k \in 0 .. n : k \in C
      BY <2>1, <2>2, UpToInduction
    <2> QED BY <2>3 DEF C
  <1>7. f \in [0 .. n -> Nat]
    BY <1>4, <1>6 DEF IsPower
  <1>8. ASSUME NEW k \in 1 .. n PROVE f[k] = Times(b)[f[k - 1]]
    <2>1. f[k - 1] \in Nat
      BY <1>6
    <2> QED BY <1>1, <1>5, <2>1
  <1>9. Runs(f, 1, Times(b), n)
    BY <1>5, <1>8 DEF Runs
  <1> QED BY <1>4, <1>7, <1>9

(* What Power computes. *)
LEMMA PowerGrows ==
  ASSUME NEW b \in Nat, NEW n \in Nat
  PROVE  Power(b, 0) = 1 /\ Power(b, n) \in Nat /\ Power(b, n + 1) = b * Power(b, n)
  <1>1. PICK f \in [0 .. n -> Nat] : Power(b, n) = f[n] /\ Runs(f, 1, Times(b), n)
    BY PowerRuns
  <1>2. PICK g \in [0 .. n + 1 -> Nat] : Power(b, n + 1) = g[n + 1] /\ Runs(g, 1, Times(b), n + 1)
    <2> DEFINE m == n + 1
    <2>1. m \in Nat
      OBVIOUS
    <2> HIDE DEF m
    <2>2. \E g \in [0 .. m -> Nat] : Power(b, m) = g[m] /\ Runs(g, 1, Times(b), m)
      BY <2>1, PowerRuns
    <2> QED BY <2>2 DEF m
  <1>3. PICK z \in [0 .. 0 -> Nat] : Power(b, 0) = z[0] /\ Runs(z, 1, Times(b), 0)
    BY PowerRuns
  <1>4. f[n] = g[n]
    <2>1. n + 1 \in Nat /\ n \in 0 .. n /\ n <= n + 1
      OBVIOUS
    <2> QED BY <1>1, <1>2, <2>1, RunsAgree
  <1>5. g[n + 1] = b * g[n]
    <2>1. n + 1 \in 1 .. n + 1 /\ (n + 1) - 1 = n /\ n \in 0 .. n + 1
      OBVIOUS
    <2>2. g[n + 1] = Times(b)[g[n]] /\ g[n] \in Nat
      BY <1>2, <2>1 DEF Runs
    <2> QED BY <2>2 DEF Times
  <1> QED BY <1>1, <1>2, <1>3, <1>4, <1>5 DEF Runs

(* A higher base grows faster. *)
LEMMA PowerOrder ==
  ASSUME NEW a \in Nat \ {0}, NEW b \in Nat, a < b, NEW n \in Nat
  PROVE  /\ \A k \in 0 .. n : Power(a, k) \in Nat \ {0} /\ Power(b, k) \in Nat \ {0} /\ Power(a, k) <= Power(b, k)
         /\ \A k \in 1 .. n : Power(a, k) < Power(b, k)
  <1> DEFINE Good(k) == Power(a, k) \in Nat \ {0} /\ Power(b, k) \in Nat \ {0} /\ Power(a, k) <= Power(b, k)
             C == {k \in 0 .. n : Good(k) /\ (k # 0 => Power(a, k) < Power(b, k))}
  <1>1. 0 \in C
    <2>1. Power(a, 0) = 1 /\ Power(b, 0) = 1
      BY PowerGrows
    <2> QED BY <2>1
  <1>2. ASSUME NEW k \in 1 .. n, k - 1 \in C PROVE k \in C
    <2> DEFINE j == k - 1
               u == Power(a, j)
               v == Power(b, j)
    <2>1. j \in Nat /\ j + 1 = k
      OBVIOUS
    <2>2. Power(a, j + 1) = a * u /\ Power(b, j + 1) = b * v
      BY <2>1, PowerGrows
    <2>3. u \in Nat \ {0} /\ v \in Nat \ {0} /\ u <= v
      BY <1>2
    <2>4. Power(a, k) = a * u /\ Power(b, k) = b * v
      BY <2>1, <2>2
    <2> HIDE DEF u, v, j
    <2>5. a * u \in Nat \ {0} /\ b * v \in Nat \ {0} /\ a * u < b * v
      <3>1. a * u <= a * v /\ a * v < b * v /\ a * u > 0
        BY <2>3
      <3>2. a * u \in Nat /\ a * v \in Nat /\ b * v \in Nat
        BY <2>3
      <3> QED BY <3>1, <3>2
    <2> QED BY <2>4, <2>5
  <1> HIDE DEF C
  <1>3. \A k \in 0 .. n : k \in C
    BY <1>1, <1>2, UpToInduction
  <1> QED BY <1>3 DEF C

-----------------------------------------------------------------------------
(* The schedule *)

LEMMA RepaidIs ==
  ASSUME NEW b \in Nat, NEW r \in Nat, NEW emi \in Nat
  PROVE  LET x == b + (b * r) \div Unit - emi * Unit IN
         /\ x \in Int /\ Repaid(r, emi, b) \in Nat
         /\ Repaid(r, emi, b) = Most(0, x)
  <1> DEFINE i == (b * r) \div Unit
             p == emi * Unit
  <1>1. i \in Nat
    <2>1. b * r \in Nat /\ Unit \in Nat \ {0}
      BY UnitAssumption
    <2> QED BY <2>1
  <1>2. p \in Nat
    BY UnitAssumption
  <1>3. Repaid(r, emi, b) = b - Least(p - i, b)
    BY DEF Repaid
  <1> HIDE DEF i, p
  <1>4. b - Least(p - i, b) = Most(0, b + i - p) /\ Most(0, b + i - p) \in Nat
    BY <1>1, <1>2 DEF Least, Most
  <1>5. b + i - p \in Int
    BY <1>1, <1>2
  <1> QED BY <1>3, <1>4, <1>5 DEF i, p

(* The balances of a schedule, as a recursion. *)
Repays(f, P, r, emi, n) == f[0] = P * Unit /\ \A k \in 1 .. n : f[k] = Repaid(r, emi, f[k - 1])

LEMMA DebtRuns ==
  ASSUME NEW P \in Nat, NEW r \in Nat, NEW emi \in Nat, NEW n \in Nat
  PROVE  Debt(P, r, emi, n) \in [0 .. n -> Nat] /\ Repays(Debt(P, r, emi, n), P, r, emi, n)
  <1> DEFINE f == Debt(P, r, emi, n)
             h == [b \in Nat |-> Repaid(r, emi, b)]
             a == P * Unit
  <1>0. a \in Nat
    BY UnitAssumption
  <1>1. \A b \in Nat : Repaid(r, emi, b) \in Nat
    BY RepaidIs
  <1>2. h \in [Nat -> Nat] /\ \A x \in Nat : h[x] = Repaid(r, emi, x)
    BY <1>1
  <1> HIDE DEF h
  <1>3. PICK g \in [0 .. n -> Nat] : Runs(g, a, h, n)
    BY <1>0, <1>2, RecursionExists
  <1>4. IsDebt(g, P, r, emi, n)
    <2>1. g[0] = a
      BY <1>3 DEF Runs
    <2>2. ASSUME NEW k \in 1 .. n PROVE g[k] = Repaid(r, emi, g[k - 1])
      <3>1. g[k - 1] \in Nat /\ g[k] = h[g[k - 1]]
        BY <1>3 DEF Runs
      <3> QED BY <1>2, <3>1
    <2> QED BY <1>3, <2>1, <2>2 DEF IsDebt
  <1>5. IsDebt(f, P, r, emi, n)
    BY <1>4, Zenon DEF Debt
  <1> HIDE DEF f
  <1>6. f[0] = a /\ \A k \in 1 .. n : f[k] = Repaid(r, emi, f[k - 1])
    BY <1>5 DEF IsDebt
  <1>7. \A k \in 0 .. n : f[k] \in Nat
    <2> DEFINE C == {k \in 0 .. n : f[k] \in Nat}
    <2>1. 0 \in C
      BY <1>0, <1>6
    <2>2. ASSUME NEW k \in 1 .. n, k - 1 \in C PROVE k \in C
      <3>1. f[k - 1] \in Nat /\ f[k] = Repaid(r, emi, f[k - 1])
        BY <1>6, <2>2
      <3>2. PICK b \in Nat : b = f[k - 1]
        BY <3>1
      <3>3. Repaid(r, emi, b) \in Nat
        BY <1>1
      <3>4. f[k] \in Nat
        BY <3>1, <3>2, <3>3
      <3> QED BY <3>4
    <2> HIDE DEF C
    <2>3. \A k \in 0 .. n : k \in C
      BY <2>1, <2>2, UpToInduction
    <2> QED BY <2>3 DEF C
  <1>8. f \in [0 .. n -> Nat]
    BY <1>5, <1>7 DEF IsDebt
  <1>9. Repays(f, P, r, emi, n)
    BY <1>6 DEF Repays, a
  <1> QED BY <1>8, <1>9 DEF f

LEMMA EndingIs ==
  ASSUME NEW n \in Nat \ {0}, NEW f \in [0 .. n -> Nat]
  PROVE  /\ Ending(f, n) \in 1 .. n
         /\ \A j \in 1 .. n : j < Ending(f, n) => f[j] > 0
         /\ Ending(f, n) = n \/ f[Ending(f, n)] = 0
  <1>1. CASE Endings(f, n) = {}
    BY <1>1 DEF Ending, Endings
  <1>2. CASE Endings(f, n) # {}
    <2> DEFINE E == Endings(f, n)
    <2>1. E \subseteq Nat /\ E # {}
      BY <1>2 DEF Endings
    <2>2. \E k \in E : \A j \in E : k <= j
      <3> HIDE DEF E
      <3>1. PICK k \in E : \A j \in E : ~(j < k)
        BY <2>1, LeastNumber
      <3>2. \A j \in E : k <= j
        BY <2>1, <3>1
      <3> QED BY <3>2
    <2>3. Ending(f, n) = CHOOSE k \in E : \A j \in E : k <= j
      BY <1>2, Zenon DEF Ending
    <2> HIDE DEF E
    <2>4. Ending(f, n) \in E /\ \A j \in E : Ending(f, n) <= j
      BY <2>2, <2>3, Zenon
    <2>5. Ending(f, n) \in 1 .. n /\ f[Ending(f, n)] = 0
      BY <2>4 DEF E, Endings
    <2>6. ASSUME NEW j \in 1 .. n, j < Ending(f, n) PROVE f[j] > 0
      BY <2>4, <2>5, <2>6 DEF E, Endings
    <2> QED BY <2>5, <2>6
  <1> QED BY <1>1, <1>2

(* A schedule has an instalment, and each but the last leaves a debt. *)
Shows(s, f, n, m) ==
  /\ m \in 1 .. n
  /\ DOMAIN s = 1 .. m
  /\ \A k \in 1 .. m : s[k] = f[k] /\ s[k] \in Nat
  /\ \A k \in 1 .. n : k < m => f[k] > 0
  /\ m = n \/ f[m] = 0

LEMMA ScheduleFacts ==
  ASSUME NEW P \in Nat, NEW r \in Nat, NEW emi \in Nat, NEW n \in Nat \ {0}
  PROVE  \E m : m = Len(Schedule(P, r, emi, n)) /\ Shows(Schedule(P, r, emi, n), Debt(P, r, emi, n), n, m)
  <1> DEFINE s == Schedule(P, r, emi, n)
             f == Debt(P, r, emi, n)
             e == Ending(f, n)
  <1>1. f \in [0 .. n -> Nat]
    BY DebtRuns
  <1>2. s = [k \in 1 .. e |-> Most(0, f[k])]
    BY ScheduleIs, Zenon
  <1> HIDE DEF s, f
  <1>3. e \in 1 .. n /\ (\A j \in 1 .. n : j < e => f[j] > 0) /\ (e = n \/ f[e] = 0)
    BY <1>1, EndingIs
  <1> HIDE DEF e
  <1>4. \A k \in 1 .. e : s[k] = f[k] /\ f[k] \in Nat
    BY <1>1, <1>2, <1>3 DEF Most
  <1>5. s \in Seq(Nat) /\ Len(s) = e
    <2>1. e \in Nat /\ s \in [1 .. e -> Nat]
      BY <1>2, <1>3, <1>4
    <2> QED BY <2>1
  <1>6. Shows(s, f, n, e)
    BY <1>2, <1>3, <1>4, <1>5 DEF Shows
  <1> QED BY <1>5, <1>6 DEF s, f

-----------------------------------------------------------------------------
(* The instalment and the schedule *)

(* What rounding to the nearest cent may take away. *)
LEMMA RoundedAtLeast ==
  ASSUME NEW num \in Nat, NEW den \in Nat \ {0}
  PROVE  Rounded(num, den) \in Nat /\ 2 * (den * Rounded(num, den)) > 2 * num - den
  <1> DEFINE u == 2 * den
             a == 2 * num + den
             q == Rounded(num, den)
  <1>1. a \in Nat /\ u \in Nat /\ u > 0 /\ q = a \div u
    BY DEF Rounded
  <1> HIDE DEF a, u, q
  <1>2. q \in Nat /\ a < u * q + u
    BY <1>1
  <1>3. u * q = 2 * (den * q)
    BY <1>2 DEF u
  <1>4. den * q \in Nat
    BY <1>2
  <1> QED BY <1>2, <1>3, <1>4 DEF a, u, q

(* A balance is at most the fraction that the annuity formula computes. *)
LEMMA RepaidFraction ==
  ASSUME NEW b \in Nat, NEW r \in Nat, NEW emi \in Nat, Repaid(r, emi, b) > 0
  PROVE  Unit * Repaid(r, emi, b) <= (Unit + r) * b - emi * (Unit * Unit)
  <1> DEFINE i == (b * r) \div Unit
             y == Repaid(r, emi, b)
  <1>1. b * r \in Nat /\ Unit \in Nat \ {0}
    BY UnitAssumption
  <1>2. i \in Nat /\ Unit * i <= b * r
    BY <1>1
  <1>3. y = b + i - emi * Unit
    <2>1. y = Most(0, b + i - emi * Unit) /\ b + i - emi * Unit \in Int
      BY RepaidIs
    <2> QED BY <2>1 DEF Most
  <1> HIDE DEF i, y
  <1>4. Unit * y = Unit * b + Unit * i - emi * (Unit * Unit)
    BY <1>1, <1>2, <1>3
  <1>5. (Unit + r) * b = Unit * b + b * r
    BY <1>1
  <1>6. Unit * b \in Int /\ Unit * i \in Int /\ b * r \in Int /\ emi * (Unit * Unit) \in Int
    BY <1>1, <1>2
  <1> QED BY <1>2, <1>4, <1>5, <1>6 DEF y

(* One instalment in the bound that grows with the powers of the factors. *)
LEMMA BoundGrows ==
  ASSUME NEW U \in Nat, NEW r \in Nat, NEW u \in Nat, NEW g \in Nat, NEW P \in Nat, NEW e \in Nat,
         NEW x \in Nat, NEW y \in Nat,
         U * y <= (U + r) * x - e * (U * U),
         r * u * x <= r * P * U * g - e * (U * U) * (g - u)
  PROVE  r * (U * u) * y <= r * P * U * ((U + r) * g) - e * (U * U) * ((U + r) * g - U * u)
  <1> DEFINE G == U + r
             ru == r * u
             E == e * (U * U)
             A == r * P * U * g
  <1>1. G \in Nat /\ ru \in Nat /\ E \in Nat /\ A \in Nat
    BY DEF G, ru, E, A
  <1>2. ru * (U * y) <= ru * (G * x - E)
    <2>1. U * y \in Int /\ G * x - E \in Int /\ U * y <= G * x - E
      BY <1>1
    <2> HIDE DEF G, E, ru
    <2> QED BY <1>1, <2>1
  <1>3. G * (ru * x) <= G * (A - E * (g - u))
    <2>1. ru * x \in Int /\ A - E * (g - u) \in Int /\ ru * x <= A - E * (g - u)
      BY <1>1 DEF ru, E, A
    <2> HIDE DEF G, E, ru, A
    <2> QED BY <1>1, <2>1
  <1>4. ru * (G * x - E) = G * (ru * x) - ru * E
    <2> HIDE DEF G, E, ru
    <2> QED BY <1>1
  <1>5. G * (A - E * (g - u)) - ru * E = G * A - E * (G * g - U * u)
    <2>1. G * (A - E * (g - u)) = G * A - E * (G * g) + E * (G * u)
      <3> HIDE DEF G, E, ru, A
      <3> QED BY <1>1
    <2>2. E * (G * u) = E * (U * u) + ru * E
      <3>1. G * u = U * u + ru
        BY DEF G, ru
      <3>2. U * u \in Nat
        OBVIOUS
      <3> HIDE DEF E, ru, G
      <3> QED BY <1>1, <3>1, <3>2
    <2>3. E * (G * g - U * u) = E * (G * g) - E * (U * u)
      <3>1. G * g \in Nat /\ U * u \in Nat
        BY <1>1
      <3> HIDE DEF E, G
      <3> QED BY <1>1, <3>1
    <2>4. E * (G * g) \in Int /\ E * (G * u) \in Int /\ E * (U * u) \in Int /\ ru * E \in Int /\ G * A \in Int
      <3>1. G * g \in Int /\ G * u \in Int /\ U * u \in Int
        BY <1>1
      <3> HIDE DEF E, G, A, ru
      <3> QED BY <1>1, <3>1
    <2> HIDE DEF E, G, A, ru
    <2> QED BY <2>1, <2>2, <2>3, <2>4
  <1>6. ru * (U * y) = r * (U * u) * y /\ G * A = r * P * U * (G * g)
    BY DEF G, A, ru
  <1>7. ru * (U * y) \in Int /\ ru * (G * x - E) \in Int /\ G * (ru * x) \in Int /\ ru * E \in Int
        /\ G * (A - E * (g - u)) \in Int /\ G * A - E * (G * g - U * u) \in Int
    <2>1. U * y \in Int /\ G * x - E \in Int /\ ru * x \in Int /\ g - u \in Int /\ G * g - U * u \in Int
      BY <1>1
    <2>2. A - E * (g - u) \in Int
      BY <1>1, <2>1
    <2> HIDE DEF E, G, A, ru
    <2> QED BY <1>1, <2>1, <2>2
  <1>8. ru * (U * y) <= G * A - E * (G * g - U * u)
    <2> HIDE DEF E, G, A, ru
    <2> QED BY <1>2, <1>3, <1>4, <1>5, <1>7
  <1> QED BY <1>6, <1>8 DEF G, E

(* How the bound grows from instalment to instalment while a debt is left. *)
LEMMA DebtBound ==
  ASSUME NEW P \in Nat, NEW r \in Nat \ {0}, NEW emi \in Nat, NEW n \in Nat,
         \A j \in 1 .. n : Debt(P, r, emi, n)[j] > 0
  PROVE  r * Power(Unit, n) * Debt(P, r, emi, n)[n]
           <= r * P * Unit * Power(Unit + r, n) - emi * (Unit * Unit) * (Power(Unit + r, n) - Power(Unit, n))
  <1> DEFINE f == Debt(P, r, emi, n)
             u(k) == Power(Unit, k)
             g(k) == Power(Unit + r, k)
             C == {k \in 0 .. n : r * u(k) * f[k] <= r * P * Unit * g(k) - emi * (Unit * Unit) * (g(k) - u(k))}
  <1>0. Unit \in Nat \ {0} /\ Unit + r \in Nat
    BY UnitAssumption
  <1>1. f \in [0 .. n -> Nat] /\ f[0] = P * Unit /\ \A k \in 1 .. n : f[k] = Repaid(r, emi, f[k - 1])
    <2>1. f \in [0 .. n -> Nat] /\ Repays(f, P, r, emi, n)
      BY DebtRuns
    <2> HIDE DEF f
    <2> QED BY <2>1 DEF Repays
  <1>2. 0 \in C
    <2>1. u(0) = 1 /\ g(0) = 1
      BY <1>0, PowerGrows
    <2>2. r * 1 * (P * Unit) <= r * P * Unit * 1 - emi * (Unit * Unit) * (1 - 1)
      BY <1>0
    <2> HIDE DEF f, u, g
    <2> QED BY <1>1, <2>1, <2>2
  <1>3. ASSUME NEW k \in 1 .. n, k - 1 \in C PROVE k \in C
    <2> DEFINE j == k - 1
               x == f[j]
               y == f[k]
               uj == u(j)
               gj == g(j)
    <2>1. j \in Nat /\ j + 1 = k
      OBVIOUS
    <2>2. uj \in Nat /\ gj \in Nat /\ Power(Unit, j + 1) = Unit * uj /\ Power(Unit + r, j + 1) = (Unit + r) * gj
      BY <1>0, <2>1, PowerGrows
    <2>3. u(k) = Unit * uj /\ g(k) = (Unit + r) * gj
      BY <2>1, <2>2
    <2>4. x \in Nat /\ y \in Nat /\ y = Repaid(r, emi, x) /\ y > 0
      BY <1>1
    <2>5. r * uj * x <= r * P * Unit * gj - emi * (Unit * Unit) * (gj - uj)
      BY <1>3
    <2> HIDE DEF uj, gj, x, y, f
    <2>6. Unit * y <= (Unit + r) * x - emi * (Unit * Unit)
      BY <2>4, RepaidFraction
    <2>7. r * (Unit * uj) * y <= r * P * Unit * ((Unit + r) * gj) - emi * (Unit * Unit) * ((Unit + r) * gj - Unit * uj)
      BY <1>0, <2>2, <2>4, <2>5, <2>6, BoundGrows
    <2> HIDE DEF u, g
    <2> QED BY <2>3, <2>7 DEF y
  <1> HIDE DEF C
  <1>4. \A k \in 0 .. n : k \in C
    BY <1>2, <1>3, UpToInduction
  <1> QED BY <1>4 DEF C

(* With the calculated instalment, what is left is what half a cent a      *)
(* month grows to, at most.                                                *)
LEMMA InterestLeavesLittle ==
  ASSUME NEW P \in Nat, NEW r \in Nat \ {0}, NEW n \in Nat \ {0}, NEW left \in Nat,
         LET emi == CalculateEmi(P, r, n) IN
         r * Power(Unit, n) * left
           <= r * P * Unit * Power(Unit + r, n) - emi * (Unit * Unit) * (Power(Unit + r, n) - Power(Unit, n))
  PROVE  2 * r * Power(Unit, n) * left < Unit * Unit * (Power(Unit + r, n) - Power(Unit, n))
  <1> DEFINE u == Power(Unit, n)
             g == Power(Unit + r, n)
             emi == CalculateEmi(P, r, n)
             d == g - u
             num == P * r * g
             den == Unit * d
  <1>0. Unit \in Nat \ {0} /\ Unit + r \in Nat /\ Unit < Unit + r
    BY UnitAssumption
  <1>1. u \in Nat \ {0} /\ g \in Nat \ {0} /\ u < g
    BY <1>0, PowerOrder
  <1>2. d \in Nat \ {0} /\ num \in Nat /\ den \in Nat \ {0}
    <2> HIDE DEF u, g
    <2>1. d \in Nat \ {0} /\ num \in Nat
      BY <1>1
    <2> HIDE DEF d
    <2> QED BY <1>0, <2>1
  <1>3. emi = Rounded(num, den)
    BY DEF CalculateEmi
  <1>4. r * u * left <= r * P * Unit * g - emi * (Unit * Unit) * d
    OBVIOUS
  <1> HIDE DEF emi
  <1>5. emi \in Nat /\ 2 * (den * emi) > 2 * num - den
    <2> HIDE DEF u, g, d, num, den
    <2> QED BY <1>2, <1>3, RoundedAtLeast
  <1>6. r * P * Unit * g - emi * (Unit * Unit) * d = Unit * (num - den * emi)
    <2> HIDE DEF u, g, d
    <2> QED BY <1>0, <1>1, <1>2, <1>5
  <1>7. 2 * (Unit * (num - den * emi)) < Unit * den
    <2>1. den * emi \in Int
      <3> HIDE DEF den
      <3> QED BY <1>2, <1>5
    <2> DEFINE m == num - den * emi
    <2>2. m \in Int /\ 2 * m < den
      <3> HIDE DEF num, den
      <3> QED BY <1>2, <1>5, <2>1
    <2> HIDE DEF m, den
    <2>3. Unit * (2 * m) < Unit * den
      BY <1>0, <1>2, <2>2
    <2>4. Unit * (2 * m) = 2 * (Unit * m)
      BY <1>0, <2>2
    <2> QED BY <2>3, <2>4 DEF m
  <1>8. r * u * left \in Int /\ Unit * (num - den * emi) \in Int /\ Unit * den \in Int
    <2> HIDE DEF u, num, den
    <2>1. den * emi \in Int
      BY <1>2, <1>5
    <2> QED BY <1>0, <1>1, <1>2, <2>1
  <1>9. 2 * r * u * left = 2 * (r * u * left) /\ Unit * den = Unit * Unit * d
    <2> HIDE DEF u, d
    <2> QED BY <1>0, <1>1, <1>2
  <1>10. 2 * r * u * left < Unit * Unit * d
    <2> HIDE DEF u, g, d, num, den
    <2> QED BY <1>4, <1>6, <1>7, <1>8, <1>9
  <1> QED BY <1>10

(* The same without interest. *)
LEMMA PrincipalBound ==
  ASSUME NEW P \in Nat, NEW emi \in Nat, NEW n \in Nat,
         \A j \in 1 .. n : Debt(P, 0, emi, n)[j] > 0
  PROVE  Debt(P, 0, emi, n)[n] <= P * Unit - n * (emi * Unit)
  <1> DEFINE f == Debt(P, 0, emi, n)
             p == emi * Unit
             a == P * Unit
             C == {k \in 0 .. n : f[k] <= a - k * p}
  <1>0. Unit \in Nat \ {0} /\ p \in Nat /\ a \in Nat
    BY UnitAssumption
  <1>1. f \in [0 .. n -> Nat] /\ f[0] = a /\ \A k \in 1 .. n : f[k] = Repaid(0, emi, f[k - 1])
    <2>1. f \in [0 .. n -> Nat] /\ Repays(f, P, 0, emi, n)
      BY DebtRuns
    <2> HIDE DEF f
    <2> QED BY <2>1 DEF Repays, a
  <1> HIDE DEF a
  <1>2. 0 \in C
    <2> HIDE DEF f, p
    <2> QED BY <1>0, <1>1
  <1>3. ASSUME NEW k \in 1 .. n, k - 1 \in C PROVE k \in C
    <2> DEFINE x == f[k - 1]
               y == f[k]
    <2>1. x \in Nat /\ y \in Nat /\ y = Repaid(0, emi, x) /\ y > 0
      BY <1>1
    <2>2. x <= a - (k - 1) * p
      BY <1>3
    <2> HIDE DEF x, y, f
    <2>3. y = Most(0, x + (x * 0) \div Unit - p)
      BY <2>1, RepaidIs
    <2>4. (x * 0) \div Unit = 0
      BY <1>0, <2>1
    <2> HIDE DEF p
    <2>5. y = x - p
      BY <1>0, <2>1, <2>3, <2>4 DEF Most
    <2>6. (k - 1) * p + p = k * p /\ k * p \in Nat /\ (k - 1) * p \in Nat
      BY <1>0
    <2>7. y <= a - k * p
      BY <1>0, <2>1, <2>2, <2>5, <2>6
    <2> QED BY <2>7 DEF y
  <1> HIDE DEF C
  <1>4. \A k \in 0 .. n : k \in C
    BY <1>2, <1>3, UpToInduction
  <1>5. n \in C
    BY <1>4
  <1> QED BY <1>5 DEF C, a

LEMMA EmiIs ==
  ASSUME NEW P \in Nat, NEW r \in Nat, NEW n \in Nat \ {0}
  PROVE  CalculateEmi(P, r, n) \in Nat
  <1>1. CASE r = 0
    <2>1. CalculateEmi(P, r, n) = Rounded(P, n)
      BY <1>1 DEF CalculateEmi
    <2> QED BY <2>1, RoundedAtLeast
  <1>2. CASE r # 0
    <2> DEFINE u == Power(Unit, n)
               g == Power(Unit + r, n)
               num == P * r * g
               den == Unit * (g - u)
    <2>1. Unit \in Nat \ {0} /\ Unit + r \in Nat /\ Unit < Unit + r
      BY <1>2, UnitAssumption
    <2>2. u \in Nat \ {0} /\ g \in Nat \ {0} /\ u < g
      BY <2>1, PowerOrder
    <2>3. CalculateEmi(P, r, n) = Rounded(num, den)
      BY <1>2 DEF CalculateEmi
    <2>4. num \in Nat /\ den \in Nat \ {0}
      <3> HIDE DEF u, g
      <3>1. g - u \in Nat \ {0}
        BY <2>2
      <3> QED BY <2>1, <2>2, <3>1
    <2> HIDE DEF num, den
    <2> QED BY <2>3, <2>4, RoundedAtLeast
  <1> QED BY <1>1, <1>2

(* What the last instalment of a schedule leaves. *)
LEMMA LittleIsLeft ==
  ASSUME NEW P \in Nat, NEW r \in Nat, NEW n \in Nat \ {0}
  PROVE  LET s == Schedule(P, r, CalculateEmi(P, r, n), n) IN
         IF r = 0 THEN 2 * s[Len(s)] < n * Unit
         ELSE 2 * r * Power(Unit, n) * s[Len(s)] < Unit * Unit * (Power(Unit + r, n) - Power(Unit, n))
  <1> DEFINE emi == CalculateEmi(P, r, n)
             s == Schedule(P, r, emi, n)
             f == Debt(P, r, emi, n)
  <1>1. emi \in Nat /\ Unit \in Nat \ {0}
    BY EmiIs, UnitAssumption
  <1> HIDE DEF emi
  <1>2. PICK m : m = Len(s) /\ Shows(s, f, n, m)
    BY <1>1, ScheduleFacts
  <1> DEFINE last == s[m]
  <1>3. /\ m \in 1 .. n /\ last = f[m] /\ last \in Nat
        /\ \A k \in 1 .. n : k < m => f[k] > 0
        /\ m = n \/ last = 0
    <2> HIDE DEF s, f
    <2> QED BY <1>2 DEF Shows
  <1>4. n * Unit > 0
    BY <1>1
  <1>5. CASE last = 0
    <2>1. CASE r = 0
      BY <1>4, <1>5, <1>2, <2>1 DEF emi
    <2>2. CASE r # 0
      <3> DEFINE u == Power(Unit, n)
                 g == Power(Unit + r, n)
      <3>1. Unit + r \in Nat /\ Unit < Unit + r
        BY <1>1, <2>2
      <3>2. u \in Nat \ {0} /\ g \in Nat \ {0} /\ u < g
        BY <1>1, <3>1, PowerOrder
      <3> HIDE DEF u, g, last
      <3>3. 2 * r * u * last = 0
        BY <1>5, <3>2
      <3>4. g - u \in Nat \ {0}
        BY <3>2
      <3>5. Unit * Unit * (g - u) > 0
        BY <1>1, <3>4
      <3> QED BY <2>2, <3>3, <3>5, <1>2 DEF u, g, last, emi
    <2> QED BY <2>1, <2>2
  <1>6. CASE last # 0
    <2>1. last = f[n] /\ \A j \in 1 .. n : f[j] > 0
      BY <1>3, <1>6
    <2>2. CASE r = 0
      <3>1. f[n] <= P * Unit - n * (emi * Unit)
        BY <1>1, <2>1, <2>2, PrincipalBound
      <3>2. emi = Rounded(P, n)
        BY <2>2 DEF emi, CalculateEmi
      <3>3. 2 * (n * emi) > 2 * P - n
        BY <3>2, RoundedAtLeast
      <3> DEFINE d == P - n * emi
      <3>4. d \in Int /\ 2 * d < n
        <4>1. n * emi \in Int
          BY <1>1
        <4> QED BY <3>3, <4>1
      <3>5. P * Unit - n * (emi * Unit) = d * Unit
        BY <1>1
      <3> HIDE DEF d, last, f
      <3>6. 2 * d * Unit < n * Unit
        BY <1>1, <3>4
      <3>7. d * Unit \in Int /\ 2 * d * Unit = 2 * (d * Unit)
        BY <1>1, <3>4
      <3>8. 2 * last < n * Unit
        BY <1>1, <1>3, <2>1, <3>1, <3>5, <3>6, <3>7
      <3> QED BY <2>2, <3>8, <1>2 DEF last, emi
    <2>3. CASE r # 0
      <3>1. r \in Nat \ {0}
        BY <2>3
      <3>2. r * Power(Unit, n) * f[n]
              <= r * P * Unit * Power(Unit + r, n) - emi * (Unit * Unit) * (Power(Unit + r, n) - Power(Unit, n))
        BY <1>1, <2>1, <3>1, DebtBound
      <3>3. f[n] \in Nat
        BY <1>3, <2>1
      <3> HIDE DEF f, last
      <3>4. 2 * r * Power(Unit, n) * f[n] < Unit * Unit * (Power(Unit + r, n) - Power(Unit, n))
        BY <3>1, <3>2, <3>3, InterestLeavesLittle DEF emi
      <3> QED BY <2>1, <2>3, <3>4, <1>2 DEF last, emi
    <2> QED BY <2>2, <2>3
  <1> QED BY <1>5, <1>6

(* The recurrence of the reference definition. *)
Charged(r, emi, b) == b + (b * r) \div Unit - emi * Unit
IsOwed(f, P, r, emi, n) == f = [k \in 0 .. n |-> IF k = 0 THEN P * Unit ELSE Charged(r, emi, f[k - 1])]
Owed(P, r, emi, n) == CHOOSE f : IsOwed(f, P, r, emi, n)

LEMMA LeftAfterIs ==
  ASSUME NEW P, NEW r, NEW emi, NEW n
  PROVE  Calculator!LeftAfter(P, r, emi, n) = Owed(P, r, emi, n)[n]
  BY Zenon DEF Calculator!LeftAfter, Owed, IsOwed, Charged

LEMMA OwedRuns ==
  ASSUME NEW P \in Nat, NEW r \in Nat, NEW emi \in Nat, NEW n \in Nat
  PROVE  IsOwed(Owed(P, r, emi, n), P, r, emi, n)
  <1> DEFINE h == [b \in Int |-> Charged(r, emi, b)]
             a == P * Unit
  <1>1. a \in Int
    BY UnitAssumption
  <1>2. ASSUME NEW b \in Int PROVE Charged(r, emi, b) \in Int
    <2>1. b * r \in Int /\ Unit \in Nat \ {0} /\ emi * Unit \in Int
      BY UnitAssumption
    <2>2. (b * r) \div Unit \in Int
      BY <2>1
    <2> QED BY <2>1, <2>2 DEF Charged
  <1>3. h \in [Int -> Int] /\ \A x \in Int : h[x] = Charged(r, emi, x)
    BY <1>2
  <1> HIDE DEF h
  <1>4. PICK g \in [0 .. n -> Int] : Runs(g, a, h, n)
    BY <1>1, <1>3, RecursionExists
  <1>5. IsOwed(g, P, r, emi, n)
    <2>1. g[0] = a
      BY <1>4 DEF Runs
    <2>2. ASSUME NEW k \in 1 .. n PROVE g[k] = Charged(r, emi, g[k - 1])
      <3>1. g[k - 1] \in Int /\ g[k] = h[g[k - 1]]
        BY <1>4 DEF Runs
      <3> QED BY <1>3, <3>1
    <2> QED BY <1>4, <2>1, <2>2 DEF IsOwed
  <1> QED BY <1>5, Zenon DEF Owed

(* The schedule shows what it says, as long as something is left. *)
LEMMA ScheduleIsOwed ==
  ASSUME NEW P \in Nat, NEW r \in Nat, NEW emi \in Nat, NEW n \in Nat \ {0},
         NEW k \in 1 .. Len(Schedule(P, r, emi, n))
  PROVE  Schedule(P, r, emi, n)[k] = Most(0, Calculator!LeftAfter(P, r, emi, k))
  <1> DEFINE s == Schedule(P, r, emi, n)
             f == Debt(P, r, emi, n)
             o == Owed(P, r, emi, k)
             C == {j \in 0 .. k : j < k => o[j] = f[j]}
  <1>0. PICK m : m = Len(s) /\ Shows(s, f, n, m)
    BY ScheduleFacts
  <1>1. k \in 1 .. n /\ s[k] = f[k] /\ (\A j \in 1 .. n : j < m => f[j] > 0) /\ m \in Nat /\ k <= m
    <2>1. k \in 1 .. m
      BY <1>0
    <2> HIDE DEF s, f
    <2> QED BY <1>0, <2>1 DEF Shows
  <1>2. f \in [0 .. n -> Nat] /\ Repays(f, P, r, emi, n)
    BY DebtRuns
  <1>3. k \in Nat /\ k <= m
    BY <1>1
  <1>4. IsOwed(o, P, r, emi, k)
    BY <1>3, OwedRuns
  <1> HIDE DEF s, f, o
  <1>5. 0 \in C
    BY <1>2, <1>4 DEF Repays, IsOwed
  <1>6. ASSUME NEW b \in Nat PROVE Repaid(r, emi, b) = Most(0, Charged(r, emi, b)) /\ Charged(r, emi, b) \in Int
    BY RepaidIs DEF Charged
  <1>7. ASSUME NEW j \in 1 .. k, j - 1 \in C
        PROVE  f[j] = Most(0, o[j]) /\ o[j] \in Int
    <2> DEFINE b == f[j - 1]
    <2>1. o[j - 1] = b
      BY <1>7
    <2>2. b \in Nat /\ f[j] = Repaid(r, emi, b)
      BY <1>1, <1>2 DEF Repays
    <2>3. o[j] = Charged(r, emi, b)
      BY <1>4, <2>1 DEF IsOwed
    <2> HIDE DEF b
    <2> QED BY <1>6, <2>2, <2>3
  <1>8. ASSUME NEW j \in 1 .. k, j - 1 \in C PROVE j \in C
    <2> SUFFICES ASSUME j < k PROVE o[j] = f[j]
      OBVIOUS
    <2>1. f[j] > 0
      BY <1>1, <1>3
    <2>2. f[j] = Most(0, o[j]) /\ o[j] \in Int
      BY <1>7, <1>8
    <2> QED BY <2>1, <2>2 DEF Most
  <1> HIDE DEF C
  <1>9. \A j \in 0 .. k : j \in C
    BY <1>3, <1>5, <1>8, UpToInduction
  <1>10. f[k] = Most(0, o[k])
    <2>1. k - 1 \in C /\ k \in 1 .. k
      BY <1>1, <1>9
    <2> QED BY <1>7, <2>1
  <1>11. Calculator!LeftAfter(P, r, emi, k) = o[k]
    BY LeftAfterIs DEF o
  <1> QED BY <1>1, <1>10, <1>11 DEF s

-----------------------------------------------------------------------------
(***************************************************************************)
(* The ledger.                                                             *)
(***************************************************************************)

LedgerRows == [status : Statuses \cup {"new", "deleted"}, principal : Nat, balance : Nat,
               rate : Nat, term : Nat \ {0}, emi : Nat, past : 0 .. MaxPast]
Counts == [count : Nat, principal : Nat]

(* The types, as far as the other parts need them. *)
TablesInv ==
  /\ loans \in [Loans -> LedgerRows]
  /\ rows \in [Loans -> Counts]
  /\ lowest \in [Loans -> Nat]

RequestsInv == DOMAIN req = Requests /\ \A r \in Requests : "at" \in DOMAIN req[r]

(* What a balance and the payments of a loan make up for. *)
Covered(balance, l) == balance + rows[l].principal >= lowest[l]

(* A request between its query and its commit. *)
Holders == {"loaded", "editing", "scheduled", "paying"}

(* The balance it has read. *)
Read(x) == IF x.at = "paying" THEN x.balance ELSE x.row.balance

CopyOf(x) ==
  /\ x.loan \in Loans /\ loans[x.loan].status # "new"
  /\ Read(x) \in Nat
  /\ Exists(x.loan) => Covered(Read(x), x.loan)
  /\ IF x.at = "paying" THEN x.rate \in Nat /\ x.amount \in Amounts
     ELSE x.row \in LedgerRows /\ x.row.status \in Statuses

CopiesInv == \A r \in Requests : req[r].at \in Holders => CopyOf(req[r])

IInv == TablesInv /\ RequestsInv /\ CopiesInv /\ NothingRepaidTwice

-----------------------------------------------------------------------------
(* Rounding *)

LEMMA RoundBounds ==
  ASSUME NEW x \in Nat
  PROVE  Round(x) \in Nat /\ 2 * x < Unit * (2 * Round(x)) + Unit
  <1> DEFINE u == 2 * Unit
             a == 2 * x + Unit
  <1>1. Unit \in Nat /\ Unit > 0
    BY UnitAssumption
  <1>2. a \in Nat /\ u \in Nat /\ u > 0
    BY <1>1
  <1>3. Round(x) = a \div u
    BY DEF Round, Rounded
  <1> HIDE DEF a, u
  <1>4. a \div u \in Nat /\ a < u * (a \div u) + u
    BY <1>2
  <1> QED BY <1>1, <1>3, <1>4 DEF a, u

LEMMA RoundedParts ==
  ASSUME NEW x \in Nat, NEW y \in Nat, NEW b \in Nat, x + y >= b * Unit
  PROVE  Round(x) + Round(y) >= b
  <1> DEFINE q == Round(x) + Round(y)
  <1>1. Unit \in Nat /\ Unit > 0
    BY UnitAssumption
  <1>2. Round(x) \in Nat /\ Round(y) \in Nat
    BY RoundBounds
  <1>3. 2 * x < Unit * (2 * Round(x)) + Unit /\ 2 * y < Unit * (2 * Round(y)) + Unit
    BY RoundBounds
  <1>4. 2 * (x + y) < 2 * (Unit * (q + 1))
    BY <1>1, <1>2, <1>3
  <1>5. b * Unit < Unit * (q + 1)
    BY <1>1, <1>2, <1>4
  <1>6. q \in Nat
    BY <1>2
  <1> HIDE DEF q
  <1>7. ~(b >= q + 1)
    <2> SUFFICES ASSUME b >= q + 1 PROVE FALSE
      OBVIOUS
    <2>1. b * Unit >= (q + 1) * Unit
      BY <1>1, <1>6
    <2> QED BY <1>1, <1>5, <1>6, <2>1
  <1> QED BY <1>6, <1>7 DEF q

(* make_payment: the balance left and the principal repaid make up for the *)
(* balance there was, as numbers of the database.                          *)
LEMMA PaymentCovers ==
  ASSUME NEW balance \in Nat, NEW rate \in Nat, NEW a \in Nat
  PROVE  LET s == PaymentSplit(balance, rate, a)
         IN  /\ Round(s.principal) \in Nat /\ Round(s.left) \in Nat
             /\ Round(s.left) + Round(s.principal) >= balance
             /\ s.left = 0 => Round(s.principal) >= balance
  <1> DEFINE s == PaymentSplit(balance, rate, a)
             due == balance * Unit
             paid == a * Unit - balance * rate
  <1>1. Unit \in Nat
    BY UnitAssumption
  <1>2. due \in Nat /\ paid \in Int
    BY <1>1
  <1>3. s.principal = Most(0, paid) /\ s.left = Most(0, due - s.principal)
    BY DEF PaymentSplit
  <1> HIDE DEF due, paid, s
  <1>4. s.principal \in Nat
    BY <1>2, <1>3 DEF Most
  <1>5. s.left \in Nat /\ s.left + s.principal >= due
    BY <1>2, <1>3, <1>4 DEF Most
  <1>6. Round(s.left) \in Nat /\ Round(s.principal) \in Nat
        /\ Round(s.left) + Round(s.principal) >= balance
    BY <1>1, <1>4, <1>5, RoundBounds, RoundedParts DEF due
  <1>7. ASSUME s.left = 0 PROVE Round(s.principal) >= balance
    <2>1. s.principal + 0 >= balance * Unit /\ 0 \in Nat
      BY <1>4, <1>5, <1>7 DEF due
    <2>2. Round(s.principal) + Round(0) >= balance
      BY <1>1, <1>4, <2>1, RoundedParts
    <2>3. Round(0) = 0
      <3>1. Round(0) \in Nat /\ Round(0) = Unit \div (2 * Unit)
        BY <1>1, RoundBounds DEF Round, Rounded
      <3>2. Unit > 0
        BY UnitAssumption
      <3>3. Unit \div (2 * Unit) = 0
        BY <1>1, <3>2
      <3> QED BY <3>1, <3>3
    <2> QED BY <1>6, <2>2, <2>3
  <1> QED BY <1>6, <1>7 DEF s

-----------------------------------------------------------------------------
(* Rows *)

(* A column keeps what is there unless the request changed its copy. *)
LEMMA WrittenRow ==
  ASSUME NEW current \in LedgerRows, NEW old \in LedgerRows, NEW new \in LedgerRows,
         current.status \in Statuses, new.status \in Statuses
  PROVE  Written(current, old, new) \in LedgerRows /\ Written(current, old, new).status \in Statuses
  <1> DEFINE w == Written(current, old, new)
  <1>1. DOMAIN current = {"status", "principal", "balance", "rate", "term", "emi", "past"}
    BY DEF LedgerRows
  <1>2. /\ w.status = IF new.status # old.status THEN new.status ELSE current.status
        /\ w.principal = IF new.principal # old.principal THEN new.principal ELSE current.principal
        /\ w.balance = IF new.balance # old.balance THEN new.balance ELSE current.balance
        /\ w.rate = IF new.rate # old.rate THEN new.rate ELSE current.rate
        /\ w.term = IF new.term # old.term THEN new.term ELSE current.term
        /\ w.emi = IF new.emi # old.emi THEN new.emi ELSE current.emi
        /\ w.past = IF new.past # old.past THEN new.past ELSE current.past
        /\ w = [status |-> w.status, principal |-> w.principal, balance |-> w.balance,
                rate |-> w.rate, term |-> w.term, emi |-> w.emi, past |-> w.past]
    BY <1>1 DEF Written
  <1> HIDE DEF w
  <1>3. /\ w.status \in Statuses /\ w.principal \in Nat /\ w.balance \in Nat
        /\ w.rate \in Nat /\ w.term \in Nat \ {0} /\ w.emi \in Nat /\ w.past \in 0 .. MaxPast
    BY <1>2 DEF LedgerRows
  <1> QED BY <1>2, <1>3 DEF w, LedgerRows

LEMMA EditedRow ==
  ASSUME NEW row \in LedgerRows, row.status \in Statuses, NEW edit \in Edits(row)
  PROVE  edit \in LedgerRows /\ edit.status \in Statuses
  <1> DEFINE named == [status : {row.status} \cup Statuses, principal : {row.principal} \cup Principals,
                       balance : {row.balance}, rate : {row.rate} \cup Charges,
                       term : {row.term} \cup Lengths, emi : {row.emi} \cup Emis, past : 0 .. MaxPast]
  <1>1. /\ Principals \subseteq Nat /\ Emis \subseteq Nat /\ Charges \subseteq Nat
        /\ Lengths \subseteq Nat \ {0} /\ MaxPast \in Nat
    BY AmountsAssumption
  <1>2. named \subseteq LedgerRows /\ \A e \in named : e.status \in Statuses
    BY <1>1 DEF LedgerRows
  <1>3. edit \in named \/ \E e \in named : edit = [e EXCEPT !.emi = CalculateEmi(e.principal, e.rate, e.term)]
    BY DEF Edits
  <1> HIDE DEF named
  <1>4. CASE edit \in named
    BY <1>2, <1>4
  <1>5. ASSUME NEW e \in named, edit = [e EXCEPT !.emi = CalculateEmi(e.principal, e.rate, e.term)]
        PROVE  edit \in LedgerRows /\ edit.status \in Statuses
    <2>1. PICK n \in Nat : n = CalculateEmi(e.principal, e.rate, e.term)
      <3>1. e.principal \in Nat /\ e.rate \in Nat /\ e.term \in Nat \ {0}
        BY <1>2 DEF LedgerRows
      <3> QED BY <3>1, EmiIs
    <2>2. edit = [e EXCEPT !.emi = n]
      BY <1>5, <2>1
    <2> QED BY <1>2, <2>2 DEF LedgerRows
  <1> QED BY <1>3, <1>4, <1>5

(* The balance that an edit starts over with is one of the schedule's. *)
LEMMA RebasedBalance ==
  ASSUME NEW edit \in LedgerRows, NEW recorded, NEW past \in Counted(edit, recorded)
  PROVE  RebasedF(edit, past) \in Nat
  <1> DEFINE s == Schedule(edit.principal, edit.rate, edit.emi, edit.term)
             n == Least(past, Len(s))
  <1>1. Len(s) \in Nat \ {0} /\ \A k \in 1 .. Len(s) : s[k] \in Nat
    <2>1. PICK P \in Nat, rate \in Nat, e \in Nat, t \in Nat \ {0} :
            P = edit.principal /\ rate = edit.rate /\ e = edit.emi /\ t = edit.term
      BY DEF LedgerRows
    <2>2. PICK m : m = Len(Schedule(P, rate, e, t)) /\ Shows(Schedule(P, rate, e, t), Debt(P, rate, e, t), t, m)
      BY ScheduleFacts
    <2>3. s = Schedule(P, rate, e, t)
      BY <2>1
    <2> HIDE DEF s
    <2>4. Len(s) = m /\ Shows(s, Debt(P, rate, e, t), t, m)
      BY <2>2, <2>3
    <2> QED BY <2>4 DEF Shows
  <1>2. past \in Nat
    BY AmountsAssumption DEF LedgerRows, Counted, Most
  <1>3. RebasedF(edit, past) = IF n > 0 THEN s[n] ELSE s[Len(s)]
    BY Zenon DEF RebasedF
  <1> HIDE DEF s
  <1>4. n \in 0 .. Len(s)
    BY <1>1, <1>2 DEF Least
  <1> HIDE DEF n
  <1> QED BY <1>1, <1>3, <1>4

-----------------------------------------------------------------------------
(* What a step may do to the loans that were created: none becomes new; of *)
(* one that remains, the least amount only falls and what was repaid only  *)
(* grows.                                                                  *)
Onward ==
  \A l \in Loans : loans[l].status # "new" =>
    /\ loans'[l].status # "new"
    /\ Exists(l)' => Exists(l) /\ lowest'[l] <= lowest[l] /\ rows[l].principal <= rows'[l].principal

LEMMA CoveredStays ==
  ASSUME TablesInv, TablesInv', NEW l \in Loans, NEW b \in Nat, Covered(b, l),
         lowest'[l] <= lowest[l], rows[l].principal <= rows'[l].principal
  PROVE  b + rows'[l].principal >= lowest'[l]
  <1>1. /\ lowest[l] \in Nat /\ lowest'[l] \in Nat
        /\ rows[l].principal \in Nat /\ rows'[l].principal \in Nat
    BY DEF TablesInv, Counts
  <1> QED BY <1>1 DEF Covered

(* The copy of a request stays what it is while others step. *)
LEMMA CopyStays ==
  ASSUME IInv, TablesInv', Onward, NEW r \in Requests, req'[r] = req[r], req[r].at \in Holders
  PROVE  CopyOf(req[r])'
  <1>1. PICK l \in Loans : l = req[r].loan
    BY DEF IInv, CopiesInv, CopyOf
  <1>2. CopyOf(req[r])
    BY DEF IInv, CopiesInv
  <1>3. loans'[l].status # "new"
    BY <1>1, <1>2 DEF CopyOf, Onward
  <1>4. ASSUME Exists(l)' PROVE Covered(Read(req[r]), l)'
    <2>1. Exists(l) /\ lowest'[l] <= lowest[l] /\ rows[l].principal <= rows'[l].principal
      BY <1>1, <1>2, <1>4 DEF CopyOf, Onward
    <2>2. PICK b \in Nat : b = Read(req[r])
      BY <1>2 DEF CopyOf
    <2>3. Covered(b, l)
      BY <1>1, <1>2, <2>1, <2>2 DEF CopyOf
    <2>4. b + rows'[l].principal >= lowest'[l]
      BY <2>1, <2>3, CoveredStays DEF IInv
    <2>5. Read(req[r])' = b
      BY <2>2 DEF Read
    <2> QED BY <2>4, <2>5 DEF Covered
  <1>5. l = req'[r].loan
    BY <1>1
  <1>6. Exists(req[r].loan)' => Covered(Read(req[r]), req[r].loan)'
    BY <1>4, <1>5 DEF Exists, Covered
  <1>7. Read(req[r])' = Read(req[r])
    BY DEF Read
  <1> QED BY <1>1, <1>2, <1>3, <1>6, <1>7 DEF CopyOf

(* The request that stepped is not between query and commit, or what it    *)
(* carries is a copy; a commit marks what others have read for the profile *)
(* and nothing else.                                                       *)
LEMMA RequestsStay ==
  ASSUME IInv, TablesInv', Onward, NEW r \in Requests, NEW next, Go(r, next) \/ Continue(r, next),
         "at" \in DOMAIN next, req'[r].at \in Holders => CopyOf(req[r])'
  PROVE  RequestsInv' /\ CopiesInv'
  <1>1. RequestsInv
    BY DEF IInv
  <1>2. DOMAIN req' = Requests /\ req'[r] = next
    BY <1>1 DEF Go, Continue, RequestsInv
  <1>3. ASSUME NEW q \in Requests \ {r}
        PROVE  "at" \in DOMAIN req'[q] /\ (req'[q].at \in Holders => req'[q] = req[q])
    <2>1. CASE req'[q] = req[q]
      BY <1>1, <2>1 DEF RequestsInv
    <2>2. CASE req'[q] # req[q]
      <3>1. req[q].at \in {"profile", "store"} /\ req'[q] = [req[q] EXCEPT !.alone = FALSE]
        BY <1>1, <1>3, <2>2 DEF Go, Continue, RequestsInv
      <3>2. "at" \in DOMAIN req[q]
        BY <1>1, <1>3 DEF RequestsInv
      <3>3. req'[q].at = req[q].at /\ DOMAIN req'[q] = DOMAIN req[q]
        BY <3>1, <3>2
      <3> QED BY <3>1, <3>2, <3>3 DEF Holders
    <2> QED BY <2>1, <2>2
  <1>4. RequestsInv'
    BY <1>2, <1>3 DEF RequestsInv
  <1>5. ASSUME NEW q \in Requests, req'[q].at \in Holders PROVE CopyOf(req[q])'
    <2>1. CASE q = r
      BY <1>5, <2>1
    <2>2. CASE q # r
      <3>1. req'[q] = req[q]
        BY <1>3, <1>5, <2>2
      <3> QED BY <1>5, <3>1, CopyStays
    <2> QED BY <2>1, <2>2
  <1> QED BY <1>4, <1>5 DEF CopiesInv

(* A step that leaves the loans and their payments alone. *)
LEMMA TablesStay ==
  ASSUME IInv, UNCHANGED <<loans, rows, lowest>>
  PROVE  TablesInv' /\ NothingRepaidTwice' /\ Onward
  <1>1. TablesInv /\ NothingRepaidTwice
    BY DEF IInv
  <1>2. TablesInv'
    BY <1>1 DEF TablesInv
  <1>3. NothingRepaidTwice'
    BY <1>1 DEF NothingRepaidTwice, Exists
  <1>4. Onward
    BY <1>1 DEF Onward, TablesInv, Counts, Exists
  <1> QED BY <1>2, <1>3, <1>4

(* A read, or a commit of the profile. *)
LEMMA ReadingHolds ==
  ASSUME IInv, NEW r \in Requests, NEW next, Go(r, next) \/ Continue(r, next),
         "at" \in DOMAIN next, next.at \in Holders => CopyOf(next),
         UNCHANGED <<loans, rows, lowest>>
  PROVE  IInv'
  <1>1. TablesInv' /\ NothingRepaidTwice' /\ Onward
    BY TablesStay
  <1>2. req'[r] = next
    BY DEF Go, Continue, IInv, RequestsInv
  <1>3. req'[r].at \in Holders => CopyOf(req[r])'
    BY <1>2 DEF CopyOf, Covered, Exists, Read
  <1>4. RequestsInv' /\ CopiesInv'
    BY <1>1, <1>3, RequestsStay
  <1> QED BY <1>1, <1>4 DEF IInv

-----------------------------------------------------------------------------
(* The steps that change loans *)

LEMMA InitHolds ==
  ASSUME Init PROVE IInv
  <1>1. TablesInv
    BY AmountsAssumption DEF Init, TablesInv, NoLoan, LedgerRows, Counts
  <1>2. \A l \in Loans : ~Exists(l)
    BY DEF Init, Exists, NoLoan
  <1>3. \A r \in Requests : req[r] = Idle
    BY DEF Init
  <1>4. RequestsInv
    BY <1>3 DEF Init, RequestsInv, Idle
  <1>5. CopiesInv
    BY <1>3 DEF CopiesInv, Idle, Holders
  <1> QED BY <1>1, <1>2, <1>4, <1>5 DEF IInv, NothingRepaidTwice

LEMMA CreateLoanHolds ==
  ASSUME IInv, NEW r \in Requests, NEW l \in Loans, NEW p \in Principals, NEW rate \in Charges,
         NEW term \in Lengths, NEW e \in Emis, NEW past \in 0 .. MaxPast,
         CreateLoan(r, l, p, rate, term, e, past)
  PROVE  IInv'
  <1> DEFINE row == [status |-> "active", principal |-> p, balance |-> p, rate |-> rate, term |-> term,
                     emi |-> e, past |-> past]
             next == [at |-> "sum"]
  <1>1. /\ loans[l].status = "new" /\ loans' = [loans EXCEPT ![l] = row]
        /\ lowest' = [lowest EXCEPT ![l] = p] /\ Go(r, next) /\ rows' = rows
    BY DEF CreateLoan
  <1>2. row \in LedgerRows /\ p \in Nat /\ row.balance = p
    BY AmountsAssumption DEF LedgerRows, Statuses
  <1>3. TablesInv /\ NothingRepaidTwice
    BY DEF IInv
  <1> HIDE DEF row
  <1>4. TablesInv'
    BY <1>1, <1>2, <1>3 DEF TablesInv
  <1>5. loans'[l] = row /\ lowest'[l] = p
        /\ \A k \in Loans \ {l} : loans'[k] = loans[k] /\ lowest'[k] = lowest[k]
    BY <1>1, <1>3 DEF TablesInv
  <1>6. Onward
    BY <1>1, <1>3, <1>5 DEF Onward, TablesInv, Counts, Exists
  <1>7. NothingRepaidTwice'
    <2>1. row.balance + rows'[l].principal >= lowest'[l]
      BY <1>1, <1>2, <1>3, <1>5 DEF TablesInv, Counts
    <2> QED BY <1>1, <1>3, <1>5, <2>1 DEF NothingRepaidTwice, Exists
  <1>8. "at" \in DOMAIN next /\ next.at = "sum" /\ req'[r] = next
    BY <1>1 DEF Go, IInv, RequestsInv
  <1>9. req'[r].at \notin Holders
    BY <1>8 DEF Holders
  <1> HIDE DEF next
  <1>10. RequestsInv' /\ CopiesInv'
    BY <1>1, <1>4, <1>6, <1>8, <1>9, RequestsStay
  <1> QED BY <1>4, <1>7, <1>10 DEF IInv

(* The commit of a changed copy: the loan gets row w, with which it is     *)
(* still covered.                                                          *)
LEMMA CommitHolds ==
  ASSUME IInv, NEW r \in Requests, NEW next, Go(r, next), "at" \in DOMAIN next, next.at \notin Holders,
         NEW l \in Loans, Exists(l), NEW w \in LedgerRows, w.status \in Statuses, loans' = [loans EXCEPT ![l] = w],
         NEW count \in Counts, rows' = [rows EXCEPT ![l] = count], rows[l].principal <= count.principal,
         NEW least \in Nat, lowest' = [lowest EXCEPT ![l] = least], least <= lowest[l],
         w.balance + count.principal >= least
  PROVE  IInv'
  <1>1. TablesInv /\ NothingRepaidTwice
    BY DEF IInv
  <1>2. TablesInv'
    BY <1>1 DEF TablesInv
  <1>3. loans'[l] = w /\ rows'[l] = count /\ lowest'[l] = least
        /\ \A k \in Loans \ {l} : loans'[k] = loans[k] /\ rows'[k] = rows[k] /\ lowest'[k] = lowest[k]
    BY <1>1 DEF TablesInv
  <1>4. Onward
    BY <1>1, <1>3 DEF Onward, TablesInv, Counts, Exists, Statuses
  <1>5. NothingRepaidTwice'
    BY <1>1, <1>3 DEF NothingRepaidTwice, Exists
  <1>6. req'[r] = next
    BY DEF Go, IInv, RequestsInv
  <1>7. RequestsInv' /\ CopiesInv'
    BY <1>2, <1>4, <1>6, RequestsStay
  <1> QED BY <1>2, <1>5, <1>7 DEF IInv

(* What an edit makes of a loan, which it may give a balance. *)
LEMMA EditWrites ==
  ASSUME IInv, NEW r \in Requests, CommitEdit(r), NEW l \in Loans, l = req[r].loan, Exists(l)
  PROVE  \E w \in LedgerRows : w.status \in Statuses /\ Edited(l, w)
  <1> DEFINE old == req[r].row
  <1>1. CopyOf(req[r]) /\ req[r].at \in {"editing", "scheduled"}
    BY DEF CommitEdit, IInv, CopiesInv, Holders
  <1>2. old \in LedgerRows /\ old.status \in Statuses
    BY <1>1 DEF CopyOf
  <1>3. PICK edit \in Edits(old) :
          IF req[r].at = "editing" THEN Edited(l, Written(loans[l], old, edit))
          ELSE \E past \in Counted(edit, req[r].recorded) :
                 Edited(l, Rebased(Written(loans[l], old, edit), old.balance, RebasedF(edit, past)))
    BY DEF CommitEdit
  <1> HIDE DEF old
  <1>4. edit \in LedgerRows /\ edit.status \in Statuses
    BY <1>2, EditedRow
  <1>5. loans[l] \in LedgerRows /\ loans[l].status \in Statuses
    BY DEF IInv, TablesInv, LedgerRows, Exists
  <1> DEFINE new == Written(loans[l], old, edit)
  <1>6. new \in LedgerRows /\ new.status \in Statuses
    BY <1>2, <1>4, <1>5, WrittenRow
  <1>7. CASE req[r].at = "editing"
    BY <1>3, <1>6, <1>7
  <1>8. CASE req[r].at # "editing"
    <2>1. PICK past \in Counted(edit, req[r].recorded) : Edited(l, Rebased(new, old.balance, RebasedF(edit, past)))
      BY <1>3, <1>8
    <2>2. Round(RebasedF(edit, past)) \in Nat
      BY <1>4, RebasedBalance, RoundBounds
    <2> HIDE DEF new
    <2> DEFINE w == Rebased(new, old.balance, RebasedF(edit, past))
    <2>3. w \in LedgerRows /\ w.status \in Statuses
      BY <1>6, <2>2 DEF LedgerRows, Rebased
    <2> QED BY <2>1, <2>3
  <1> QED BY <1>7, <1>8

LEMMA CommitEditHolds ==
  ASSUME IInv, NEW r \in Requests, CommitEdit(r)
  PROVE  IInv'
  <1>1. CopyOf(req[r])
    BY DEF CommitEdit, IInv, CopiesInv, Holders
  <1>2. PICK l \in Loans : l = req[r].loan
    BY <1>1 DEF CopyOf
  <1>3. TablesInv /\ NothingRepaidTwice
    BY DEF IInv
  <1>4. CASE Exists(l)
    <2>1. PICK w \in LedgerRows : w.status \in Statuses /\ Edited(l, w)
      BY <1>2, <1>4, EditWrites
    <2>2. Go(r, [at |-> "sum"]) /\ rows' = rows
      BY <1>2, <1>4 DEF CommitEdit
    <2> DEFINE least == Least(lowest[l], w.balance)
    <2>3. loans' = [loans EXCEPT ![l] = w]
      BY <2>1 DEF Edited
    <2>4. lowest' = [lowest EXCEPT ![l] = least] /\ lowest[l] \in Nat
      BY <1>3, <2>1 DEF TablesInv, Edited
    <2>5. w.balance \in Nat /\ least \in Nat /\ least <= lowest[l] /\ least <= w.balance
      BY <2>1, <2>4 DEF Least, LedgerRows
    <2> HIDE DEF least
    <2>6. rows[l] \in Counts /\ rows' = [rows EXCEPT ![l] = rows[l]]
      BY <1>3, <2>2 DEF TablesInv
    <2>7. rows[l].principal \in Nat /\ w.balance + rows[l].principal >= least
      BY <2>5, <2>6 DEF Counts
    <2>8. rows[l].principal <= rows[l].principal
      BY <2>7
    <2> DEFINE next == [at |-> "sum"]
    <2>9. Go(r, next) /\ "at" \in DOMAIN next /\ next.at \notin Holders
      BY <2>2 DEF Holders
    <2> HIDE DEF next
    <2> QED BY <1>4, <2>1, <2>3, <2>4, <2>5, <2>6, <2>7, <2>8, <2>9, CommitHolds
  <1>5. CASE ~Exists(l)
    <2>1. Continue(r, Idle) /\ UNCHANGED <<loans, rows, lowest>>
      BY <1>2, <1>5 DEF CommitEdit
    <2>2. "at" \in DOMAIN Idle /\ Idle.at \notin Holders
      BY DEF Idle, Holders
    <2> QED BY <2>1, <2>2, ReadingHolds
  <1> QED BY <1>4, <1>5

(* What a payment makes of a loan, whatever it was computed from. *)
LEMMA PaidRow ==
  ASSUME NEW row \in LedgerRows, row.status \in Statuses, NEW balance \in Nat, NEW rate \in Nat, NEW a \in Nat
  PROVE  LET w == AfterPayment(row, balance, rate, a)
             s == PaymentSplit(balance, rate, a)
         IN  /\ w \in LedgerRows /\ w.status \in Statuses
             /\ w.balance \in {Round(s.left), row.balance}
  <1> DEFINE w == AfterPayment(row, balance, rate, a)
             s == PaymentSplit(balance, rate, a)
  <1>1. Round(s.left) \in Nat
    BY PaymentCovers
  <1>2. w = [row EXCEPT !.balance = IF s.left # balance * Unit THEN Round(s.left) ELSE @,
                        !.status = IF s.left = 0 THEN "closed" ELSE @]
    BY DEF AfterPayment
  <1> HIDE DEF w, s
  <1>3. /\ w \in LedgerRows /\ w.status \in Statuses
        /\ w.balance \in {Round(s.left), row.balance}
    BY <1>1, <1>2 DEF LedgerRows, Statuses
  <1> QED BY <1>3 DEF w, s

LEMMA CommitPaymentHolds ==
  ASSUME IInv, NEW r \in Requests, CommitPayment(r)
  PROVE  IInv'
  <1>1. req[r].at = "paying" /\ CopyOf(req[r])
    BY DEF CommitPayment, IInv, CopiesInv, Holders
  <1>2. PICK l \in Loans : l = req[r].loan
    BY <1>1 DEF CopyOf
  <1>3. PICK balance \in Nat, rate \in Nat, a \in Nat :
          balance = req[r].balance /\ rate = req[r].rate /\ a = req[r].amount
    BY <1>1, AmountsAssumption DEF CopyOf, Read
  <1> DEFINE s == PaymentSplit(balance, rate, a)
             w == AfterPayment(loans[l], balance, rate, a)
             portion == Round(s.principal)
             count == [count |-> rows[l].count + 1, principal |-> rows[l].principal + portion]
  <1>4. TablesInv /\ NothingRepaidTwice
    BY DEF IInv
  <1>5. portion \in Nat /\ Round(s.left) \in Nat /\ Round(s.left) + portion >= balance
    BY PaymentCovers
  <1>6. CASE Exists(l)
    <2>1. loans' = [loans EXCEPT ![l] = w] /\ Go(r, Idle) /\ lowest' = lowest
      BY <1>2, <1>3, <1>6 DEF CommitPayment
    <2>2. rows' = [rows EXCEPT ![l] = count]
      BY <1>2, <1>3, <1>6 DEF CommitPayment
    <2>3. loans[l] \in LedgerRows /\ loans[l].status \in Statuses /\ rows[l] \in Counts /\ lowest[l] \in Nat
          /\ loans[l].balance + rows[l].principal >= lowest[l]
      BY <1>4, <1>6 DEF TablesInv, NothingRepaidTwice, Exists, LedgerRows
    <2>4. balance + rows[l].principal >= lowest[l]
      BY <1>1, <1>2, <1>3, <1>6 DEF CopyOf, Covered, Read
    <2>5. w \in LedgerRows /\ w.status \in Statuses /\ w.balance \in {Round(s.left), loans[l].balance}
      BY <2>3, PaidRow
    <2> HIDE DEF w, s, portion
    <2>6. rows[l].principal \in Nat /\ rows[l].count \in Nat /\ loans[l].balance \in Nat
      BY <2>3 DEF LedgerRows, Counts
    <2>7. count \in Counts /\ count.principal = rows[l].principal + portion
          /\ rows[l].principal <= count.principal
      BY <1>5, <2>6 DEF Counts
    <2> HIDE DEF count
    <2>8. w.balance + count.principal >= lowest[l]
      BY <1>5, <2>3, <2>4, <2>5, <2>6, <2>7
    <2>9. lowest' = [lowest EXCEPT ![l] = lowest[l]] /\ lowest[l] <= lowest[l]
      BY <1>4, <2>1, <2>3 DEF TablesInv
    <2>10. "at" \in DOMAIN Idle /\ Idle.at \notin Holders
      BY DEF Idle, Holders
    <2> QED BY <1>6, <2>1, <2>2, <2>3, <2>5, <2>7, <2>8, <2>9, <2>10, CommitHolds
  <1>7. CASE ~Exists(l)
    <2>1. Continue(r, Idle) /\ UNCHANGED <<loans, rows, lowest>>
      BY <1>2, <1>7 DEF CommitPayment
    <2>2. "at" \in DOMAIN Idle /\ Idle.at \notin Holders
      BY DEF Idle, Holders
    <2> QED BY <2>1, <2>2, ReadingHolds
  <1> QED BY <1>6, <1>7

LEMMA CommitDeleteHolds ==
  ASSUME IInv, NEW r \in Requests, CommitDelete(r)
  PROVE  IInv'
  <1>1. PICK l \in Loans : l = req[r].loan /\ loans[l].status # "new"
    BY DEF CommitDelete, IInv, CopiesInv, CopyOf, Holders
  <1> DEFINE next == [at |-> "sum"]
  <1>2. /\ loans' = [loans EXCEPT ![l] = NoLoan("deleted")]
        /\ rows' = [rows EXCEPT ![l] = [count |-> 0, principal |-> 0]]
        /\ lowest' = [lowest EXCEPT ![l] = 0] /\ Go(r, next)
    BY <1>1 DEF CommitDelete
  <1>3. TablesInv /\ NothingRepaidTwice
    BY DEF IInv
  <1>4. NoLoan("deleted") \in LedgerRows /\ NoLoan("deleted").status = "deleted"
    BY AmountsAssumption DEF NoLoan, LedgerRows
  <1>5. TablesInv'
    BY <1>2, <1>3, <1>4 DEF TablesInv, Counts
  <1>6. loans'[l].status = "deleted"
        /\ \A k \in Loans \ {l} : loans'[k] = loans[k] /\ rows'[k] = rows[k] /\ lowest'[k] = lowest[k]
    BY <1>2, <1>3, <1>4 DEF TablesInv
  <1>7. Onward
    BY <1>3, <1>6 DEF Onward, TablesInv, Counts, Exists
  <1>8. NothingRepaidTwice'
    BY <1>3, <1>6 DEF NothingRepaidTwice, Exists
  <1>9. "at" \in DOMAIN next /\ next.at = "sum" /\ req'[r] = next
    BY <1>2 DEF Go, IInv, RequestsInv
  <1>10. req'[r].at \notin Holders
    BY <1>9 DEF Holders
  <1> HIDE DEF next
  <1>11. RequestsInv' /\ CopiesInv'
    BY <1>2, <1>5, <1>7, <1>9, <1>10, RequestsStay
  <1> QED BY <1>5, <1>8, <1>11 DEF IInv

LEMMA MonthPassesHolds ==
  ASSUME IInv, MonthPasses
  PROVE  IInv'
  <1>1. TablesInv /\ NothingRepaidTwice /\ RequestsInv
    BY DEF IInv
  <1>2. loans' = [l \in Loans |-> IF Exists(l) THEN [loans[l] EXCEPT !.past = Least(@ + 1, MaxPast)] ELSE loans[l]]
        /\ UNCHANGED <<rows, req, lowest>>
    BY DEF MonthPasses
  <1>3. ASSUME NEW l \in Loans
        PROVE  /\ loans'[l] \in LedgerRows /\ loans'[l].status = loans[l].status
               /\ loans'[l].balance = loans[l].balance
    <2>1. loans[l] \in LedgerRows
      BY <1>1 DEF TablesInv
    <2>2. CASE ~Exists(l)
      BY <1>2, <2>1, <2>2
    <2>3. CASE Exists(l)
      <3>1. Least(loans[l].past + 1, MaxPast) \in 0 .. MaxPast
        BY <2>1, AmountsAssumption DEF LedgerRows, Least
      <3> QED BY <1>2, <2>1, <2>3, <3>1 DEF LedgerRows
    <2> QED BY <2>2, <2>3
  <1>4. TablesInv'
    BY <1>1, <1>2, <1>3 DEF TablesInv
  <1>5. NothingRepaidTwice'
    BY <1>1, <1>2, <1>3 DEF NothingRepaidTwice, Exists
  <1>6. Onward
    BY <1>1, <1>2, <1>3 DEF Onward, TablesInv, Counts, Exists
  <1>7. CopiesInv'
    BY <1>2, <1>4, <1>6, CopyStays DEF CopiesInv
  <1>8. RequestsInv'
    BY <1>1, <1>2 DEF RequestsInv
  <1> QED BY <1>4, <1>5, <1>7, <1>8 DEF IInv

(* The steps that change no loan: queries, and the financial profile. *)
LEMMA LoadLoanHolds ==
  ASSUME IInv, NEW r \in Requests, NEW l \in Loans,
         LoadLoan(r, l) \/ (\E a \in Amounts : LoadForPayment(r, l, a))
  PROVE  IInv'
  <1>1. Exists(l) /\ loans[l].status # "new"
    BY DEF LoadLoan, LoadForPayment, Exists
  <1>2. loans[l] \in LedgerRows /\ loans[l].status \in Statuses /\ Covered(loans[l].balance, l)
    BY <1>1 DEF IInv, TablesInv, NothingRepaidTwice, Covered, LedgerRows, Exists
  <1>3. loans[l].balance \in Nat /\ loans[l].rate \in Nat
    BY <1>2 DEF LedgerRows
  <1>4. CASE LoadLoan(r, l)
    <2> DEFINE next == [at |-> "loaded", loan |-> l, row |-> loans[l]]
    <2>1. Continue(r, next) /\ UNCHANGED <<loans, rows, lowest>>
      BY <1>4 DEF LoadLoan
    <2>2. "at" \in DOMAIN next /\ CopyOf(next)
      BY <1>1, <1>2, <1>3 DEF CopyOf, Read
    <2> HIDE DEF next
    <2> QED BY <2>1, <2>2, ReadingHolds
  <1>5. ASSUME NEW a \in Amounts, LoadForPayment(r, l, a) PROVE IInv'
    <2> DEFINE next == [at |-> "paying", loan |-> l, balance |-> loans[l].balance, rate |-> loans[l].rate,
                        amount |-> a]
    <2>1. Continue(r, next) /\ UNCHANGED <<loans, rows, lowest>>
      BY <1>5 DEF LoadForPayment
    <2>2. "at" \in DOMAIN next /\ CopyOf(next)
      BY <1>1, <1>2, <1>3 DEF CopyOf, Read
    <2> HIDE DEF next
    <2> QED BY <2>1, <2>2, ReadingHolds
  <1> QED BY <1>4, <1>5

LEMMA LookForPaymentsHolds ==
  ASSUME IInv, NEW r \in Requests, LookForPayments(r) \/ ReadSchedule(r)
  PROVE  IInv'
  <1>1. CopyOf(req[r]) /\ req[r].at \in {"loaded", "editing"}
    BY DEF LookForPayments, ReadSchedule, IInv, CopiesInv, Holders
  <1>2. ASSUME NEW next, Continue(r, next), UNCHANGED <<loans, rows, lowest>>, "at" \in DOMAIN next,
               next.at \in {"editing", "scheduled"}, next.loan = req[r].loan, next.row = req[r].row
        PROVE  IInv'
    <2>1. CopyOf(next)
      BY <1>1, <1>2 DEF CopyOf, Read
    <2> QED BY <1>2, <2>1, ReadingHolds
  <1>3. CASE LookForPayments(r)
    <2> DEFINE next == [at |-> "editing", loan |-> req[r].loan, row |-> req[r].row,
                        paid |-> rows[req[r].loan].count > 0]
    <2>1. Continue(r, next) /\ UNCHANGED <<loans, rows, lowest>>
      BY <1>3 DEF LookForPayments
    <2>2. "at" \in DOMAIN next /\ next.at = "editing" /\ next.loan = req[r].loan /\ next.row = req[r].row
      OBVIOUS
    <2> HIDE DEF next
    <2> QED BY <1>2, <2>1, <2>2
  <1>4. CASE ReadSchedule(r)
    <2> DEFINE next == [at |-> "scheduled", loan |-> req[r].loan, row |-> req[r].row,
                        recorded |-> rows[req[r].loan].count]
    <2>1. Continue(r, next) /\ UNCHANGED <<loans, rows, lowest>>
      BY <1>4 DEF ReadSchedule
    <2>2. "at" \in DOMAIN next /\ next.at = "scheduled" /\ next.loan = req[r].loan /\ next.row = req[r].row
      OBVIOUS
    <2> HIDE DEF next
    <2> QED BY <1>2, <2>1, <2>2
  <1> QED BY <1>3, <1>4

LEMMA ProfileHolds ==
  ASSUME IInv, NEW r \in Requests,
         \/ SumEmis(r) \/ LoadProfile(r) \/ StoreProfile(r) \/ OpenProfile(r) \/ Fail(r)
         \/ LoadToEdit(r) \/ EditProfile(r)
  PROVE  IInv'
  <1>1. "at" \in DOMAIN Idle /\ Idle.at \notin Holders
    BY DEF Idle, Holders
  <1>2. CASE SumEmis(r)
    <2> DEFINE next == [at |-> "profile", alone |-> TRUE, total |-> ActiveEmi]
    <2>1. Continue(r, next) /\ UNCHANGED <<loans, rows, lowest>>
      BY <1>2 DEF SumEmis
    <2>2. "at" \in DOMAIN next /\ next.at \notin Holders
      BY DEF Holders
    <2> HIDE DEF next
    <2> QED BY <2>1, <2>2, ReadingHolds
  <1>3. CASE LoadProfile(r)
    <2> DEFINE next == [at |-> "store", alone |-> req[r].alone, total |-> req[r].total, row |-> profile]
    <2>1. (Continue(r, next) \/ Continue(r, Idle)) /\ UNCHANGED <<loans, rows, lowest>>
      BY <1>3 DEF LoadProfile
    <2>2. "at" \in DOMAIN next /\ next.at \notin Holders
      BY DEF Holders
    <2> HIDE DEF next
    <2> QED BY <1>1, <2>1, <2>2, ReadingHolds
  <1>4. CASE LoadToEdit(r)
    <2> DEFINE next == [at |-> "filling", exists |-> profile.exists, income |-> profile.income,
                        outgoings |-> profile.outgoings]
    <2>1. Continue(r, next) /\ UNCHANGED <<loans, rows, lowest>>
      BY <1>4 DEF LoadToEdit
    <2>2. "at" \in DOMAIN next /\ next.at \notin Holders
      BY DEF Holders
    <2> HIDE DEF next
    <2> QED BY <2>1, <2>2, ReadingHolds
  <1>5. CASE StoreProfile(r) \/ OpenProfile(r) \/ Fail(r) \/ EditProfile(r)
    <2>1. (Go(r, Idle) \/ Continue(r, Idle)) /\ UNCHANGED <<loans, rows, lowest>>
      BY <1>5 DEF StoreProfile, OpenProfile, EditProfile, Fail
    <2> QED BY <1>1, <2>1, ReadingHolds
  <1> QED BY <1>2, <1>3, <1>4, <1>5

LEMMA NothingHolds ==
  ASSUME IInv, UNCHANGED vars
  PROVE  IInv'
  <1>1. UNCHANGED <<loans, rows, lowest>> /\ req' = req
    BY DEF vars
  <1>2. TablesInv' /\ NothingRepaidTwice' /\ Onward
    BY <1>1, TablesStay
  <1>3. CopiesInv'
    BY <1>1, <1>2, CopyStays DEF CopiesInv
  <1>4. RequestsInv'
    BY <1>1 DEF IInv, RequestsInv
  <1> QED BY <1>2, <1>3, <1>4 DEF IInv

-----------------------------------------------------------------------------
(* The inductive invariant, of every request of the loan and profile       *)
(* routes, and of requests that die between two commits.                   *)
THEOREM LedgerInductive == Spec => []IInv
  <1>1. Init => IInv
    BY InitHolds
  <1>2. IInv /\ [Next]_vars => IInv'
    <2> SUFFICES ASSUME IInv, [Next]_vars PROVE IInv'
      OBVIOUS
    <2>1. CASE UNCHANGED vars
      BY <2>1, NothingHolds
    <2>2. CASE MonthPasses
      BY <2>2, MonthPassesHolds
    <2>3. ASSUME NEW r \in Requests, NEW l \in Loans, NEW p \in Principals, NEW rate \in Charges,
                 NEW term \in Lengths, NEW e \in Emis, NEW past \in 0 .. MaxPast,
                 CreateLoan(r, l, p, rate, term, e, past)
          PROVE  IInv'
      BY <2>3, CreateLoanHolds
    <2>4. ASSUME NEW r \in Requests, NEW l \in Loans,
                 LoadLoan(r, l) \/ (\E a \in Amounts : LoadForPayment(r, l, a))
          PROVE  IInv'
      BY <2>4, LoadLoanHolds
    <2>5. ASSUME NEW r \in Requests, LookForPayments(r) \/ ReadSchedule(r) PROVE IInv'
      BY <2>5, LookForPaymentsHolds
    <2>6. ASSUME NEW r \in Requests, CommitEdit(r) PROVE IInv'
      BY <2>6, CommitEditHolds
    <2>7. ASSUME NEW r \in Requests, CommitDelete(r) PROVE IInv'
      BY <2>7, CommitDeleteHolds
    <2>8. ASSUME NEW r \in Requests, CommitPayment(r) PROVE IInv'
      BY <2>8, CommitPaymentHolds
    <2>9. ASSUME NEW r \in Requests,
                 \/ SumEmis(r) \/ LoadProfile(r) \/ StoreProfile(r) \/ OpenProfile(r) \/ Fail(r)
                 \/ LoadToEdit(r) \/ EditProfile(r)
          PROVE  IInv'
      BY <2>9, ProfileHolds
    <2> QED BY <2>1, <2>2, <2>3, <2>4, <2>5, <2>6, <2>7, <2>8, <2>9 DEF Next
  <1> QED BY <1>1, <1>2, PTL DEF Spec

(* Overlapping make_payment calls write balances of what they read: one    *)
(* may be lost, none is counted twice.                                     *)
THEOREM RepaymentsAreNotDoubled == Spec => []NothingRepaidTwice
  <1>1. IInv => NothingRepaidTwice
    BY DEF IInv
  <1> QED BY <1>1, LedgerInductive, PTL

(* Only the commit of a payment adds a row to a loan's payments. *)
LEMMA OnlyPaymentsPay ==
  ASSUME IInv, [Next]_vars, NEW l \in Loans, Pays(l)
  PROVE  \E r \in Requests : CommitPayment(r) /\ l = req[r].loan /\ Exists(l)
  <1>1. TablesInv
    BY DEF IInv
  <1>2. rows[l].count \in Nat /\ rows' # rows /\ rows'[l].count > rows[l].count
    BY <1>1 DEF Pays, TablesInv, Counts
  <1>3. \E r \in Requests : CommitDelete(r) \/ CommitPayment(r)
    BY <1>2 DEF Next, vars, CreateLoan, LoadLoan, LookForPayments, ReadSchedule, CommitEdit, LoadForPayment,
                SumEmis, LoadProfile, StoreProfile, OpenProfile, LoadToEdit, EditProfile, Fail, MonthPasses
  <1>4. PICK r \in Requests : CommitDelete(r) \/ CommitPayment(r)
    BY <1>3
  <1>5. CASE CommitDelete(r)
    <2>1. rows' = [rows EXCEPT ![req[r].loan] = [count |-> 0, principal |-> 0]]
      BY <1>5 DEF CommitDelete
    <2>2. rows'[l].count <= rows[l].count /\ rows'[l].count \in Nat
      BY <1>1, <1>2, <2>1 DEF TablesInv
    <2> QED BY <1>2, <2>2
  <1>6. CASE CommitPayment(r)
    <2>1. Exists(req[r].loan)
      BY <1>2, <1>6 DEF CommitPayment
    <2>2. l = req[r].loan
      BY <1>1, <1>2, <1>6 DEF CommitPayment, TablesInv
    <2> QED BY <1>6, <2>1, <2>2
  <1> QED BY <1>4, <1>5, <1>6

(* What the payment's commit does to its loan. *)
LEMMA PaymentCommitted ==
  ASSUME IInv, NEW r \in Requests, CommitPayment(r), NEW l \in Loans, l = req[r].loan, Exists(l)
  PROVE  loans'[l].status = loans[l].status
         \/ (loans'[l].status = "closed" /\ rows'[l].principal >= lowest[l])
  <1>1. req[r].at = "paying" /\ CopyOf(req[r])
    BY DEF CommitPayment, IInv, CopiesInv, Holders
  <1>2. PICK balance \in Nat, rate \in Nat, a \in Nat :
          balance = req[r].balance /\ rate = req[r].rate /\ a = req[r].amount
    BY <1>1, AmountsAssumption DEF CopyOf, Read
  <1> DEFINE s == PaymentSplit(balance, rate, a)
             w == AfterPayment(loans[l], balance, rate, a)
  <1>3. loans[l] \in LedgerRows /\ loans[l].status \in Statuses /\ rows[l] \in Counts /\ lowest[l] \in Nat
    BY DEF IInv, TablesInv, LedgerRows, Exists
  <1>4. loans'[l] = w /\ rows'[l].principal = rows[l].principal + Round(s.principal)
    BY <1>2 DEF CommitPayment, IInv, TablesInv
  <1>5. w.status = IF s.left = 0 THEN "closed" ELSE loans[l].status
    <2>1. w = [loans[l] EXCEPT !.balance = IF s.left # balance * Unit THEN Round(s.left) ELSE @,
                               !.status = IF s.left = 0 THEN "closed" ELSE @]
      BY DEF AfterPayment
    <2> HIDE DEF w, s
    <2> QED BY <1>3, <2>1 DEF LedgerRows
  <1>6. Round(s.principal) \in Nat /\ (s.left = 0 => Round(s.principal) >= balance)
    BY PaymentCovers
  <1>7. balance + rows[l].principal >= lowest[l]
    BY <1>1, <1>2 DEF CopyOf, Covered, Read
  <1> HIDE DEF s, w
  <1>8. rows[l].principal \in Nat
    BY <1>3 DEF Counts
  <1>9. CASE s.left = 0
    BY <1>3, <1>4, <1>5, <1>6, <1>7, <1>8, <1>9
  <1>10. CASE s.left # 0
    BY <1>4, <1>5, <1>10
  <1> QED BY <1>9, <1>10

(* make_payment closes a loan by a balance it has computed from an older   *)
(* copy: what was repaid is nevertheless what the loan was set to.         *)
THEOREM PaymentsCloseWhatIsRepaid == Spec => ClosedWhenRepaid
  <1>1. IInv /\ IInv' /\ [Next]_vars =>
          [\A l \in Loans :
             (Pays(l) /\ loans[l].status # "closed" /\ loans'[l].status = "closed")
               => rows'[l].principal >= lowest[l]]_vars
    <2> SUFFICES ASSUME IInv, [Next]_vars, NEW l \in Loans, Pays(l), loans[l].status # "closed",
                        loans'[l].status = "closed"
                 PROVE  rows'[l].principal >= lowest[l]
      OBVIOUS
    <2>1. PICK r \in Requests : CommitPayment(r) /\ l = req[r].loan /\ Exists(l)
      BY OnlyPaymentsPay
    <2> QED BY <2>1, PaymentCommitted
  <1> QED BY <1>1, LedgerInductive, PTL DEF Spec, ClosedWhenRepaid

(* A payment writes the status only to close the loan, so one that was     *)
(* computed before a loan was closed or set aside does not bring it back.  *)
THEOREM PaymentsReopenNothing == Spec => PaymentReopensNothing
  <1>1. IInv /\ IInv' /\ [Next]_vars =>
          [\A l \in Loans : (Pays(l) /\ loans[l].status # "active") => loans'[l].status # "active"]_vars
    <2> SUFFICES ASSUME IInv, [Next]_vars, NEW l \in Loans, Pays(l), loans[l].status # "active"
                 PROVE  loans'[l].status # "active"
      OBVIOUS
    <2>1. PICK r \in Requests : CommitPayment(r) /\ l = req[r].loan /\ Exists(l)
      BY OnlyPaymentsPay
    <2> QED BY <2>1, PaymentCommitted
  <1> QED BY <1>1, LedgerInductive, PTL DEF Spec, PaymentReopensNothing

-----------------------------------------------------------------------------
(***************************************************************************)
(* The financial profile.  What a refresh carries from its sum to its      *)
(* commit is still true when nobody has committed in between: every commit *)
(* marks it, and the other steps change neither the instalments nor the    *)
(* profile.                                                                *)
(***************************************************************************)
Memos == [at : {"profile"}, alone : BOOLEAN, total : Nat]
           \cup [at : {"store"}, alone : BOOLEAN, total : Nat, row : Profiles]

MemoTrue(x) ==
  x.at \in {"profile", "store"} /\ x.alone =>
    x.total = ActiveEmi /\ (x.at = "store" => x.row = profile)

FlightInv == profile \in Profiles /\ req \in [Requests -> InFlight]
MemoInv == \A r \in Requests : MemoTrue(req[r])

ProfileInv == IInv /\ FlightInv /\ MemoInv

(* Sums over finitely many loans are amounts. *)
LEMMA SumsOfLoans ==
  ASSUME TablesInv, NEW L \in SUBSET Loans
  PROVE  EmisOf(L) \in Nat /\ BalancesOf(L) \in Nat
  <1> DEFINE e == [l \in L |-> loans[l].emi]
             b == [l \in L |-> loans[l].balance]
  <1>1. \A l \in L : e[l] \in Nat /\ b[l] \in Nat
    BY DEF TablesInv, LedgerRows
  <1>2. IsFiniteSet(L)
    BY AmountsAssumption, FS_Subset
  <1>3. DOMAIN e = L /\ DOMAIN b = L
    OBVIOUS
  <1>4. EmisOf(L) = SumFunctionOnSet(e, DOMAIN e) /\ BalancesOf(L) = SumFunctionOnSet(b, DOMAIN b)
    BY Zenon DEF EmisOf, BalancesOf, SumFunction
  <1> HIDE DEF e, b
  <1> QED BY <1>1, <1>2, <1>3, <1>4, SumNat

(* Requests keep their types. *)
LEMMA FlightStays ==
  ASSUME req \in [Requests -> InFlight], NEW r \in Requests, NEW next \in InFlight, Go(r, next) \/ Continue(r, next)
  PROVE  req' \in [Requests -> InFlight]
  <1>1. ASSUME NEW x \in InFlight, x.at \in {"profile", "store"} PROVE [x EXCEPT !.alone = FALSE] \in InFlight
    <2>1. x \in [at : {"profile"}, alone : BOOLEAN, total : Nat]
            \/ x \in [at : {"store"}, alone : BOOLEAN, total : Nat, row : Profiles]
      BY <1>1 DEF InFlight, Idle
    <2>2. [x EXCEPT !.alone = FALSE] \in [at : {"profile"}, alone : BOOLEAN, total : Nat]
            \/ [x EXCEPT !.alone = FALSE] \in [at : {"store"}, alone : BOOLEAN, total : Nat, row : Profiles]
      BY <2>1
    <2> QED BY <2>2 DEF InFlight
  <1>2. CASE Continue(r, next)
    BY <1>2 DEF Continue
  <1>3. CASE Go(r, next)
    BY <1>1, <1>3 DEF Go
  <1> QED BY <1>2, <1>3

(* A commit marks what others carry; other steps change nothing of it.     *)
LEMMA MemosStay ==
  ASSUME FlightInv, MemoInv, NEW r \in Requests, NEW next,
         Go(r, next) \/ (Continue(r, next) /\ UNCHANGED <<loans, profile>>), MemoTrue(req[r])'
  PROVE  MemoInv'
  <1> SUFFICES ASSUME NEW q \in Requests \ {r} PROVE MemoTrue(req[q])'
    BY DEF MemoInv
  <1>1. req[q] \in InFlight
    BY DEF FlightInv
  <1>2. CASE Continue(r, next) /\ UNCHANGED <<loans, profile>>
    <2>1. req'[q] = req[q] /\ ActiveEmi' = ActiveEmi
      BY <1>2 DEF Continue, FlightInv, ActiveEmi, EmisOf, Active
    <2> QED BY <1>2, <2>1 DEF MemoInv, MemoTrue
  <1>3. CASE Go(r, next) /\ req[q].at \in {"profile", "store"}
    <2>1. req'[q] = [req[q] EXCEPT !.alone = FALSE]
      BY <1>3 DEF Go
    <2>2. req[q] \in [at : {"profile"}, alone : BOOLEAN, total : Nat]
            \/ req[q] \in [at : {"store"}, alone : BOOLEAN, total : Nat, row : Profiles]
      BY <1>1, <1>3 DEF InFlight, Idle
    <2>3. req'[q].alone = FALSE
      BY <2>1, <2>2
    <2> QED BY <2>3 DEF MemoTrue
  <1>4. CASE Go(r, next) /\ req[q].at \notin {"profile", "store"}
    <2>1. req'[q] = req[q]
      BY <1>4 DEF Go
    <2> QED BY <1>4, <2>1 DEF MemoTrue
  <1> QED BY <1>2, <1>3, <1>4

LEMMA RowsAgree == LedgerRows = LoanRows
  BY DEF LedgerRows, LoanRows

(* What a step of a loan request continues with. *)
LEMMA LoanFlights ==
  ASSUME IInv, FlightInv, NEW r \in Requests,
         \/ \E l \in Loans, p \in Principals, rate \in Charges, term \in Lengths, e \in Emis, past \in 0 .. MaxPast :
              CreateLoan(r, l, p, rate, term, e, past)
         \/ \E l \in Loans : LoadLoan(r, l)
         \/ LookForPayments(r)
         \/ ReadSchedule(r)
         \/ CommitEdit(r)
         \/ CommitDelete(r)
         \/ \E l \in Loans, a \in Amounts : LoadForPayment(r, l, a)
         \/ CommitPayment(r)
  PROVE  /\ profile' = profile
         /\ \E next \in InFlight :
              /\ next.at \notin {"profile", "store"}
              /\ Go(r, next) \/ (Continue(r, next) /\ UNCHANGED loans)
  <1>1. Idle \in InFlight /\ Idle.at = "idle"
    BY DEF InFlight, Idle
  <1>2. PICK sum \in InFlight : sum = [at |-> "sum"] /\ sum.at = "sum"
    <2> DEFINE sum == [at |-> "sum"]
    <2>1. sum \in [at : {"sum"}] /\ sum.at = "sum"
      OBVIOUS
    <2>2. sum \in InFlight
      BY <2>1, Zenon DEF InFlight
    <2> QED BY <2>1, <2>2
  <1>3. loans \in [Loans -> LoanRows]
    BY RowsAgree DEF IInv, TablesInv
  <1>4. ASSUME NEW l \in Loans, NEW p \in Principals, NEW rate \in Charges, NEW term \in Lengths,
               NEW e \in Emis, NEW past \in 0 .. MaxPast, CreateLoan(r, l, p, rate, term, e, past)
        PROVE  profile' = profile /\ Go(r, sum)
    BY <1>2, <1>4 DEF CreateLoan
  <1>5. ASSUME NEW l \in Loans, LoadLoan(r, l)
        PROVE  /\ profile' = profile
               /\ \E next \in InFlight : next.at = "loaded" /\ Continue(r, next) /\ UNCHANGED loans
    <2> DEFINE next == [at |-> "loaded", loan |-> l, row |-> loans[l]]
    <2>1. next \in InFlight /\ next.at = "loaded"
      BY <1>3 DEF InFlight
    <2>2. profile' = profile /\ Continue(r, next) /\ UNCHANGED loans
      BY <1>5 DEF LoadLoan
    <2> QED BY <2>1, <2>2
  <1>6. ASSUME LookForPayments(r)
        PROVE  /\ profile' = profile
               /\ \E next \in InFlight : next.at = "editing" /\ Continue(r, next) /\ UNCHANGED loans
    <2> DEFINE next == [at |-> "editing", loan |-> req[r].loan, row |-> req[r].row,
                        paid |-> rows[req[r].loan].count > 0]
    <2>1. req[r] \in [at : {"loaded"}, loan : Loans, row : LoanRows]
      BY <1>6 DEF LookForPayments, FlightInv, InFlight, Idle
    <2>2. next \in [at : {"editing"}, loan : Loans, row : LoanRows, paid : BOOLEAN]
      BY <2>1
    <2>3. profile' = profile /\ Continue(r, next) /\ UNCHANGED loans
      BY <1>6 DEF LookForPayments
    <2>4. next \in InFlight /\ next.at = "editing"
      BY <2>2 DEF InFlight
    <2> QED BY <2>3, <2>4
  <1>11. ASSUME ReadSchedule(r)
        PROVE  /\ profile' = profile
               /\ \E next \in InFlight : next.at = "scheduled" /\ Continue(r, next) /\ UNCHANGED loans
    <2> DEFINE next == [at |-> "scheduled", loan |-> req[r].loan, row |-> req[r].row,
                        recorded |-> rows[req[r].loan].count]
    <2>1. req[r] \in [at : {"editing"}, loan : Loans, row : LoanRows, paid : BOOLEAN]
      BY <1>11 DEF ReadSchedule, FlightInv, InFlight, Idle
    <2>2. next \in [at : {"scheduled"}, loan : Loans, row : LoanRows, recorded : Nat]
      BY <2>1 DEF IInv, TablesInv, Counts
    <2>3. profile' = profile /\ Continue(r, next) /\ UNCHANGED loans
      BY <1>11 DEF ReadSchedule
    <2>4. next \in InFlight /\ next.at = "scheduled"
      BY <2>2 DEF InFlight
    <2> QED BY <2>3, <2>4
  <1>7. ASSUME CommitEdit(r)
        PROVE  profile' = profile /\ (Go(r, sum) \/ (Continue(r, Idle) /\ UNCHANGED loans))
    BY <1>2, <1>7 DEF CommitEdit
  <1>8. ASSUME CommitDelete(r) PROVE profile' = profile /\ Go(r, sum)
    BY <1>2, <1>8 DEF CommitDelete
  <1>9. ASSUME NEW l \in Loans, NEW a \in Amounts, LoadForPayment(r, l, a)
        PROVE  /\ profile' = profile
               /\ \E next \in InFlight : next.at = "paying" /\ Continue(r, next) /\ UNCHANGED loans
    <2> DEFINE next == [at |-> "paying", loan |-> l, balance |-> loans[l].balance, rate |-> loans[l].rate,
                        amount |-> a]
    <2>1. next \in [at : {"paying"}, loan : Loans, balance : Nat, rate : Nat, amount : Amounts]
      BY <1>3 DEF LoanRows
    <2>3. next \in InFlight /\ next.at = "paying"
      BY <2>1 DEF InFlight
    <2>2. profile' = profile /\ Continue(r, next) /\ UNCHANGED loans
      BY <1>9 DEF LoadForPayment
    <2> QED BY <2>2, <2>3
  <1>10. ASSUME CommitPayment(r)
         PROVE  profile' = profile /\ (Go(r, Idle) \/ (Continue(r, Idle) /\ UNCHANGED loans))
    BY <1>10 DEF CommitPayment
  <1> QED BY <1>1, <1>2, <1>4, <1>5, <1>6, <1>7, <1>8, <1>9, <1>10, <1>11

(* A profile is written over with what a request has computed.             *)
LEMMA WrittenProfile ==
  ASSUME NEW current \in Profiles, NEW old \in Profiles, NEW new \in Profiles
  PROVE  /\ Written(current, old, new) \in Profiles
         /\ current = old => Written(current, old, new) = new
  <1> DEFINE w == Written(current, old, new)
  <1>1. DOMAIN current = {"exists", "income", "outgoings", "emi", "disposable"}
    BY DEF Profiles
  <1>2. /\ w.exists = IF new.exists # old.exists THEN new.exists ELSE current.exists
        /\ w.income = IF new.income # old.income THEN new.income ELSE current.income
        /\ w.outgoings = IF new.outgoings # old.outgoings THEN new.outgoings ELSE current.outgoings
        /\ w.emi = IF new.emi # old.emi THEN new.emi ELSE current.emi
        /\ w.disposable = IF new.disposable # old.disposable THEN new.disposable ELSE current.disposable
        /\ w = [exists |-> w.exists, income |-> w.income, outgoings |-> w.outgoings, emi |-> w.emi,
                disposable |-> w.disposable]
    BY <1>1 DEF Written
  <1> HIDE DEF w
  <1>3. w.exists \in BOOLEAN
    BY <1>2, Zenon DEF Profiles
  <1>4. w.income \in Nat /\ w.outgoings \in Nat /\ w.emi \in Nat /\ w.disposable \in Int
    BY <1>2 DEF Profiles
  <1>5. w \in Profiles
    BY <1>2, <1>3, <1>4 DEF Profiles
  <1>6. ASSUME current = old PROVE w = new
    <2>1. w.exists = new.exists /\ w.income = new.income /\ w.outgoings = new.outgoings /\ w.emi = new.emi
          /\ w.disposable = new.disposable
      BY <1>2, <1>6
    <2> QED BY <1>5, <2>1 DEF Profiles
  <1> QED BY <1>5, <1>6 DEF w

(* What StoreProfile makes of the copy it loaded. *)
Recomputation(old, total) == [old EXCEPT !.emi = total, !.disposable = Disposable(old, total)]

LEMMA Recomputed ==
  ASSUME NEW old \in Profiles, NEW total \in Nat
  PROVE  LET new == Recomputation(old, total)
         IN  /\ new \in Profiles
             /\ new.emi = total
             /\ new.income # 0 => new.disposable = new.income - new.outgoings - new.emi
  <1> DEFINE new == Recomputation(old, total)
  <1>1. old.income \in Nat /\ old.outgoings \in Nat /\ old.disposable \in Int
    BY DEF Profiles
  <1>2. PICK d : d = Disposable(old, total)
    OBVIOUS
  <1>3. d \in Int /\ (old.income # 0 => d = old.income - old.outgoings - total)
    BY <1>1, <1>2 DEF Disposable
  <1>4. new = [old EXCEPT !.emi = total, !.disposable = d]
    BY <1>2 DEF Recomputation
  <1> HIDE DEF new
  <1>5. new \in Profiles
    BY <1>3, <1>4 DEF Profiles
  <1>6. new.emi = total /\ new.disposable = d /\ new.income = old.income /\ new.outgoings = old.outgoings
    BY <1>4 DEF Profiles
  <1> QED BY <1>3, <1>5, <1>6 DEF new

LEMMA StoredProfile ==
  ASSUME FlightInv, NEW r \in Requests, StoreProfile(r)
  PROVE  /\ profile' \in Profiles
         /\ req[r].row = profile =>
              /\ profile'.emi = req[r].total
              /\ profile'.income # 0 => profile'.disposable = profile'.income - profile'.outgoings - profile'.emi
  <1>1. req[r] \in [at : {"store"}, alone : BOOLEAN, total : Nat, row : Profiles]
    BY DEF StoreProfile, FlightInv, InFlight, Idle
  <1>2. PICK old \in Profiles : old = req[r].row
    BY <1>1
  <1>3. PICK total \in Nat : total = req[r].total
    BY <1>1
  <1>4. PICK new : new = Recomputation(old, total)
    OBVIOUS
  <1>5. /\ new \in Profiles /\ new.emi = total
        /\ new.income # 0 => new.disposable = new.income - new.outgoings - new.emi
    BY <1>4, Recomputed
  <1>6. profile' = Written(profile, old, new)
    BY <1>2, <1>3, <1>4 DEF StoreProfile, Recomputation
  <1>7. profile' \in Profiles /\ (profile = old => profile' = new)
    BY <1>5, <1>6, WrittenProfile DEF FlightInv
  <1> QED BY <1>2, <1>3, <1>5, <1>7

LEMMA ProfileFlights ==
  ASSUME IInv, FlightInv, MemoInv, NEW r \in Requests,
         \/ SumEmis(r) \/ LoadProfile(r) \/ StoreProfile(r) \/ OpenProfile(r) \/ Fail(r)
         \/ LoadToEdit(r) \/ EditProfile(r)
  PROVE  FlightInv' /\ MemoInv'
  <1>1. Idle \in InFlight /\ Idle.at = "idle"
    BY DEF InFlight, Idle
  <1>2. profile \in Profiles /\ req \in [Requests -> InFlight]
    BY DEF FlightInv
  <1>3. CASE SumEmis(r)
    <2> DEFINE next == [at |-> "profile", alone |-> TRUE, total |-> ActiveEmi]
    <2>1. Continue(r, next) /\ UNCHANGED <<loans, profile>>
      BY <1>3 DEF SumEmis
    <2>2. ActiveEmi \in Nat
      BY SumsOfLoans DEF IInv, ActiveEmi, Active
    <2>3. next \in InFlight /\ next.at = "profile" /\ next.total = ActiveEmi
      BY <2>2 DEF InFlight
    <2>4. ActiveEmi' = ActiveEmi
      BY <2>1 DEF ActiveEmi, EmisOf, Active
    <2> HIDE DEF next
    <2>5. req'[r] = next
      BY <1>2, <2>1 DEF Continue
    <2>6. MemoTrue(req[r])'
      BY <2>3, <2>4, <2>5 DEF MemoTrue
    <2>7. FlightInv'
      BY <1>2, <2>1, <2>3, FlightStays DEF FlightInv
    <2> QED BY <2>1, <2>6, <2>7, MemosStay
  <1>4. CASE LoadProfile(r) /\ profile.exists
    <2> DEFINE next == [at |-> "store", alone |-> req[r].alone, total |-> req[r].total, row |-> profile]
    <2>1. Continue(r, next) /\ UNCHANGED <<loans, profile>> /\ req[r].at = "profile"
      BY <1>4 DEF LoadProfile
    <2>2. req[r] \in [at : {"profile"}, alone : BOOLEAN, total : Nat]
      BY <1>2, <2>1 DEF InFlight, Idle
    <2>3. next \in [at : {"store"}, alone : BOOLEAN, total : Nat, row : Profiles]
      BY <1>2, <2>2
    <2>4. next \in InFlight /\ next.at = "store" /\ next.total = req[r].total /\ next.alone = req[r].alone
          /\ next.row = profile
      BY <2>3 DEF InFlight
    <2>5. ActiveEmi' = ActiveEmi
      BY <2>1 DEF ActiveEmi, EmisOf, Active
    <2> HIDE DEF next
    <2>6. req'[r] = next
      BY <1>2, <2>1 DEF Continue
    <2>7. MemoTrue(req[r])
      BY DEF MemoInv
    <2>8. MemoTrue(req[r])'
      BY <2>1, <2>4, <2>5, <2>6, <2>7 DEF MemoTrue
    <2>9. FlightInv'
      BY <1>2, <2>1, <2>4, FlightStays DEF FlightInv
    <2> QED BY <2>1, <2>8, <2>9, MemosStay
  <1>5. ASSUME Go(r, Idle) \/ (Continue(r, Idle) /\ UNCHANGED <<loans, profile>>), profile' \in Profiles
        PROVE  FlightInv' /\ MemoInv'
    <2>1. req'[r] = Idle
      BY <1>2, <1>5 DEF Go, Continue
    <2>2. MemoTrue(req[r])'
      BY <1>1, <2>1 DEF MemoTrue
    <2>3. FlightInv'
      BY <1>1, <1>2, <1>5, FlightStays DEF FlightInv
    <2> QED BY <1>5, <2>2, <2>3, MemosStay
  <1>6. CASE LoadProfile(r) /\ ~profile.exists
    BY <1>2, <1>5, <1>6 DEF LoadProfile
  <1>7. CASE StoreProfile(r)
    <2>1. profile' \in Profiles
      BY <1>7, StoredProfile
    <2> QED BY <1>5, <1>7, <2>1 DEF StoreProfile
  <1>8. CASE OpenProfile(r)
    <2>1. profile' \in Profiles
      BY <1>2, <1>8 DEF OpenProfile, Profiles
    <2> QED BY <1>5, <1>8, <2>1 DEF OpenProfile
  <1>9. CASE Fail(r)
    BY <1>2, <1>5, <1>9 DEF Fail
  <1>10. CASE EditProfile(r)
    <2>1. req[r].income \in Nat /\ req[r].outgoings \in Nat
      <3>1. req[r] \in InFlight /\ req[r].at = "filling"
        BY <1>2, <1>10 DEF EditProfile
      <3> QED BY <3>1 DEF InFlight, Idle
    <2>2. CASE profile.exists /\ ~req[r].exists
      BY <1>2, <1>5, <1>10, <2>2 DEF EditProfile
    <2>3. CASE ~(profile.exists /\ ~req[r].exists)
      <3>1. PICK i \in Incomes \cup {req[r].income}, o \in Outgoings \cup {req[r].outgoings} :
              profile' = [profile EXCEPT !.exists = TRUE,
                            !.income = IF i # req[r].income THEN i ELSE @,
                            !.outgoings = IF o # req[r].outgoings THEN o ELSE @]
        BY <1>10, <2>3 DEF EditProfile
      <3>2. i \in Nat /\ o \in Nat
        BY <2>1, AmountsAssumption
      <3>3. profile' \in Profiles
        BY <1>2, <3>1, <3>2 DEF Profiles
      <3> QED BY <1>5, <1>10, <2>3, <3>3 DEF EditProfile
    <2> QED BY <2>2, <2>3
  <1>11. CASE LoadToEdit(r)
    <2> DEFINE next == [at |-> "filling", exists |-> profile.exists, income |-> profile.income,
                        outgoings |-> profile.outgoings]
    <2>1. Continue(r, next) /\ UNCHANGED <<loans, profile>>
      BY <1>11 DEF LoadToEdit
    <2>2. next \in [at : {"filling"}, exists : BOOLEAN, income : Nat, outgoings : Nat]
      BY <1>2 DEF Profiles
    <2>3. next \in InFlight /\ next.at = "filling"
      BY <2>2 DEF InFlight
    <2> HIDE DEF next
    <2>4. req'[r] = next
      BY <1>2, <2>1 DEF Continue
    <2>5. MemoTrue(req[r])'
      BY <2>3, <2>4 DEF MemoTrue
    <2>6. FlightInv'
      BY <1>2, <2>1, <2>3, FlightStays DEF FlightInv
    <2> QED BY <2>1, <2>5, <2>6, MemosStay
  <1> QED BY <1>3, <1>4, <1>6, <1>7, <1>8, <1>9, <1>10, <1>11

LEMMA MonthKeepsTotal == ASSUME IInv, MonthPasses PROVE ActiveEmi' = ActiveEmi
  <1>1. \A l \in Loans : loans'[l].status = loans[l].status /\ loans'[l].emi = loans[l].emi
    BY DEF MonthPasses, IInv, TablesInv, LedgerRows
  <1>2. Active' = Active
    BY <1>1 DEF Active
  <1>3. [l \in Active |-> loans[l].emi]' = [l \in Active |-> loans[l].emi]
    BY <1>1, <1>2 DEF Active
  <1> QED BY <1>3 DEF ActiveEmi, EmisOf

LEMMA ProfileInvStarts == Init => ProfileInv
  <1> SUFFICES ASSUME Init PROVE ProfileInv
    OBVIOUS
  <1>1. profile \in Profiles /\ req \in [Requests -> InFlight]
    BY DEF Init, Profiles, InFlight, Idle
  <1>2. MemoInv
    BY DEF Init, MemoInv, MemoTrue, Idle
  <1> QED BY <1>1, <1>2, InitHolds DEF ProfileInv, FlightInv

LEMMA ProfileInvNext == ProfileInv /\ [Next]_vars => FlightInv' /\ MemoInv'
  <1> SUFFICES ASSUME IInv, FlightInv, MemoInv, [Next]_vars PROVE FlightInv' /\ MemoInv'
    BY DEF ProfileInv
  <1>1. ASSUME UNCHANGED vars PROVE FlightInv' /\ MemoInv'
    <2>1. ActiveEmi' = ActiveEmi
      BY <1>1 DEF vars, ActiveEmi, EmisOf, Active
    <2> QED BY <1>1, <2>1 DEF vars, FlightInv, MemoInv, MemoTrue
  <1>2. ASSUME MonthPasses PROVE FlightInv' /\ MemoInv'
    <2>1. ActiveEmi' = ActiveEmi /\ UNCHANGED <<profile, req>>
      BY <1>2, MonthKeepsTotal DEF MonthPasses
    <2> QED BY <2>1 DEF FlightInv, MemoInv, MemoTrue
  <1>3. ASSUME NEW r \in Requests,
               \/ \E l \in Loans, p \in Principals, rate \in Charges, term \in Lengths, e \in Emis, past \in 0 .. MaxPast :
                    CreateLoan(r, l, p, rate, term, e, past)
               \/ \E l \in Loans : LoadLoan(r, l)
               \/ LookForPayments(r)
               \/ ReadSchedule(r)
               \/ CommitEdit(r)
               \/ CommitDelete(r)
               \/ \E l \in Loans, a \in Amounts : LoadForPayment(r, l, a)
               \/ CommitPayment(r)
        PROVE  FlightInv' /\ MemoInv'
    <2>1. profile' = profile
      BY <1>3, LoanFlights
    <2>2. PICK next \in InFlight :
            next.at \notin {"profile", "store"} /\ (Go(r, next) \/ (Continue(r, next) /\ UNCHANGED loans))
      BY <1>3, LoanFlights
    <2>3. FlightInv'
      BY <2>1, <2>2, FlightStays DEF FlightInv
    <2>4. req'[r] = next
      BY <2>2 DEF Go, Continue, FlightInv
    <2>5. MemoTrue(req[r])'
      BY <2>2, <2>4 DEF MemoTrue
    <2> QED BY <2>1, <2>2, <2>3, <2>5, MemosStay
  <1>4. ASSUME NEW r \in Requests,
               \/ SumEmis(r) \/ LoadProfile(r) \/ StoreProfile(r) \/ OpenProfile(r) \/ Fail(r)
               \/ LoadToEdit(r) \/ EditProfile(r)
        PROVE  FlightInv' /\ MemoInv'
    BY <1>4, ProfileFlights
  <1> QED BY <1>1, <1>2, <1>3, <1>4 DEF Next

LEMMA ProfileInvAlways == Spec => []ProfileInv
  <1>1. Init => FlightInv /\ MemoInv
    BY ProfileInvStarts DEF ProfileInv
  <1>2. IInv /\ FlightInv /\ MemoInv /\ [Next]_vars => FlightInv' /\ MemoInv'
    BY ProfileInvNext DEF ProfileInv
  <1>3. IInv /\ FlightInv /\ MemoInv => ProfileInv
    BY DEF ProfileInv
  <1> QED BY <1>1, <1>2, <1>3, LedgerInductive, PTL DEF Spec

(* update_from_loans sums, loads and stores in three steps; when nobody    *)
(* commits in between, the profile is left as the loans and its own        *)
(* columns say, for any number of loans.                                   *)
THEOREM UndisturbedRefreshIsExact == Spec => RefreshAlone
  <1>1. ProfileInv /\ ProfileInv' /\ [Next]_vars =>
          [\A r \in Requests :
             (req[r].at = "store" /\ req[r].alone /\ StoreProfile(r)) =>
               /\ profile'.emi = ActiveEmi
               /\ profile'.income # 0 => profile'.disposable = profile'.income - profile'.outgoings - profile'.emi]_vars
    <2> SUFFICES ASSUME ProfileInv, NEW r \in Requests, req[r].at = "store", req[r].alone, StoreProfile(r)
                 PROVE  /\ profile'.emi = ActiveEmi
                        /\ profile'.income # 0 =>
                             profile'.disposable = profile'.income - profile'.outgoings - profile'.emi
      OBVIOUS
    <2>1. req[r].total = ActiveEmi /\ req[r].row = profile
      BY DEF ProfileInv, MemoInv, MemoTrue
    <2> QED BY <2>1, StoredProfile DEF ProfileInv
  <1> QED BY <1>1, ProfileInvAlways, PTL DEF Spec, RefreshAlone

-----------------------------------------------------------------------------
(***************************************************************************)
(* Types, and what is shown of the rows: the totals of the analytics route *)
(* and of the assistant's tool are sums over sets of loans.                *)
(***************************************************************************)
LEMMA SumsOver ==
  ASSUME TablesInv, NEW L \in SUBSET Loans
  PROVE  /\ EmisOf(L) = SumFunctionOnSet([l \in Loans |-> loans[l].emi], L)
         /\ BalancesOf(L) = SumFunctionOnSet([l \in Loans |-> loans[l].balance], L)
         /\ IsFiniteSet(L)
  <1> DEFINE e == [l \in L |-> loans[l].emi]
             b == [l \in L |-> loans[l].balance]
             E == [l \in Loans |-> loans[l].emi]
             B == [l \in Loans |-> loans[l].balance]
  <1>1. IsFiniteSet(L)
    BY AmountsAssumption, FS_Subset
  <1>2. DOMAIN e = L /\ DOMAIN b = L /\ \A l \in L : e[l] = E[l] /\ b[l] = B[l]
    OBVIOUS
  <1>3. EmisOf(L) = SumFunctionOnSet(e, DOMAIN e) /\ BalancesOf(L) = SumFunctionOnSet(b, DOMAIN b)
    BY Zenon DEF EmisOf, BalancesOf, SumFunction
  <1> HIDE DEF e, b, E, B
  <1>4. EmisOf(L) = SumFunctionOnSet(e, L) /\ BalancesOf(L) = SumFunctionOnSet(b, L)
    BY <1>2, <1>3
  <1>5. EmisOf(L) = SumFunctionOnSet(E, L) /\ BalancesOf(L) = SumFunctionOnSet(B, L)
    BY <1>1, <1>2, <1>4, SumSame
  <1> QED BY <1>1, <1>5 DEF E, B

(* get_loan_analytics counts every loan, its fallback the active ones, and *)
(* the tool lists the loans that it adds up.                               *)
LEMMA TotalsFit == ASSUME TablesInv, profile \in Profiles PROVE Shown
  <1> DEFINE ls == {l \in Loans : Exists(l)}
             rest == ls \ Active
             E == [l \in Loans |-> loans[l].emi]
             B == [l \in Loans |-> loans[l].balance]
             name == [l \in Loans |-> [loan |-> l, status |-> loans[l].status, emi |-> loans[l].emi]]
             X == {x \in ToolLoans.listed : x.status # "active"}
             g == [x \in X |-> x.emi]
  <1>1. Active \in SUBSET ls /\ ls \in SUBSET Loans /\ rest \in SUBSET ls
        /\ ls = Active \cup rest /\ Active \cap rest = {}
    BY DEF Active, Exists
  <1>2. \A l \in Loans : E[l] \in Nat /\ B[l] \in Nat
    BY DEF TablesInv, LedgerRows
  <1>3. ToolLoans.listed = {name[l] : l \in ls}
    BY DEF ToolLoans
  <1>4. \A l \in Loans : name[l].loan = l /\ name[l].status = loans[l].status /\ name[l].emi = E[l]
    OBVIOUS
  <1>5. \A l \in ls : l \in rest <=> loans[l].status # "active"
    BY DEF Active
  <1> HIDE DEF name
  <1>6. X = {name[l] : l \in rest}
    BY <1>1, <1>3, <1>4, <1>5
  <1>7. DOMAIN g = X /\ \A l \in rest : g[name[l]] = E[l]
    BY <1>1, <1>4, <1>6
  <1>8. SumFunction(g) = SumFunctionOnSet(g, DOMAIN g)
    BY Zenon DEF SumFunction
  <1>9. /\ EmisOf(ls) = SumFunctionOnSet(E, ls) /\ EmisOf(Active) = SumFunctionOnSet(E, Active)
        /\ BalancesOf(ls) = SumFunctionOnSet(B, ls) /\ BalancesOf(Active) = SumFunctionOnSet(B, Active)
        /\ IsFiniteSet(ls) /\ IsFiniteSet(Active) /\ IsFiniteSet(rest)
    <2>1. Active \in SUBSET Loans /\ rest \in SUBSET Loans
      BY <1>1
    <2> QED BY <1>1, <2>1, SumsOver
  <1>10. ToolLoans.emi = EmisOf(ls) /\ Overview.emi = EmisOf(ls) /\ Overview.outstanding = BalancesOf(ls)
         /\ OverviewFallback.emi = EmisOf(Active) /\ OverviewFallback.outstanding = BalancesOf(Active)
         /\ ActiveEmi = EmisOf(Active)
    BY DEF ToolLoans, Overview, OverviewFallback, ActiveEmi
  <1> HIDE DEF ls, rest, E, B, X, g
  <1>11. SumFunctionOnSet(g, {name[l] : l \in rest}) = SumFunctionOnSet(E, rest)
    <2>1. \A l \in rest : E[l] \in Int /\ g[name[l]] = E[l]
      BY <1>1, <1>2, <1>7
    <2>2. \A x, y \in rest : name[x] = name[y] => x = y
      BY <1>1, <1>4
    <2> QED BY <1>9, <2>1, <2>2, SumRenamed
  <1>12. SumFunctionOnSet(E, ls) = SumFunctionOnSet(E, Active) + SumFunctionOnSet(E, rest)
    <2>1. \A l \in Active \cup rest : E[l] \in Int
      BY <1>1, <1>2
    <2> QED BY <1>1, <1>9, <2>1, SumUnion
  <1>13. SumFunctionOnSet(B, Active) <= SumFunctionOnSet(B, ls)
    <2>1. \A l \in ls : B[l] \in Nat
      BY <1>1, <1>2
    <2> QED BY <1>1, <1>9, <2>1, SumPart
  <1>14. SumFunctionOnSet(E, Active) \in Int /\ SumFunctionOnSet(E, rest) \in Int
         /\ SumFunctionOnSet(B, Active) \in Int /\ SumFunctionOnSet(B, ls) \in Int
    <2>1. \A l \in ls : E[l] \in Int /\ B[l] \in Int
      BY <1>1, <1>2
    <2> QED BY <1>1, <1>9, <2>1, SumInt
  <1>15. SumFunction(g) = SumFunctionOnSet(E, rest)
    BY <1>6, <1>7, <1>8, <1>11
  <1>16. ToolLoans.emi - ActiveEmi = SumFunction(g)
    BY <1>9, <1>10, <1>12, <1>14, <1>15
  <1>17. Overview.outstanding >= OverviewFallback.outstanding
    BY <1>9, <1>10, <1>13, <1>14
  <1>18. ToolProfile.disposable \in Int
    BY DEF ToolProfile, Profiles
  <1> QED BY <1>10, <1>16, <1>17, <1>18 DEF Shown, X, g

(* Rows, requests and the profile have their types, and the totals shown   *)
(* of them fit together, for any number of loans.                          *)
THEOREM LedgerTypeCorrect == Spec => []TypeOK
  <1>1. ProfileInv => TypeOK
    <2> SUFFICES ASSUME ProfileInv PROVE TypeOK
      OBVIOUS
    <2>1. TablesInv /\ profile \in Profiles /\ req \in [Requests -> InFlight]
      BY DEF ProfileInv, IInv, FlightInv
    <2> QED BY <2>1, TotalsFit, RowsAgree DEF TypeOK, TablesInv, Counts
  <1> QED BY <1>1, ProfileInvAlways, PTL

-----------------------------------------------------------------------------
(***************************************************************************)
(* The calculators.                                                        *)
(***************************************************************************)

(* Their arithmetic is the ledger's. *)
LEMMA SameArithmetic ==
  /\ \A a, b : Calculator!Most(a, b) = Most(a, b)
  /\ \A b, n : Calculator!Power(b, n) = Power(b, n)
  /\ \A P, r, n : Calculator!CalculateEmi(P, r, n) = CalculateEmi(P, r, n)
  /\ \A P, r, emi, n : Calculator!Schedule(P, r, emi, n) = Schedule(P, r, emi, n)
  <1>1. \A a, b : Calculator!Most(a, b) = Most(a, b)
    BY Zenon DEF Calculator!Most, Most
  <1>2. \A b, n : Calculator!Power(b, n) = Power(b, n)
    BY Zenon DEF Calculator!Power, Power
  <1>3. ASSUME NEW P, NEW r, NEW n PROVE Calculator!CalculateEmi(P, r, n) = CalculateEmi(P, r, n)
    <2>1. \A a, b : Calculator!Rounded(a, b) = Rounded(a, b)
      BY Zenon DEF Calculator!Rounded, Rounded
    <2> QED BY <1>2, <2>1, Zenon DEF Calculator!CalculateEmi, CalculateEmi
  <1>4. ASSUME NEW P, NEW r, NEW emi, NEW n PROVE Calculator!Schedule(P, r, emi, n) = Schedule(P, r, emi, n)
    BY Zenon DEF Calculator!Schedule, Schedule, Calculator!Least, Least, Calculator!Most, Most
  <1> QED BY <1>1, <1>2, <1>3, <1>4

(* A question is one that a client may ask. *)
LoanAsked == [kind : Calculator!LoanQuestions, loan : Calculator!LoanTerms]
DatesAsked == [kind : {"schedule dates"}, start : Dates, n : Terms]
LoansAsked == [kind : {"portfolio", "compare"}, loans : {{a, b} : a, b \in Calculator!LoanTerms}]

QuestionInv == question \in LoanAsked \/ question \in DatesAsked \/ question \in LoansAsked

LEMMA Asked ==
  ASSUME QuestionInv
  PROVE  /\ question.kind \in Calculator!LoanQuestions => question \in LoanAsked
         /\ question.kind = "schedule dates" => question \in DatesAsked
         /\ question.kind = "portfolio" => question \in LoansAsked
  <1>1. question \in LoanAsked => question.kind \in Calculator!LoanQuestions
    BY DEF LoanAsked
  <1>2. question \in DatesAsked => question.kind = "schedule dates"
    BY DEF DatesAsked
  <1>3. question \in LoansAsked => question.kind \in {"portfolio", "compare"}
    BY DEF LoansAsked
  <1>4. "schedule dates" \notin Calculator!LoanQuestions /\ "portfolio" \notin Calculator!LoanQuestions
        /\ "compare" \notin Calculator!LoanQuestions /\ "schedule dates" \notin {"portfolio", "compare"}
    BY DEF Calculator!LoanQuestions
  <1> QED BY <1>1, <1>2, <1>3, <1>4 DEF QuestionInv

LEMMA TermsOf ==
  ASSUME NEW l \in Calculator!LoanTerms
  PROVE  l.P \in Nat \ {0} /\ l.r \in Nat /\ l.n \in Nat \ {0} /\ l.emi \in Nat
  BY CalculatorAssumption DEF Calculator!CalculatorAssumption, Calculator!LoanTerms

LEMMA LoanOf ==
  ASSUME QuestionInv, question.kind \in Calculator!LoanQuestions
  PROVE  question.loan \in Calculator!LoanTerms
  BY Asked DEF LoanAsked

LEMMA DateOf ==
  ASSUME QuestionInv, question.kind = "schedule dates"
  PROVE  question.start \in [y : Nat, m : 1 .. 12, d : Nat] /\ question.n \in Nat \ {0}
  <1>1. question.start \in Dates /\ question.n \in Terms
    BY Asked DEF DatesAsked
  <1> QED BY <1>1, CalculatorAssumption DEF Calculator!CalculatorAssumption

LEMMA LoansOf ==
  ASSUME QuestionInv, question.kind = "portfolio"
  PROVE  \E a, b \in Calculator!LoanTerms : question.loans = {a, b}
  BY Asked DEF LoansAsked

(* Only the action that is asked for answers. *)
LEMMA AnswerOfKind ==
  ASSUME Calculator!Next
  PROVE  /\ question' = question
         /\ question.kind = "summary" => Calculator!GetSummary
         /\ question.kind = "payment" => Calculator!SplitPayment
         /\ question.kind = "schedule dates" => Calculator!GetScheduleDates
         /\ question.kind = "portfolio" => Calculator!ComprehensiveAnalysis
  BY DEF Calculator!Next, Calculator!Answer, Calculator!CalculateEmiImpact, Calculator!AnalyzePrepayment,
     Calculator!GetSummary, Calculator!SplitPayment, Calculator!GetScheduleDates, Calculator!CalculateEmiRoute,
     Calculator!CompareLoans, Calculator!PrepayInMonth, Calculator!ComprehensiveAnalysis

LEMMA SummarySound ==
  ASSUME QuestionInv, Calculator!Next
  PROVE  question.kind = "summary" => Calculator!ScheduleAmortises'
  <1> SUFFICES ASSUME question.kind = "summary" PROVE Calculator!ScheduleAmortises'
    OBVIOUS
  <1>1. PICK l \in Calculator!LoanTerms : l = question.loan
    BY LoanOf DEF Calculator!LoanQuestions
  <1>2. l.P \in Nat \ {0} /\ l.r \in Nat /\ l.n \in Nat \ {0}
    BY TermsOf
  <1> DEFINE emi == CalculateEmi(l.P, l.r, l.n)
             s == Schedule(l.P, l.r, emi, l.n)
  <1>3. answer'.value.schedule = s /\ question' = question
    BY <1>1, AnswerOfKind, SameArithmetic DEF Calculator!GetSummary, Calculator!Answer
  <1>4. emi \in Nat
    BY <1>2, EmiIs
  <1>5. PICK m : m = Len(s) /\ Shows(s, Debt(l.P, l.r, emi, l.n), l.n, m)
    <2> HIDE DEF emi
    <2> QED BY <1>2, <1>4, ScheduleFacts
  <1>6. m <= l.n /\ (m = l.n \/ s[m] = 0)
    <2> HIDE DEF s, emi
    <2> QED BY <1>2, <1>5 DEF Shows
  <1>7. IF l.r = 0 THEN 2 * s[m] < l.n * Unit
        ELSE 2 * l.r * Power(Unit, l.n) * s[m] < Unit * Unit * (Power(Unit + l.r, l.n) - Power(Unit, l.n))
    BY <1>2, <1>5, LittleIsLeft
  <1>8. ASSUME NEW k \in 1 .. m PROVE s[k] = Most(0, Calculator!LeftAfter(l.P, l.r, emi, k))
    <2>1. k \in 1 .. Len(Schedule(l.P, l.r, emi, l.n))
      BY <1>5
    <2> HIDE DEF emi
    <2>2. PICK P \in Nat, r \in Nat, n \in Nat \ {0} : P = l.P /\ r = l.r /\ n = l.n
      BY <1>2
    <2>3. k \in 1 .. Len(Schedule(P, r, emi, n))
      BY <2>1, <2>2
    <2>4. Schedule(P, r, emi, n)[k] = Most(0, Calculator!LeftAfter(P, r, emi, k))
      BY <1>4, <2>3, ScheduleIsOwed
    <2> QED BY <2>2, <2>4
  <1> HIDE DEF s, emi
  <1>9. Calculator!CalculateEmi(l.P, l.r, l.n) = emi
    BY SameArithmetic DEF emi
  <1> QED BY <1>1, <1>3, <1>5, <1>6, <1>7, <1>8, <1>9, SameArithmetic DEF Calculator!ScheduleAmortises

LEMMA SummaryShown ==
  ASSUME QuestionInv, Calculator!Next
  PROVE  question.kind = "summary" => Calculator!SummariesFollow'
  <1> SUFFICES ASSUME question.kind = "summary" PROVE Calculator!SummariesFollow'
    OBVIOUS
  <1>1. PICK l \in Calculator!LoanTerms : l = question.loan
    BY LoanOf DEF Calculator!LoanQuestions
  <1>2. l.P \in Nat \ {0} /\ l.r \in Nat /\ l.n \in Nat \ {0}
    BY TermsOf
  <1> DEFINE emi == CalculateEmi(l.P, l.r, l.n)
             s == Schedule(l.P, l.r, emi, l.n)
             shown == [past \in 0 .. Len(s) |-> Calculator!SummaryBalanceF(s, past)]
             split == [past \in 0 .. Len(s) |-> Calculator!SplitSummaryBalanceF(s, past, l.P)]
  <1>3. answer'.value = [schedule |-> s, shown |-> shown, split |-> split] /\ question' = question
    <2>1. Calculator!SplitSchedule(l) = s
      BY SameArithmetic DEF Calculator!SplitSchedule
    <2> QED BY <1>1, <2>1, AnswerOfKind, SameArithmetic DEF Calculator!GetSummary, Calculator!Answer
  <1>4. emi \in Nat
    BY <1>2, EmiIs
  <1>5. PICK m \in Nat \ {0} : m = Len(s)
    <2> HIDE DEF emi
    <2>1. PICK m : m = Len(s) /\ Shows(s, Debt(l.P, l.r, emi, l.n), l.n, m)
      BY <1>2, <1>4, ScheduleFacts
    <2>2. m \in Nat \ {0}
      BY <1>2, <2>1 DEF Shows
    <2> QED BY <2>1, <2>2
  <1> HIDE DEF s, emi
  <1>6. ASSUME NEW past \in 1 .. m PROVE shown[past] = s[past] /\ split[past] = s[past]
    <2>1. past \in 0 .. m /\ past > 0 /\ (~(past < m) => past = m)
      BY <1>6
    <2>2. shown[past] = Calculator!SummaryBalanceF(s, past)
          /\ split[past] = Calculator!SplitSummaryBalanceF(s, past, l.P)
      BY <1>5, <2>1
    <2>3. Calculator!SummaryBalanceF(s, past) = s[past]
      BY <1>5, <2>1 DEF Calculator!SummaryBalanceF
    <2>4. Calculator!SplitSummaryBalanceF(s, past, l.P) = s[past]
      BY <2>1 DEF Calculator!SplitSummaryBalanceF
    <2> QED BY <2>2, <2>3, <2>4
  <1>7. shown[0] = s[m] /\ split[0] = l.P * Unit
    <2>1. 0 \in 0 .. m
      BY <1>5
    <2>2. shown[0] = Calculator!SummaryBalanceF(s, 0) /\ split[0] = Calculator!SplitSummaryBalanceF(s, 0, l.P)
      BY <1>5, <2>1
    <2> QED BY <1>5, <2>2 DEF Calculator!SummaryBalanceF, Calculator!SplitSummaryBalanceF
  <1> HIDE DEF shown, split
  <1>8. answer'.value.schedule = s /\ answer'.value.shown = shown /\ answer'.value.split = split
    BY <1>3
  <1> QED BY <1>1, <1>3, <1>5, <1>6, <1>7, <1>8 DEF Calculator!SummariesFollow

LEMMA PaymentSound ==
  ASSUME QuestionInv, Calculator!Next
  PROVE  question.kind = "payment" => Calculator!PaymentServicesAgree'
  <1> SUFFICES ASSUME question.kind = "payment" PROVE Calculator!PaymentServicesAgree'
    OBVIOUS
  <1>1. PICK l \in Calculator!LoanTerms : l = question.loan
    BY LoanOf DEF Calculator!LoanQuestions
  <1>2. l.P \in Nat /\ l.r \in Nat /\ Unit \in Nat
    BY TermsOf, UnitAssumption
  <1> DEFINE v == [amount \in 1 .. l.P + 2 |->
                     [now |-> Calculator!PaymentSplit(l.P, l.r, amount),
                      split |-> Calculator!SplitPaymentSplit(l.P, l.r, amount)]]
  <1>3. answer'.value = v
    BY <1>1, AnswerOfKind DEF Calculator!SplitPayment, Calculator!Answer
  <1>4. ASSUME NEW amount \in 1 .. l.P + 2
        PROVE  LET a == v[amount].now  b == v[amount].split IN
               /\ a.left = b.left
               /\ a.principal = b.principal
               /\ a.principal + a.interest = amount * Unit
               /\ b.interest >= a.interest
    <2> DEFINE due == l.P * l.r
               paid == amount * Unit
               whole == l.P * Unit
    <2>1. due \in Nat /\ paid \in Nat /\ whole \in Nat
      BY <1>2
    <2>2. v[amount].now = Calculator!PaymentSplit(l.P, l.r, amount)
          /\ v[amount].split = Calculator!SplitPaymentSplit(l.P, l.r, amount)
      OBVIOUS
    <2> HIDE DEF v
    <2>3. v[amount].now = [principal |-> Calculator!Most(0, paid - due),
                           interest |-> IF paid < due THEN paid ELSE due,
                           left |-> Calculator!Most(0, whole - Calculator!Most(0, paid - due))]
      BY <2>2, Zenon DEF Calculator!PaymentSplit
    <2>4. v[amount].split = [principal |-> Calculator!Most(0, paid - due),
                             interest |-> due,
                             left |-> Calculator!Most(0, whole - Calculator!Most(0, paid - due))]
      BY <2>2, Zenon DEF Calculator!SplitPaymentSplit
    <2> HIDE DEF due, paid, whole
    <2>5. Calculator!Most(0, paid - due) + (IF paid < due THEN paid ELSE due) = paid
          /\ due >= (IF paid < due THEN paid ELSE due)
      BY <2>1 DEF Calculator!Most
    <2> QED BY <2>3, <2>4, <2>5 DEF paid
  <1>5. DOMAIN v = 1 .. l.P + 2
    OBVIOUS
  <1> HIDE DEF v
  <1> QED BY <1>3, <1>4, <1>5 DEF Calculator!PaymentServicesAgree

(* The least of a set is what is in it and at most everything in it. *)
LEMMA LeastOf ==
  ASSUME NEW S, S \subseteq Int, NEW m \in S, \A x \in S : m <= x
  PROVE  Calculator!Min(S) = m
  <1> DEFINE c == Calculator!Min(S)
  <1>1. \E x \in S : \A y \in S : x =< y
    OBVIOUS
  <1>2. c \in S /\ \A y \in S : c =< y
    BY <1>1, Zenon DEF Calculator!Min
  <1> HIDE DEF c
  <1>3. c \in Int /\ m \in Int /\ c <= m /\ m <= c
    BY <1>2
  <1>4. c = m
    BY <1>3
  <1> QED BY <1>4 DEF c

LEMMA GreatestOf ==
  ASSUME NEW S, S \subseteq Int, NEW m \in S, \A x \in S : x <= m
  PROVE  Calculator!Max(S) = m
  <1> DEFINE c == Calculator!Max(S)
  <1>1. \E x \in S : \A y \in S : x >= y
    OBVIOUS
  <1>2. c \in S /\ \A y \in S : c >= y
    BY <1>1, Zenon DEF Calculator!Max
  <1> HIDE DEF c
  <1>3. c \in Int /\ m \in Int /\ c <= m /\ m <= c
    BY <1>2
  <1>4. c = m
    BY <1>3
  <1> QED BY <1>4 DEF c

(* Due dates *)
Days == [y : Nat, m : 1 .. 12, d : Nat]
IsDue(f, start, n) == f = [k \in 0 .. n |-> IF k = 0 THEN start ELSE Calculator!NextDueDate(f[k - 1])]
Due(start, n) == CHOOSE f : IsDue(f, start, n)

LEMMA DueDatesAre ==
  ASSUME NEW start, NEW n
  PROVE  Calculator!DueDates(start, n) = [k \in 1 .. n |-> Due(start, n)[k]]
  BY Zenon DEF Calculator!DueDates, IsDue, Due

LEMMA NextDay ==
  ASSUME NEW x \in Days
  PROVE  LET z == Calculator!NextDueDate(x) IN
         /\ z \in Days
         /\ z.y * 12 + z.m - 1 = x.y * 12 + x.m
         /\ z.d = Calculator!Least(x.d, Calculator!DaysIn(z.y, z.m))
  <1> DEFINE y == IF x.m = 12 THEN x.y + 1 ELSE x.y
             m == IF x.m = 12 THEN 1 ELSE x.m + 1
             d == Calculator!Least(x.d, Calculator!DaysIn(y, m))
  <1>1. Calculator!NextDueDate(x) = [y |-> y, m |-> m, d |-> d]
    BY Zenon DEF Calculator!NextDueDate
  <1>2. x.y \in Nat /\ x.m \in 1 .. 12 /\ x.d \in Nat
    BY DEF Days
  <1>3. y \in Nat /\ m \in 1 .. 12 /\ y * 12 + m - 1 = x.y * 12 + x.m
    BY <1>2
  <1> HIDE DEF y, m
  <1>4. Calculator!DaysIn(y, m) \in Nat
    BY DEF Calculator!DaysIn
  <1>5. d \in Nat
    BY <1>2, <1>4 DEF Calculator!Least
  <1>6. d = Calculator!Least(x.d, Calculator!DaysIn(y, m))
    OBVIOUS
  <1> HIDE DEF d
  <1> QED BY <1>1, <1>3, <1>5, <1>6 DEF Days

LEMMA DueRuns ==
  ASSUME NEW start \in Days, NEW n \in Nat
  PROVE  IsDue(Due(start, n), start, n)
  <1> DEFINE h == [x \in Days |-> Calculator!NextDueDate(x)]
  <1>1. \A x \in Days : Calculator!NextDueDate(x) \in Days
    BY NextDay
  <1>2. h \in [Days -> Days] /\ \A x \in Days : h[x] = Calculator!NextDueDate(x)
    BY <1>1
  <1> HIDE DEF h
  <1>3. PICK g \in [0 .. n -> Days] : Runs(g, start, h, n)
    BY <1>2, RecursionExists
  <1>4. IsDue(g, start, n)
    <2>1. g[0] = start
      BY <1>3 DEF Runs
    <2>2. ASSUME NEW k \in 1 .. n PROVE g[k] = Calculator!NextDueDate(g[k - 1])
      <3>1. g[k - 1] \in Days /\ g[k] = h[g[k - 1]]
        BY <1>3 DEF Runs
      <3> QED BY <1>2, <3>1
    <2> QED BY <1>3, <2>1, <2>2 DEF IsDue
  <1> QED BY <1>4, Zenon DEF Due

(* A month is found again in its number. *)
LEMMA MonthAndYear ==
  ASSUME NEW y \in Nat, NEW m \in 1 .. 12
  PROVE  (y * 12 + m - 1) \div 12 = y /\ ((y * 12 + m - 1) % 12) + 1 = m
  OBVIOUS

(* The k-th month after a start, its length, the days to choose from. *)
MonthNo(s, k) == s.y * 12 + s.m - 1 + k
LengthNo(s, k) == Calculator!DaysIn(MonthNo(s, k) \div 12, (MonthNo(s, k) % 12) + 1)
Choice(s, k) == {s.d} \cup {LengthNo(s, j) : j \in 1 .. k}
DueIn(x, s, k) == x.y * 12 + x.m - 1 = MonthNo(s, k) /\ x.d \in Choice(s, k) /\ \A b \in Choice(s, k) : x.d <= b

LEMMA LengthIs == ASSUME NEW s, NEW k PROVE LengthNo(s, k) \in Nat
  BY DEF LengthNo, Calculator!DaysIn

LEMMA ChoiceIs ==
  ASSUME NEW s \in Days, NEW k \in Nat
  PROVE  /\ Choice(s, k) \subseteq Nat
         /\ Choice(s, 0) = {s.d}
         /\ k > 0 => Choice(s, k) = Choice(s, k - 1) \cup {LengthNo(s, k)}
  <1>1. s.d \in Nat
    BY DEF Days
  <1>2. Choice(s, k) \subseteq Nat
    BY <1>1, LengthIs DEF Choice
  <1>3. Choice(s, 0) = {s.d}
    <2>1. 1 .. 0 = {}
      OBVIOUS
    <2> QED BY <2>1 DEF Choice
  <1>4. ASSUME k > 0 PROVE Choice(s, k) = Choice(s, k - 1) \cup {LengthNo(s, k)}
    <2>1. 1 .. k = (1 .. k - 1) \cup {k}
      BY <1>4
    <2> QED BY <2>1 DEF Choice
  <1> QED BY <1>2, <1>3, <1>4

LEMMA NextIsDue ==
  ASSUME NEW s \in Days, NEW k \in Nat \ {0}, NEW x \in Days, DueIn(x, s, k - 1)
  PROVE  DueIn(Calculator!NextDueDate(x), s, k)
  <1> DEFINE z == Calculator!NextDueDate(x)
             c == MonthNo(s, k)
             S == Choice(s, k - 1)
             T == Choice(s, k)
             e == LengthNo(s, k)
  <1>1. z \in Days /\ z.y * 12 + z.m - 1 = x.y * 12 + x.m /\ z.d = Calculator!Least(x.d, Calculator!DaysIn(z.y, z.m))
    BY NextDay
  <1> HIDE DEF z
  <1>2. z.y \in Nat /\ z.m \in 1 .. 12 /\ z.d \in Nat /\ x.y \in Nat /\ x.m \in 1 .. 12 /\ x.d \in Nat
        /\ s.y \in Nat /\ s.m \in 1 .. 12
    BY <1>1 DEF Days
  <1>3. x.y * 12 + x.m = c
    <2>1. x.y * 12 + x.m - 1 = s.y * 12 + s.m - 1 + (k - 1)
      BY DEF DueIn, MonthNo
    <2>2. PICK a \in Int, b \in Int : a = x.y * 12 + x.m /\ b = s.y * 12 + s.m
      BY <1>2
    <2>3. a - 1 = b - 1 + (k - 1)
      BY <1>2, <2>1, <2>2
    <2>4. a = b - 1 + k
      BY <2>2, <2>3
    <2> QED BY <1>2, <2>2, <2>4 DEF MonthNo
  <1>4. e = Calculator!DaysIn(c \div 12, (c % 12) + 1)
    BY DEF LengthNo
  <1> HIDE DEF c
  <1>5. c = z.y * 12 + z.m - 1
    BY <1>1, <1>3
  <1>6. c \div 12 = z.y /\ (c % 12) + 1 = z.m
    <2>1. PICK y \in Nat, m \in 1 .. 12 : y = z.y /\ m = z.m
      BY <1>2
    <2>2. c = y * 12 + m - 1
      BY <1>5, <2>1
    <2>3. (y * 12 + m - 1) \div 12 = y /\ ((y * 12 + m - 1) % 12) + 1 = m
      BY <2>1, MonthAndYear
    <2> QED BY <2>1, <2>2, <2>3
  <1>7. z.d = Calculator!Least(x.d, e)
    BY <1>1, <1>4, <1>6
  <1>8. T = S \cup {e} /\ T \subseteq Nat /\ S \subseteq Nat
    BY ChoiceIs
  <1>9. x.d \in S /\ \A b \in S : x.d <= b
    BY DEF DueIn
  <1>10. e \in Nat
    BY LengthIs
  <1> HIDE DEF S, T, e
  <1>11. z.d \in T /\ \A b \in T : z.d <= b
    BY <1>2, <1>7, <1>8, <1>9, <1>10 DEF Calculator!Least
  <1> QED BY <1>5, <1>11 DEF DueIn, T, c, z

LEMMA DueByMonth ==
  ASSUME NEW s \in Days, NEW n \in Nat, NEW k \in 1 .. n
  PROVE  Due(s, n)[k] \in Days /\ DueIn(Due(s, n)[k], s, k)
  <1> DEFINE f == Due(s, n)
             C == {j \in 0 .. n : f[j] \in Days /\ DueIn(f[j], s, j)}
  <1>1. IsDue(f, s, n)
    BY DueRuns
  <1> HIDE DEF f
  <1>2. f[0] = s /\ \A j \in 1 .. n : f[j] = Calculator!NextDueDate(f[j - 1])
    BY <1>1 DEF IsDue
  <1>3. 0 \in C
    <2>1. s.y \in Nat /\ s.m \in 1 .. 12 /\ s.d \in Nat
      BY DEF Days
    <2>2. Choice(s, 0) = {s.d}
      BY ChoiceIs
    <2>3. DueIn(s, s, 0)
      BY <2>1, <2>2 DEF DueIn, MonthNo
    <2> QED BY <1>2, <2>3
  <1>4. ASSUME NEW j \in 1 .. n, j - 1 \in C PROVE j \in C
    <2>1. PICK x \in Days : x = f[j - 1]
      BY <1>4
    <2>2. DueIn(x, s, j - 1) /\ f[j] = Calculator!NextDueDate(x)
      BY <1>2, <1>4, <2>1
    <2>3. DueIn(f[j], s, j)
      BY <2>2, NextIsDue
    <2>4. f[j] \in Days
      BY <2>2, NextDay
    <2> QED BY <2>3, <2>4
  <1> HIDE DEF C
  <1>5. \A j \in 0 .. n : j \in C
    BY <1>3, <1>4, UpToInduction
  <1>6. k \in C
    BY <1>5
  <1> QED BY <1>6 DEF C, f

(* Dates v are those of n months after a start. *)
DatesFit(v, s, n) ==
  \A k \in 1 .. n : v[k].y * 12 + v[k].m - 1 = MonthNo(s, k) /\ v[k].d = Calculator!Min(Choice(s, k))

LEMMA DueDatesFit ==
  ASSUME NEW s \in Days, NEW n \in Nat
  PROVE  DatesFit(Calculator!DueDates(s, n), s, n)
  <1> DEFINE v == Calculator!DueDates(s, n)
  <1>1. v = [k \in 1 .. n |-> Due(s, n)[k]]
    BY DueDatesAre, Zenon
  <1> HIDE DEF v
  <1>2. ASSUME NEW k \in 1 .. n
        PROVE  v[k].y * 12 + v[k].m - 1 = MonthNo(s, k) /\ v[k].d = Calculator!Min(Choice(s, k))
    <2> DEFINE x == Due(s, n)[k]
               S == Choice(s, k)
    <2>1. v[k] = x
      BY <1>1
    <2>2. DueIn(x, s, k)
      BY DueByMonth
    <2>3. k \in Nat
      OBVIOUS
    <2>4. S \subseteq Nat
      BY <2>3, ChoiceIs
    <2>5. x.y * 12 + x.m - 1 = MonthNo(s, k) /\ x.d \in S /\ \A b \in S : x.d <= b
      BY <2>2 DEF DueIn
    <2> HIDE DEF x, S
    <2>6. x.d = Calculator!Min(S)
      <3>1. S \subseteq Int
        BY <2>4
      <3> QED BY <2>5, <3>1, LeastOf
    <2> QED BY <2>1, <2>5, <2>6 DEF S
  <1> QED BY <1>2 DEF DatesFit, v

LEMMA DatesMean ==
  Calculator!DueDatesByMonth
    <=> (Calculator!Answered("schedule dates") => DatesFit(answer.value, question.start, question.n))
  BY Zenon DEF DatesFit, Choice, LengthNo, MonthNo, Calculator!DueDatesByMonth

LEMMA DatesSound ==
  ASSUME QuestionInv, Calculator!Next
  PROVE  question.kind = "schedule dates" => Calculator!DueDatesByMonth'
  <1> SUFFICES ASSUME question.kind = "schedule dates" PROVE Calculator!DueDatesByMonth'
    OBVIOUS
  <1>1. question.start \in Days /\ question.n \in Nat \ {0}
    BY DateOf DEF Days
  <1>2. Calculator!GetScheduleDates /\ question' = question
    BY AnswerOfKind
  <1>3. answer' = [kind |-> "schedule dates", value |-> Calculator!DueDates(question.start, question.n)]
    BY <1>2 DEF Calculator!GetScheduleDates, Calculator!Answer
  <1>4. answer'.value = Calculator!DueDates(question.start, question.n)
    BY <1>3
  <1>5. DatesFit(Calculator!DueDates(question.start, question.n), question.start, question.n)
    BY <1>1, DueDatesFit
  <1>6. DatesFit(answer'.value, question'.start, question'.n)
    BY <1>2, <1>4, <1>5, Zenon
  <1>7. (Calculator!DueDatesByMonth
          <=> (Calculator!Answered("schedule dates") => DatesFit(answer.value, question.start, question.n)))'
    BY DatesMean, PTL
  <1> QED BY <1>6, <1>7

-----------------------------------------------------------------------------
(* Portfolios *)

LEMMA RoundedBetween ==
  ASSUME NEW x \in Int, NEW t \in Nat \ {0}, NEW lo \in Int, NEW hi \in Int, lo * t <= x, x <= hi * t
  PROVE  lo <= Calculator!Rounded(x, t) /\ Calculator!Rounded(x, t) <= hi
  <1> DEFINE u == 2 * t
             a == 2 * x + t
             q == Calculator!Rounded(x, t)
  <1>1. a \in Int /\ u \in Nat /\ u > 0 /\ q = a \div u
    BY DEF Calculator!Rounded
  <1> HIDE DEF a, u, q
  <1>2. q \in Int /\ u * q <= a /\ a < u * q + u
    BY <1>1
  <1>3. u * q = 2 * (t * q) /\ t * q \in Int
    BY <1>2 DEF u
  <1>4. lo * t \in Int /\ hi * t \in Int
    OBVIOUS
  <1>5. ASSUME q < lo PROVE FALSE
    <2>1. t * q + t <= lo * t
      <3>1. PICK d \in Nat : lo = q + 1 + d
        <4>1. lo - q - 1 \in Nat /\ lo = q + 1 + (lo - q - 1)
          BY <1>2, <1>5
        <4> QED BY <4>1
      <3>2. (q + 1 + d) * t = t * q + t + d * t /\ d * t \in Nat
        BY <1>2, <3>1
      <3> QED BY <1>3, <3>1, <3>2
    <2> QED BY <1>1, <1>2, <1>3, <1>4, <2>1 DEF a, u
  <1>6. ASSUME q > hi PROVE FALSE
    <2>1. hi * t + t <= t * q
      <3>1. PICK d \in Nat : q = hi + 1 + d
        <4>1. q - hi - 1 \in Nat /\ q = hi + 1 + (q - hi - 1)
          BY <1>2, <1>6
        <4> QED BY <4>1
      <3>2. t * (hi + 1 + d) = hi * t + t + d * t /\ d * t \in Nat
        BY <3>1
      <3> QED BY <1>4, <3>1, <3>2
    <2> QED BY <1>1, <1>2, <1>3, <1>4, <2>1 DEF a, u
  <1>7. lo <= q /\ q <= hi
    BY <1>2, <1>5, <1>6
  <1> QED BY <1>7 DEF q

LEMMA AverageIs ==
  ASSUME NEW f, NEW g, DOMAIN g = DOMAIN f
  PROVE  LET w == [x \in DOMAIN f |-> f[x] * g[x]] IN
         Calculator!WeightedAverageRate(f, g)
           = IF SumFunctionOnSet(f, DOMAIN f) = 0 THEN 0
             ELSE Calculator!Rounded(100 * SumFunctionOnSet(w, DOMAIN f), SumFunctionOnSet(f, DOMAIN f))
  <1> DEFINE w == [x \in DOMAIN f |-> f[x] * g[x]]
  <1>1. ASSUME NEW h PROVE Calculator!SumFunction(h) = SumFunctionOnSet(h, DOMAIN h)
    BY DEF Calculator!SumFunction, Calculator!SumFunctionOnSet, SumFunctionOnSet,
           Calculator!FoldFunctionOnSet, FoldFunctionOnSet, Calculator!MapThenFoldSet, MapThenFoldSet
  <1>2. DOMAIN w = DOMAIN f
    OBVIOUS
  <1>3. Calculator!SumFunction(f) = SumFunctionOnSet(f, DOMAIN f)
        /\ Calculator!SumFunction(w) = SumFunctionOnSet(w, DOMAIN f)
    BY <1>1, <1>2
  <1>4. Calculator!WeightedAverageRate(f, g)
           = IF Calculator!SumFunction(f) = 0 THEN 0
             ELSE Calculator!Rounded(100 * Calculator!SumFunction(w), Calculator!SumFunction(f))
    BY Zenon DEF Calculator!WeightedAverageRate
  <1> QED BY <1>3, <1>4

LEMMA AverageBetween ==
  ASSUME NEW S, IsFiniteSet(S), S # {}, NEW f, NEW g, DOMAIN f = S, DOMAIN g = S,
         \A x \in S : f[x] \in Nat \ {0} /\ g[x] \in Nat,
         NEW lo \in Nat, NEW hi \in Nat, \A x \in S : lo <= g[x] /\ g[x] <= hi
  PROVE  LET a == Calculator!WeightedAverageRate(f, g) IN 100 * lo <= a /\ a <= 100 * hi
  <1> DEFINE w == [x \in S |-> f[x] * g[x]]
             T == SumFunctionOnSet(f, S)
             W == SumFunctionOnSet(w, S)
  <1>1. \A x \in S : w[x] = f[x] * g[x]
    OBVIOUS
  <1> HIDE DEF w
  <1>2. ASSUME NEW x \in S PROVE w[x] \in Int /\ lo * f[x] <= w[x] /\ w[x] <= hi * f[x]
    <2>1. PICK p \in Nat \ {0}, q \in Nat : p = f[x] /\ q = g[x]
      OBVIOUS
    <2>2. lo <= q /\ q <= hi
      BY <2>1
    <2>3. PICK d \in Nat, e \in Nat : q = lo + d /\ hi = q + e
      <3>1. q - lo \in Nat /\ hi - q \in Nat /\ q = lo + (q - lo) /\ hi = q + (hi - q)
        BY <2>1, <2>2
      <3> QED BY <3>1
    <2>4. p * (lo + d) = lo * p + p * d /\ (q + e) * p = p * q + e * p /\ p * d \in Nat /\ e * p \in Nat
          /\ p * q \in Nat /\ lo * p \in Nat
      BY <2>1, <2>3
    <2>5. w[x] = p * q
      BY <1>1, <2>1
    <2>6. p * q = lo * p + p * d /\ hi * p = p * q + e * p
      BY <2>3, <2>4
    <2>7. lo * p <= p * q /\ p * q <= hi * p
      BY <2>4, <2>6
    <2> QED BY <2>1, <2>4, <2>5, <2>7
  <1>3. lo * T <= W /\ W <= hi * T
    <2>1. \A x \in S : f[x] \in Int /\ w[x] \in Int /\ lo * f[x] <= w[x] /\ w[x] <= hi * f[x]
      BY <1>2
    <2>2. lo \in Int /\ hi \in Int
      OBVIOUS
    <2> QED BY <2>1, <2>2, SumBetween
  <1>4. T \in Nat /\ W \in Int
    BY <1>2, SumNat, SumInt
  <1>5. T > 0
    <2>1. PICK x \in S : TRUE
      OBVIOUS
    <2>2. T = f[x] + SumFunctionOnSet(f, S \ {x})
      BY <2>1, SumRemove
    <2>3. SumFunctionOnSet(f, S \ {x}) \in Nat
      BY SumNat, FS_Subset
    <2> QED BY <2>1, <2>2, <2>3
  <1>6. Calculator!WeightedAverageRate(f, g) = IF T = 0 THEN 0 ELSE Calculator!Rounded(100 * W, T)
    BY AverageIs DEF w
  <1> HIDE DEF T, W
  <1>7. (100 * lo) * T <= 100 * W /\ 100 * W <= (100 * hi) * T
    <2>1. (100 * lo) * T = 100 * (lo * T) /\ (100 * hi) * T = 100 * (hi * T) /\ lo * T \in Int /\ hi * T \in Int
      BY <1>4
    <2> QED BY <1>3, <1>4, <2>1
  <1>8. 100 * lo <= Calculator!Rounded(100 * W, T) /\ Calculator!Rounded(100 * W, T) <= 100 * hi
    <2>1. 100 * W \in Int /\ T \in Nat \ {0} /\ 100 * lo \in Int /\ 100 * hi \in Int
      BY <1>4, <1>5
    <2> QED BY <1>7, <2>1, RoundedBetween
  <1> QED BY <1>4, <1>5, <1>6, <1>8

LEMMA PortfolioSound ==
  ASSUME QuestionInv, Calculator!Next
  PROVE  question.kind = "portfolio" => Calculator!AverageBetweenRates'
  <1> SUFFICES ASSUME question.kind = "portfolio" PROVE Calculator!AverageBetweenRates'
    OBVIOUS
  <1>1. PICK a \in Calculator!LoanTerms, b \in Calculator!LoanTerms : question.loans = {a, b}
    BY LoansOf
  <1> DEFINE S == question.loans
             f == [l \in S |-> l.P]
             g == [l \in S |-> l.r]
             rates == {l.r : l \in S}
             lo == IF a.r <= b.r THEN a.r ELSE b.r
             hi == IF a.r <= b.r THEN b.r ELSE a.r
  <1>2. answer'.value.rate = Calculator!WeightedAverageRate(f, g) /\ question' = question
    <2>1. Calculator!ComprehensiveAnalysis /\ question' = question
      BY AnswerOfKind
    <2>2. \E o, e, i :
            answer' = [kind |-> "portfolio",
                       value |-> [outstanding |-> o, emi |-> e,
                                  rate |-> Calculator!WeightedAverageRate(f, g), interest |-> i]]
      BY <2>1, Zenon DEF Calculator!ComprehensiveAnalysis, Calculator!Answer
    <2> HIDE DEF f, g
    <2> QED BY <2>1, <2>2
  <1>3. IsFiniteSet(S) /\ S # {}
    <2>1. S = ({} \cup {a}) \cup {b}
      BY <1>1
    <2>2. IsFiniteSet({} \cup {a})
      BY FS_EmptySet, FS_AddElement
    <2>3. IsFiniteSet(({} \cup {a}) \cup {b})
      BY <2>2, FS_AddElement
    <2> QED BY <2>1, <2>3
  <1>4. a.r \in Nat /\ b.r \in Nat /\ a.P \in Nat \ {0} /\ b.P \in Nat \ {0}
    BY <1>1, TermsOf
  <1>5. rates = {a.r, b.r}
    BY <1>1
  <1>6. lo \in rates /\ hi \in rates /\ lo \in Nat /\ hi \in Nat
        /\ \A x \in rates : x \in Nat /\ lo <= x /\ x <= hi
    BY <1>4, <1>5
  <1>7. \A l \in S : f[l] \in Nat \ {0} /\ g[l] \in Nat /\ g[l] \in rates
    BY <1>1, <1>4
  <1>8. DOMAIN f = S /\ DOMAIN g = S
    OBVIOUS
  <1> HIDE DEF f, g, lo, hi, rates, S
  <1>9. 100 * lo <= Calculator!WeightedAverageRate(f, g) /\ Calculator!WeightedAverageRate(f, g) <= 100 * hi
    <2>1. \A l \in S : lo <= g[l] /\ g[l] <= hi
      BY <1>6, <1>7
    <2> QED BY <1>3, <1>6, <1>7, <1>8, <2>1, AverageBetween
  <1>10. Calculator!Min(rates) = lo /\ Calculator!Max(rates) = hi
    <2>1. rates \subseteq Int
      BY <1>6
    <2> QED BY <1>6, <2>1, LeastOf, GreatestOf
  <1>11. answer'.value.rate >= 100 * Calculator!Min(rates) /\ answer'.value.rate <= 100 * Calculator!Max(rates)
    <2>1. PICK x : x = Calculator!WeightedAverageRate(f, g)
      OBVIOUS
    <2>2. x >= 100 * lo /\ x <= 100 * hi
      BY <1>6, <1>9, <2>1
    <2> QED BY <1>2, <1>10, <2>1, <2>2
  <1>12. {l.r : l \in question'.loans} = rates
    BY <1>2, Zenon DEF rates, S
  <1> QED BY <1>11, <1>12, Zenon DEF Calculator!AverageBetweenRates

-----------------------------------------------------------------------------
(* Every answer is right when it is given, and no answer changes. *)
CalcInv == QuestionInv /\ Calculator!CalculationsSound

LEMMA CalcBegins == Calculator!Init => CalcInv
  <1> SUFFICES ASSUME Calculator!Init PROVE CalcInv
    OBVIOUS
  <1>1. QuestionInv
    <2>1. CASE \E k \in Calculator!LoanQuestions, l \in Calculator!LoanTerms : question = [kind |-> k, loan |-> l]
      BY <2>1 DEF QuestionInv, LoanAsked
    <2>2. CASE \E s \in Dates, n \in Terms : question = [kind |-> "schedule dates", start |-> s, n |-> n]
      <3>1. PICK s \in Dates, n \in Terms : question = [kind |-> "schedule dates", start |-> s, n |-> n]
        BY <2>2
      <3>2. question \in DatesAsked
        BY <3>1, Zenon DEF DatesAsked
      <3> QED BY <3>2 DEF QuestionInv
    <2>3. CASE \E a, b \in Calculator!LoanTerms, k \in {"portfolio", "compare"} : question = [kind |-> k, loans |-> {a, b}]
      <3>1. PICK a \in Calculator!LoanTerms, b \in Calculator!LoanTerms, k \in {"portfolio", "compare"} :
              question = [kind |-> k, loans |-> {a, b}]
        BY <2>3
      <3>2. {a, b} \in {{x, y} : x, y \in Calculator!LoanTerms}
        BY <3>1
      <3> QED BY <3>1, <3>2 DEF QuestionInv, LoansAsked
    <2> QED BY <2>1, <2>2, <2>3, Zenon DEF Calculator!Init
  <1>2. answer = Calculator!None
    BY DEF Calculator!Init
  <1> QED BY <1>1, <1>2, Zenon DEF CalcInv, Calculator!CalculationsSound, Calculator!Answered,
             Calculator!ScheduleAmortises, Calculator!PaymentServicesAgree, Calculator!DueDatesByMonth,
             Calculator!SummariesFollow, Calculator!AverageBetweenRates

LEMMA QuestionStays ==
  ASSUME QuestionInv, question' = question
  PROVE  QuestionInv'
  <1>1. question' \in LoanAsked \/ question' \in DatesAsked \/ question' \in LoansAsked
    BY Zenon DEF QuestionInv
  <1> QED BY <1>1, Zenon DEF QuestionInv

LEMMA CalcStep ==
  ASSUME CalcInv, Calculator!Next
  PROVE  CalcInv'
  <1>1. QuestionInv /\ question' = question
    BY AnswerOfKind DEF CalcInv
  <1>2. QuestionInv'
    BY <1>1, QuestionStays
  <1>3. Calculator!ScheduleAmortises'
    <2>1. CASE question.kind = "summary"
      BY <1>1, <2>1, SummarySound
    <2>2. CASE ~(question.kind = "summary")
      BY <1>1, <2>2, Zenon DEF Calculator!ScheduleAmortises, Calculator!Answered
    <2> QED BY <2>1, <2>2
  <1>4. Calculator!PaymentServicesAgree'
    <2>1. CASE question.kind = "payment"
      BY <1>1, <2>1, PaymentSound
    <2>2. CASE ~(question.kind = "payment")
      BY <1>1, <2>2, Zenon DEF Calculator!PaymentServicesAgree, Calculator!Answered
    <2> QED BY <2>1, <2>2
  <1>5. Calculator!DueDatesByMonth'
    <2>1. CASE question.kind = "schedule dates"
      BY <1>1, <2>1, DatesSound
    <2>2. CASE ~(question.kind = "schedule dates")
      BY <1>1, <2>2, Zenon DEF Calculator!DueDatesByMonth, Calculator!Answered
    <2> QED BY <2>1, <2>2
  <1>6. Calculator!SummariesFollow'
    <2>1. CASE question.kind = "summary"
      BY <1>1, <2>1, SummaryShown
    <2>2. CASE ~(question.kind = "summary")
      BY <1>1, <2>2, Zenon DEF Calculator!SummariesFollow, Calculator!Answered
    <2> QED BY <2>1, <2>2
  <1>7. Calculator!AverageBetweenRates'
    <2>1. CASE question.kind = "portfolio"
      BY <1>1, <2>1, PortfolioSound
    <2>2. CASE ~(question.kind = "portfolio")
      BY <1>1, <2>2, Zenon DEF Calculator!AverageBetweenRates, Calculator!Answered
    <2> QED BY <2>1, <2>2
  <1> QED BY <1>2, <1>3, <1>4, <1>5, <1>6, <1>7 DEF CalcInv, Calculator!CalculationsSound

LEMMA CalcStays ==
  ASSUME CalcInv, UNCHANGED <<question, answer>>
  PROVE  CalcInv'
  <1>1. question' = question /\ answer' = answer
    OBVIOUS
  <1>2. QuestionInv'
    BY <1>1, QuestionStays DEF CalcInv
  <1>3. Calculator!ScheduleAmortises'
    BY <1>1, Zenon DEF CalcInv, Calculator!CalculationsSound, Calculator!ScheduleAmortises, Calculator!Answered
  <1>4. Calculator!PaymentServicesAgree'
    BY <1>1, Zenon DEF CalcInv, Calculator!CalculationsSound, Calculator!PaymentServicesAgree, Calculator!Answered
  <1>5. Calculator!DueDatesByMonth'
    <2>1. Calculator!Answered("schedule dates") => DatesFit(answer.value, question.start, question.n)
      BY DatesMean DEF CalcInv, Calculator!CalculationsSound
    <2>2. Calculator!Answered("schedule dates")' => DatesFit(answer'.value, question'.start, question'.n)
      BY <1>1, <2>1, Zenon DEF Calculator!Answered
    <2>3. (Calculator!DueDatesByMonth
            <=> (Calculator!Answered("schedule dates") => DatesFit(answer.value, question.start, question.n)))'
      BY DatesMean, PTL
    <2> QED BY <2>2, <2>3
  <1>6. Calculator!SummariesFollow'
    BY <1>1, Zenon DEF CalcInv, Calculator!CalculationsSound, Calculator!SummariesFollow, Calculator!Answered
  <1>7. Calculator!AverageBetweenRates'
    BY <1>1, Zenon DEF CalcInv, Calculator!CalculationsSound, Calculator!AverageBetweenRates, Calculator!Answered
  <1> QED BY <1>2, <1>3, <1>4, <1>5, <1>6, <1>7 DEF CalcInv, Calculator!CalculationsSound

-----------------------------------------------------------------------------
(* Answers have the kind of their questions. *)
LEMMA CalculatorStarts == Calculator!Init => Calculator!TypeOK
  <1> SUFFICES ASSUME Calculator!Init PROVE Calculator!TypeOK
    OBVIOUS
  <1>1. \/ \E k \in Calculator!LoanQuestions : \E l : question = [kind |-> k, loan |-> l]
        \/ \E d, n : question = [kind |-> "schedule dates", start |-> d, n |-> n]
        \/ \E k \in {"portfolio", "compare"} : \E ls : question = [kind |-> k, loans |-> ls]
    BY Zenon DEF Calculator!Init
  <1>2. ASSUME NEW k \in Calculator!LoanQuestions, NEW l, question = [kind |-> k, loan |-> l]
        PROVE  question.kind \in Calculator!LoanQuestions
    BY <1>2
  <1>3. ASSUME NEW d, NEW n, question = [kind |-> "schedule dates", start |-> d, n |-> n]
        PROVE  question.kind = "schedule dates"
    BY <1>3
  <1>4. ASSUME NEW k \in {"portfolio", "compare"}, NEW ls, question = [kind |-> k, loans |-> ls]
        PROVE  question.kind \in {"portfolio", "compare"}
    BY <1>4
  <1>5. question.kind \in Calculator!LoanQuestions \cup {"schedule dates", "portfolio", "compare"}
    BY <1>1, <1>2, <1>3, <1>4
  <1> QED BY <1>5 DEF Calculator!Init, Calculator!TypeOK

LEMMA CalculatorAnswers == Calculator!TypeOK /\ [Calculator!Next]_(Calculator!vars) => Calculator!TypeOK'
  <1> SUFFICES ASSUME Calculator!TypeOK, [Calculator!Next]_(Calculator!vars) PROVE Calculator!TypeOK'
    OBVIOUS
  <1>1. CASE UNCHANGED Calculator!vars
    BY <1>1 DEF Calculator!vars, Calculator!TypeOK
  <1>2. ASSUME NEW kind, NEW value, Calculator!Answer(kind, value) PROVE Calculator!TypeOK'
    BY <1>2 DEF Calculator!Answer, Calculator!TypeOK
  <1>3. CASE Calculator!Next
    <2>1. \E kind, value : Calculator!Answer(kind, value)
      BY <1>3, Zenon DEF Calculator!Next, Calculator!CalculateEmiImpact, Calculator!AnalyzePrepayment,
         Calculator!GetSummary, Calculator!SplitPayment, Calculator!GetScheduleDates,
         Calculator!CalculateEmiRoute, Calculator!CompareLoans, Calculator!PrepayInMonth,
         Calculator!ComprehensiveAnalysis
    <2> QED BY <1>2, <2>1
  <1> QED BY <1>1, <1>3

-----------------------------------------------------------------------------
(* The ledger runs as LoanLedger says, and waits while the calculators do. *)
LEMMA MoneyRuns ==
  ASSUME [MoneyNext]_moneyVars
  PROVE  /\ service' = service
         /\ [Next]_vars
         /\ service = "calculator" => [Calculator!Next]_(Calculator!vars)
  BY DEF MoneyNext, LedgerStep, CalculatorStep, moneyVars, vars, Calculator!vars

(* The composition adds nothing to the ledger or to the calculators. *)
THEOREM MoneyAlone == MoneySpec => Spec /\ (service = "calculator" => Calculator!Spec)
  <1>1. [MoneyNext]_moneyVars => [Next]_vars
    BY MoneyRuns
  <1>2. service = "calculator" /\ [MoneyNext]_moneyVars => (service = "calculator")' /\ [Calculator!Next]_(Calculator!vars)
    BY MoneyRuns
  <1>3. MoneyInit => Init /\ (service = "calculator" => Calculator!Init)
    BY DEF MoneyInit
  <1> QED BY <1>1, <1>2, <1>3, PTL DEF MoneySpec, Spec, Calculator!Spec

(* Whichever runs, rows, requests and answers have their types. *)
THEOREM MoneyTypeCorrect == MoneySpec => []MoneyTypeOK
  <1>1. Calculator!Spec => []Calculator!TypeOK
    BY CalculatorStarts, CalculatorAnswers, PTL DEF Calculator!Spec
  <1>2. ~(service = "calculator") /\ [MoneyNext]_moneyVars => ~(service = "calculator")'
    BY MoneyRuns
  <1>3. TypeOK /\ Calculator!TypeOK => MoneyTypeOK
    BY DEF MoneyTypeOK
  <1>4. TypeOK /\ ~(service = "calculator") => MoneyTypeOK
    BY DEF MoneyTypeOK
  <1> QED BY <1>1, <1>2, <1>3, <1>4, MoneyAlone, LedgerTypeCorrect, PTL DEF MoneySpec

(* Every answer of the calculators and of the two services agrees with the *)
(* reference definitions: the schedule ends within its term but for what   *)
(* rounding the instalment leaves, the balances shown are those of the     *)
(* schedule, both services record the same payment, due dates keep to      *)
(* their months, an average lies between the rates - for any loans, rates, *)
(* terms and dates.                                                        *)
THEOREM CalculationsAreSound == MoneySpec => []CalculationsSound
  <1>1. Calculator!Spec => []CalcInv
    <2>1. CalcInv /\ [Calculator!Next]_(Calculator!vars) => CalcInv'
      BY CalcStep, CalcStays DEF Calculator!vars
    <2> QED BY <2>1, CalcBegins, PTL DEF Calculator!Spec
  <1>2. ~(service = "calculator") /\ [MoneyNext]_moneyVars => ~(service = "calculator")'
    BY MoneyRuns
  <1>3. CalcInv => CalculationsSound
    BY DEF CalcInv, CalculationsSound
  <1>4. ~(service = "calculator") => CalculationsSound
    BY DEF CalculationsSound
  <1> QED BY <1>1, <1>2, <1>3, <1>4, MoneyAlone, PTL DEF MoneySpec
=============================================================================

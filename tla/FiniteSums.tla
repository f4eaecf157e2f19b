----------------------------- MODULE FiniteSums -----------------------------
(***************************************************************************)
(* What SumFunctionOnSet adds up, for finite sets.  The fold of the        *)
(* community modules is a recursive function: that it exists, that the     *)
(* order in which it takes the elements does not matter, and what follows  *)
(* for adding, removing, splitting, renaming, bounding and grouping        *)
(* elements, by induction over the finite sets.  The induction is stated   *)
(* for a set of sets that has a closure property; the sums it is applied   *)
(* to are first collected in such a set.  The same for numbers gives the   *)
(* functions that a recursion over 0 .. n computes.                        *)
(***************************************************************************)
EXTENDS Integers, Functions, FiniteSetTheorems, WellFoundedInduction, TLAPS

(* Every set of numbers has a least one.                                   *)
LEMMA LeastNumber ==
  ASSUME NEW N, N \subseteq Nat, N # {}
  PROVE  \E n \in N : \A m \in N : ~(m < n)
  <1>1. PICK n \in N : \A m \in N : ~(<<m, n>> \in OpToRel(<, Nat))
    BY NatLessThanWellFounded, WFMin
  <1> QED BY <1>1 DEF OpToRel

(* What holds of a finite set if it holds of its proper subsets, holds of  *)
(* every finite set.                                                       *)
LEMMA SubsetInduction ==
  ASSUME NEW S, IsFiniteSet(S), NEW C,
         \A T \in SUBSET S : (\A U \in SUBSET T : U # T => U \in C) => T \in C
  PROVE  \A T \in SUBSET S : T \in C
  <1> DEFINE Bad == (SUBSET S) \ C
             N == {Cardinality(T) : T \in Bad}
  <1> SUFFICES ASSUME Bad # {} PROVE FALSE
    OBVIOUS
  <1>1. \A T \in SUBSET S : IsFiniteSet(T) /\ Cardinality(T) \in Nat
    BY FS_Subset, FS_CardinalityType
  <1>2. N \subseteq Nat /\ N # {}
    BY <1>1
  <1>3. PICK n \in N : \A m \in N : ~(m < n)
    BY <1>2, LeastNumber
  <1>4. PICK T \in Bad : n = Cardinality(T)
    BY <1>3
  <1> HIDE DEF N
  <1>5. ASSUME NEW U \in SUBSET T, U # T PROVE U \in C
    <2>1. IsFiniteSet(T) /\ U \in SUBSET S
      BY <1>1, <1>4
    <2>2. Cardinality(U) < Cardinality(T)
      BY <1>5, <2>1, FS_Subset, FS_CardinalityType
    <2> QED BY <1>3, <1>4, <2>1, <2>2 DEF N
  <1>6. T \in SUBSET S /\ T \notin C
    BY <1>4 DEF Bad
  <1> HIDE DEF Bad
  <1> QED BY <1>5, <1>6

(* Or if it holds of the empty set and stays true as elements are added.   *)
LEMMA ElementInduction ==
  ASSUME NEW S, IsFiniteSet(S), NEW C, {} \in C,
         \A T \in SUBSET S : \A x \in S \ T : T \in C => T \cup {x} \in C
  PROVE  \A T \in SUBSET S : T \in C
  <1>1. ASSUME NEW T \in SUBSET S, \A U \in SUBSET T : U # T => U \in C
        PROVE  T \in C
    <2>1. CASE T = {}
      BY <2>1
    <2>2. CASE T # {}
      <3>1. PICK x \in T : TRUE
        BY <2>2
      <3>2. T \ {x} \in C /\ T = (T \ {x}) \cup {x} /\ T \ {x} \in SUBSET S /\ x \in S \ (T \ {x})
        BY <1>1, <3>1
      <3> QED BY <3>2
    <2> QED BY <2>1, <2>2
  <1> QED BY <1>1, SubsetInduction

-----------------------------------------------------------------------------
(* The fold *)

Pick(s) == CHOOSE x \in s : TRUE

LEMMA PickIn == ASSUME NEW s, s # {} PROVE Pick(s) \in s
  BY DEF Pick

(* The equation of the fold over the subsets of S. *)
Solves(iter, f, S) ==
  iter = [s \in SUBSET S |-> IF s = {} THEN 0 ELSE f[Pick(s)] + iter[s \ {Pick(s)}]]

LEMMA SumIsFold ==
  ASSUME NEW f, NEW S
  PROVE  SumFunctionOnSet(f, S) = (CHOOSE iter : Solves(iter, f, S))[S]
  BY Zenon DEF SumFunctionOnSet, FoldFunctionOnSet, MapThenFoldSet, Pick, Solves

LEMMA SolvesAt ==
  ASSUME NEW g, NEW f, NEW S, Solves(g, f, S), NEW s \in SUBSET S
  PROVE  /\ s = {} => g[s] = 0
         /\ s # {} => g[s] = f[Pick(s)] + g[s \ {Pick(s)}]
  BY DEF Solves

(* Two solutions agree where both are defined. *)
LEMMA SolutionsAgree ==
  ASSUME NEW f, NEW S, IsFiniteSet(S), NEW T \in SUBSET S, NEW g, NEW h, Solves(g, f, S), Solves(h, f, T)
  PROVE  g[T] = h[T]
  <1> DEFINE C == {s \in SUBSET T : g[s] = h[s]}
  <1>1. ASSUME NEW s \in SUBSET T, \A u \in SUBSET s : u # s => u \in C
        PROVE  s \in C
    <2>1. CASE s = {}
      BY <2>1, SolvesAt
    <2>2. CASE s # {}
      <3>1. s \ {Pick(s)} \in SUBSET s /\ s \ {Pick(s)} # s
        BY <2>2, PickIn
      <3>2. g[s \ {Pick(s)}] = h[s \ {Pick(s)}]
        BY <1>1, <3>1
      <3>3. g[s] = f[Pick(s)] + g[s \ {Pick(s)}] /\ h[s] = f[Pick(s)] + h[s \ {Pick(s)}]
        BY <2>2, SolvesAt
      <3> QED BY <3>2, <3>3
    <2> QED BY <2>1, <2>2
  <1>2. IsFiniteSet(T)
    BY FS_Subset
  <1> HIDE DEF C
  <1>3. T \in C
    BY <1>1, <1>2, SubsetInduction
  <1> QED BY <1>3 DEF C

(* A solution gives the sum. *)
LEMMA SumOfSolution ==
  ASSUME NEW f, NEW S, IsFiniteSet(S), NEW g, Solves(g, f, S), NEW T \in SUBSET S,
         \E h : Solves(h, f, T)
  PROVE  SumFunctionOnSet(f, T) = g[T]
  <1> DEFINE k == CHOOSE iter : Solves(iter, f, T)
  <1>1. Solves(k, f, T)
    BY Zenon
  <1>2. SumFunctionOnSet(f, T) = k[T]
    BY SumIsFold
  <1> HIDE DEF k
  <1> QED BY <1>1, <1>2, SolutionsAgree

LEMMA SolutionExists ==
  ASSUME NEW f, NEW S, IsFiniteSet(S)
  PROVE  \E g : Solves(g, f, S)
  <1> DEFINE C == {T \in SUBSET S : \E g : Solves(g, f, T)}
  <1>1. ASSUME NEW T \in SUBSET S, \A U \in SUBSET T : U # T => U \in C
        PROVE  T \in C
    <2> DEFINE g == [s \in SUBSET T |-> IF s = {} THEN 0 ELSE f[Pick(s)] + SumFunctionOnSet(f, s \ {Pick(s)})]
    <2>1. ASSUME NEW s \in SUBSET T, s # {}
          PROVE  g[s \ {Pick(s)}] = SumFunctionOnSet(f, s \ {Pick(s)})
      <3> DEFINE u == s \ {Pick(s)}
      <3>1. u \in SUBSET T /\ u # T /\ IsFiniteSet(u)
        BY <2>1, PickIn, FS_Subset
      <3>2. PICK h : Solves(h, f, u)
        BY <1>1, <3>1
      <3>3. SumFunctionOnSet(f, u) = h[u]
        BY <3>1, <3>2, SumOfSolution
      <3> HIDE DEF u
      <3>4. CASE u = {}
        <4>1. g[u] = 0
          BY <3>1, <3>4
        <4>2. h[u] = 0
          BY <3>2, <3>4, SolvesAt
        <4> HIDE DEF g
        <4> QED BY <3>3, <4>1, <4>2 DEF u
      <3>5. CASE u # {}
        <4> DEFINE v == u \ {Pick(u)}
        <4>1. v \in SUBSET u /\ v # T /\ v \in SUBSET T
          BY <3>1, <3>5, PickIn
        <4>2. \E k : Solves(k, f, v)
          BY <1>1, <4>1
        <4> HIDE DEF v
        <4>3. SumFunctionOnSet(f, v) = h[v]
          BY <3>1, <3>2, <4>1, <4>2, SumOfSolution
        <4>4. h[u] = f[Pick(u)] + h[v]
          BY <3>2, <3>5, SolvesAt DEF v
        <4>5. g[u] = f[Pick(u)] + SumFunctionOnSet(f, v)
          BY <3>1, <3>5 DEF v
        <4> HIDE DEF g
        <4> QED BY <3>3, <4>3, <4>4, <4>5 DEF u
      <3> QED BY <3>4, <3>5
    <2>2. \A s \in SUBSET T :
            (IF s = {} THEN 0 ELSE f[Pick(s)] + SumFunctionOnSet(f, s \ {Pick(s)}))
              = IF s = {} THEN 0 ELSE f[Pick(s)] + g[s \ {Pick(s)}]
      BY <2>1
    <2>3. PICK k : k = g
      OBVIOUS
    <2>4. \A s \in SUBSET T : k[s] = IF s = {} THEN 0 ELSE f[Pick(s)] + k[s \ {Pick(s)}]
      BY <2>2, <2>3
    <2>5. k = [s \in SUBSET T |-> k[s]]
      BY <2>3
    <2> HIDE DEF g
    <2>6. Solves(k, f, T)
      BY <2>4, <2>5 DEF Solves
    <2> QED BY <2>6
  <1> HIDE DEF C
  <1>2. S \in C
    BY <1>1, SubsetInduction
  <1> QED BY <1>2 DEF C

(* The sum takes one element and goes on with the others. *)
LEMMA SumByPick ==
  ASSUME NEW f, NEW S, IsFiniteSet(S)
  PROVE  /\ S = {} => SumFunctionOnSet(f, S) = 0
         /\ S # {} => SumFunctionOnSet(f, S) = f[Pick(S)] + SumFunctionOnSet(f, S \ {Pick(S)})
  <1>1. PICK g : Solves(g, f, S)
    BY SolutionExists
  <1>2. \A T \in SUBSET S : SumFunctionOnSet(f, T) = g[T]
    <2> SUFFICES ASSUME NEW T \in SUBSET S PROVE SumFunctionOnSet(f, T) = g[T]
      OBVIOUS
    <2>1. \E h : Solves(h, f, T)
      BY SolutionExists, FS_Subset
    <2> QED BY <1>1, <2>1, SumOfSolution
  <1>3. S \in SUBSET S /\ S \ {Pick(S)} \in SUBSET S
    OBVIOUS
  <1>4. SumFunctionOnSet(f, S) = g[S] /\ SumFunctionOnSet(f, S \ {Pick(S)}) = g[S \ {Pick(S)}]
    BY <1>2, <1>3
  <1>5. /\ S = {} => g[S] = 0
        /\ S # {} => g[S] = f[Pick(S)] + g[S \ {Pick(S)}]
    BY <1>1, <1>3, SolvesAt
  <1> QED BY <1>4, <1>5

-----------------------------------------------------------------------------
(* Sums of integers *)

LEMMA SumEmpty == ASSUME NEW f PROVE SumFunctionOnSet(f, {}) = 0
  BY SumByPick, FS_EmptySet

LEMMA SumInt ==
  ASSUME NEW f, NEW S, IsFiniteSet(S), \A x \in S : f[x] \in Int
  PROVE  SumFunctionOnSet(f, S) \in Int
  <1> DEFINE C == {T \in SUBSET S : SumFunctionOnSet(f, T) \in Int}
  <1>1. ASSUME NEW T \in SUBSET S, \A U \in SUBSET T : U # T => U \in C
        PROVE  T \in C
    <2>1. IsFiniteSet(T)
      BY FS_Subset
    <2>2. CASE T = {}
      BY <2>2, SumEmpty
    <2>3. CASE T # {}
      <3>1. Pick(T) \in T /\ T \ {Pick(T)} \in SUBSET T /\ T \ {Pick(T)} # T
        BY <2>3, PickIn
      <3>2. SumFunctionOnSet(f, T \ {Pick(T)}) \in Int
        BY <1>1, <3>1
      <3>3. SumFunctionOnSet(f, T) = f[Pick(T)] + SumFunctionOnSet(f, T \ {Pick(T)})
        BY <2>1, <2>3, SumByPick
      <3> QED BY <3>1, <3>2, <3>3
    <2> QED BY <2>2, <2>3
  <1> HIDE DEF C
  <1>2. S \in C
    BY <1>1, SubsetInduction
  <1> QED BY <1>2 DEF C

(* Any element may be taken first. *)
LEMMA SumRemove ==
  ASSUME NEW f, NEW S, IsFiniteSet(S), \A x \in S : f[x] \in Int, NEW e \in S
  PROVE  SumFunctionOnSet(f, S) = f[e] + SumFunctionOnSet(f, S \ {e})
  <1> DEFINE C == {T \in SUBSET S : \A x \in T : SumFunctionOnSet(f, T) = f[x] + SumFunctionOnSet(f, T \ {x})}
  <1>1. ASSUME NEW T \in SUBSET S, \A U \in SUBSET T : U # T => U \in C
        PROVE  T \in C
    <2> SUFFICES ASSUME NEW x \in T PROVE SumFunctionOnSet(f, T) = f[x] + SumFunctionOnSet(f, T \ {x})
      OBVIOUS
    <2>1. PICK p \in T : p = Pick(T)
      BY PickIn
    <2>2. IsFiniteSet(T)
      BY FS_Subset
    <2>3. SumFunctionOnSet(f, T) = f[p] + SumFunctionOnSet(f, T \ {p})
      BY <2>1, <2>2, SumByPick
    <2>4. CASE x = p
      BY <2>3, <2>4
    <2>5. CASE x # p
      <3> DEFINE R == T \ {p, x}
      <3>1. /\ T \ {p} \in SUBSET T /\ T \ {p} # T /\ x \in T \ {p} /\ (T \ {p}) \ {x} = R
            /\ T \ {x} \in SUBSET T /\ T \ {x} # T /\ p \in T \ {x} /\ (T \ {x}) \ {p} = R
        BY <2>5
      <3> HIDE DEF R
      <3>2. SumFunctionOnSet(f, T \ {p}) = f[x] + SumFunctionOnSet(f, R)
        BY <1>1, <3>1
      <3>3. SumFunctionOnSet(f, T \ {x}) = f[p] + SumFunctionOnSet(f, R)
        BY <1>1, <3>1
      <3>4. f[x] \in Int /\ f[p] \in Int /\ SumFunctionOnSet(f, R) \in Int
        <4>1. R \in SUBSET S /\ IsFiniteSet(R)
          BY FS_Subset DEF R
        <4> QED BY <4>1, SumInt
      <3> QED BY <2>3, <3>2, <3>3, <3>4
    <2> QED BY <2>4, <2>5
  <1> HIDE DEF C
  <1>2. S \in C
    BY <1>1, SubsetInduction
  <1> QED BY <1>2 DEF C

LEMMA SumAdd ==
  ASSUME NEW f, NEW S, IsFiniteSet(S), NEW e, e \notin S, \A x \in S \cup {e} : f[x] \in Int
  PROVE  SumFunctionOnSet(f, S \cup {e}) = f[e] + SumFunctionOnSet(f, S)
  <1>1. IsFiniteSet(S \cup {e}) /\ (S \cup {e}) \ {e} = S
    BY FS_AddElement
  <1> QED BY <1>1, SumRemove

(* The sum depends on the values on the set alone. *)
LEMMA SumSame ==
  ASSUME NEW f, NEW g, NEW S, IsFiniteSet(S), \A x \in S : f[x] = g[x]
  PROVE  SumFunctionOnSet(f, S) = SumFunctionOnSet(g, S)
  <1> DEFINE C == {T \in SUBSET S : SumFunctionOnSet(f, T) = SumFunctionOnSet(g, T)}
  <1>1. ASSUME NEW T \in SUBSET S, \A U \in SUBSET T : U # T => U \in C
        PROVE  T \in C
    <2>1. IsFiniteSet(T)
      BY FS_Subset
    <2>2. CASE T = {}
      BY <2>2, SumEmpty
    <2>3. CASE T # {}
      <3>1. Pick(T) \in T /\ T \ {Pick(T)} \in SUBSET T /\ T \ {Pick(T)} # T
        BY <2>3, PickIn
      <3>2. SumFunctionOnSet(f, T \ {Pick(T)}) = SumFunctionOnSet(g, T \ {Pick(T)}) /\ f[Pick(T)] = g[Pick(T)]
        BY <1>1, <3>1
      <3>3. SumFunctionOnSet(f, T) = f[Pick(T)] + SumFunctionOnSet(f, T \ {Pick(T)})
        BY <2>1, <2>3, SumByPick
      <3>4. SumFunctionOnSet(g, T) = g[Pick(T)] + SumFunctionOnSet(g, T \ {Pick(T)})
        BY <2>1, <2>3, SumByPick
      <3> QED BY <3>2, <3>3, <3>4
    <2> QED BY <2>2, <2>3
  <1> HIDE DEF C
  <1>2. S \in C
    BY <1>1, SubsetInduction
  <1> QED BY <1>2 DEF C

LEMMA SumNat ==
  ASSUME NEW f, NEW S, IsFiniteSet(S), \A x \in S : f[x] \in Nat
  PROVE  SumFunctionOnSet(f, S) \in Nat
  <1> DEFINE C == {T \in SUBSET S : SumFunctionOnSet(f, T) \in Nat}
  <1>1. {} \in C
    BY SumEmpty
  <1>2. ASSUME NEW T \in SUBSET S, NEW x \in S \ T, T \in C PROVE T \cup {x} \in C
    <2>1. SumFunctionOnSet(f, T \cup {x}) = f[x] + SumFunctionOnSet(f, T)
      BY SumAdd, FS_Subset
    <2> QED BY <1>2, <2>1
  <1> HIDE DEF C
  <1>3. S \in C
    BY <1>1, <1>2, ElementInduction
  <1> QED BY <1>3 DEF C

(* Of two disjoint parts. *)
LEMMA SumUnion ==
  ASSUME NEW f, NEW S, IsFiniteSet(S), NEW R, IsFiniteSet(R), S \cap R = {}, \A x \in S \cup R : f[x] \in Int
  PROVE  SumFunctionOnSet(f, S \cup R) = SumFunctionOnSet(f, S) + SumFunctionOnSet(f, R)
  <1> DEFINE C == {T \in SUBSET S : SumFunctionOnSet(f, T \cup R) = SumFunctionOnSet(f, T) + SumFunctionOnSet(f, R)}
  <1>0. SumFunctionOnSet(f, R) \in Int
    BY SumInt
  <1>1. {} \in C
    <2>1. {} \cup R = R
      OBVIOUS
    <2> QED BY <1>0, <2>1, SumEmpty
  <1>2. ASSUME NEW T \in SUBSET S, NEW x \in S \ T, T \in C PROVE T \cup {x} \in C
    <2>1. IsFiniteSet(T) /\ IsFiniteSet(T \cup R)
      BY FS_Subset, FS_Union
    <2>2. SumFunctionOnSet(f, T \cup {x}) = f[x] + SumFunctionOnSet(f, T)
      BY <2>1, SumAdd
    <2>3. (T \cup {x}) \cup R = (T \cup R) \cup {x} /\ x \notin T \cup R
      OBVIOUS
    <2>4. SumFunctionOnSet(f, (T \cup R) \cup {x}) = f[x] + SumFunctionOnSet(f, T \cup R)
      BY <2>1, <2>3, SumAdd
    <2>5. SumFunctionOnSet(f, T) \in Int /\ f[x] \in Int
      BY <2>1, SumInt
    <2>6. SumFunctionOnSet(f, T \cup R) = SumFunctionOnSet(f, T) + SumFunctionOnSet(f, R)
      BY <1>2
    <2>7. SumFunctionOnSet(f, (T \cup {x}) \cup R) = f[x] + (SumFunctionOnSet(f, T) + SumFunctionOnSet(f, R))
      BY <2>3, <2>4, <2>6
    <2>8. SumFunctionOnSet(f, (T \cup {x}) \cup R) = SumFunctionOnSet(f, T \cup {x}) + SumFunctionOnSet(f, R)
      BY <1>0, <2>2, <2>5, <2>7
    <2> QED BY <2>8
  <1> HIDE DEF C
  <1>3. S \in C
    BY <1>1, <1>2, ElementInduction
  <1> QED BY <1>3 DEF C

(* A part of it is no more. *)
LEMMA SumPart ==
  ASSUME NEW f, NEW S, IsFiniteSet(S), \A x \in S : f[x] \in Nat, NEW T \in SUBSET S
  PROVE  SumFunctionOnSet(f, T) <= SumFunctionOnSet(f, S)
  <1>1. IsFiniteSet(T) /\ IsFiniteSet(S \ T) /\ S = T \cup (S \ T) /\ T \cap (S \ T) = {}
    BY FS_Subset
  <1>2. SumFunctionOnSet(f, T) \in Nat /\ SumFunctionOnSet(f, S \ T) \in Nat
    BY <1>1, SumNat
  <1>3. SumFunctionOnSet(f, S) = SumFunctionOnSet(f, T) + SumFunctionOnSet(f, S \ T)
    BY <1>1, SumUnion
  <1> QED BY <1>2, <1>3

(* What is zero everywhere adds up to zero. *)
LEMMA SumZero ==
  ASSUME NEW f, NEW S, IsFiniteSet(S), \A x \in S : f[x] = 0
  PROVE  SumFunctionOnSet(f, S) = 0
  <1> DEFINE C == {T \in SUBSET S : SumFunctionOnSet(f, T) = 0}
  <1>1. {} \in C
    BY SumEmpty
  <1>2. ASSUME NEW T \in SUBSET S, NEW x \in S \ T, T \in C PROVE T \cup {x} \in C
    <2>1. SumFunctionOnSet(f, T \cup {x}) = f[x] + SumFunctionOnSet(f, T)
      BY SumAdd, FS_Subset
    <2> QED BY <1>2, <2>1
  <1> HIDE DEF C
  <1>3. S \in C
    BY <1>1, <1>2, ElementInduction
  <1> QED BY <1>3 DEF C

(* One value changes. *)
LEMMA SumChanged ==
  ASSUME NEW f, NEW g, NEW S, IsFiniteSet(S), NEW e \in S,
         \A x \in S : f[x] \in Int /\ g[x] \in Int,
         \A x \in S \ {e} : g[x] = f[x]
  PROVE  SumFunctionOnSet(g, S) = SumFunctionOnSet(f, S) - f[e] + g[e]
  <1>1. IsFiniteSet(S \ {e})
    BY FS_Subset
  <1>2. SumFunctionOnSet(g, S \ {e}) = SumFunctionOnSet(f, S \ {e}) /\ SumFunctionOnSet(f, S \ {e}) \in Int
    BY <1>1, SumSame, SumInt
  <1>3. SumFunctionOnSet(f, S) = f[e] + SumFunctionOnSet(f, S \ {e})
    BY SumRemove
  <1>4. SumFunctionOnSet(g, S) = g[e] + SumFunctionOnSet(g, S \ {e})
    BY SumRemove
  <1> QED BY <1>2, <1>3, <1>4

(* A finite set has finitely many images. *)
LEMMA FiniteImage ==
  ASSUME NEW S, IsFiniteSet(S), NEW name
  PROVE  IsFiniteSet({name[x] : x \in S})
  <1> DEFINE C == {T \in SUBSET S : IsFiniteSet({name[x] : x \in T})}
  <1>1. {} \in C
    <2>1. {name[x] : x \in {}} = {}
      OBVIOUS
    <2> QED BY <2>1, FS_EmptySet
  <1>2. ASSUME NEW T \in SUBSET S, NEW e \in S \ T, T \in C PROVE T \cup {e} \in C
    <2> DEFINE N == {name[x] : x \in T}
    <2>1. {name[x] : x \in T \cup {e}} = N \cup {name[e]} /\ IsFiniteSet(N)
      BY <1>2
    <2> HIDE DEF N
    <2> QED BY <2>1, FS_AddElement
  <1> HIDE DEF C
  <1>3. S \in C
    BY <1>1, <1>2, ElementInduction
  <1> QED BY <1>3 DEF C

(* Elements may be renamed, if no two get the same name. *)
LEMMA SumRenamed ==
  ASSUME NEW f, NEW g, NEW name, NEW S, IsFiniteSet(S),
         \A x \in S : f[x] \in Int /\ g[name[x]] = f[x],
         \A x, y \in S : name[x] = name[y] => x = y
  PROVE  SumFunctionOnSet(g, {name[x] : x \in S}) = SumFunctionOnSet(f, S)
  <1> DEFINE C == {T \in SUBSET S : SumFunctionOnSet(g, {name[x] : x \in T}) = SumFunctionOnSet(f, T)}
  <1>1. {} \in C
    <2>1. {name[x] : x \in {}} = {}
      OBVIOUS
    <2> QED BY <2>1, SumEmpty
  <1>2. ASSUME NEW T \in SUBSET S, NEW e \in S \ T, T \in C PROVE T \cup {e} \in C
    <2> DEFINE N == {name[x] : x \in T}
    <2>1. {name[x] : x \in T \cup {e}} = N \cup {name[e]}
      OBVIOUS
    <2>2. name[e] \notin N /\ (\A n \in N \cup {name[e]} : g[n] \in Int) /\ IsFiniteSet(N)
      <3>1. IsFiniteSet(T)
        BY FS_Subset
      <3> QED BY <3>1, FiniteImage
    <2>3. SumFunctionOnSet(g, N) = SumFunctionOnSet(f, T)
      BY <1>2
    <2> HIDE DEF N
    <2>4. SumFunctionOnSet(g, N \cup {name[e]}) = g[name[e]] + SumFunctionOnSet(g, N)
      BY <2>2, SumAdd
    <2>5. SumFunctionOnSet(f, T \cup {e}) = f[e] + SumFunctionOnSet(f, T)
      BY SumAdd, FS_Subset
    <2>6. g[name[e]] = f[e]
      OBVIOUS
    <2> QED BY <2>1, <2>3, <2>4, <2>5, <2>6
  <1> HIDE DEF C
  <1>3. S \in C
    BY <1>1, <1>2, ElementInduction
  <1> QED BY <1>3 DEF C

(* Summing group by group. *)
LEMMA SumGrouped ==
  ASSUME NEW f, NEW S, IsFiniteSet(S), \A x \in S : f[x] \in Int,
         NEW key, NEW K, IsFiniteSet(K), \A x \in S : key[x] \in K,
         NEW total, \A k \in K : total[k] = SumFunctionOnSet(f, {x \in S : key[x] = k})
  PROVE  SumFunctionOnSet(total, K) = SumFunctionOnSet(f, S)
  <1> DEFINE In(J) == {x \in S : key[x] \in J}
             C == {J \in SUBSET K : SumFunctionOnSet(total, J) = SumFunctionOnSet(f, In(J))}
  <1>0. \A J : IsFiniteSet(In(J))
    BY FS_Subset
  <1>1. {} \in C
    <2>1. In({}) = {}
      OBVIOUS
    <2> QED BY <2>1, SumEmpty
  <1>2. ASSUME NEW J \in SUBSET K, NEW k \in K \ J, J \in C PROVE J \cup {k} \in C
    <2> DEFINE G == {x \in S : key[x] = k}
    <2>1. In(J \cup {k}) = In(J) \cup G /\ In(J) \cap G = {} /\ IsFiniteSet(In(J)) /\ IsFiniteSet(G)
      BY <1>0, FS_Subset
    <2>2. SumFunctionOnSet(f, In(J) \cup G) = SumFunctionOnSet(f, In(J)) + SumFunctionOnSet(f, G)
      BY <2>1, SumUnion
    <2>3. \A j \in K : total[j] \in Int
      <3> SUFFICES ASSUME NEW j \in K PROVE total[j] \in Int
        OBVIOUS
      <3>1. IsFiniteSet({x \in S : key[x] = j})
        BY FS_Subset
      <3> QED BY <3>1, SumInt
    <2>4. SumFunctionOnSet(total, J \cup {k}) = total[k] + SumFunctionOnSet(total, J)
      BY <2>3, SumAdd, FS_Subset
    <2>5. SumFunctionOnSet(f, In(J)) \in Int /\ total[k] \in Int /\ total[k] = SumFunctionOnSet(f, G)
      BY <2>1, <2>3, SumInt
    <2>6. SumFunctionOnSet(total, J) = SumFunctionOnSet(f, In(J))
      BY <1>2
    <2> HIDE DEF In, G
    <2>7. SumFunctionOnSet(f, In(J \cup {k})) = SumFunctionOnSet(f, In(J)) + SumFunctionOnSet(f, G)
      BY <2>1, <2>2
    <2>8. SumFunctionOnSet(total, J \cup {k}) = SumFunctionOnSet(f, G) + SumFunctionOnSet(f, In(J))
      BY <2>4, <2>5, <2>6
    <2>9. SumFunctionOnSet(f, G) \in Int
      BY <2>5
    <2>10. SumFunctionOnSet(total, J \cup {k}) = SumFunctionOnSet(f, In(J \cup {k}))
      BY <2>5, <2>7, <2>8, <2>9
    <2> QED BY <2>10 DEF In
  <1> HIDE DEF C
  <1>3. K \in C
    BY <1>1, <1>2, ElementInduction
  <1>4. In(K) = S
    OBVIOUS
  <1> QED BY <1>3, <1>4 DEF C

-----------------------------------------------------------------------------
(* Renaming does not change how many there are. *)
LEMMA CountRenamed ==
  ASSUME NEW S, IsFiniteSet(S), NEW name, \A x, y \in S : name[x] = name[y] => x = y
  PROVE  Cardinality({name[x] : x \in S}) = Cardinality(S)
  <1> DEFINE C == {T \in SUBSET S : Cardinality({name[x] : x \in T}) = Cardinality(T)}
  <1>1. {} \in C
    <2>1. {name[x] : x \in {}} = {}
      OBVIOUS
    <2> QED BY <2>1
  <1>2. ASSUME NEW T \in SUBSET S, NEW e \in S \ T, T \in C PROVE T \cup {e} \in C
    <2> DEFINE N == {name[x] : x \in T}
    <2>1. {name[x] : x \in T \cup {e}} = N \cup {name[e]} /\ name[e] \notin N
      OBVIOUS
    <2>2. IsFiniteSet(T) /\ IsFiniteSet(N)
      BY FS_Subset, FiniteImage
    <2>3. Cardinality(N) = Cardinality(T)
      BY <1>2
    <2> HIDE DEF N
    <2>4. Cardinality(N \cup {name[e]}) = Cardinality(N) + 1 /\ Cardinality(T \cup {e}) = Cardinality(T) + 1
      BY <2>1, <2>2, FS_AddElement
    <2> QED BY <2>1, <2>3, <2>4
  <1> HIDE DEF C
  <1>3. S \in C
    BY <1>1, <1>2, ElementInduction
  <1> QED BY <1>3 DEF C

(* The mean of numbers of at most c is at most c. *)
LEMMA SumAtMost ==
  ASSUME NEW f, NEW S, IsFiniteSet(S), NEW c \in Nat, \A x \in S : f[x] \in Nat /\ f[x] <= c
  PROVE  SumFunctionOnSet(f, S) <= c * Cardinality(S)
  <1> DEFINE C == {T \in SUBSET S : SumFunctionOnSet(f, T) <= c * Cardinality(T)}
  <1>1. {} \in C
    <2>1. Cardinality({}) = 0
      BY FS_EmptySet
    <2> QED BY <2>1, SumEmpty
  <1>2. ASSUME NEW T \in SUBSET S, NEW e \in S \ T, T \in C PROVE T \cup {e} \in C
    <2>1. IsFiniteSet(T)
      BY FS_Subset
    <2>2. PICK n \in Nat : n = Cardinality(T)
      BY <2>1, FS_CardinalityType
    <2>3. Cardinality(T \cup {e}) = n + 1
      BY <2>1, <2>2, FS_AddElement
    <2>4. SumFunctionOnSet(f, T \cup {e}) = f[e] + SumFunctionOnSet(f, T)
      BY <2>1, SumAdd
    <2>5. SumFunctionOnSet(f, T) \in Nat /\ SumFunctionOnSet(f, T) <= c * n
      BY <1>2, <2>1, <2>2, SumNat
    <2>6. c * (n + 1) = c * n + c /\ c * n \in Nat
      OBVIOUS
    <2>7. f[e] + SumFunctionOnSet(f, T) <= c * n + c
      BY <2>5, <2>6
    <2> QED BY <2>3, <2>4, <2>6, <2>7
  <1> HIDE DEF C
  <1>3. S \in C
    BY <1>1, <1>2, ElementInduction
  <1> QED BY <1>3 DEF C

(* What lies between lo and hi times f adds up to between lo and hi times  *)
(* the sum of f.                                                           *)
LEMMA SumBetween ==
  ASSUME NEW f, NEW g, NEW S, IsFiniteSet(S), NEW lo \in Int, NEW hi \in Int,
         \A x \in S : f[x] \in Int /\ g[x] \in Int /\ lo * f[x] <= g[x] /\ g[x] <= hi * f[x]
  PROVE  /\ lo * SumFunctionOnSet(f, S) <= SumFunctionOnSet(g, S)
         /\ SumFunctionOnSet(g, S) <= hi * SumFunctionOnSet(f, S)
  <1> DEFINE C == {T \in SUBSET S : /\ lo * SumFunctionOnSet(f, T) <= SumFunctionOnSet(g, T)
                                   /\ SumFunctionOnSet(g, T) <= hi * SumFunctionOnSet(f, T)}
  <1>1. {} \in C
    <2>1. lo * 0 = 0 /\ hi * 0 = 0
      OBVIOUS
    <2> QED BY <2>1, SumEmpty
  <1>2. ASSUME NEW T \in SUBSET S, NEW e \in S \ T, T \in C PROVE T \cup {e} \in C
    <2>1. IsFiniteSet(T)
      BY FS_Subset
    <2>2. SumFunctionOnSet(f, T \cup {e}) = f[e] + SumFunctionOnSet(f, T)
          /\ SumFunctionOnSet(g, T \cup {e}) = g[e] + SumFunctionOnSet(g, T)
      BY <2>1, SumAdd
    <2>3. SumFunctionOnSet(f, T) \in Int /\ SumFunctionOnSet(g, T) \in Int
      BY <2>1, SumInt
    <2>4. PICK a \in Int, b \in Int, x \in Int, y \in Int :
            a = SumFunctionOnSet(f, T) /\ b = SumFunctionOnSet(g, T) /\ x = f[e] /\ y = g[e]
      BY <2>3
    <2>5. lo * a <= b /\ b <= hi * a /\ lo * x <= y /\ y <= hi * x
      BY <1>2, <2>4
    <2>6. lo * (x + a) = lo * x + lo * a /\ hi * (x + a) = hi * x + hi * a
      BY <2>4
    <2>7. lo * x \in Int /\ lo * a \in Int /\ hi * x \in Int /\ hi * a \in Int
      BY <2>4
    <2>8. lo * (x + a) <= y + b /\ y + b <= hi * (x + a)
      BY <2>4, <2>5, <2>6, <2>7
    <2> QED BY <2>2, <2>4, <2>8
  <1> HIDE DEF C
  <1>3. S \in C
    BY <1>1, <1>2, ElementInduction
  <1> QED BY <1>3 DEF C

-----------------------------------------------------------------------------

(* What holds of 0 and stays true as a number grows holds of all up to n.  *)
LEMMA UpToInduction ==
  ASSUME NEW n \in Nat, NEW C, 0 \in C, \A k \in 1 .. n : k - 1 \in C => k \in C
  PROVE  \A k \in 0 .. n : k \in C
  <1> DEFINE Bad == (0 .. n) \ C
  <1> SUFFICES ASSUME Bad # {} PROVE FALSE
    OBVIOUS
  <1>0. Bad \subseteq Nat
    OBVIOUS
  <1>1. PICK k \in Bad : \A m \in Bad : ~(m < k)
    <2> HIDE DEF Bad
    <2> QED BY <1>0, LeastNumber
  <1>2. k \in 1 .. n
    BY <1>1
  <1>3. k - 1 \in 0 .. n /\ k - 1 < k
    BY <1>2
  <1> QED BY <1>1, <1>2, <1>3

(* f is computed by recursion over 0 .. n.                                 *)
Runs(f, a, h, n) == f[0] = a /\ \A k \in 1 .. n : f[k] = h[f[k - 1]]

LEMMA RecursionExists ==
  ASSUME NEW D, NEW a \in D, NEW h \in [D -> D], NEW n \in Nat
  PROVE  \E f \in [0 .. n -> D] : Runs(f, a, h, n)
  <1> DEFINE C == {m \in 0 .. n : \E f \in [0 .. m -> D] : Runs(f, a, h, m)}
  <1>1. 0 \in C
    <2> DEFINE f == [k \in 0 .. 0 |-> a]
    <2>1. f \in [0 .. 0 -> D] /\ Runs(f, a, h, 0)
      BY DEF Runs
    <2> HIDE DEF f
    <2> QED BY <2>1
  <1>2. ASSUME NEW m \in 1 .. n, m - 1 \in C PROVE m \in C
    <2>1. PICK f \in [0 .. m - 1 -> D] : Runs(f, a, h, m - 1)
      BY <1>2
    <2> DEFINE g == [k \in 0 .. m |-> IF k = m THEN h[f[m - 1]] ELSE f[k]]
    <2>2. h[f[m - 1]] \in D /\ m - 1 \in 0 .. m - 1
      BY <2>1
    <2>3. g \in [0 .. m -> D]
      BY <2>1, <2>2
    <2>4. g[0] = a
      BY <2>1 DEF Runs
    <2>5. \A k \in 1 .. m - 1 : g[k] = f[k] /\ g[k - 1] = f[k - 1]
      OBVIOUS
    <2>6. g[m] = h[f[m - 1]] /\ g[m - 1] = f[m - 1]
      BY <2>2
    <2> HIDE DEF g
    <2>7. ASSUME NEW k \in 1 .. m PROVE g[k] = h[g[k - 1]]
      BY <2>1, <2>5, <2>6 DEF Runs
    <2>8. Runs(g, a, h, m)
      BY <2>4, <2>7 DEF Runs
    <2> QED BY <2>3, <2>8
  <1> HIDE DEF C
  <1>3. n \in C
    BY <1>1, <1>2, UpToInduction
  <1> QED BY <1>3 DEF C

(* However far it is computed, it has the same values.                     *)
LEMMA RunsAgree ==
  ASSUME NEW a, NEW h, NEW n \in Nat, NEW m \in Nat, NEW f, NEW g, Runs(f, a, h, n), Runs(g, a, h, m)
  PROVE  \A k \in 0 .. n : k <= m => f[k] = g[k]
  <1> DEFINE C == {k \in 0 .. n : k <= m => f[k] = g[k]}
  <1>1. 0 \in C
    BY DEF Runs
  <1>2. ASSUME NEW k \in 1 .. n, k - 1 \in C PROVE k \in C
    <2> SUFFICES ASSUME k <= m PROVE f[k] = g[k]
      OBVIOUS
    <2>1. k \in 1 .. m /\ f[k - 1] = g[k - 1]
      BY <1>2
    <2> QED BY <2>1 DEF Runs
  <1> HIDE DEF C
  <1>3. \A k \in 0 .. n : k \in C
    BY <1>1, <1>2, UpToInduction
  <1> QED BY <1>3 DEF C
=============================================================================

----------------------------- MODULE SumProofs -----------------------------
(***************************************************************************)
(* Sums of finite sets of amounts.  MapThenSumSet adds in the order of a   *)
(* choice; it is shown here to be the sum in any order.  Induction over    *)
(* the sets is replaced by a smallest counterexample.                      *)
(***************************************************************************)
EXTENDS Integers, FiniteSets, FiniteSetsExt, FiniteSetTheorems, WellFoundedInduction, TLAPS

Sum(g, S) == MapThenSumSet(LAMBDA x : g[x], S)

Pick(s) == CHOOSE x \in s : TRUE

\* h adds g over the subsets in C.
Adds(h, g, C) ==
  h = [s \in C |-> IF s = {} THEN 0 ELSE g[Pick(s)] + h[s \ {Pick(s)}]]

LEMMA Picked == \A s : s # {} => Pick(s) \in s
  BY DEF Pick

LEMMA Least ==
  ASSUME NEW N, N \subseteq Nat, N # {}
  PROVE  \E n \in N : \A m \in N : n <= m
<1>1. PICK n \in N : \A m \in N : <<m, n>> \notin OpToRel(<, Nat)
  BY NatLessThanWellFounded, WFMin
<1>2. \A m \in N : ~(m < n)
  BY <1>1 DEF OpToRel
<1> QED BY <1>2

\* In place of induction: a smallest counterexample, of which every smaller set is none.
LEMMA Smallest ==
  ASSUME NEW C, C # {}, \A s \in C : IsFiniteSet(s)
  PROVE  \E s \in C : \A x \in s : \A u \in C : u # s \ {x}
<1> DEFINE N == {Cardinality(s) : s \in C}
<1>1. N \subseteq Nat /\ N # {}
  BY FS_CardinalityType
<1>2. PICK n \in N : \A m \in N : n <= m
  BY <1>1, Least
<1>3. PICK s \in C : n = Cardinality(s)
  OBVIOUS
<1>4. \A x \in s : Cardinality(s \ {x}) = Cardinality(s) - 1
  BY FS_RemoveElement
<1>5. \A x \in s : s \ {x} \notin C
  <2> SUFFICES ASSUME NEW x \in s, s \ {x} \in C PROVE FALSE
    OBVIOUS
  <2>1. Cardinality(s \ {x}) \in N /\ Cardinality(s \ {x}) = Cardinality(s) - 1
    BY <1>4
  <2>2. n <= Cardinality(s \ {x}) /\ n \in Nat
    BY <1>1, <1>2, <2>1
  <2> HIDE DEF N
  <2> QED BY <1>3, <2>1, <2>2
<1> QED BY <1>5

LEMMA AddsExists ==
  ASSUME NEW S, NEW g, IsFiniteSet(S)
  PROVE  \E h : Adds(h, g, SUBSET S)
<1> DEFINE Small(n) == {s \in SUBSET S : Cardinality(s) <= n}
           Bad == {n \in Nat : ~\E h : Adds(h, g, Small(n))}
<1>1. \A s \in SUBSET S : IsFiniteSet(s) /\ Cardinality(s) \in Nat
  BY FS_Subset, FS_CardinalityType
<1>2. \A n \in Nat : \A s \in Small(n) : s # {} => n > 0 /\ s \ {Pick(s)} \in Small(n - 1)
  <2> SUFFICES ASSUME NEW n \in Nat, NEW s \in SUBSET S, Cardinality(s) <= n, s # {}
               PROVE  n > 0 /\ Cardinality(s \ {Pick(s)}) <= n - 1
    OBVIOUS
  <2>1. Cardinality(s \ {Pick(s)}) = Cardinality(s) - 1
    BY <1>1, Picked, FS_RemoveElement
  <2>2. Cardinality(s \ {Pick(s)}) \in Nat
    BY <1>1
  <2> QED BY <1>1, <2>1, <2>2
<1>3. \A n \in Nat : n > 0 => Small(n - 1) \subseteq Small(n)
  BY <1>1
<1> HIDE DEF Small
<1>4. Bad = {}
  <2> SUFFICES ASSUME Bad # {} PROVE FALSE
    OBVIOUS
  <2>1. PICK n \in Bad : \A m \in Bad : n <= m
    BY Least
  <2>2. CASE n = 0
    <3>1. Adds([s \in Small(0) |-> 0], g, Small(0))
      BY <1>2 DEF Adds
    <3> QED BY <2>1, <2>2, <3>1
  <2>3. CASE n > 0
    <3>1. PICK h : Adds(h, g, Small(n - 1))
      BY <2>1, <2>3
    <3> DEFINE j == [s \in Small(n) |-> IF s = {} THEN 0 ELSE g[Pick(s)] + h[s \ {Pick(s)}]]
    <3>2. \A s \in Small(n - 1) : j[s] = h[s]
      BY <1>3, <2>3, <3>1 DEF Adds
    <3>3. \A s \in Small(n) : s # {} => j[s \ {Pick(s)}] = h[s \ {Pick(s)}]
      BY <1>2, <3>2
    <3> HIDE DEF j
    <3>4. j = [s \in Small(n) |-> IF s = {} THEN 0 ELSE g[Pick(s)] + j[s \ {Pick(s)}]]
      BY <3>3 DEF j
    <3> QED BY <2>1, <3>4 DEF Adds
  <2> QED BY <2>1, <2>2, <2>3
<1>5. Small(Cardinality(S)) = SUBSET S
  BY FS_Subset DEF Small
<1>6. Cardinality(S) \in Nat /\ Cardinality(S) \notin Bad
  BY <1>1, <1>4
<1>7. \E h : Adds(h, g, Small(Cardinality(S)))
  BY <1>6
<1> QED BY <1>5, <1>7

\* What is added for a set does not depend on the set it is a subset of.
LEMMA AddsAgree ==
  ASSUME NEW S, NEW T, NEW g, NEW h, NEW j, IsFiniteSet(S), T \subseteq S,
         Adds(h, g, SUBSET S), Adds(j, g, SUBSET T)
  PROVE  h[T] = j[T]
<1> DEFINE C == {s \in SUBSET T : h[s] # j[s]}
<1> SUFFICES ASSUME C # {} PROVE FALSE
  OBVIOUS
<1>1. \A s \in C : IsFiniteSet(s)
  BY FS_Subset
<1>2. PICK s \in C : \A x \in s : \A u \in C : u # s \ {x}
  BY <1>1, Smallest
<1>3. s \in SUBSET S /\ s \in SUBSET T
  OBVIOUS
<1>4. /\ h[s] = IF s = {} THEN 0 ELSE g[Pick(s)] + h[s \ {Pick(s)}]
      /\ j[s] = IF s = {} THEN 0 ELSE g[Pick(s)] + j[s \ {Pick(s)}]
  BY <1>3 DEF Adds
<1>5. s # {} => h[s \ {Pick(s)}] = j[s \ {Pick(s)}]
  BY <1>2, <1>3, Picked
<1> QED BY <1>2, <1>4, <1>5

LEMMA SumUnfolds ==
  ASSUME NEW g, NEW S, IsFiniteSet(S)
  PROVE  \E h : Adds(h, g, SUBSET S) /\ Sum(g, S) = h[S]
<1>1. \E h : Adds(h, g, SUBSET S)
  BY AddsExists
<1> QED BY <1>1 DEF Sum, MapThenSumSet, MapThenFoldSet, Adds, Pick

LEMMA SumEmpty == ASSUME NEW g PROVE Sum(g, {}) = 0
<1>1. PICK h : Adds(h, g, SUBSET {}) /\ Sum(g, {}) = h[{}]
  BY SumUnfolds, FS_EmptySet
<1>2. h[{}] = 0
  BY <1>1 DEF Adds
<1> QED BY <1>1, <1>2

LEMMA SumPart ==
  ASSUME NEW g, NEW h, NEW S, NEW T, IsFiniteSet(S), T \subseteq S, Adds(h, g, SUBSET S)
  PROVE  Sum(g, T) = h[T]
<1>1. PICK j : Adds(j, g, SUBSET T) /\ Sum(g, T) = j[T]
  BY SumUnfolds, FS_Subset
<1>2. h[T] = j[T]
  BY <1>1, AddsAgree
<1> QED BY <1>1, <1>2

LEMMA SumPick ==
  ASSUME NEW g, NEW S, IsFiniteSet(S), S # {}
  PROVE  Sum(g, S) = g[Pick(S)] + Sum(g, S \ {Pick(S)})
<1>1. PICK h : Adds(h, g, SUBSET S)
  BY AddsExists
<1>2. Sum(g, S) = h[S] /\ Sum(g, S \ {Pick(S)}) = h[S \ {Pick(S)}]
  BY <1>1, SumPart
<1>3. h[S] = g[Pick(S)] + h[S \ {Pick(S)}]
  BY <1>1 DEF Adds
<1> QED BY <1>2, <1>3

LEMMA SumEqual ==
  ASSUME NEW g, NEW f, NEW S, IsFiniteSet(S), \A x \in S : f[x] = g[x]
  PROVE  Sum(f, S) = Sum(g, S)
<1> DEFINE C == {s \in SUBSET S : Sum(f, s) # Sum(g, s)}
<1> SUFFICES ASSUME C # {} PROVE FALSE
  OBVIOUS
<1>1. \A s \in SUBSET S : IsFiniteSet(s)
  BY FS_Subset
<1>2. PICK s \in C : \A x \in s : \A u \in C : u # s \ {x}
  BY <1>1, Smallest
<1>3. s # {}
  BY SumEmpty
<1>4. /\ Pick(s) \in s /\ Sum(g, s) = g[Pick(s)] + Sum(g, s \ {Pick(s)})
      /\ Sum(f, s) = f[Pick(s)] + Sum(f, s \ {Pick(s)})
  BY <1>1, <1>3, Picked, SumPick
<1>5. Sum(f, s \ {Pick(s)}) = Sum(g, s \ {Pick(s)})
  BY <1>2, <1>4
<1> QED BY <1>4, <1>5

LEMMA SumType ==
  ASSUME NEW g, NEW S, IsFiniteSet(S), \A x \in S : g[x] \in Int
  PROVE  Sum(g, S) \in Int
<1> DEFINE C == {s \in SUBSET S : Sum(g, s) \notin Int}
<1> SUFFICES ASSUME C # {} PROVE FALSE
  OBVIOUS
<1>1. \A s \in SUBSET S : IsFiniteSet(s)
  BY FS_Subset
<1>2. PICK s \in C : \A x \in s : \A u \in C : u # s \ {x}
  BY <1>1, Smallest
<1>3. s # {}
  BY SumEmpty
<1>4. Pick(s) \in s /\ Sum(g, s) = g[Pick(s)] + Sum(g, s \ {Pick(s)})
  BY <1>1, <1>3, Picked, SumPick
<1>5. Sum(g, s \ {Pick(s)}) \in Int
  BY <1>2, <1>4
<1> QED BY <1>4, <1>5

\* Any element may be taken out first.
LEMMA SumRemove ==
  ASSUME NEW g, NEW S, IsFiniteSet(S), \A x \in S : g[x] \in Int, NEW x \in S
  PROVE  Sum(g, S) = g[x] + Sum(g, S \ {x})
<1> DEFINE C == {s \in SUBSET S : \E y \in s : Sum(g, s) # g[y] + Sum(g, s \ {y})}
<1> SUFFICES ASSUME C # {} PROVE FALSE
  OBVIOUS
<1>1. \A s \in SUBSET S : IsFiniteSet(s) /\ Sum(g, s) \in Int
  BY FS_Subset, SumType
<1>2. PICK s \in C : \A y \in s : \A u \in C : u # s \ {y}
  BY <1>1, Smallest
<1>3. PICK y \in s : Sum(g, s) # g[y] + Sum(g, s \ {y})
  OBVIOUS
<1> DEFINE p == Pick(s)
<1>4. p \in s /\ Sum(g, s) = g[p] + Sum(g, s \ {p})
  BY <1>1, Picked, SumPick
<1>5. p # y
  BY <1>3, <1>4
<1>6. s \ {p} \notin C /\ s \ {y} \notin C
  BY <1>2, <1>4
<1>7. /\ Sum(g, s \ {p}) = g[y] + Sum(g, (s \ {p}) \ {y})
      /\ Sum(g, s \ {y}) = g[p] + Sum(g, (s \ {y}) \ {p})
  BY <1>4, <1>5, <1>6
<1>8. (s \ {p}) \ {y} = (s \ {y}) \ {p}
  OBVIOUS
<1>9. g[p] \in Int /\ g[y] \in Int /\ Sum(g, (s \ {p}) \ {y}) \in Int
  BY <1>1, <1>4
<1> DEFINE rest == Sum(g, (s \ {p}) \ {y})
           gp == g[p]
           gy == g[y]
<1>10. Sum(g, s) = gp + (gy + rest) /\ Sum(g, s \ {y}) = gp + rest
  BY <1>4, <1>7, <1>8
<1>11. gp \in Int /\ gy \in Int /\ rest \in Int
  BY <1>9
<1>12. Sum(g, s) # gy + Sum(g, s \ {y})
  BY <1>3
<1> HIDE DEF gp, gy, rest, p, C
<1> QED BY <1>10, <1>11, <1>12

\* An entry of one of the amounts changes.
LEMMA SumUpdate ==
  ASSUME NEW g, NEW f, NEW S, IsFiniteSet(S), NEW x \in S,
         \A y \in S : g[y] \in Int /\ f[y] \in Int,
         \A y \in S : y # x => f[y] = g[y]
  PROVE  Sum(f, S) = Sum(g, S) - g[x] + f[x]
<1>1. Sum(f, S \ {x}) = Sum(g, S \ {x})
  BY SumEqual, FS_Subset
<1>2. Sum(f, S) = f[x] + Sum(f, S \ {x}) /\ Sum(g, S) = g[x] + Sum(g, S \ {x})
  BY SumRemove
<1>3. Sum(g, S \ {x}) \in Int
  BY SumType, FS_Subset
<1> QED BY <1>1, <1>2, <1>3

LEMMA SumAdd ==
  ASSUME NEW g, NEW S, IsFiniteSet(S), NEW x, x \notin S, \A y \in S \cup {x} : g[y] \in Int
  PROVE  Sum(g, S \cup {x}) = Sum(g, S) + g[x]
<1>1. IsFiniteSet(S \cup {x}) /\ (S \cup {x}) \ {x} = S
  BY FS_AddElement
<1>2. Sum(g, S \cup {x}) = g[x] + Sum(g, S)
  BY <1>1, SumRemove
<1>3. Sum(g, S) \in Int
  BY SumType
<1> QED BY <1>2, <1>3

\* No amount exceeds the sum of amounts that are not negative.
LEMMA SumNat ==
  ASSUME NEW g, NEW S, IsFiniteSet(S), \A x \in S : g[x] \in Nat
  PROVE  Sum(g, S) \in Nat /\ \A x \in S : g[x] <= Sum(g, S)
<1> DEFINE C == {s \in SUBSET S : Sum(g, s) \notin Nat}
<1>1. \A s \in SUBSET S : IsFiniteSet(s)
  BY FS_Subset
<1>2. C = {}
  <2> SUFFICES ASSUME C # {} PROVE FALSE
    OBVIOUS
  <2>1. PICK s \in C : \A x \in s : \A u \in C : u # s \ {x}
    BY <1>1, Smallest
  <2>2. s # {}
    BY SumEmpty
  <2>3. Pick(s) \in s /\ Sum(g, s) = g[Pick(s)] + Sum(g, s \ {Pick(s)})
    BY <1>1, <2>2, Picked, SumPick
  <2>4. Sum(g, s \ {Pick(s)}) \in Nat
    BY <2>1, <2>3
  <2> QED BY <2>3, <2>4
<1>3. \A s \in SUBSET S : Sum(g, s) \in Nat
  BY <1>2
<1>4. \A x \in S : Sum(g, S) = g[x] + Sum(g, S \ {x})
  BY SumRemove
<1>5. \A x \in S : S \ {x} \in SUBSET S /\ S \in SUBSET S
  OBVIOUS
<1>6. \A x \in S : Sum(g, S \ {x}) \in Nat
  BY <1>3, <1>5
<1>7. ASSUME NEW x \in S PROVE g[x] <= Sum(g, S)
  <2>1. Sum(g, S) = g[x] + Sum(g, S \ {x}) /\ Sum(g, S \ {x}) \in Nat /\ g[x] \in Nat
    BY <1>4, <1>6
  <2> QED BY <2>1
<1> QED BY <1>3, <1>5, <1>7

LEMMA SumZero ==
  ASSUME NEW g, NEW S, IsFiniteSet(S), \A x \in S : g[x] = 0
  PROVE  Sum(g, S) = 0
<1> DEFINE C == {s \in SUBSET S : Sum(g, s) # 0}
<1> SUFFICES ASSUME C # {} PROVE FALSE
  OBVIOUS
<1>1. \A s \in SUBSET S : IsFiniteSet(s)
  BY FS_Subset
<1>2. PICK s \in C : \A x \in s : \A u \in C : u # s \ {x}
  BY <1>1, Smallest
<1>3. s # {}
  BY SumEmpty
<1>4. Pick(s) \in s /\ Sum(g, s) = g[Pick(s)] + Sum(g, s \ {Pick(s)})
  BY <1>1, <1>3, Picked, SumPick
<1>5. Sum(g, s \ {Pick(s)}) = 0
  BY <1>2, <1>4
<1> QED BY <1>4, <1>5

\* Entries that are zero may be left out.
LEMMA SumSupport ==
  ASSUME NEW g, NEW f, NEW S, NEW T, IsFiniteSet(S), T \subseteq S,
         \A x \in T : f[x] = g[x] /\ g[x] \in Int, \A x \in S \ T : f[x] = 0
  PROVE  Sum(f, S) = Sum(g, T)
<1> DEFINE C == {s \in SUBSET (S \ T) : Sum(f, T \cup s) # Sum(f, T)}
<1>1. \A s \in SUBSET S : IsFiniteSet(s)
  BY FS_Subset
<1>2. C = {}
  <2> SUFFICES ASSUME C # {} PROVE FALSE
    OBVIOUS
  <2>1. PICK s \in C : \A x \in s : \A u \in C : u # s \ {x}
    <3>1. \A s \in C : IsFiniteSet(s)
      <4>1. \A s \in C : s \in SUBSET S
        OBVIOUS
      <4> QED BY <1>1, <4>1
    <3> HIDE DEF C
    <3> QED BY <3>1, Smallest
  <2>2. s \subseteq S \ T /\ s # {}
    <3>1. T \cup {} = T
      OBVIOUS
    <3> QED BY <3>1
  <2>3. PICK x \in s : x \in S \ T
    BY <2>2
  <2>4. Sum(f, T \cup (s \ {x})) = Sum(f, T)
    BY <2>1, <2>2
  <2>5. (T \cup s) \ {x} = T \cup (s \ {x}) /\ T \cup s \in SUBSET S /\ x \in T \cup s
    BY <2>2, <2>3
  <2>6. \A y \in T \cup s : f[y] \in Int
    BY <2>2
  <2>7. Sum(f, T \cup s) = f[x] + Sum(f, (T \cup s) \ {x})
    BY <1>1, <2>5, <2>6, SumRemove
  <2>8. Sum(f, T) \in Int /\ f[x] = 0
    BY <1>1, <2>3, SumType
  <2>9. Sum(f, T \cup s) = Sum(f, T)
    <3>1. Sum(f, T \cup s) = f[x] + Sum(f, T \cup (s \ {x}))
      BY <2>5, <2>7
    <3> QED BY <2>4, <2>8, <3>1
  <2> QED BY <2>9
<1>3. S \ T \in SUBSET (S \ T) /\ T \cup (S \ T) = S
  OBVIOUS
<1>4. Sum(f, T \cup (S \ T)) = Sum(f, T)
  BY <1>2
<1>5. Sum(f, T) = Sum(g, T)
  BY <1>1, SumEqual
<1> QED BY <1>3, <1>4, <1>5

=============================================================================

-------------------------------- MODULE Sums --------------------------------
(***************************************************************************)
(* Sums of finitely many numbers, as SumFunction of module Functions folds *)
(* them: the facts the money proofs cite.  A fold is a recursive function, *)
(* so its equation holds only once some function is shown to solve it;     *)
(* that and every other fact is by induction on the set summed over, in    *)
(* the form of MinimalSet: a set of counterexamples would have a member    *)
(* from which no element can be taken away.                                *)
(***************************************************************************)
EXTENDS Integers, Functions, FiniteSetTheorems, WellFoundedInduction, TLAPS

-----------------------------------------------------------------------------
(* Induction on finite sets.                                                 *)

\* A set of numbers has a least member.
LEMMA LeastNumber ==
    ASSUME NEW T \in SUBSET Nat, T # {}
    PROVE  \E n \in T : \A m \in T : n <= m
  <1>1. PICK n \in T : \A m \in T : ~(<<m, n>> \in OpToRel(<, Nat))
    BY WFMin, NatLessThanWellFounded
  <1>2. \A m \in T : ~(m < n)
    BY <1>1 DEF OpToRel
  <1> QED
    BY <1>2

\* A family of subsets of a finite set has a minimal one.
LEMMA MinimalSet ==
    ASSUME NEW S, IsFiniteSet(S), NEW T, T \subseteq SUBSET S, T # {}
    PROVE  \E s \in T : \A x \in s : s \ {x} \notin T
  <1> DEFINE Sizes == {Cardinality(s) : s \in T}
  <1>1. \A s \in T : IsFiniteSet(s) /\ Cardinality(s) \in Nat
    BY FS_Subset, FS_CardinalityType
  <1>2. Sizes \subseteq Nat /\ Sizes # {}
    BY <1>1
  <1>3. PICK n \in Sizes : \A m \in Sizes : n <= m
    BY <1>2, LeastNumber
  <1>4. PICK s \in T : Cardinality(s) = n
    BY <1>3
  <1>5. ASSUME NEW x \in s, s \ {x} \in T PROVE FALSE
    <2>1. Cardinality(s \ {x}) = Cardinality(s) - 1
      BY <1>1, <1>5, FS_RemoveElement
    <2>2. Cardinality(s \ {x}) \in Sizes
      BY <1>5
    <2> HIDE DEF Sizes
    <2>3. n <= Cardinality(s \ {x})
      BY <1>3, <2>2
    <2> QED
      BY <1>1, <1>4, <2>1, <2>3
  <1> QED
    BY <1>5

\* Of finitely many numbers one is greatest.
LEMMA Greatest ==
    ASSUME NEW f, NEW S, IsFiniteSet(S), S # {}, \A x \in S : f[x] \in Int
    PROVE  \E a \in S : \A b \in S : f[a] >= f[b]
  <1> DEFINE Bad == {r \in SUBSET S : r # {} /\ \A a \in r : \E b \in r : ~(f[a] >= f[b])}
  <1>1. Bad = {}
    <2> SUFFICES ASSUME Bad # {} PROVE FALSE
      OBVIOUS
    <2>1. PICK r \in Bad : \A x \in r : r \ {x} \notin Bad
      BY MinimalSet
    <2>2. PICK x \in r : TRUE
      BY <2>1
    <2>3. CASE r \ {x} = {}
      BY <2>1, <2>2, <2>3
    <2>4. CASE r \ {x} # {}
      <3>1. PICK a \in r \ {x} : \A b \in r \ {x} : f[a] >= f[b]
        BY <2>1, <2>2, <2>4
      <3>2. f[a] \in Int /\ f[x] \in Int /\ \A b \in r : f[b] \in Int
        BY <2>1, <2>2, <3>1
      <3>3. CASE f[a] >= f[x]
        <4>1. \A b \in r : f[a] >= f[b]
          BY <3>1, <3>3
        <4> QED
          BY <2>1, <3>1, <4>1
      <3>4. CASE f[x] >= f[a]
        <4>1. \A b \in r : f[x] >= f[b]
          BY <3>1, <3>2, <3>4
        <4> QED
          BY <2>1, <2>2, <4>1
      <3> QED
        BY <3>2, <3>3, <3>4
    <2> QED
      BY <2>3, <2>4
  <1> QED
    BY <1>1

-----------------------------------------------------------------------------
(* The equation of a sum.                                                    *)

FoldStep(f, g, s) == IF s = {} THEN 0
                 ELSE LET x == CHOOSE x \in s : TRUE IN f[x] + g[s \ {x}]

FoldIter(f, S) == CHOOSE g : g = [s \in SUBSET S |-> FoldStep(f, g, s)]

\* The fold, as a solution of that equation.
LEMMA SumIter == \A f, S : SumFunctionOnSet(f, S) = FoldIter(f, S)[S]
  BY DEF SumFunctionOnSet, FoldFunctionOnSet, MapThenFoldSet, FoldIter, FoldStep

\* The equation has a solution on the subsets of a finite set.
LEMMA IterExists ==
    ASSUME NEW f, NEW S, IsFiniteSet(S)
    PROVE  \E g : g = [s \in SUBSET S |-> FoldStep(f, g, s)]
  <1> DEFINE Solves(g, n) == /\ g = [s \in SUBSET S |-> g[s]]
                             /\ \A s \in SUBSET S : Cardinality(s) <= n => g[s] = FoldStep(f, g, s)
             Bad == {n \in Nat : \A g : ~Solves(g, n)}
  <1>0. \A s \in SUBSET S : IsFiniteSet(s) /\ Cardinality(s) \in Nat
    BY FS_Subset, FS_CardinalityType
  <1>1. Bad = {}
    <2> SUFFICES ASSUME Bad # {} PROVE FALSE
      OBVIOUS
    <2>1. PICK n \in Bad : \A m \in Bad : n <= m
      BY LeastNumber
    <2>2. CASE n = 0
      <3> DEFINE g == [s \in SUBSET S |-> 0]
      <3>1. \A s \in SUBSET S : Cardinality(s) <= 0 => s = {}
        BY <1>0, FS_EmptySet
      <3>2. Solves(g, 0)
        BY <3>1 DEF FoldStep
      <3> QED
        BY <2>1, <2>2, <3>2
    <2>3. CASE n # 0
      <3>1. n \in Nat /\ n - 1 \in Nat
        BY <2>3
      <3> HIDE DEF Bad
      <3>2. n - 1 \notin Bad
        BY <2>1, <3>1
      <3> USE DEF Bad
      <3>3. PICK g : Solves(g, n - 1)
        BY <3>1, <3>2
      <3> DEFINE h == [s \in SUBSET S |-> IF Cardinality(s) <= n - 1 THEN g[s] ELSE FoldStep(f, g, s)]
      <3>4. ASSUME NEW s \in SUBSET S, Cardinality(s) <= n PROVE h[s] = FoldStep(f, h, s)
        <4>1. h[s] = FoldStep(f, g, s)
          BY <3>3
        <4>2. CASE s = {}
          BY <4>1, <4>2 DEF FoldStep
        <4>3. CASE s # {}
          <5> DEFINE x == CHOOSE x \in s : TRUE
          <5>1. x \in s
            BY <4>3
          <5>2. Cardinality(s \ {x}) = Cardinality(s) - 1
            BY <1>0, <5>1, FS_RemoveElement
          <5>3. Cardinality(s \ {x}) <= n - 1
            BY <1>0, <3>1, <3>4, <5>2
          <5>4. h[s \ {x}] = g[s \ {x}]
            BY <5>3
          <5> QED
            BY <4>1, <4>3, <5>4 DEF FoldStep
        <4> QED
          BY <4>2, <4>3
      <3>5. h = [s \in SUBSET S |-> h[s]]
        OBVIOUS
      <3>6. Solves(h, n)
        BY <3>4, <3>5
      <3> QED
        BY <2>1, <3>6
    <2> QED
      BY <2>2, <2>3
  <1>2. Cardinality(S) \in Nat /\ Cardinality(S) \notin Bad
    BY <1>0, <1>1
  <1>3. PICK g : Solves(g, Cardinality(S))
    BY <1>2
  <1>4. \A s \in SUBSET S : Cardinality(s) <= Cardinality(S)
    BY FS_Subset
  <1>5. \A s \in SUBSET S : g[s] = FoldStep(f, g, s)
    BY <1>3, <1>4
  <1>6. g = [s \in SUBSET S |-> FoldStep(f, g, s)]
    BY <1>3, <1>5
  <1> QED
    BY <1>6

\* The fold solves it.
LEMMA IterEquation ==
    ASSUME NEW f, NEW S, IsFiniteSet(S)
    PROVE  \A s \in SUBSET S : FoldIter(f, S)[s] = FoldStep(f, FoldIter(f, S), s)
  <1>1. FoldIter(f, S) = [s \in SUBSET S |-> FoldStep(f, FoldIter(f, S), s)]
    BY IterExists DEF FoldIter
  <1> QED
    BY <1>1

\* What a set sums to does not depend on the set it is taken from.
LEMMA IterAgrees ==
    ASSUME NEW f, NEW S, IsFiniteSet(S), NEW s \in SUBSET S
    PROVE  FoldIter(f, S)[s] = FoldIter(f, s)[s]
  <1> DEFINE Bad == {r \in SUBSET s : FoldIter(f, S)[r] # FoldIter(f, s)[r]}
  <1>1. IsFiniteSet(s)
    BY FS_Subset
  <1>2. Bad = {}
    <2> SUFFICES ASSUME Bad # {} PROVE FALSE
      OBVIOUS
    <2>1. PICK r \in Bad : \A x \in r : r \ {x} \notin Bad
      BY <1>1, MinimalSet
    <2>2. FoldIter(f, S)[r] = FoldStep(f, FoldIter(f, S), r) /\ FoldIter(f, s)[r] = FoldStep(f, FoldIter(f, s), r)
      BY <1>1, <2>1, IterEquation
    <2>3. CASE r = {}
      BY <2>1, <2>2, <2>3 DEF FoldStep
    <2>4. CASE r # {}
      <3> DEFINE x == CHOOSE x \in r : TRUE
      <3>1. x \in r
        BY <2>4
      <3>2. FoldIter(f, S)[r \ {x}] = FoldIter(f, s)[r \ {x}]
        BY <2>1, <3>1
      <3> QED
        BY <2>1, <2>2, <2>4, <3>2 DEF FoldStep
    <2> QED
      BY <2>3, <2>4
  <1> QED
    BY <1>2

\* A sum is the chosen member's value and the sum of the others.
LEMMA SumStep ==
    ASSUME NEW f, NEW S, IsFiniteSet(S)
    PROVE  /\ S = {} => SumFunctionOnSet(f, S) = 0
           /\ S # {} => LET x == CHOOSE x \in S : TRUE
                        IN  SumFunctionOnSet(f, S) = f[x] + SumFunctionOnSet(f, S \ {x})
  <1>1. SumFunctionOnSet(f, S) = FoldStep(f, FoldIter(f, S), S)
    BY SumIter, IterEquation
  <1>2. \A x \in S : FoldIter(f, S)[S \ {x}] = SumFunctionOnSet(f, S \ {x})
    BY SumIter, IterAgrees
  <1> QED
    BY <1>1, <1>2 DEF FoldStep

-----------------------------------------------------------------------------
(* Sums of integers.                                                         *)

\* They are integers,
LEMMA SumType ==
    ASSUME NEW f, NEW S, IsFiniteSet(S), \A x \in S : f[x] \in Int
    PROVE  SumFunctionOnSet(f, S) \in Int
  <1> DEFINE Bad == {r \in SUBSET S : SumFunctionOnSet(f, r) \notin Int}
  <1>1. Bad = {}
    <2> SUFFICES ASSUME Bad # {} PROVE FALSE
      OBVIOUS
    <2>1. PICK r \in Bad : \A x \in r : r \ {x} \notin Bad
      BY MinimalSet
    <2>2. IsFiniteSet(r)
      BY <2>1, FS_Subset
    <2>3. CASE r = {}
      <3>1. SumFunctionOnSet(f, r) = 0
        BY <2>2, <2>3, SumStep
      <3> QED
        BY <2>1, <3>1
    <2>4. CASE r # {}
      <3> DEFINE x == CHOOSE x \in r : TRUE
      <3>1. x \in r
        BY <2>4
      <3>2. SumFunctionOnSet(f, r) = f[x] + SumFunctionOnSet(f, r \ {x})
        BY <2>2, <2>4, SumStep
      <3>3. SumFunctionOnSet(f, r \ {x}) \in Int
        BY <2>1, <3>1
      <3> HIDE DEF x
      <3> QED
        BY <2>1, <3>1, <3>2, <3>3
    <2> QED
      BY <2>3, <2>4
  <1> QED
    BY <1>1

\* and do not depend on the order of the summands.
LEMMA SumRemove ==
    ASSUME NEW f, NEW S, IsFiniteSet(S), \A x \in S : f[x] \in Int, NEW a \in S
    PROVE  SumFunctionOnSet(f, S) = f[a] + SumFunctionOnSet(f, S \ {a})
  <1> DEFINE Bad == {r \in SUBSET S : \E b \in r :
                        SumFunctionOnSet(f, r) # f[b] + SumFunctionOnSet(f, r \ {b})}
  <1>1. Bad = {}
    <2> SUFFICES ASSUME Bad # {} PROVE FALSE
      OBVIOUS
    <2>1. PICK r \in Bad : \A x \in r : r \ {x} \notin Bad
      BY MinimalSet
    <2>2. PICK b \in r : SumFunctionOnSet(f, r) # f[b] + SumFunctionOnSet(f, r \ {b})
      BY <2>1
    <2> DEFINE x == CHOOSE x \in r : TRUE
    <2>3. x \in r
      BY <2>2
    <2>4. IsFiniteSet(r) /\ IsFiniteSet(r \ {x}) /\ IsFiniteSet(r \ {b}) /\ IsFiniteSet((r \ {x}) \ {b})
      BY <2>1, FS_Subset
    <2>5. SumFunctionOnSet(f, r) = f[x] + SumFunctionOnSet(f, r \ {x})
      BY <2>2, <2>4, SumStep
    <2> HIDE DEF x
    <2>6. b # x
      BY <2>2, <2>5
    <2>7. SumFunctionOnSet(f, r \ {x}) = f[b] + SumFunctionOnSet(f, (r \ {x}) \ {b})
      BY <2>1, <2>2, <2>3, <2>6
    <2>8. SumFunctionOnSet(f, r \ {b}) = f[x] + SumFunctionOnSet(f, (r \ {b}) \ {x})
      BY <2>1, <2>2, <2>3, <2>6
    <2>9. (r \ {b}) \ {x} = (r \ {x}) \ {b}
      OBVIOUS
    <2>10. f[b] \in Int /\ f[x] \in Int /\ SumFunctionOnSet(f, (r \ {x}) \ {b}) \in Int
      BY <2>1, <2>2, <2>3, <2>4, SumType
    <2>11. SumFunctionOnSet(f, r \ {b}) = f[x] + SumFunctionOnSet(f, (r \ {x}) \ {b})
      BY <2>8, <2>9, Zenon
    <2>12. SumFunctionOnSet(f, r) = f[b] + SumFunctionOnSet(f, r \ {b})
      BY <2>5, <2>7, <2>10, <2>11
    <2> QED
      BY <2>2, <2>12
  <1> QED
    BY <1>1

\* Equal summands have equal sums.
LEMMA SumSame ==
    ASSUME NEW f, NEW g, NEW S, IsFiniteSet(S), \A x \in S : f[x] = g[x]
    PROVE  SumFunctionOnSet(f, S) = SumFunctionOnSet(g, S)
  <1> DEFINE Bad == {r \in SUBSET S : SumFunctionOnSet(f, r) # SumFunctionOnSet(g, r)}
  <1>1. Bad = {}
    <2> SUFFICES ASSUME Bad # {} PROVE FALSE
      OBVIOUS
    <2>1. PICK r \in Bad : \A x \in r : r \ {x} \notin Bad
      BY MinimalSet
    <2>2. IsFiniteSet(r)
      BY <2>1, FS_Subset
    <2>3. CASE r = {}
      BY <2>1, <2>2, <2>3, SumStep
    <2>4. CASE r # {}
      <3> DEFINE x == CHOOSE x \in r : TRUE
      <3>1. x \in r
        BY <2>4
      <3>2. /\ SumFunctionOnSet(f, r) = f[x] + SumFunctionOnSet(f, r \ {x})
            /\ SumFunctionOnSet(g, r) = g[x] + SumFunctionOnSet(g, r \ {x})
        BY <2>2, <2>4, SumStep
      <3>3. SumFunctionOnSet(f, r \ {x}) = SumFunctionOnSet(g, r \ {x}) /\ f[x] = g[x]
        BY <2>1, <3>1
      <3> HIDE DEF x
      <3> QED
        BY <2>1, <3>2, <3>3
    <2> QED
      BY <2>3, <2>4
  <1> QED
    BY <1>1

\* Sums add and subtract summand by summand.
LEMMA SumPlus ==
    ASSUME NEW f, NEW g, NEW h, NEW S, IsFiniteSet(S),
           \A x \in S : f[x] \in Int /\ g[x] \in Int /\ h[x] = f[x] + g[x]
    PROVE  SumFunctionOnSet(h, S) = SumFunctionOnSet(f, S) + SumFunctionOnSet(g, S)
  <1> DEFINE Bad == {r \in SUBSET S :
                        SumFunctionOnSet(h, r) # SumFunctionOnSet(f, r) + SumFunctionOnSet(g, r)}
  <1>1. Bad = {}
    <2> SUFFICES ASSUME Bad # {} PROVE FALSE
      OBVIOUS
    <2>1. PICK r \in Bad : \A x \in r : r \ {x} \notin Bad
      BY MinimalSet
    <2>2. IsFiniteSet(r)
      BY <2>1, FS_Subset
    <2>3. CASE r = {}
      <3>1. SumFunctionOnSet(f, r) = 0 /\ SumFunctionOnSet(g, r) = 0 /\ SumFunctionOnSet(h, r) = 0
        BY <2>2, <2>3, SumStep
      <3> QED
        BY <2>1, <3>1
    <2>4. CASE r # {}
      <3> DEFINE x == CHOOSE x \in r : TRUE
      <3>1. x \in r
        BY <2>4
      <3>2. /\ SumFunctionOnSet(f, r) = f[x] + SumFunctionOnSet(f, r \ {x})
            /\ SumFunctionOnSet(g, r) = g[x] + SumFunctionOnSet(g, r \ {x})
            /\ SumFunctionOnSet(h, r) = h[x] + SumFunctionOnSet(h, r \ {x})
        BY <2>2, <2>4, SumStep
      <3>3. SumFunctionOnSet(h, r \ {x}) = SumFunctionOnSet(f, r \ {x}) + SumFunctionOnSet(g, r \ {x})
        BY <2>1, <3>1
      <3>4. f[x] \in Int /\ g[x] \in Int /\ h[x] = f[x] + g[x]
        BY <2>1, <3>1
      <3>5. SumFunctionOnSet(f, r \ {x}) \in Int /\ SumFunctionOnSet(g, r \ {x}) \in Int
        <4>1. IsFiniteSet(r \ {x}) /\ \A y \in r \ {x} : f[y] \in Int /\ g[y] \in Int
          BY <2>1, <2>2, FS_Subset
        <4> QED
          BY <4>1, SumType
      <3> HIDE DEF x
      <3> QED
        BY <2>1, <3>2, <3>3, <3>4, <3>5
    <2> QED
      BY <2>3, <2>4
  <1> QED
    BY <1>1

\* Larger summands have a larger sum.
LEMMA SumMonotone ==
    ASSUME NEW f, NEW g, NEW S, IsFiniteSet(S),
           \A x \in S : f[x] \in Int /\ g[x] \in Int /\ f[x] <= g[x]
    PROVE  SumFunctionOnSet(f, S) <= SumFunctionOnSet(g, S)
  <1> DEFINE Bad == {r \in SUBSET S : ~(SumFunctionOnSet(f, r) <= SumFunctionOnSet(g, r))}
  <1>1. Bad = {}
    <2> SUFFICES ASSUME Bad # {} PROVE FALSE
      OBVIOUS
    <2>1. PICK r \in Bad : \A x \in r : r \ {x} \notin Bad
      BY MinimalSet
    <2>2. IsFiniteSet(r)
      BY <2>1, FS_Subset
    <2>3. CASE r = {}
      <3>1. SumFunctionOnSet(f, r) = 0 /\ SumFunctionOnSet(g, r) = 0
        BY <2>2, <2>3, SumStep
      <3> QED
        BY <2>1, <3>1
    <2>4. CASE r # {}
      <3> DEFINE x == CHOOSE x \in r : TRUE
      <3>1. x \in r
        BY <2>4
      <3>2. /\ SumFunctionOnSet(f, r) = f[x] + SumFunctionOnSet(f, r \ {x})
            /\ SumFunctionOnSet(g, r) = g[x] + SumFunctionOnSet(g, r \ {x})
        BY <2>2, <2>4, SumStep
      <3>3. SumFunctionOnSet(f, r \ {x}) <= SumFunctionOnSet(g, r \ {x})
        BY <2>1, <3>1
      <3>4. f[x] \in Int /\ g[x] \in Int /\ f[x] <= g[x]
        BY <2>1, <3>1
      <3>5. SumFunctionOnSet(f, r \ {x}) \in Int /\ SumFunctionOnSet(g, r \ {x}) \in Int
        <4>1. IsFiniteSet(r \ {x}) /\ \A y \in r \ {x} : f[y] \in Int /\ g[y] \in Int
          BY <2>1, <2>2, FS_Subset
        <4> QED
          BY <4>1, SumType
      <3> HIDE DEF x
      <3> QED
        BY <2>1, <3>2, <3>3, <3>4, <3>5
    <2> QED
      BY <2>3, <2>4
  <1> QED
    BY <1>1

\* Zeros sum to nothing,
LEMMA SumZero ==
    ASSUME NEW f, NEW S, IsFiniteSet(S), \A x \in S : f[x] = 0
    PROVE  SumFunctionOnSet(f, S) = 0
  <1> DEFINE total == SumFunctionOnSet(f, S)
  <1>1. total \in Int
    BY SumType
  <1>2. total = total + total
    BY SumPlus
  <1> HIDE DEF total
  <1>3. total = 0
    BY <1>1, <1>2
  <1> QED
    BY <1>3 DEF total

\* and numbers that are not negative to none that is.
LEMMA SumNat ==
    ASSUME NEW f, NEW S, IsFiniteSet(S), \A x \in S : f[x] \in Nat
    PROVE  SumFunctionOnSet(f, S) \in Nat
  <1> DEFINE zero == [x \in S |-> 0]
  <1>1. SumFunctionOnSet(f, S) \in Int
    BY SumType
  <1>2. SumFunctionOnSet(zero, S) = 0
    BY SumZero
  <1>3. SumFunctionOnSet(zero, S) <= SumFunctionOnSet(f, S)
    BY SumMonotone
  <1> QED
    BY <1>1, <1>2, <1>3

\* Changing one summand changes the sum by as much.
LEMMA SumChange ==
    ASSUME NEW f, NEW g, NEW S, IsFiniteSet(S), NEW a \in S,
           \A x \in S : f[x] \in Int /\ g[x] \in Int, \A x \in S \ {a} : g[x] = f[x]
    PROVE  SumFunctionOnSet(g, S) = SumFunctionOnSet(f, S) + g[a] - f[a]
  <1>1. /\ SumFunctionOnSet(f, S) = f[a] + SumFunctionOnSet(f, S \ {a})
        /\ SumFunctionOnSet(g, S) = g[a] + SumFunctionOnSet(g, S \ {a})
    BY SumRemove
  <1>2. IsFiniteSet(S \ {a}) /\ \A x \in S \ {a} : f[x] \in Int
    BY FS_Subset
  <1>3. SumFunctionOnSet(g, S \ {a}) = SumFunctionOnSet(f, S \ {a})
    BY <1>2, SumSame
  <1>4. SumFunctionOnSet(f, S \ {a}) \in Int
    BY <1>2, SumType
  <1> QED
    BY <1>1, <1>3, <1>4

-----------------------------------------------------------------------------
(* Sums over a set of pairs.                                                 *)

\* A sum is that of a part and that of the rest.
LEMMA SumSplit ==
    ASSUME NEW f, NEW S, IsFiniteSet(S), \A x \in S : f[x] \in Int, NEW P \in SUBSET S
    PROVE  SumFunctionOnSet(f, S) = SumFunctionOnSet(f, P) + SumFunctionOnSet(f, S \ P)
  <1> DEFINE Bad == {r \in SUBSET P :
                        SumFunctionOnSet(f, S) # SumFunctionOnSet(f, r) + SumFunctionOnSet(f, S \ r)}
  <1>1. Bad = {}
    <2> SUFFICES ASSUME Bad # {} PROVE FALSE
      OBVIOUS
    <2>1. IsFiniteSet(P)
      BY FS_Subset
    <2>2. PICK r \in Bad : \A x \in r : r \ {x} \notin Bad
      BY <2>1, MinimalSet
    <2>3. IsFiniteSet(r) /\ IsFiniteSet(S \ r)
      BY <2>2, FS_Subset
    <2>4. SumFunctionOnSet(f, S) \in Int
      BY SumType
    <2>5. CASE r = {}
      <3>1. SumFunctionOnSet(f, r) = 0
        BY <2>3, <2>5, SumStep
      <3>2. S \ r = S
        BY <2>5
      <3>3. SumFunctionOnSet(f, S \ r) = SumFunctionOnSet(f, S)
        BY <3>2, Zenon
      <3> QED
        BY <2>2, <2>4, <3>1, <3>3
    <2>6. ASSUME NEW x \in r PROVE FALSE
      <3>1. SumFunctionOnSet(f, r) = f[x] + SumFunctionOnSet(f, r \ {x})
        BY <2>2, <2>3, SumRemove
      <3> DEFINE rest == S \ (r \ {x})
      <3>2. IsFiniteSet(rest) /\ x \in rest /\ \A y \in rest : f[y] \in Int
        BY <2>2, FS_Subset
      <3>3. rest \ {x} = S \ r
        BY <2>2
      <3>4. SumFunctionOnSet(f, S) = SumFunctionOnSet(f, r \ {x}) + SumFunctionOnSet(f, rest)
        BY <2>2
      <3> HIDE DEF rest
      <3>5. SumFunctionOnSet(f, rest) = f[x] + SumFunctionOnSet(f, rest \ {x})
        BY <3>2, SumRemove
      <3>6. SumFunctionOnSet(f, rest) = f[x] + SumFunctionOnSet(f, S \ r)
        BY <3>3, <3>5
      <3>7. IsFiniteSet(r \ {x}) /\ \A y \in r \ {x} : f[y] \in Int
        BY <2>2, <2>3, FS_Subset
      <3>8. f[x] \in Int /\ SumFunctionOnSet(f, r \ {x}) \in Int /\ SumFunctionOnSet(f, S \ r) \in Int
        BY <2>2, <2>3, <3>7, SumType
      <3>9. SumFunctionOnSet(f, S) = SumFunctionOnSet(f, r) + SumFunctionOnSet(f, S \ r)
        BY <3>1, <3>4, <3>6, <3>8
      <3> QED
        BY <2>2, <3>9
    <2> QED
      BY <2>5, <2>6
  <1> QED
    BY <1>1

\* Renaming the summands, each to a name of its own, keeps the sum.
LEMMA SumRenamed ==
    ASSUME NEW B, IsFiniteSet(B), NEW S, IsFiniteSet(S), NEW key \in [B -> S],
           \A b, c \in B : key[b] = key[c] => b = c,
           \A x \in S : \E b \in B : key[b] = x,
           NEW f, \A x \in S : f[x] \in Int, NEW row, \A b \in B : row[b] = f[key[b]]
    PROVE  SumFunctionOnSet(f, S) = SumFunctionOnSet(row, B)
  <1> DEFINE Image(r) == {key[b] : b \in r}
             Bad == {r \in SUBSET B : SumFunctionOnSet(f, Image(r)) # SumFunctionOnSet(row, r)}
  <1>1. Bad = {}
    <2> SUFFICES ASSUME Bad # {} PROVE FALSE
      OBVIOUS
    <2>1. PICK r \in Bad : \A x \in r : r \ {x} \notin Bad
      BY MinimalSet
    <2>2. IsFiniteSet(r) /\ IsFiniteSet(Image(r))
      <3>1. Image(r) \in SUBSET S
        BY <2>1
      <3> QED
        BY <2>1, <3>1, FS_Subset
    <2>3. CASE r = {}
      <3>1. Image(r) = {}
        BY <2>3
      <3>2. SumFunctionOnSet(f, Image(r)) = 0 /\ SumFunctionOnSet(row, r) = 0
        BY <2>2, <2>3, <3>1, SumStep
      <3> QED
        BY <2>1, <3>2
    <2>4. ASSUME NEW x \in r PROVE FALSE
      <3>1. \A y \in r : row[y] \in Int
        BY <2>1
      <3>2. row[x] = f[key[x]]
        BY <2>1, <2>4
      <3>3. key[x] \in Image(r) /\ \A z \in Image(r) : f[z] \in Int
        BY <2>1, <2>4
      <3>4. Image(r) \ {key[x]} = Image(r \ {x})
        BY <2>1, <2>4
      <3>5. SumFunctionOnSet(f, Image(r \ {x})) = SumFunctionOnSet(row, r \ {x})
        BY <2>1, <2>4
      <3> DEFINE image == Image(r)
      <3> HIDE DEF image
      <3>6. SumFunctionOnSet(f, image) = f[key[x]] + SumFunctionOnSet(f, image \ {key[x]})
        BY <2>2, <3>3, SumRemove DEF image
      <3>7. SumFunctionOnSet(f, image \ {key[x]}) = SumFunctionOnSet(f, Image(r \ {x}))
        BY <3>4 DEF image
      <3>8. SumFunctionOnSet(row, r) = row[x] + SumFunctionOnSet(row, r \ {x})
        BY <2>2, <2>4, <3>1, SumRemove
      <3>9. SumFunctionOnSet(f, image) = SumFunctionOnSet(row, r)
        BY <3>2, <3>5, <3>6, <3>7, <3>8
      <3> QED
        BY <2>1, <3>9 DEF image
    <2> QED
      BY <2>3, <2>4
  <1>2. Image(B) = S
    OBVIOUS
  <1>3. SumFunctionOnSet(f, Image(B)) = SumFunctionOnSet(row, B)
    BY <1>1
  <1> QED
    BY <1>2, <1>3

\* A table sums to the sum of the sums of its rows.
LEMMA SumTable ==
    ASSUME NEW f, NEW A, NEW B, IsFiniteSet(A), IsFiniteSet(B),
           \A p \in A \X B : f[p] \in Int,
           NEW rows, \A a \in A, b \in B : rows[a][b] = f[<<a, b>>],
           NEW g, \A a \in A : g[a] = SumFunctionOnSet(rows[a], B)
    PROVE  SumFunctionOnSet(f, A \X B) = SumFunctionOnSet(g, A)
  <1> DEFINE Bad == {r \in SUBSET A : SumFunctionOnSet(f, r \X B) # SumFunctionOnSet(g, r)}
  <1>0. \A a \in A : g[a] \in Int
    <2>1. \A a \in A, b \in B : rows[a][b] \in Int
      OBVIOUS
    <2> QED
      BY <2>1, SumType
  <1>1. Bad = {}
    <2> SUFFICES ASSUME Bad # {} PROVE FALSE
      OBVIOUS
    <2>1. PICK r \in Bad : \A x \in r : r \ {x} \notin Bad
      BY MinimalSet
    <2>2. IsFiniteSet(r) /\ IsFiniteSet(r \X B)
      BY <2>1, FS_Subset, FS_Product
    <2>3. CASE r = {}
      <3>1. r \X B = {}
        BY <2>3
      <3>2. SumFunctionOnSet(f, r \X B) = 0 /\ SumFunctionOnSet(g, r) = 0
        BY <2>2, <2>3, <3>1, SumStep
      <3> QED
        BY <2>1, <3>2
    <2>4. ASSUME NEW x \in r PROVE FALSE
      <3>1. \A p \in r \X B : f[p] \in Int
        BY <2>1
      <3>2. {x} \X B \in SUBSET (r \X B)
        BY <2>4
      <3>3. (r \X B) \ ({x} \X B) = (r \ {x}) \X B
        OBVIOUS
      <3>4. SumFunctionOnSet(f, r \X B) = SumFunctionOnSet(f, {x} \X B)
                                          + SumFunctionOnSet(f, (r \X B) \ ({x} \X B))
        BY <2>2, <3>1, <3>2, SumSplit
      <3>5. SumFunctionOnSet(f, {x} \X B) = g[x]
        <4> DEFINE row == rows[x]
                   key == [b \in B |-> <<x, b>>]
                   pairs == {x} \X B
        <4>1. \A b \in B : row[b] = f[key[b]]
          BY <2>1
        <4>2. g[x] = SumFunctionOnSet(row, B)
          BY <2>1
        <4>3. key \in [B -> pairs] /\ (\A b, c \in B : key[b] = key[c] => b = c)
          OBVIOUS
        <4>4. \A p \in pairs : \E b \in B : key[b] = p
          OBVIOUS
        <4>5. IsFiniteSet(pairs) /\ \A p \in pairs : f[p] \in Int
          BY <2>1, FS_Singleton, FS_Product
        <4> HIDE DEF row, key, pairs
        <4>6. SumFunctionOnSet(f, pairs) = SumFunctionOnSet(row, B)
          BY <4>1, <4>3, <4>4, <4>5, SumRenamed
        <4> QED
          BY <4>2, <4>6 DEF pairs
      <3>6. SumFunctionOnSet(f, (r \ {x}) \X B) = SumFunctionOnSet(g, r \ {x})
        BY <2>1, <2>4
      <3>7. SumFunctionOnSet(g, r) = g[x] + SumFunctionOnSet(g, r \ {x})
        BY <1>0, <2>1, <2>2, SumRemove
      <3>8. SumFunctionOnSet(f, r \X B) = SumFunctionOnSet(g, r)
        BY <3>3, <3>4, <3>5, <3>6, <3>7
      <3> QED
        BY <2>1, <3>8
    <2> QED
      BY <2>3, <2>4
  <1> QED
    BY <1>1

=============================================================================

----------------------------- MODULE SumLemmas ------------------------------
(***************************************************************************)
(* What SumFunctionOnSet of the community modules computes, for every      *)
(* finite set and all integers, and that a natural number is the sum of    *)
(* its decimal digits.                                                     *)
(*                                                                         *)
(* The induction theorems of the library take an operator as a parameter;  *)
(* here induction is over a set instead: of the numbers, or of the finite  *)
(* sets, for which the claim holds.                                        *)
(***************************************************************************)
EXTENDS Integers, FiniteSets, Functions, FiniteSetTheorems,
        WellFoundedInduction, TLAPS

-----------------------------------------------------------------------------
\* A set of natural numbers has a smallest one.
LEMMA SmallestNumber ==
  ASSUME NEW T \in SUBSET Nat, T # {}
  PROVE  \E m \in T : \A n \in T : m <= n
<1>1. PICK R : R = OpToRel(<, Nat)
  OBVIOUS
<1>2. PICK m \in T : \A n \in T : <<n, m>> \notin R
  BY <1>1, NatLessThanWellFounded, WFMin, Zenon
<1>3. \A n \in T : n < m => <<n, m>> \in R
  BY <1>1 DEF OpToRel
<1>4. \A n \in T : ~(n < m)
  BY <1>2, <1>3
<1>5. \A n \in T : m <= n
  BY <1>4
<1>. QED  BY <1>5

\* The numbers of a bounded and inhabited set have a greatest one.
LEMMA GreatestNumber ==
  ASSUME NEW d \in Nat, NEW S \in SUBSET (0..d), S # {}
  PROVE  \E m \in S : \A n \in S : m >= n
<1>. DEFINE T == {d - n : n \in S}
<1>1. T \in SUBSET Nat /\ T # {}
  <2>1. \A n \in S : n \in 0..d /\ d - n \in Nat
    OBVIOUS
  <2>2. \E n \in S : d - n \in T
    OBVIOUS
  <2>. QED  BY <2>1, <2>2
<1>2. PICK t \in T : \A u \in T : t <= u
  <2>. HIDE DEF T
  <2>. QED  BY <1>1, SmallestNumber
<1>3. PICK m \in S : t = d - m
  BY <1>2
<1>4. ASSUME NEW n \in S
      PROVE  m >= n
  <2>1. d - n \in T
    OBVIOUS
  <2>2. d - m <= d - n
    <3>. HIDE DEF T
    <3>. QED  BY <1>2, <1>3, <2>1
  <2>. QED  BY <2>2
<1>. QED  BY <1>4

\* Induction over the natural numbers.
LEMMA NumberInduction ==
  ASSUME NEW F \in SUBSET Nat, 0 \in F, \A n \in F : n + 1 \in F
  PROVE  F = Nat
<1>1. SUFFICES ASSUME Nat \ F # {}
               PROVE  FALSE
  OBVIOUS
<1>2. PICK m \in Nat \ F : \A n \in Nat \ F : m <= n
  BY <1>1, SmallestNumber, Zenon
<1>3. m - 1 \in Nat /\ m - 1 \notin F
  BY <1>2
<1>. QED  BY <1>2, <1>3

\* Induction over the subsets of a finite set.
LEMMA SubsetInduction ==
  ASSUME NEW S, IsFiniteSet(S), NEW F,
         {} \in F,
         \A T \in F : \A x \in S \ T : T \in SUBSET S => T \cup {x} \in F
  PROVE  S \in F
<1>. DEFINE G == {n \in Nat : \A T \in SUBSET S : Cardinality(T) = n => T \in F}
<1>1. \A T \in SUBSET S : IsFiniteSet(T) /\ Cardinality(T) \in Nat
  BY FS_Subset, FS_CardinalityType
<1>2. 0 \in G
  BY <1>1, FS_EmptySet
<1>3. ASSUME NEW n \in G
      PROVE  n + 1 \in G
  <2>1. SUFFICES ASSUME NEW T \in SUBSET S, Cardinality(T) = n + 1
                 PROVE  T \in F
    BY <1>3
  <2>2. PICK x \in T : TRUE
    BY <1>1, <2>1, <1>3, FS_EmptySet
  <2>3. Cardinality(T \ {x}) = n /\ T \ {x} \in SUBSET S
    BY <1>1, <1>3, <2>1, <2>2, FS_RemoveElement
  <2>4. T \ {x} \in F
    BY <2>3, <1>3
  <2>5. T = (T \ {x}) \cup {x} /\ x \in S \ (T \ {x})
    BY <2>2
  <2>. QED  BY <2>3, <2>4, <2>5
<1>4. G \in SUBSET Nat
  OBVIOUS
<1>5. G = Nat
  <2>. HIDE DEF G
  <2>. QED  BY <1>2, <1>3, <1>4, NumberInduction, Zenon
<1>. QED  BY <1>1, <1>5

\* Among subsets of a finite set there is one with none of them inside it.
LEMMA SmallestSet ==
  ASSUME NEW S, IsFiniteSet(S), NEW F \in SUBSET SUBSET S, F # {}
  PROVE  \E T \in F : \A U \in F : ~(U \subseteq T /\ U # T)
<1>. DEFINE C == {Cardinality(T) : T \in F}
<1>1. \A T \in F : IsFiniteSet(T) /\ Cardinality(T) \in Nat
  BY FS_Subset, FS_CardinalityType
<1>2. C \in SUBSET Nat /\ C # {}
  BY <1>1
<1>3. PICK m \in C : \A n \in C : m <= n
  <2>. HIDE DEF C
  <2>. QED  BY <1>2, SmallestNumber, Zenon
<1>4. PICK T \in F : Cardinality(T) = m
  BY <1>3
<1>5. ASSUME NEW U \in F, U \subseteq T, U # T
      PROVE  FALSE
  <2>1. Cardinality(U) <= Cardinality(T) /\ Cardinality(U) # Cardinality(T)
    BY <1>1, <1>5, FS_Subset
  <2>2. m <= Cardinality(U)
    BY <1>3
  <2>. QED  BY <1>1, <1>4, <2>1, <2>2
<1>. QED  BY <1>4, <1>5

-----------------------------------------------------------------------------
\* The element that a fold takes first, and the equation it computes by.
Pick(s) == CHOOSE x \in s : TRUE

SumsUp(f, D, g) ==
  \A s \in D : g[s] = IF s = {} THEN 0 ELSE f[Pick(s)] + g[s \ {Pick(s)}]

\* The equation has a solution over the subsets of a finite set.
LEMMA SolutionExists ==
  ASSUME NEW S, IsFiniteSet(S), NEW f, \A i \in S : f[i] \in Int
  PROVE  \E g \in [SUBSET S -> Int] : SumsUp(f, SUBSET S, g)
<1>. DEFINE Upto(k) == {T \in SUBSET S : Cardinality(T) <= k}
            F == {k \in Nat : \E g \in [Upto(k) -> Int] : SumsUp(f, Upto(k), g)}
<1>1. \A T \in SUBSET S : IsFiniteSet(T) /\ Cardinality(T) \in Nat
  BY FS_Subset, FS_CardinalityType
<1>2. \A T \in SUBSET S : T # {} =>
        /\ Pick(T) \in T /\ T \ {Pick(T)} \in SUBSET S
        /\ Cardinality(T \ {Pick(T)}) = Cardinality(T) - 1
  <2>. SUFFICES ASSUME NEW T \in SUBSET S, T # {}
                PROVE  /\ Pick(T) \in T
                       /\ Cardinality(T \ {Pick(T)}) = Cardinality(T) - 1
    OBVIOUS
  <2>1. Pick(T) \in T
    BY DEF Pick
  <2>. QED  BY <1>1, <2>1, FS_RemoveElement
<1>3. 0 \in F
  <2>1. \A T \in Upto(0) : T = {}
    BY <1>1, FS_EmptySet
  <2>2. [s \in Upto(0) |-> 0] \in [Upto(0) -> Int]
    OBVIOUS
  <2>3. SumsUp(f, Upto(0), [s \in Upto(0) |-> 0])
    BY <2>1 DEF SumsUp
  <2>. QED  BY <2>2, <2>3
<1>4. ASSUME NEW k \in F
      PROVE  k + 1 \in F
  <2>1. PICK g \in [Upto(k) -> Int] : SumsUp(f, Upto(k), g)
    BY <1>4
  <2>. DEFINE h == [s \in Upto(k + 1) |->
                      IF s = {} THEN 0 ELSE f[Pick(s)] + g[s \ {Pick(s)}]]
  <2>2. k \in Nat
    BY <1>4
  <2>3. ASSUME NEW s \in Upto(k + 1), s # {}
        PROVE  /\ f[Pick(s)] \in Int
               /\ s \ {Pick(s)} \in Upto(k) /\ s \ {Pick(s)} \in Upto(k + 1)
    BY <1>1, <1>2, <2>2, <2>3
  <2>4. h \in [Upto(k + 1) -> Int]
    <3>. SUFFICES ASSUME NEW s \in Upto(k + 1), s # {}
                  PROVE  f[Pick(s)] + g[s \ {Pick(s)}] \in Int
      OBVIOUS
    <3>. HIDE DEF Upto
    <3>. QED  BY <2>3
  <2>5. \A s \in Upto(k) : s \in Upto(k + 1) /\ h[s] = g[s]
    BY <1>1, <2>1, <2>2 DEF SumsUp
  <2>6. SumsUp(f, Upto(k + 1), h)
    <3>. HIDE DEF Upto
    <3>. QED  BY <2>3, <2>5 DEF SumsUp
  <2>7. \E q \in [Upto(k + 1) -> Int] : SumsUp(f, Upto(k + 1), q)
    <3>. HIDE DEF h, Upto
    <3>. QED  BY <2>4, <2>6
  <2>. HIDE DEF Upto
  <2>. QED  BY <2>2, <2>7
<1>5. F \in SUBSET Nat
  OBVIOUS
<1>6. F = Nat
  <2>. HIDE DEF F
  <2>. QED  BY <1>3, <1>4, <1>5, NumberInduction, Zenon
<1>7. PICK g \in [Upto(Cardinality(S)) -> Int] : SumsUp(f, Upto(Cardinality(S)), g)
  <2>1. Cardinality(S) \in F
    BY <1>1, <1>6
  <2>. QED  BY <2>1
<1>8. Upto(Cardinality(S)) = SUBSET S
  BY FS_Subset
<1>. QED  BY <1>7, <1>8, Zenon

\* What solutions give to a set depends on its numbers only.
LEMMA SolutionsAgree ==
  ASSUME NEW S, IsFiniteSet(S), NEW f, NEW g, NEW e, NEW h, NEW C, NEW D,
         SUBSET S \subseteq C, SUBSET S \subseteq D,
         \A i \in S : e[i] = f[i], SumsUp(f, C, g), SumsUp(e, D, h)
  PROVE  g[S] = h[S]
<1>. DEFINE F == {T \in SUBSET S : g[T] # h[T]}
<1>1. SUFFICES ASSUME F # {}
               PROVE  FALSE
  OBVIOUS
<1>2. PICK T \in F : \A U \in F : ~(U \subseteq T /\ U # T)
  <2>1. F \in SUBSET SUBSET S
    OBVIOUS
  <2>. HIDE DEF F
  <2>. QED  BY <1>1, <2>1, SmallestSet
<1>3. T \in SUBSET S /\ T \in C /\ T \in D
  <2>1. T \in SUBSET S
    OBVIOUS
  <2>. QED  BY <2>1
<1>n. g[{}] = 0 /\ h[{}] = 0
  <2>1. {} \in C /\ {} \in D
    OBVIOUS
  <2>. QED  BY <2>1 DEF SumsUp
<1>m. T # {}
  BY <1>2, <1>n
<1>4. Pick(T) \in T
  BY <1>m DEF Pick
<1>5. g[T \ {Pick(T)}] = h[T \ {Pick(T)}]
  <2>1. T \ {Pick(T)} \subseteq T /\ T \ {Pick(T)} # T /\ T \ {Pick(T)} \in SUBSET S
    BY <1>3, <1>4
  <2>. QED  BY <1>2, <2>1
<1>. QED  BY <1>2, <1>3, <1>m, <1>4, <1>5 DEF SumsUp

\* The sum is a solution's.
LEMMA SumIsSolution ==
  ASSUME NEW S, IsFiniteSet(S), NEW f, \A i \in S : f[i] \in Int
  PROVE  \E g \in [SUBSET S -> Int] :
           SumsUp(f, SUBSET S, g) /\ SumFunctionOnSet(f, S) = g[S]
<1>. DEFINE Eq(g) == g = [s \in SUBSET S |->
                            IF s = {} THEN 0
                            ELSE f[CHOOSE x \in s : TRUE]
                                   + g[s \ {CHOOSE x \in s : TRUE}]]
<1>1. SumFunctionOnSet(f, S) = (CHOOSE g : Eq(g))[S]
  BY Zenon DEF SumFunctionOnSet, FoldFunctionOnSet, MapThenFoldSet
<1>2. PICK h \in [SUBSET S -> Int] : SumsUp(f, SUBSET S, h)
  BY SolutionExists
<1>3. Eq(h)
  BY <1>2 DEF SumsUp, Pick
<1>4. Eq(CHOOSE g : Eq(g))
  <2>. HIDE DEF Eq
  <2>. QED  BY <1>3
<1>5. PICK g : g = (CHOOSE k : Eq(k))
  OBVIOUS
<1>6. SumsUp(f, SUBSET S, g)
  BY <1>4, <1>5 DEF SumsUp, Pick
<1>7. \A T \in SUBSET S : g[T] = h[T]
  <2>. SUFFICES ASSUME NEW T \in SUBSET S
                PROVE  g[T] = h[T]
    OBVIOUS
  <2>1. IsFiniteSet(T) /\ SUBSET T \subseteq SUBSET S
    BY FS_Subset
  <2>. QED  BY <1>2, <1>6, <2>1, SolutionsAgree
<1>8. g \in [SUBSET S -> Int]
  <2>1. g = [s \in SUBSET S |->
               IF s = {} THEN 0
               ELSE f[CHOOSE x \in s : TRUE] + g[s \ {CHOOSE x \in s : TRUE}]]
    BY <1>4, <1>5
  <2>2. g = [s \in SUBSET S |-> g[s]]
    BY <2>1
  <2>3. \A T \in SUBSET S : g[T] \in Int
    BY <1>7
  <2>. QED  BY <2>2, <2>3
<1>. QED  BY <1>1, <1>5, <1>6, <1>8

-----------------------------------------------------------------------------
\* A sum of integers is one.
LEMMA SumType ==
  ASSUME NEW S, IsFiniteSet(S), NEW f, \A i \in S : f[i] \in Int
  PROVE  SumFunctionOnSet(f, S) \in Int
<1>1. PICK g \in [SUBSET S -> Int] : SumFunctionOnSet(f, S) = g[S]
  BY SumIsSolution
<1>. QED  BY <1>1

\* The sum of nothing.
LEMMA SumOfNone ==
  ASSUME NEW f
  PROVE  SumFunctionOnSet(f, {}) = 0
<1>1. PICK g \in [SUBSET {} -> Int] :
        SumsUp(f, SUBSET {}, g) /\ SumFunctionOnSet(f, {}) = g[{}]
  BY SumIsSolution, FS_EmptySet
<1>. QED  BY <1>1 DEF SumsUp

\* Only the numbers of the set itself count.
LEMMA SumCongruence ==
  ASSUME NEW S, IsFiniteSet(S), NEW f, NEW e,
         \A i \in S : f[i] \in Int /\ e[i] = f[i]
  PROVE  SumFunctionOnSet(e, S) = SumFunctionOnSet(f, S)
<1>1. PICK g \in [SUBSET S -> Int] :
        SumsUp(f, SUBSET S, g) /\ SumFunctionOnSet(f, S) = g[S]
  BY SumIsSolution
<1>2. \A i \in S : e[i] \in Int
  OBVIOUS
<1>3. PICK h \in [SUBSET S -> Int] :
        SumsUp(e, SUBSET S, h) /\ SumFunctionOnSet(e, S) = h[S]
  BY <1>2, SumIsSolution
<1>4. g[S] = h[S]
  BY <1>1, <1>3, SolutionsAgree
<1>. QED  BY <1>1, <1>3, <1>4

\* The element that is taken first.
LEMMA SumOfFirst ==
  ASSUME NEW S, IsFiniteSet(S), S # {}, NEW f, \A i \in S : f[i] \in Int
  PROVE  /\ Pick(S) \in S
         /\ SumFunctionOnSet(f, S)
              = f[Pick(S)] + SumFunctionOnSet(f, S \ {Pick(S)})
<1>1. Pick(S) \in S
  BY DEF Pick
<1>. DEFINE R == S \ {Pick(S)}
<1>2. PICK g \in [SUBSET S -> Int] :
        SumsUp(f, SUBSET S, g) /\ SumFunctionOnSet(f, S) = g[S]
  BY SumIsSolution
<1>3. IsFiniteSet(R) /\ R \in SUBSET S /\ \A i \in R : f[i] \in Int
  BY FS_Subset
<1>4. PICK h \in [SUBSET R -> Int] :
        SumsUp(f, SUBSET R, h) /\ SumFunctionOnSet(f, R) = h[R]
  BY <1>3, SumIsSolution
<1>5. g[R] = h[R]
  <2>1. SUBSET R \subseteq SUBSET S
    OBVIOUS
  <2>. HIDE DEF R
  <2>. QED  BY <1>2, <1>3, <1>4, <2>1, SolutionsAgree
<1>6. g[S] = f[Pick(S)] + g[R]
  <2>1. S \in SUBSET S
    OBVIOUS
  <2>. QED  BY <1>2, <2>1 DEF SumsUp
<1>. QED  BY <1>1, <1>2, <1>4, <1>5, <1>6

\* Any element may be taken out.
LEMMA SumWithout ==
  ASSUME NEW S, IsFiniteSet(S), NEW f, \A i \in S : f[i] \in Int, NEW y \in S
  PROVE  SumFunctionOnSet(f, S) = f[y] + SumFunctionOnSet(f, S \ {y})
<1>. DEFINE Sum(T) == SumFunctionOnSet(f, T)
            Good(T) == \A x \in T : Sum(T) = f[x] + Sum(T \ {x})
            F == {T \in SUBSET S : ~Good(T)}
<1>1. \A T \in SUBSET S : /\ IsFiniteSet(T) /\ Sum(T) \in Int
                          /\ \A i \in T : f[i] \in Int
  <2>1. \A T \in SUBSET S : IsFiniteSet(T) /\ \A i \in T : f[i] \in Int
    BY FS_Subset
  <2>. QED  BY <2>1, SumType
<1>2. SUFFICES ASSUME F # {}
               PROVE  FALSE
  OBVIOUS
<1>3. PICK T \in F : \A U \in F : ~(U \subseteq T /\ U # T)
  <2>1. F \in SUBSET SUBSET S
    OBVIOUS
  <2>. HIDE DEF F
  <2>. QED  BY <1>2, <2>1, SmallestSet
<1>4. T \in SUBSET S /\ ~Good(T)
  OBVIOUS
<1>5. PICK x \in T : Sum(T) # f[x] + Sum(T \ {x})
  BY <1>4
<1>6. PICK p \in T : Sum(T) = f[p] + Sum(T \ {p})
  <2>1. T # {}
    BY <1>5
  <2>. QED  BY <1>1, <1>4, <2>1, SumOfFirst
<1>7. \A U \in SUBSET T : U # T => Good(U)
  BY <1>3, <1>4
<1>8. Sum(T \ {p}) = f[x] + Sum((T \ {p}) \ {x})
  <2>1. T \ {p} \in SUBSET T /\ T \ {p} # T /\ x \in T \ {p}
    BY <1>5, <1>6
  <2>. QED  BY <1>7, <2>1
<1>9. Sum(T \ {x}) = f[p] + Sum((T \ {x}) \ {p})
  <2>1. T \ {x} \in SUBSET T /\ T \ {x} # T /\ p \in T \ {x}
    BY <1>5, <1>6
  <2>. QED  BY <1>7, <2>1
<1>10. Sum((T \ {p}) \ {x}) = Sum((T \ {x}) \ {p})
  <2>1. (T \ {p}) \ {x} = (T \ {x}) \ {p}
    OBVIOUS
  <2>. QED  BY <2>1
<1>11. /\ Sum(T \ {p}) \in Int /\ Sum(T \ {x}) \in Int
       /\ Sum((T \ {x}) \ {p}) \in Int /\ f[x] \in Int /\ f[p] \in Int
  BY <1>1, <1>4
<1>. HIDE DEF Sum, Good, F
<1>12. \A a, b, c, d, e, g \in Int : a = g + b /\ b = d + e /\ c = g + e => a = d + c
  OBVIOUS
<1>13. Sum(T) \in Int
  BY <1>1, <1>4
<1>. QED  BY <1>5, <1>6, <1>8, <1>9, <1>10, <1>11, <1>12, <1>13

\* And any may be put in.
LEMMA SumWith ==
  ASSUME NEW S, IsFiniteSet(S), NEW y, y \notin S,
         NEW f, \A i \in S \cup {y} : f[i] \in Int
  PROVE  SumFunctionOnSet(f, S \cup {y}) = SumFunctionOnSet(f, S) + f[y]
<1>1. IsFiniteSet(S \cup {y}) /\ (S \cup {y}) \ {y} = S /\ y \in S \cup {y}
  BY FS_AddElement
<1>2. SumFunctionOnSet(f, S \cup {y}) = f[y] + SumFunctionOnSet(f, S)
  BY <1>1, SumWithout
<1>3. SumFunctionOnSet(f, S) \in Int /\ f[y] \in Int
  BY SumType
<1>. QED  BY <1>2, <1>3

-----------------------------------------------------------------------------
\* Two sums over one set are added term by term.
LEMMA SumOfSums ==
  ASSUME NEW S, IsFiniteSet(S), NEW f, NEW e, NEW h,
         \A i \in S : f[i] \in Int /\ e[i] \in Int /\ h[i] = f[i] + e[i]
  PROVE  SumFunctionOnSet(h, S) = SumFunctionOnSet(f, S) + SumFunctionOnSet(e, S)
<1>. DEFINE F == {T \in SUBSET S : SumFunctionOnSet(h, T)
                    = SumFunctionOnSet(f, T) + SumFunctionOnSet(e, T)}
<1>1. {} \in F
  BY SumOfNone
<1>2. ASSUME NEW T \in F, NEW x \in S \ T, T \in SUBSET S
      PROVE  T \cup {x} \in F
  <2>1. IsFiniteSet(T) /\ x \notin T
    BY FS_Subset
  <2>2. /\ \A i \in T \cup {x} : f[i] \in Int
        /\ \A i \in T \cup {x} : e[i] \in Int
        /\ \A i \in T \cup {x} : h[i] \in Int
    OBVIOUS
  <2>3. SumFunctionOnSet(f, T \cup {x}) = SumFunctionOnSet(f, T) + f[x]
    BY <2>1, <2>2, SumWith
  <2>4. SumFunctionOnSet(e, T \cup {x}) = SumFunctionOnSet(e, T) + e[x]
    BY <2>1, <2>2, SumWith
  <2>5. SumFunctionOnSet(h, T \cup {x}) = SumFunctionOnSet(h, T) + h[x]
    BY <2>1, <2>2, SumWith
  <2>6. SumFunctionOnSet(f, T) \in Int /\ SumFunctionOnSet(e, T) \in Int
    BY <2>1, <2>2, SumType
  <2>7. SumFunctionOnSet(h, T) = SumFunctionOnSet(f, T) + SumFunctionOnSet(e, T)
    OBVIOUS
  <2>8. T \cup {x} \in SUBSET S /\ h[x] = f[x] + e[x] /\ f[x] \in Int /\ e[x] \in Int
    OBVIOUS
  <2>. QED  BY <2>3, <2>4, <2>5, <2>6, <2>7, <2>8
<1>3. S \in F
  <2>. HIDE DEF F
  <2>. QED  BY <1>1, <1>2, SubsetInduction
<1>. QED  BY <1>3

\* The terms of a sum may be counted by other names.
LEMMA SumReindexed ==
  ASSUME NEW S, IsFiniteSet(S), NEW f, NEW e, NEW b,
         \A i \in S : f[i] \in Int /\ e[b[i]] = f[i],
         \A i, j \in S : b[i] = b[j] => i = j
  PROVE  SumFunctionOnSet(e, {b[i] : i \in S}) = SumFunctionOnSet(f, S)
<1>. DEFINE Im(T) == {b[i] : i \in T}
            F == {T \in SUBSET S : /\ IsFiniteSet(Im(T))
                                   /\ SumFunctionOnSet(e, Im(T)) = SumFunctionOnSet(f, T)}
<1>1. {} \in F
  <2>1. Im({}) = {}
    OBVIOUS
  <2>. QED  BY <2>1, SumOfNone, FS_EmptySet
<1>2. ASSUME NEW T \in F, NEW x \in S \ T, T \in SUBSET S
      PROVE  T \cup {x} \in F
  <2>1. IsFiniteSet(T) /\ x \notin T /\ x \in S /\ T \cup {x} \in SUBSET S
    BY FS_Subset
  <2>2. Im(T \cup {x}) = Im(T) \cup {b[x]} /\ b[x] \notin Im(T)
    BY <2>1
  <2>3. SumFunctionOnSet(f, T \cup {x}) = SumFunctionOnSet(f, T) + f[x]
    BY <2>1, SumWith
  <2>4. IsFiniteSet(Im(T)) /\ SumFunctionOnSet(e, Im(T)) = SumFunctionOnSet(f, T)
    OBVIOUS
  <2>5. \A k \in Im(T) \cup {b[x]} : e[k] \in Int
    BY <2>1
  <2>6. SumFunctionOnSet(e, Im(T) \cup {b[x]}) = SumFunctionOnSet(e, Im(T)) + e[b[x]]
    <3>. HIDE DEF Im, F
    <3>. QED  BY <2>2, <2>4, <2>5, SumWith
  <2>7. IsFiniteSet(Im(T) \cup {b[x]})
    <3>. HIDE DEF Im
    <3>. QED  BY <2>4, FS_AddElement
  <2>8. e[b[x]] = f[x]
    BY <2>1
  <2>9. SumFunctionOnSet(e, Im(T \cup {x})) = SumFunctionOnSet(f, T \cup {x})
    <3>. HIDE DEF Im
    <3>. QED  BY <2>2, <2>3, <2>4, <2>6, <2>8
  <2>10. IsFiniteSet(Im(T \cup {x}))
    <3>. HIDE DEF Im
    <3>. QED  BY <2>2, <2>7
  <2>. HIDE DEF Im
  <2>. QED  BY <2>1, <2>9, <2>10
<1>3. S \in F
  <2>. HIDE DEF F
  <2>. QED  BY <1>1, <1>2, SubsetInduction
<1>. QED  BY <1>3

\* Terms that are 0 may be left out.
LEMMA SumWithoutZeros ==
  ASSUME NEW S, IsFiniteSet(S), NEW f, \A i \in S : f[i] \in Int,
         NEW T \in SUBSET S, \A i \in S \ T : f[i] = 0
  PROVE  SumFunctionOnSet(f, T) = SumFunctionOnSet(f, S)
<1>. DEFINE F == {U \in SUBSET S :
                    SumFunctionOnSet(f, U \cap T) = SumFunctionOnSet(f, U)}
<1>1. {} \in F
  OBVIOUS
<1>2. ASSUME NEW U \in F, NEW x \in S \ U, U \in SUBSET S
      PROVE  U \cup {x} \in F
  <2>1. /\ IsFiniteSet(U) /\ IsFiniteSet(U \cap T)
        /\ x \notin U /\ x \in S /\ U \cup {x} \in SUBSET S
    BY FS_Subset
  <2>2. SumFunctionOnSet(f, U \cup {x}) = SumFunctionOnSet(f, U) + f[x]
    BY <2>1, SumWith
  <2>3. SumFunctionOnSet(f, U) \in Int /\ f[x] \in Int
    BY <2>1, SumType
  <2>4. SumFunctionOnSet(f, U \cap T) = SumFunctionOnSet(f, U)
    OBVIOUS
  <2>5. CASE x \in T
    <3>1. (U \cup {x}) \cap T = (U \cap T) \cup {x} /\ x \notin U \cap T
      BY <2>1, <2>5
    <3>2. SumFunctionOnSet(f, (U \cap T) \cup {x}) = SumFunctionOnSet(f, U \cap T) + f[x]
      BY <2>1, <3>1, SumWith
    <3>3. SumFunctionOnSet(f, (U \cup {x}) \cap T) = SumFunctionOnSet(f, U \cup {x})
      BY <2>2, <2>4, <3>1, <3>2
    <3>. QED  BY <2>1, <3>3
  <2>6. CASE x \notin T
    <3>1. (U \cup {x}) \cap T = U \cap T /\ f[x] = 0
      BY <2>1, <2>6
    <3>3. SumFunctionOnSet(f, (U \cup {x}) \cap T) = SumFunctionOnSet(f, U \cap T)
      BY <3>1, Zenon
    <3>2. SumFunctionOnSet(f, (U \cup {x}) \cap T) = SumFunctionOnSet(f, U \cup {x})
      BY <2>2, <2>3, <2>4, <3>1, <3>3
    <3>. QED  BY <2>1, <3>2
  <2>. QED  BY <2>5, <2>6
<1>3. S \in F
  <2>. HIDE DEF F
  <2>. QED  BY <1>1, <1>2, SubsetInduction
<1>4. S \cap T = T
  OBVIOUS
<1>. QED  BY <1>3, <1>4

\* Two sets with nothing in common.
LEMMA SumOfUnion ==
  ASSUME NEW S, NEW T, IsFiniteSet(S), IsFiniteSet(T), S \cap T = {},
         NEW f, \A i \in S \cup T : f[i] \in Int
  PROVE  SumFunctionOnSet(f, S \cup T) = SumFunctionOnSet(f, S) + SumFunctionOnSet(f, T)
<1>. DEFINE F == {U \in SUBSET T : SumFunctionOnSet(f, S \cup U)
                    = SumFunctionOnSet(f, S) + SumFunctionOnSet(f, U)}
<1>1. {} \in F
  <2>1. SumFunctionOnSet(f, S) \in Int /\ S \cup {} = S
    BY SumType
  <2>. QED  BY <2>1, SumOfNone
<1>2. ASSUME NEW U \in F, NEW x \in T \ U, U \in SUBSET T
      PROVE  U \cup {x} \in F
  <2>1. /\ IsFiniteSet(U) /\ IsFiniteSet(S \cup U) /\ U \cup {x} \in SUBSET T
        /\ x \notin U /\ x \notin S \cup U /\ (S \cup U) \cup {x} = S \cup (U \cup {x})
    BY FS_Subset, FS_Union
  <2>2. SumFunctionOnSet(f, U \cup {x}) = SumFunctionOnSet(f, U) + f[x]
    BY <2>1, SumWith
  <2>3. SumFunctionOnSet(f, (S \cup U) \cup {x}) = SumFunctionOnSet(f, S \cup U) + f[x]
    BY <2>1, SumWith
  <2>4. /\ SumFunctionOnSet(f, S) \in Int /\ f[x] \in Int
        /\ SumFunctionOnSet(f, U) \in Int
    BY <2>1, SumType
  <2>5. SumFunctionOnSet(f, S \cup U) = SumFunctionOnSet(f, S) + SumFunctionOnSet(f, U)
    OBVIOUS
  <2>6. SumFunctionOnSet(f, S \cup (U \cup {x}))
          = SumFunctionOnSet(f, (S \cup U) \cup {x})
    BY <2>1, Zenon
  <2>7. SumFunctionOnSet(f, S \cup (U \cup {x}))
          = SumFunctionOnSet(f, S) + SumFunctionOnSet(f, U \cup {x})
    BY <2>2, <2>3, <2>4, <2>5, <2>6
  <2>. QED  BY <2>1, <2>7
<1>3. T \in F
  <2>. HIDE DEF F
  <2>. QED  BY <1>1, <1>2, SubsetInduction
<1>. QED  BY <1>3

\* The sum over a part of a set where the numbers of the rest are 0.
LEMMA SumSelected ==
  ASSUME NEW S, IsFiniteSet(S), NEW f, \A i \in S : f[i] \in Int,
         NEW T \in SUBSET S, \A i \in S \ T : f[i] = 0,
         NEW e, \A i \in T : e[i] = f[i]
  PROVE  SumFunctionOnSet(e, T) = SumFunctionOnSet(f, S)
<1>1. IsFiniteSet(T) /\ \A i \in T : f[i] \in Int /\ e[i] = f[i]
  BY FS_Subset
<1>2. SumFunctionOnSet(e, T) = SumFunctionOnSet(f, T)
  BY <1>1, SumCongruence
<1>3. SumFunctionOnSet(f, T) = SumFunctionOnSet(f, S)
  BY SumWithoutZeros
<1>. QED  BY <1>2, <1>3

\* The sum of one number.
LEMMA SumOfOne ==
  ASSUME NEW x, NEW f, f[x] \in Int
  PROVE  SumFunctionOnSet(f, {x}) = f[x]
<1>1. SumFunctionOnSet(f, {} \cup {x}) = SumFunctionOnSet(f, {}) + f[x]
  BY FS_EmptySet, SumWith
<1>2. SumFunctionOnSet(f, {}) = 0 /\ {} \cup {x} = {x}
  BY SumOfNone
<1>. QED  BY <1>1, <1>2

\* The sum of zeros.
LEMMA SumOfZeros ==
  ASSUME NEW S, IsFiniteSet(S), NEW f, \A i \in S : f[i] = 0
  PROVE  SumFunctionOnSet(f, S) = 0
<1>1. {} \in SUBSET S /\ \A i \in S : f[i] \in Int
  OBVIOUS
<1>2. SumFunctionOnSet(f, {}) = SumFunctionOnSet(f, S)
  BY <1>1, SumWithoutZeros
<1>. QED  BY <1>2, SumOfNone

\* What is named by a finite set is finite.
LEMMA FiniteImage ==
  ASSUME NEW S, IsFiniteSet(S), NEW b
  PROVE  IsFiniteSet({b[i] : i \in S})
<1>. DEFINE T == {b[i] : i \in S}
            f == [i \in S |-> b[i]]
<1>1. f \in Surjection(S, T)
  BY DEF Surjection
<1>2. IsFiniteSet(T)
  <2>. HIDE DEF f, T
  <2>. QED  BY <1>1, FS_Surjection
<1>. QED  BY <1>2

-----------------------------------------------------------------------------
\* P[n] is 10 to the n.
PowersOfTen(P) ==
  P \in [Nat -> Nat \ {0}] /\ P[0] = 1 /\ \A n \in Nat : P[n + 1] = 10 * P[n]

\* The recursive definition of the powers of ten has a solution.
LEMMA PowersExist ==
  \E P : P = [n \in Nat |-> IF n = 0 THEN 1 ELSE 10 * P[n - 1]]
<1>. DEFINE Begins(g, k) == /\ g \in [0..k -> Nat \ {0}] /\ g[0] = 1
                            /\ \A i \in 1..k : g[i] = 10 * g[i - 1]
            F == {k \in Nat : \E g : Begins(g, k)}
            G == [k \in Nat |-> CHOOSE g : Begins(g, k)]
            Q == [n \in Nat |-> G[n][n]]
<1>1. 0 \in F
  <2>1. Begins([i \in 0..0 |-> 1], 0)
    OBVIOUS
  <2>2. \E g : Begins(g, 0)
    <3>. HIDE DEF Begins
    <3>. QED  BY <2>1
  <2>. HIDE DEF Begins
  <2>. QED  BY <2>2
<1>2. ASSUME NEW k \in F
      PROVE  k + 1 \in F
  <2>1. PICK g : Begins(g, k)
    BY <1>2
  <2>. DEFINE h == [i \in 0..(k + 1) |-> IF i = k + 1 THEN 10 * g[k] ELSE g[i]]
  <2>2. k \in Nat
    BY <1>2
  <2>3. h \in [0..(k + 1) -> Nat \ {0}]
    BY <2>1, <2>2
  <2>4. \A i \in 0..k : h[i] = g[i]
    BY <2>2
  <2>5. h[k + 1] = 10 * g[k]
    BY <2>2
  <2>6. \A i \in 1..(k + 1) : h[i] = 10 * h[i - 1]
    <3>1. ASSUME NEW i \in 1..(k + 1)
          PROVE  h[i] = 10 * h[i - 1]
      <4>. HIDE DEF h
      <4>1. CASE i = k + 1
        BY <2>2, <2>4, <2>5, <4>1
      <4>2. CASE i \in 1..k
        <5>1. i \in 0..k /\ i - 1 \in 0..k
          BY <2>2, <4>2
        <5>. QED  BY <2>1, <2>4, <4>2, <5>1
      <4>. QED  BY <2>2, <4>1, <4>2
    <3>. QED  BY <3>1
  <2>7. h[0] = 1
    BY <2>1, <2>2, <2>4
  <2>8. \E q : Begins(q, k + 1)
    <3>. HIDE DEF h
    <3>1. Begins(h, k + 1)
      BY <2>3, <2>6, <2>7
    <3>. HIDE DEF Begins
    <3>. QED  BY <3>1
  <2>. HIDE DEF Begins
  <2>. QED  BY <2>2, <2>8
<1>3. F \in SUBSET Nat
  OBVIOUS
<1>4. F = Nat
  <2>. HIDE DEF F
  <2>. QED  BY <1>1, <1>2, <1>3, NumberInduction, Zenon
<1>5. ASSUME NEW k \in Nat
      PROVE  Begins(G[k], k)
  <2>1. k \in F
    BY <1>4
  <2>2. \E g : Begins(g, k)
    BY <2>1
  <2>. HIDE DEF Begins
  <2>. QED  BY <2>2
<1>6. ASSUME NEW k \in Nat
      PROVE  \A i \in 0..k : G[k][i] = G[k + 1][i]
  <2>. DEFINE a == G[k]
              b == G[k + 1]
              E == {i \in Nat : i <= k => a[i] = b[i]}
  <2>1. Begins(a, k) /\ Begins(b, k + 1)
    <3>. HIDE DEF Begins, G
    <3>. QED  BY <1>5
  <2>. HIDE DEF a, b
  <2>2. 0 \in E
    BY <2>1
  <2>3. ASSUME NEW i \in E
        PROVE  i + 1 \in E
    <3>1. i \in Nat /\ (i <= k => a[i] = b[i])
      BY <2>3
    <3>2. CASE i + 1 <= k
      <4>1. i + 1 \in 1..k /\ i + 1 \in 1..(k + 1) /\ (i + 1) - 1 = i
        BY <3>1, <3>2
      <4>. QED  BY <2>1, <3>1, <3>2, <4>1
    <3>. QED  BY <3>1, <3>2
  <2>4. E \in SUBSET Nat
    OBVIOUS
  <2>5. E = Nat
    <3>. HIDE DEF E
    <3>. QED  BY <2>2, <2>3, <2>4, NumberInduction, Zenon
  <2>6. \A i \in 0..k : a[i] = b[i]
    <3>1. \A i \in 0..k : i \in E
      BY <2>5
    <3>. QED  BY <3>1
  <2>. QED  BY <2>6 DEF a, b
<1>7. ASSUME NEW n \in Nat
      PROVE  Q[n] = IF n = 0 THEN 1 ELSE 10 * Q[n - 1]
  <2>1. CASE n = 0
    <3>. HIDE DEF G
    <3>. QED  BY <1>5, <2>1
  <2>2. CASE n # 0
    <3>1. n - 1 \in Nat /\ (n - 1) + 1 = n /\ n \in 1..n /\ n - 1 \in 0..(n - 1)
      BY <2>2
    <3>. HIDE DEF G
    <3>2. G[n][n] = 10 * G[n][n - 1]
      BY <1>5, <3>1
    <3>3. G[n - 1][n - 1] = G[n][n - 1]
      BY <1>6, <3>1
    <3>. QED  BY <2>2, <3>1, <3>2, <3>3
  <2>. QED  BY <2>1, <2>2
<1>8. Q = [n \in Nat |-> IF n = 0 THEN 1 ELSE 10 * Q[n - 1]]
  <2>1. Q = [n \in Nat |-> Q[n]]
    OBVIOUS
  <2>. HIDE DEF Q
  <2>. QED  BY <1>7, <2>1
<1>. QED  BY <1>8

\* Recursively defined powers of ten are powers of ten.
LEMMA PowersDefined ==
  ASSUME NEW P, P = [n \in Nat |-> IF n = 0 THEN 1 ELSE 10 * P[n - 1]]
  PROVE  PowersOfTen(P)
<1>1. P[0] = 1
  OBVIOUS
<1>2. \A n \in Nat : P[n + 1] = 10 * P[n]
  <2>1. ASSUME NEW n \in Nat
        PROVE  P[n + 1] = 10 * P[n]
    <3>1. n + 1 \in Nat /\ n + 1 # 0 /\ (n + 1) - 1 = n
      OBVIOUS
    <3>. QED  BY <3>1
  <2>. QED  BY <2>1
<1>3. {n \in Nat : P[n] \in Nat \ {0}} = Nat
  <2>. DEFINE F == {n \in Nat : P[n] \in Nat \ {0}}
  <2>1. 0 \in F /\ \A n \in F : n + 1 \in F
    BY ONLY <1>1, <1>2
  <2>. HIDE DEF F
  <2>2. F \in SUBSET Nat
    BY DEF F
  <2>3. F = Nat
    BY <2>1, <2>2, NumberInduction, Zenon
  <2>. QED  BY <2>3 DEF F
<1>4. P = [n \in Nat |-> P[n]]
  OBVIOUS
<1>5. P \in [Nat -> Nat \ {0}]
  BY ONLY <1>3, <1>4
<1>. QED  BY <1>1, <1>2, <1>5 DEF PowersOfTen

\* They grow, and faster than the exponent.
LEMMA PowersGrow ==
  ASSUME NEW P, PowersOfTen(P), NEW i \in Nat, NEW j \in Nat, i <= j
  PROVE  P[i] <= P[j] /\ j < P[j]
<1>. DEFINE F == {k \in Nat : P[i] <= P[i + k]}
            E == {k \in Nat : k < P[k]}
<1>1. P[0] = 1 /\ \A n \in Nat : P[n] \in Nat \ {0} /\ P[n + 1] = 10 * P[n]
  BY DEF PowersOfTen
<1>2. 0 \in F /\ 0 \in E
  BY <1>1
<1>3. ASSUME NEW k \in F
      PROVE  k + 1 \in F
  <2>1. k \in Nat /\ i + k \in Nat /\ P[i] <= P[i + k] /\ i + (k + 1) = (i + k) + 1
    BY <1>3
  <2>. QED  BY <1>1, <2>1
<1>4. ASSUME NEW k \in E
      PROVE  k + 1 \in E
  BY <1>1, <1>4
<1>5. F \in SUBSET Nat /\ E \in SUBSET Nat
  OBVIOUS
<1>6. F = Nat /\ E = Nat
  <2>. HIDE DEF E, F
  <2>. QED  BY <1>2, <1>3, <1>4, <1>5, NumberInduction, Zenon
<1>7. j - i \in F /\ j \in E
  <2>1. j - i \in Nat
    OBVIOUS
  <2>. HIDE DEF E, F
  <2>. QED  BY <1>6, <2>1
<1>8. i + (j - i) = j
  OBVIOUS
<1>. QED  BY <1>7, <1>8

\* The i-th of d digits of m, from the left.
DigitOf(P, m, d, i) == (m \div P[d - i]) % 10

\* One more digit of the quotient.
LEMMA QuotientByTen ==
  ASSUME NEW m \in Nat, NEW p \in Nat \ {0}
  PROVE  /\ m \div (10 * p) = (m \div p) \div 10
         /\ (m \div (10 * p)) * (10 * p) + ((m \div p) % 10) * p = (m \div p) * p
<1>. DEFINE q == m \div p
            t == q \div 10
            u == q % 10
<1>1. q \in Nat
  OBVIOUS
<1>2. m \div (10 * p) = q \div 10
  OBVIOUS
<1>. HIDE DEF q
<1>3. t \in Nat /\ u \in Nat /\ q = 10 * t + u
  BY <1>1
<1>. HIDE DEF t, u
<1>4. t * (10 * p) + u * p = (10 * t + u) * p
  BY <1>3
<1>6. q = 10 * t + u
  BY <1>3
<1>5. m \div (10 * p) = t /\ q % 10 = u
  BY <1>2 DEF t, u
<1>7. (10 * t + u) * p = q * p
  BY <1>6
<1>. QED  BY <1>2, <1>4, <1>5, <1>7 DEF q

\* A number below a power of ten is what its digits come to.
LEMMA DigitsSum ==
  ASSUME NEW P, PowersOfTen(P), NEW d \in Nat, NEW m \in Nat, m < P[d],
         NEW f, \A i \in 1..d : f[i] = DigitOf(P, m, d, i) * P[d - i]
  PROVE  SumFunctionOnSet(f, 1..d) = m
<1>. DEFINE head(j) == (m \div P[d - j]) * P[d - j]
            F == {j \in Nat : j <= d => SumFunctionOnSet(f, 1..j) = head(j)}
<1>1. P[0] = 1 /\ \A n \in Nat : P[n] \in Nat \ {0} /\ P[n + 1] = 10 * P[n]
  BY DEF PowersOfTen
<1>2. \A i \in 1..d : f[i] \in Int
  <2>1. ASSUME NEW i \in 1..d
        PROVE  f[i] \in Int
    <3>1. P[d - i] \in Nat \ {0}
      BY <1>1
    <3>2. m \div P[d - i] \in Nat
      BY <3>1
    <3>3. DigitOf(P, m, d, i) \in Nat
      BY <3>2 DEF DigitOf
    <3>. QED  BY <3>1, <3>3
  <2>. QED  BY <2>1
<1>3. 0 \in F
  <2>1. m \div P[d] = 0
    <3>1. P[d] \in Nat \ {0} /\ m = P[d] * 0 + m /\ m \in 0..(P[d] - 1)
      BY <1>1
    <3>. QED  BY <3>1
  <2>2. head(0) = 0
    <3>1. P[d - 0] = P[d] /\ P[d] \in Nat /\ 0 * P[d] = 0
      BY <1>1
    <3>. QED  BY <2>1, <3>1
  <2>3. 1..0 = {}
    OBVIOUS
  <2>4. SumFunctionOnSet(f, 1..0) = 0
    BY <2>3, SumOfNone
  <2>. HIDE DEF head
  <2>. QED  BY <2>2, <2>4
<1>4. ASSUME NEW j \in F
      PROVE  j + 1 \in F
  <2>1. j \in Nat
    BY <1>4
  <2>2. CASE j + 1 <= d
    <3>1. d - (j + 1) \in Nat /\ d - j = (d - (j + 1)) + 1 /\ j + 1 \in 1..d
      BY <2>1, <2>2
    <3>. DEFINE p == P[d - (j + 1)]
    <3>2. p \in Nat \ {0} /\ P[d - j] = 10 * p
      BY <1>1, <3>1
    <3>3. f[j + 1] = ((m \div p) % 10) * p
      BY <3>1 DEF DigitOf
    <3>4. head(j) + f[j + 1] = head(j + 1)
      <4>. HIDE DEF p
      <4>1. head(j) = (m \div (10 * p)) * (10 * p)
        BY <3>2
      <4>2. head(j + 1) = (m \div p) * p
        BY DEF p
      <4>. HIDE DEF head
      <4>. QED  BY <3>2, <3>3, <4>1, <4>2, QuotientByTen
    <3>5. SumFunctionOnSet(f, 1..j) = head(j)
      <4>. HIDE DEF head
      <4>. QED  BY <1>4, <2>2
    <3>6. (1..j) \cup {j + 1} = 1..(j + 1) /\ j + 1 \notin 1..j
      BY <2>1
    <3>7. SumFunctionOnSet(f, (1..j) \cup {j + 1}) = SumFunctionOnSet(f, 1..j) + f[j + 1]
      <4>1. IsFiniteSet(1..j)
        BY <2>1, FS_Interval
      <4>2. \A i \in (1..j) \cup {j + 1} : i \in 1..d
        BY <2>1, <2>2
      <4>3. \A i \in (1..j) \cup {j + 1} : f[i] \in Int
        BY <1>2, <4>2
      <4>. DEFINE S == 1..j
                  y == j + 1
      <4>4. IsFiniteSet(S) /\ y \notin S /\ \A i \in S \cup {y} : f[i] \in Int
        BY <3>6, <4>1, <4>3
      <4>5. SumFunctionOnSet(f, S \cup {y}) = SumFunctionOnSet(f, S) + f[y]
        <5>. HIDE DEF S, y
        <5>. QED  BY ONLY <4>4, SumWith
      <4>. QED  BY <4>5
    <3>8. SumFunctionOnSet(f, (1..j) \cup {j + 1}) = SumFunctionOnSet(f, 1..(j + 1))
      BY <3>6, Zenon
    <3>9. SumFunctionOnSet(f, 1..(j + 1)) = head(j + 1)
      <4>. HIDE DEF head
      <4>. QED  BY ONLY <3>4, <3>5, <3>7, <3>8
    <3>. HIDE DEF head
    <3>. QED  BY <2>1, <3>9
  <2>. HIDE DEF head
  <2>. QED  BY <2>1, <2>2
<1>5. F \in SUBSET Nat
  OBVIOUS
<1>6. F = Nat
  <2>. HIDE DEF F
  <2>. QED  BY <1>3, <1>4, <1>5, NumberInduction, Zenon
<1>7. SumFunctionOnSet(f, 1..d) = head(d)
  <2>. HIDE DEF head
  <2>1. d \in F
    BY <1>6
  <2>. QED  BY <2>1
<1>8. head(d) = m
  <2>1. P[d - d] = 1 /\ m \div 1 = m
    BY <1>1
  <2>. QED  BY <2>1
<1>. QED  BY <1>7, <1>8
=============================================================================

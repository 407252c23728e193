------------------------------ MODULE SumProofs ------------------------------
(***************************************************************************)
(* What SumFunctionOnSet of the community modules computes for a function  *)
(* with natural values on a finite set, whatever order it takes the        *)
(* elements in.  The other proof modules cite these facts.                 *)
(***************************************************************************)
EXTENDS Integers, FiniteSets, Functions, FiniteSetTheorems, WellFoundedInduction, TLAPS

\* The element the fold takes next, and what it makes of the rest.
Pick(s) == CHOOSE x \in s : TRUE
Body(f, g, s) == IF s = {} THEN 0 ELSE f[Pick(s)] + g[s \ {Pick(s)}]
IsIter(f, g, S) == g = [s \in SUBSET S |-> Body(f, g, s)]

\* A non-empty set of subsets of a finite set has a minimal element: the form
\* of induction these proofs use.
LEMMA MinimalSubset ==
  ASSUME NEW S, IsFiniteSet(S), NEW Bad \in SUBSET (SUBSET S), Bad # {}
  PROVE  \E M \in Bad : \A N \in Bad : N \subseteq M => N = M
<1>1. Bad \subseteq FiniteSubsetsOf(S)
  BY FS_FiniteSubsetsOfFinite
<1>2. PICK M \in Bad : \A N \in Bad : ~(<<N, M>> \in StrictSubsetOrdering(S))
  BY <1>1, FS_StrictSubsetOrderingWellFounded, WFMin
<1>3. \A N \in Bad : N \subseteq M /\ N # M => <<N, M>> \in StrictSubsetOrdering(S)
  BY DEF StrictSubsetOrdering
<1>4. \A N \in Bad : N \subseteq M => N = M
  BY <1>2, <1>3
<1>. QED BY <1>4

\* The element taken next is one of the set.
LEMMA PickIsElement ==
  ASSUME NEW s, s # {}
  PROVE  Pick(s) \in s
BY DEF Pick

\* Two solutions of the fold's equation agree where both are defined.
LEMMA IterUnique ==
  ASSUME NEW f, NEW T, NEW R, IsFiniteSet(R), R \subseteq T,
         NEW g, NEW h, IsIter(f, g, T), IsIter(f, h, R)
  PROVE  \A s \in SUBSET R : g[s] = h[s]
<1> DEFINE Bad == {s \in SUBSET R : g[s] # h[s]}
<1>1. SUFFICES ASSUME Bad # {} PROVE FALSE
  OBVIOUS
<1>2. PICK M \in Bad : \A N \in Bad : N \subseteq M => N = M
  <2>1. Bad \in SUBSET (SUBSET R)
    OBVIOUS
  <2> HIDE DEF Bad
  <2>. QED BY <1>1, <2>1, MinimalSubset
<1>3. \A s \in SUBSET R : g[s] = Body(f, g, s) /\ h[s] = Body(f, h, s)
  BY DEF IsIter
<1>4. M # {}
  BY <1>2, <1>3 DEF Body
<1>5. Pick(M) \in M
  BY <1>4, PickIsElement
<1>6. M \ {Pick(M)} \in SUBSET R /\ M \ {Pick(M)} \subseteq M /\ M \ {Pick(M)} # M
  BY <1>2, <1>5
<1>7. g[M \ {Pick(M)}] = h[M \ {Pick(M)}]
  BY <1>2, <1>6
<1>. QED BY <1>2, <1>3, <1>4, <1>7 DEF Body

\* On a finite set the equation has a solution.
LEMMA IterExists ==
  ASSUME NEW f, NEW S, IsFiniteSet(S)
  PROVE  \E g : IsIter(f, g, S)
<1> DEFINE Bad == {T \in SUBSET S : ~\E g : IsIter(f, g, T)}
           G(T) == CHOOSE g : IsIter(f, g, T)
<1>1. SUFFICES ASSUME Bad # {} PROVE FALSE
  OBVIOUS
<1>2. PICK M \in Bad : \A N \in Bad : N \subseteq M => N = M
  <2>1. Bad \in SUBSET (SUBSET S)
    OBVIOUS
  <2> HIDE DEF Bad
  <2>. QED BY <1>1, <2>1, MinimalSubset
<1>3. ASSUME NEW T \in SUBSET M, T # M PROVE IsIter(f, G(T), T)
  BY <1>2, <1>3
<1>4. ASSUME NEW T \in SUBSET M, T # M, NEW U \in SUBSET T PROVE G(T)[U] = G(U)[U]
  <2>1. U \in SUBSET M /\ U # M
    BY <1>4
  <2>2. IsIter(f, G(T), T) /\ IsIter(f, G(U), U)
    BY <1>3, <1>4, <2>1
  <2>3. IsFiniteSet(U)
    BY <2>1, FS_Subset
  <2> HIDE DEF G
  <2>. QED BY <2>2, <2>3, IterUnique
<1> DEFINE rest == [u \in SUBSET M |-> G(u)[u]]
           g == [s \in SUBSET M |-> Body(f, rest, s)]
<1>5. ASSUME NEW s \in SUBSET M, s # {}
      PROVE  s \ {Pick(s)} \in SUBSET s /\ s \ {Pick(s)} # M /\ s \ {Pick(s)} \in SUBSET M
  BY <1>5, PickIsElement
<1>6. ASSUME NEW u \in SUBSET M, u # M PROVE g[u] = rest[u]
  <2>1. G(u)[u] = Body(f, G(u), u)
    <3>1. IsIter(f, G(u), u)
      BY <1>3, <1>6
    <3> HIDE DEF G
    <3>. QED BY <3>1 DEF IsIter
  <2>2. CASE u = {}
    BY <2>1, <2>2 DEF Body
  <2>3. CASE u # {}
    <3>1. G(u)[u \ {Pick(u)}] = G(u \ {Pick(u)})[u \ {Pick(u)}]
      BY <1>4, <1>5, <1>6, <2>3
    <3>2. rest[u \ {Pick(u)}] = G(u \ {Pick(u)})[u \ {Pick(u)}]
      BY <1>5, <2>3
    <3>3. rest[u] = f[Pick(u)] + G(u)[u \ {Pick(u)}]
      BY <2>1, <2>3 DEF Body
    <3>4. g[u] = f[Pick(u)] + rest[u \ {Pick(u)}]
      BY <2>3 DEF Body
    <3>. QED BY <3>1, <3>2, <3>3, <3>4
  <2>. QED BY <2>2, <2>3
<1>7. ASSUME NEW s \in SUBSET M PROVE Body(f, rest, s) = Body(f, g, s)
  <2>1. CASE s = {}
    BY <2>1 DEF Body
  <2>2. CASE s # {}
    <3>1. g[s \ {Pick(s)}] = rest[s \ {Pick(s)}]
      BY <1>5, <1>6, <2>2
    <3> HIDE DEF g, rest
    <3>. QED BY <3>1, <2>2 DEF Body
  <2>. QED BY <2>1, <2>2
<1>8. g = [s \in SUBSET M |-> Body(f, g, s)]
  <2>1. g = [s \in SUBSET M |-> Body(f, rest, s)]
    OBVIOUS
  <2> HIDE DEF g, rest
  <2>. QED BY <1>7, <2>1
<1>9. IsIter(f, g, M)
  BY <1>8 DEF IsIter
<1>. QED BY <1>2, <1>9

\* The equation of the sum: one element and the sum of the others.
LEMMA SumEquation ==
  ASSUME NEW f, NEW S, IsFiniteSet(S)
  PROVE  /\ S = {} => SumFunctionOnSet(f, S) = 0
         /\ S # {} => SumFunctionOnSet(f, S) = f[Pick(S)] + SumFunctionOnSet(f, S \ {Pick(S)})
<1> DEFINE Iter(T) == CHOOSE g : IsIter(f, g, T)
<1>1. \A T \in SUBSET S : SumFunctionOnSet(f, T) = Iter(T)[T]
  BY DEF SumFunctionOnSet, FoldFunctionOnSet, MapThenFoldSet, IsIter, Body, Pick
<1>2. ASSUME NEW T \in SUBSET S PROVE IsIter(f, Iter(T), T)
  <2>1. IsFiniteSet(T)
    BY FS_Subset
  <2>. QED BY <2>1, IterExists
<1> HIDE DEF Iter
<1>3. Iter(S)[S] = Body(f, Iter(S), S)
  BY <1>2 DEF IsIter
<1>4. CASE S = {}
  BY <1>1, <1>3, <1>4 DEF Body
<1>5. CASE S # {}
  <2> DEFINE R == S \ {Pick(S)}
  <2>1. R \in SUBSET S /\ IsFiniteSet(R)
    BY FS_Subset
  <2>2. Iter(S)[R] = Iter(R)[R]
    BY <1>2, <2>1, IterUnique
  <2>. QED BY <1>1, <1>3, <1>5, <2>1, <2>2 DEF Body
<1>. QED BY <1>4, <1>5
-----------------------------------------------------------------------------
\* A sum of integers is one.
LEMMA SumIsInt ==
  ASSUME NEW S, IsFiniteSet(S), NEW f, \A x \in S : f[x] \in Int
  PROVE  SumFunctionOnSet(f, S) \in Int
<1> DEFINE Sum(T) == SumFunctionOnSet(f, T)
           Bad == {T \in SUBSET S : Sum(T) \notin Int}
<1>1. SUFFICES ASSUME Bad # {} PROVE FALSE
  OBVIOUS
<1>2. PICK M \in Bad : \A N \in Bad : N \subseteq M => N = M
  <2>1. Bad \in SUBSET (SUBSET S)
    OBVIOUS
  <2> HIDE DEF Bad
  <2>. QED BY <1>1, <2>1, MinimalSubset
<1>3. IsFiniteSet(M)
  BY <1>2, FS_Subset
<1>4. M # {}
  <2>1. M = {} => Sum(M) = 0
    BY <1>3, SumEquation
  <2> HIDE DEF Sum
  <2>. QED BY <1>2, <2>1
<1>5. Pick(M) \in M
  BY <1>4, PickIsElement
<1>6. Sum(M \ {Pick(M)}) \in Int
  BY <1>2, <1>5
<1>7. Sum(M) = f[Pick(M)] + Sum(M \ {Pick(M)})
  BY <1>3, <1>4, SumEquation
<1> HIDE DEF Sum
<1>. QED BY <1>2, <1>5, <1>6, <1>7

\* A sum of natural numbers is one.
LEMMA SumIsNat ==
  ASSUME NEW S, IsFiniteSet(S), NEW f, \A x \in S : f[x] \in Nat
  PROVE  SumFunctionOnSet(f, S) \in Nat
<1> DEFINE Sum(T) == SumFunctionOnSet(f, T)
           Bad == {T \in SUBSET S : Sum(T) \notin Nat}
<1>1. SUFFICES ASSUME Bad # {} PROVE FALSE
  OBVIOUS
<1>2. PICK M \in Bad : \A N \in Bad : N \subseteq M => N = M
  <2>1. Bad \in SUBSET (SUBSET S)
    OBVIOUS
  <2> HIDE DEF Bad
  <2>. QED BY <1>1, <2>1, MinimalSubset
<1>3. IsFiniteSet(M)
  BY <1>2, FS_Subset
<1>4. M # {}
  <2>1. M = {} => Sum(M) = 0
    BY <1>3, SumEquation
  <2> HIDE DEF Sum
  <2>. QED BY <1>2, <2>1
<1>5. Pick(M) \in M
  BY <1>4, PickIsElement
<1>6. Sum(M \ {Pick(M)}) \in Nat
  BY <1>2, <1>5
<1>7. Sum(M) = f[Pick(M)] + Sum(M \ {Pick(M)})
  BY <1>3, <1>4, SumEquation
<1> HIDE DEF Sum
<1>. QED BY <1>2, <1>5, <1>6, <1>7

\* Any element may be taken out of the sum, not only the one the fold takes.
LEMMA SumWithout ==
  ASSUME NEW S, IsFiniteSet(S), NEW f, \A x \in S : f[x] \in Int, NEW e \in S
  PROVE  SumFunctionOnSet(f, S) = f[e] + SumFunctionOnSet(f, S \ {e})
<1> DEFINE Sum(T) == SumFunctionOnSet(f, T)
           Bad == {T \in SUBSET S : \E x \in T : Sum(T) # f[x] + Sum(T \ {x})}
<1>1. SUFFICES ASSUME Bad # {} PROVE FALSE
  OBVIOUS
<1>2. PICK M \in Bad : \A N \in Bad : N \subseteq M => N = M
  <2>1. Bad \in SUBSET (SUBSET S)
    OBVIOUS
  <2> HIDE DEF Bad
  <2>. QED BY <1>1, <2>1, MinimalSubset
<1>3. PICK x \in M : Sum(M) # f[x] + Sum(M \ {x})
  BY <1>2
<1>4. \A T \in SUBSET S : IsFiniteSet(T) /\ Sum(T) \in Int
  BY FS_Subset, SumIsInt
<1> DEFINE y == Pick(M)
<1>5. y \in M
  BY <1>3, PickIsElement
<1>6. Sum(M) = f[y] + Sum(M \ {y})
  BY <1>2, <1>3, <1>4, SumEquation
<1>7. x # y
  BY <1>3, <1>6
<1>8. M \ {y} \notin Bad /\ M \ {x} \notin Bad
  BY <1>2, <1>3, <1>5
<1>9. Sum(M \ {y}) = f[x] + Sum((M \ {y}) \ {x})
  BY <1>2, <1>3, <1>7, <1>8
<1>10. Sum(M \ {x}) = f[y] + Sum((M \ {x}) \ {y})
  BY <1>2, <1>5, <1>7, <1>8
<1>11. Sum((M \ {y}) \ {x}) = Sum((M \ {x}) \ {y})
  <2>1. (M \ {y}) \ {x} = (M \ {x}) \ {y}
    OBVIOUS
  <2> HIDE DEF Sum
  <2>. QED BY <2>1
<1>12. f[x] \in Int /\ f[y] \in Int /\ Sum((M \ {x}) \ {y}) \in Int
  BY <1>2, <1>3, <1>4, <1>5
<1> HIDE DEF Sum, y
<1>. QED BY <1>3, <1>6, <1>9, <1>10, <1>11, <1>12

\* Adding an element adds its value.
LEMMA SumWith ==
  ASSUME NEW S, IsFiniteSet(S), NEW f, NEW e, e \notin S, \A x \in S \cup {e} : f[x] \in Int
  PROVE  SumFunctionOnSet(f, S \cup {e}) = f[e] + SumFunctionOnSet(f, S)
<1>1. IsFiniteSet(S \cup {e}) /\ (S \cup {e}) \ {e} = S
  BY FS_AddElement
<1> DEFINE T == S \cup {e}
<1>2. IsFiniteSet(T) /\ e \in T /\ \A x \in T : f[x] \in Int
  BY <1>1
<1> HIDE DEF T
<1>3. SumFunctionOnSet(f, T) = f[e] + SumFunctionOnSet(f, T \ {e})
  BY <1>2, SumWithout
<1>. QED BY <1>1, <1>3 DEF T

\* The sum depends on nothing but the values on the set.
LEMMA SumDependsOn ==
  ASSUME NEW S, IsFiniteSet(S), NEW f, NEW g, \A x \in S : f[x] = g[x]
  PROVE  SumFunctionOnSet(f, S) = SumFunctionOnSet(g, S)
<1> DEFINE Bad == {T \in SUBSET S : SumFunctionOnSet(f, T) # SumFunctionOnSet(g, T)}
<1>1. SUFFICES ASSUME Bad # {} PROVE FALSE
  OBVIOUS
<1>2. PICK M \in Bad : \A N \in Bad : N \subseteq M => N = M
  <2>1. Bad \in SUBSET (SUBSET S)
    OBVIOUS
  <2> HIDE DEF Bad
  <2>. QED BY <1>1, <2>1, MinimalSubset
<1>3. IsFiniteSet(M)
  BY <1>2, FS_Subset
<1>4. M # {}
  BY <1>2, <1>3, SumEquation
<1>5. Pick(M) \in M
  BY <1>4, PickIsElement
<1>6. SumFunctionOnSet(f, M \ {Pick(M)}) = SumFunctionOnSet(g, M \ {Pick(M)})
  BY <1>2, <1>5
<1>7. f[Pick(M)] = g[Pick(M)]
  BY <1>2, <1>5
<1>. QED BY <1>2, <1>3, <1>4, <1>6, <1>7, SumEquation

\* A change of one value changes the sum by as much.
LEMMA SumUpdate ==
  ASSUME NEW S, IsFiniteSet(S), NEW f, NEW g, NEW e \in S,
         \A x \in S : f[x] \in Int /\ g[x] \in Int,
         \A x \in S \ {e} : g[x] = f[x]
  PROVE  SumFunctionOnSet(g, S) = SumFunctionOnSet(f, S) - f[e] + g[e]
<1>1. IsFiniteSet(S \ {e})
  BY FS_Subset
<1>2. SumFunctionOnSet(f, S \ {e}) = SumFunctionOnSet(g, S \ {e})
  BY <1>1, SumDependsOn
<1>3. /\ SumFunctionOnSet(f, S) = f[e] + SumFunctionOnSet(f, S \ {e})
      /\ SumFunctionOnSet(g, S) = g[e] + SumFunctionOnSet(g, S \ {e})
      /\ SumFunctionOnSet(f, S \ {e}) \in Int
  BY <1>1, SumWithout, SumIsInt
<1>. QED BY <1>2, <1>3

\* A sum over more elements is not less.
LEMMA SumGrows ==
  ASSUME NEW S, IsFiniteSet(S), NEW f, \A x \in S : f[x] \in Nat, NEW R \in SUBSET S
  PROVE  SumFunctionOnSet(f, R) <= SumFunctionOnSet(f, S)
<1> DEFINE Sum(T) == SumFunctionOnSet(f, T)
           Bad == {T \in SUBSET S : R \subseteq T /\ ~(Sum(R) <= Sum(T))}
<1>1. SUFFICES ASSUME Bad # {} PROVE FALSE
  OBVIOUS
<1>2. PICK M \in Bad : \A N \in Bad : N \subseteq M => N = M
  <2>1. Bad \in SUBSET (SUBSET S)
    OBVIOUS
  <2> HIDE DEF Bad
  <2>. QED BY <1>1, <2>1, MinimalSubset
<1>3. \A T \in SUBSET S : IsFiniteSet(T) /\ Sum(T) \in Nat
  BY FS_Subset, SumIsNat
<1>4. M # R /\ Sum(R) \in Nat /\ Sum(M) \in Nat /\ ~(Sum(R) <= Sum(M)) /\ R \subseteq M
  BY <1>2, <1>3
<1>5. PICK x \in M : x \notin R
  BY <1>4
<1>6. M \ {x} \notin Bad
  BY <1>2, <1>5
<1>7. Sum(R) <= Sum(M \ {x})
  BY <1>2, <1>4, <1>5, <1>6
<1>8. Sum(M) = f[x] + Sum(M \ {x})
  <2>1. IsFiniteSet(M) /\ \A y \in M : f[y] \in Int
    BY <1>2, <1>3
  <2>. QED BY <2>1, SumWithout
<1>9. f[x] \in Nat /\ Sum(M \ {x}) \in Nat
  BY <1>2, <1>3
<1> HIDE DEF Sum
<1>. QED BY <1>4, <1>7, <1>8, <1>9

\* Only the elements that are not 0 count.
LEMMA SumOfRest ==
  ASSUME NEW S, IsFiniteSet(S), NEW f, \A x \in S : f[x] \in Int, NEW R \in SUBSET S,
         \A x \in S \ R : f[x] = 0
  PROVE  SumFunctionOnSet(f, S) = SumFunctionOnSet(f, R)
<1> DEFINE Sum(T) == SumFunctionOnSet(f, T)
           Bad == {T \in SUBSET S : R \subseteq T /\ Sum(T) # Sum(R)}
<1>1. SUFFICES ASSUME Bad # {} PROVE FALSE
  OBVIOUS
<1>2. PICK M \in Bad : \A N \in Bad : N \subseteq M => N = M
  <2>1. Bad \in SUBSET (SUBSET S)
    OBVIOUS
  <2> HIDE DEF Bad
  <2>. QED BY <1>1, <2>1, MinimalSubset
<1>3. \A T \in SUBSET S : IsFiniteSet(T) /\ Sum(T) \in Int
  BY FS_Subset, SumIsInt
<1>4. M # R /\ Sum(M) # Sum(R) /\ R \subseteq M
  BY <1>2
<1>5. PICK x \in M : x \notin R
  BY <1>4
<1>6. M \ {x} \notin Bad
  BY <1>2, <1>5
<1>7. Sum(M \ {x}) = Sum(R)
  BY <1>2, <1>4, <1>5, <1>6
<1>8. Sum(M) = f[x] + Sum(M \ {x})
  <2>1. IsFiniteSet(M) /\ \A y \in M : f[y] \in Int
    BY <1>2, <1>3
  <2>. QED BY <2>1, SumWithout
<1>9. f[x] = 0 /\ Sum(M \ {x}) \in Int
  BY <1>2, <1>3, <1>5
<1> HIDE DEF Sum
<1>. QED BY <1>4, <1>7, <1>8, <1>9

\* Sums of parts add up.
LEMMA SumAdds ==
  ASSUME NEW S, IsFiniteSet(S), NEW f, NEW g, NEW h,
         \A x \in S : f[x] \in Int /\ g[x] \in Int /\ h[x] \in Int /\ f[x] = g[x] + h[x]
  PROVE  SumFunctionOnSet(f, S) = SumFunctionOnSet(g, S) + SumFunctionOnSet(h, S)
<1> DEFINE Good(T) == SumFunctionOnSet(f, T) = SumFunctionOnSet(g, T) + SumFunctionOnSet(h, T)
           Bad == {T \in SUBSET S : ~Good(T)}
<1>1. SUFFICES ASSUME Bad # {} PROVE FALSE
  OBVIOUS
<1>2. PICK M \in Bad : \A N \in Bad : N \subseteq M => N = M
  <2>1. Bad \in SUBSET (SUBSET S)
    OBVIOUS
  <2> HIDE DEF Bad
  <2>. QED BY <1>1, <2>1, MinimalSubset
<1>3. IsFiniteSet(M) /\ M \subseteq S
  BY <1>2, FS_Subset
<1>4. Good({})
  <2>1. \A F : SumFunctionOnSet(F, {}) = 0
    BY FS_EmptySet, SumEquation
  <2>. QED BY <2>1
<1>5. M # {} /\ ~Good(M)
  BY <1>2, <1>4
<1>6. PICK x \in M : TRUE
  BY <1>5
<1>7. Good(M \ {x})
  BY <1>2, <1>6
<1>8. /\ SumFunctionOnSet(f, M) = f[x] + SumFunctionOnSet(f, M \ {x})
      /\ SumFunctionOnSet(g, M) = g[x] + SumFunctionOnSet(g, M \ {x})
      /\ SumFunctionOnSet(h, M) = h[x] + SumFunctionOnSet(h, M \ {x})
  <2>1. \A y \in M : f[y] \in Int /\ g[y] \in Int /\ h[y] \in Int
    BY <1>3
  <2>. QED BY <1>3, <1>6, <2>1, SumWithout
<1>9. /\ SumFunctionOnSet(f, M \ {x}) \in Int /\ SumFunctionOnSet(g, M \ {x}) \in Int
      /\ SumFunctionOnSet(h, M \ {x}) \in Int
  <2>1. IsFiniteSet(M \ {x}) /\ \A y \in M \ {x} : f[y] \in Int /\ g[y] \in Int /\ h[y] \in Int
    BY <1>3, FS_Subset
  <2>. QED BY <2>1, SumIsInt
<1>10. f[x] \in Int /\ g[x] \in Int /\ h[x] \in Int /\ f[x] = g[x] + h[x]
  BY <1>3, <1>6
<1>11. Good(M)
  BY <1>7, <1>8, <1>9, <1>10
<1>. QED BY <1>5, <1>11

\* A sum of numbers of at most m.
LEMMA SumAtMost ==
  ASSUME NEW S, IsFiniteSet(S), NEW f, NEW m \in Nat, \A x \in S : f[x] \in Nat /\ f[x] <= m
  PROVE  SumFunctionOnSet(f, S) <= m * Cardinality(S)
<1> DEFINE Good(T) == SumFunctionOnSet(f, T) <= m * Cardinality(T)
           Bad == {T \in SUBSET S : ~Good(T)}
<1>1. SUFFICES ASSUME Bad # {} PROVE FALSE
  OBVIOUS
<1>2. PICK M \in Bad : \A N \in Bad : N \subseteq M => N = M
  <2>1. Bad \in SUBSET (SUBSET S)
    OBVIOUS
  <2> HIDE DEF Bad
  <2>. QED BY <1>1, <2>1, MinimalSubset
<1>3. IsFiniteSet(M) /\ M \in SUBSET S /\ ~Good(M)
  BY <1>2, FS_Subset
<1>4. Good({})
  <2>1. SumFunctionOnSet(f, {}) = 0 /\ Cardinality({}) = 0
    BY FS_EmptySet, SumEquation
  <2>. QED BY <2>1
<1>5. PICK x \in M : TRUE
  <2> HIDE DEF Good
  <2>. QED BY <1>3, <1>4
<1>6. Good(M \ {x})
  BY <1>2, <1>5
<1>7. SumFunctionOnSet(f, M) = f[x] + SumFunctionOnSet(f, M \ {x})
  BY <1>3, <1>5, SumWithout
<1>8. /\ Cardinality(M \ {x}) = Cardinality(M) - 1 /\ IsFiniteSet(M \ {x})
      /\ Cardinality(M) \in Nat /\ Cardinality(M \ {x}) \in Nat
  BY <1>3, <1>5, FS_RemoveElement, FS_CardinalityType
<1>9. SumFunctionOnSet(f, M \ {x}) \in Nat /\ f[x] \in Nat /\ f[x] <= m
  BY <1>3, <1>5, <1>8, SumIsNat
<1>10. m * Cardinality(M) = m * Cardinality(M \ {x}) + m
  BY <1>8
<1>11. m * Cardinality(M \ {x}) \in Nat
  BY <1>8
<1>12. Good(M)
  <2> DEFINE p == m * Cardinality(M \ {x})
  <2>1. p \in Nat /\ m * Cardinality(M) = p + m
    BY <1>10, <1>11
  <2>2. SumFunctionOnSet(f, M \ {x}) <= p
    BY <1>6
  <2> HIDE DEF p
  <2>. QED BY <1>7, <1>9, <2>1, <2>2
<1> HIDE DEF Good
<1>. QED BY <1>3, <1>12
=============================================================================

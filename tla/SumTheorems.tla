----------------------------- MODULE SumTheorems -----------------------------
(***************************************************************************)
(* Sums over finite sets.  Total is a recursive function on subsets under  *)
(* its definition; it is an integer, takes up and gives back one element   *)
(* at a time whatever the order, and is additive, monotone and linear.     *)
(* Sum(f, S) is the sum of f over S, a part of its domain.                 *)
(***************************************************************************)
EXTENDS Sums, FiniteSetTheorems, TLAPS

\* A fact about sets that holds of the empty set and is kept by adding an
\* element holds of a finite set: C is the set of subsets of which it holds.
LEMMA SubsetInduction ==
  ASSUME NEW S, IsFiniteSet(S), NEW C, {} \in C,
         \A T \in SUBSET S : \A x \in S \ T : T \in C => T \cup {x} \in C
  PROVE  S \in C
<1> DEFINE R == StrictSubsetOrdering(S)
           B == {T \in SUBSET S : T \notin C}
<1>1. IsWellFoundedOn(R, SUBSET S)
  BY FS_StrictSubsetOrderingWellFounded, FS_FiniteSubsetsOfFinite
<1> SUFFICES ASSUME B # {} PROVE FALSE
  OBVIOUS
<1> HIDE DEF R
<1>2. B \subseteq SUBSET S
  OBVIOUS
<1> HIDE DEF B
<1>3. PICK T \in B : \A U \in B : ~(<<U, T>> \in R)
  BY <1>1, <1>2, WFMin
<1> USE DEF B
<1>4. PICK x \in T : TRUE
  OBVIOUS
<1>5. T \ {x} \in SUBSET S /\ T \ {x} # T /\ T \ {x} \subseteq T
  BY <1>4
<1>6. <<T \ {x}, T>> \in R
  BY <1>5, <1>3 DEF R, StrictSubsetOrdering
<1>7. T \ {x} \in C
  BY <1>3, <1>5, <1>6
<1>8. x \in S \ (T \ {x}) /\ (T \ {x}) \cup {x} = T
  BY <1>4
<1>9. T \in C
  BY <1>5, <1>7, <1>8
<1> QED
  BY <1>9

-----------------------------------------------------------------------------
(* What Total computes *)

Pick(s) == CHOOSE x \in s : TRUE

\* g adds up f over the subsets of S, one element after the other.
Adds(f, S, g) ==
  g = [s \in SUBSET S |-> IF s = {} THEN 0 ELSE f[Pick(s)] + g[s \ {Pick(s)}]]

LEMMA TotalUnfolds ==
  ASSUME NEW f
  PROVE  Total(f) = (CHOOSE g : Adds(f, DOMAIN f, g))[DOMAIN f]
BY DEF Total, MapThenSumSet, MapThenFoldSet, Adds, Pick

LEMMA AddsStep ==
  ASSUME NEW f, NEW S, NEW g, Adds(f, S, g), NEW s \in SUBSET S
  PROVE  /\ s = {} => g[s] = 0
         /\ s # {} => Pick(s) \in s /\ g[s] = f[Pick(s)] + g[s \ {Pick(s)}]
<1>1. g[s] = IF s = {} THEN 0 ELSE f[Pick(s)] + g[s \ {Pick(s)}]
  BY DEF Adds
<1>2. s # {} => Pick(s) \in s
  BY DEF Pick
<1> QED
  BY <1>1, <1>2

\* Two functions that agree on a set add up to the same there.
LEMMA AddsAgree ==
  ASSUME NEW U, IsFiniteSet(U), NEW S, NEW T, U \subseteq S, U \subseteq T,
         NEW f, NEW h, \A x \in U : f[x] = h[x],
         NEW F, Adds(f, S, F), NEW H, Adds(h, T, H)
  PROVE  F[U] = H[U]
<1> DEFINE R == StrictSubsetOrdering(U)
           B == {V \in SUBSET U : F[V] # H[V]}
<1>1. IsWellFoundedOn(R, SUBSET U)
  BY FS_StrictSubsetOrderingWellFounded, FS_FiniteSubsetsOfFinite
<1> SUFFICES ASSUME B # {} PROVE FALSE
  OBVIOUS
<1>2. B \subseteq SUBSET U
  OBVIOUS
<1> HIDE DEF R, B
<1>3. PICK V \in B : \A W \in B : ~(<<W, V>> \in R)
  BY <1>1, <1>2, WFMin
<1> USE DEF B
<1>4. V \in SUBSET S /\ V \in SUBSET T /\ V \in SUBSET U
  BY <1>3
<1>5. V # {}
  BY <1>3, <1>4, AddsStep
<1> DEFINE p == Pick(V)
<1>6. p \in V /\ F[V] = f[p] + F[V \ {p}] /\ H[V] = h[p] + H[V \ {p}]
  BY <1>4, <1>5, AddsStep
<1>7. <<V \ {p}, V>> \in R
  BY <1>4, <1>6 DEF R, StrictSubsetOrdering
<1>8. F[V \ {p}] = H[V \ {p}]
  BY <1>3, <1>4, <1>7
<1> QED
  BY <1>3, <1>4, <1>6, <1>8

\* There is such a function.
LEMMA AddsExists ==
  ASSUME NEW S, IsFiniteSet(S), NEW f
  PROVE  \E g : Adds(f, S, g)
<1> DEFINE R == StrictSubsetOrdering(S)
           B == {T \in SUBSET S : ~ \E g : Adds(f, T, g)}
<1>1. IsWellFoundedOn(R, SUBSET S)
  BY FS_StrictSubsetOrderingWellFounded, FS_FiniteSubsetsOfFinite
<1> SUFFICES ASSUME B # {} PROVE FALSE
  OBVIOUS
<1>2. B \subseteq SUBSET S
  OBVIOUS
<1> HIDE DEF R, B
<1>3. PICK T \in B : \A U \in B : ~(<<U, T>> \in R)
  BY <1>1, <1>2, WFMin
<1>4. T \in SUBSET S /\ ~ \E g : Adds(f, T, g)
  BY DEF B
<1>5. \A U \in SUBSET T : U # T => \E g : Adds(f, U, g)
  <2> SUFFICES ASSUME NEW U \in SUBSET T, U # T PROVE \E g : Adds(f, U, g)
    OBVIOUS
  <2>1. <<U, T>> \in R
    BY <1>4 DEF R, StrictSubsetOrdering
  <2> QED
    BY <2>1, <1>3, <1>4 DEF B
<1> DEFINE part(U) == (CHOOSE g : Adds(f, U, g))[U]
           G == [s \in SUBSET T |-> IF s = {} THEN 0 ELSE f[Pick(s)] + part(s \ {Pick(s)})]
<1>6. \A U \in SUBSET T : U # T => G[U] = part(U)
  <2> SUFFICES ASSUME NEW U \in SUBSET T, U # T PROVE G[U] = part(U)
    OBVIOUS
  <2> DEFINE F == CHOOSE g : Adds(f, U, g)
             p == Pick(U)
             V == U \ {p}
             H == CHOOSE g : Adds(f, V, g)
  <2>1. Adds(f, U, F)
    BY <1>5
  <2>2. CASE U = {}
    <3>1. F[U] = 0
      BY <2>1, <2>2, AddsStep
    <3> QED
      BY <2>2, <3>1
  <2>3. CASE U # {}
    <3>1. p \in U /\ F[U] = f[p] + F[V]
      BY <2>1, <2>3, AddsStep
    <3>2. V \in SUBSET T /\ V # T /\ V \subseteq U
      BY <3>1
    <3>3. Adds(f, V, H)
      BY <1>5, <3>2
    <3>4. IsFiniteSet(V)
      BY <1>4, <3>2, FS_Subset
    <3> HIDE DEF F, H, V
    <3>5. F[V] = H[V]
      BY <2>1, <3>2, <3>3, <3>4, AddsAgree
    <3>6. G[U] = f[p] + H[V]
      BY <2>3 DEF H, V
    <3> QED
      BY <3>1, <3>5, <3>6 DEF F
  <2> QED
    BY <2>2, <2>3
<1>7. \A s \in SUBSET T : s # {} => s \ {Pick(s)} \in SUBSET T /\ s \ {Pick(s)} # T
  <2> SUFFICES ASSUME NEW s \in SUBSET T, s # {} PROVE s \ {Pick(s)} \in SUBSET T /\ s \ {Pick(s)} # T
    OBVIOUS
  <2>1. Pick(s) \in s
    BY DEF Pick
  <2> QED
    BY <2>1
<1> DEFINE H == [s \in SUBSET T |-> IF s = {} THEN 0 ELSE f[Pick(s)] + G[s \ {Pick(s)}]]
<1>8. \A s \in SUBSET T : G[s] = H[s]
  <2> SUFFICES ASSUME NEW s \in SUBSET T PROVE G[s] = H[s]
    OBVIOUS
  <2> HIDE DEF part
  <2>1. CASE s = {}
    BY <2>1
  <2>2. CASE s # {}
    <3>1. G[s] = f[Pick(s)] + part(s \ {Pick(s)})
      BY <2>2
    <3>2. H[s] = f[Pick(s)] + G[s \ {Pick(s)}]
      BY <2>2
    <3> HIDE DEF G, H
    <3>3. G[s \ {Pick(s)}] = part(s \ {Pick(s)})
      BY <1>6, <1>7, <2>2
    <3> QED
      BY <3>1, <3>2, <3>3
  <2> QED
    BY <2>1, <2>2
<1>9. G = H
  <2>1. DOMAIN G = DOMAIN H /\ G = [s \in DOMAIN G |-> G[s]] /\ H = [s \in DOMAIN H |-> H[s]]
    OBVIOUS
  <2> QED
    BY <2>1, <1>8
<1>10. Adds(f, T, G)
  BY <1>9 DEF Adds
<1> QED
  BY <1>4, <1>10

IntOn(f, S) == \A x \in S : f[x] \in Int

LEMMA AddsInt ==
  ASSUME NEW S, IsFiniteSet(S), NEW f, IntOn(f, S),
         NEW g, Adds(f, S, g), NEW U \in SUBSET S
  PROVE  g[U] \in Int
<1> DEFINE R == StrictSubsetOrdering(S)
           B == {T \in SUBSET S : g[T] \notin Int}
<1>1. IsWellFoundedOn(R, SUBSET S)
  BY FS_StrictSubsetOrderingWellFounded, FS_FiniteSubsetsOfFinite
<1> SUFFICES ASSUME B # {} PROVE FALSE
  OBVIOUS
<1>2. B \subseteq SUBSET S
  OBVIOUS
<1> HIDE DEF R, B
<1>3. PICK T \in B : \A V \in B : ~(<<V, T>> \in R)
  BY <1>1, <1>2, WFMin
<1> USE DEF B
<1> DEFINE p == Pick(T)
<1>4. T \in SUBSET S /\ g[T] \notin Int /\ T # {}
  <2>1. T \in SUBSET S /\ g[T] \notin Int
    BY <1>3
  <2>2. T = {} => g[T] = 0
    BY <2>1, AddsStep
  <2> QED
    BY <2>1, <2>2
<1>5. p \in T /\ g[T] = f[p] + g[T \ {p}]
  BY <1>4, AddsStep
<1>6. <<T \ {p}, T>> \in R /\ T \ {p} \in SUBSET S
  BY <1>4, <1>5 DEF R, StrictSubsetOrdering
<1>7. g[T \ {p}] \in Int /\ f[p] \in Int
  BY <1>3, <1>4, <1>5, <1>6 DEF IntOn
<1> QED
  BY <1>4, <1>5, <1>7

\* The order does not matter: any element may be the first.
LEMMA AddsAny ==
  ASSUME NEW S, IsFiniteSet(S), NEW f, IntOn(f, S),
         NEW g, Adds(f, S, g), NEW U \in SUBSET S, NEW x \in U
  PROVE  g[U] = f[x] + g[U \ {x}]
<1>0. \A T \in SUBSET S : T # {} =>
        Pick(T) \in T /\ g[T] = f[Pick(T)] + g[T \ {Pick(T)}]
  BY AddsStep
<1> DEFINE R == StrictSubsetOrdering(S)
           Bad(T) == \E y \in T : g[T] # f[y] + g[T \ {y}]
           B == {T \in SUBSET S : Bad(T)}
<1>1. IsWellFoundedOn(R, SUBSET S)
  BY FS_StrictSubsetOrderingWellFounded, FS_FiniteSubsetsOfFinite
<1> SUFFICES ASSUME B # {} PROVE FALSE
  OBVIOUS
<1>2. B \subseteq SUBSET S
  OBVIOUS
<1> HIDE DEF R, B
<1>3. PICK T \in B : \A V \in B : ~(<<V, T>> \in R)
  BY <1>1, <1>2, WFMin
<1>4. T \in SUBSET S /\ Bad(T)
  BY <1>3 DEF B
<1>5. PICK y \in T : g[T] # f[y] + g[T \ {y}]
  BY <1>4
<1> HIDE DEF Bad
<1> DEFINE p == Pick(T)
<1>6. p \in T /\ g[T] = f[p] + g[T \ {p}]
  BY <1>0, <1>4, <1>5
<1> HIDE DEF p
<1>7. p # y
  BY <1>5, <1>6
<1>8. \A z \in T : <<T \ {z}, T>> \in R /\ T \ {z} \in SUBSET S
  BY <1>4 DEF R, StrictSubsetOrdering
<1>9. ~Bad(T \ {p}) /\ ~Bad(T \ {y})
  BY <1>3, <1>4, <1>5, <1>6, <1>8 DEF B
<1>10. y \in T \ {p} /\ p \in T \ {y} /\ (T \ {p}) \ {y} = (T \ {y}) \ {p}
  BY <1>5, <1>6, <1>7
<1> DEFINE rest == g[(T \ {p}) \ {y}]
<1>11. g[T \ {p}] = f[y] + rest /\ g[T \ {y}] = f[p] + rest
  BY <1>9, <1>10 DEF Bad
<1>12. rest \in Int /\ f[p] \in Int /\ f[y] \in Int
  BY <1>4, <1>5, <1>6, AddsInt DEF IntOn
<1> HIDE DEF rest
<1> QED
  BY <1>5, <1>6, <1>11, <1>12

-----------------------------------------------------------------------------
(* The facts by which Total is used *)

LEMMA TotalIsAdds ==
  ASSUME NEW f, IsFiniteSet(DOMAIN f), NEW g, Adds(f, DOMAIN f, g)
  PROVE  Total(f) = g[DOMAIN f]
<1> DEFINE h == CHOOSE k : Adds(f, DOMAIN f, k)
<1>1. Adds(f, DOMAIN f, h)
  OBVIOUS
<1>2. Total(f) = h[DOMAIN f]
  BY TotalUnfolds
<1> HIDE DEF h
<1> QED
  BY <1>1, <1>2, AddsAgree

\* Nothing adds up to zero.
LEMMA TotalEmpty ==
  ASSUME NEW f, DOMAIN f = {}
  PROVE  Total(f) = 0
<1>1. PICK g : Adds(f, {}, g)
  BY AddsExists, FS_EmptySet
<1>2. Adds(f, DOMAIN f, g) /\ IsFiniteSet(DOMAIN f)
  BY <1>1, FS_EmptySet
<1>3. Total(f) = g[DOMAIN f]
  BY <1>2, TotalIsAdds
<1>4. {} \in SUBSET {}
  OBVIOUS
<1>5. g[{}] = 0
  BY <1>1, <1>4, AddsStep
<1> QED
  BY <1>3, <1>5

\* A sum of integers is one.
LEMMA TotalInt ==
  ASSUME NEW f, IsFiniteSet(DOMAIN f), IntOn(f, DOMAIN f)
  PROVE  Total(f) \in Int
<1>1. PICK g : Adds(f, DOMAIN f, g)
  BY AddsExists
<1> QED
  BY <1>1, TotalIsAdds, AddsInt

\* Any element may be taken out of a sum.
LEMMA TotalRemove ==
  ASSUME NEW f, IsFiniteSet(DOMAIN f), IntOn(f, DOMAIN f),
         NEW x \in DOMAIN f
  PROVE  Total(f) = f[x] + Total([y \in DOMAIN f \ {x} |-> f[y]])
<1> DEFINE D == DOMAIN f
           E == D \ {x}
           h == [y \in E |-> f[y]]
<1>1. PICK g : Adds(f, D, g)
  BY AddsExists
<1>2. IsFiniteSet(E) /\ DOMAIN h = E /\ \A y \in E : h[y] = f[y]
  BY FS_RemoveElement
<1> HIDE DEF h
<1>3. PICK k : Adds(h, E, k)
  BY <1>2, AddsExists
<1>4. Total(f) = g[D] /\ Total(h) = k[E]
  BY <1>1, <1>2, <1>3, TotalIsAdds
<1>5. g[E] = k[E]
  BY <1>1, <1>2, <1>3, AddsAgree
<1>6. g[D] = f[x] + g[E]
  BY <1>1, AddsAny
<1> QED
  BY <1>4, <1>5, <1>6 DEF h

\* An element may be added to a sum.
LEMMA TotalAdd ==
  ASSUME NEW S, IsFiniteSet(S), NEW x, x \notin S,
         NEW f, IntOn(f, S \cup {x})
  PROVE  Total([y \in S \cup {x} |-> f[y]]) = f[x] + Total([y \in S |-> f[y]])
<1> DEFINE h == [y \in S \cup {x} |-> f[y]]
<1>1. DOMAIN h = S \cup {x} /\ IsFiniteSet(S \cup {x}) /\ (S \cup {x}) \ {x} = S
      /\ h[x] = f[x] /\ \A y \in S \cup {x} : h[y] = f[y] /\ h[y] \in Int
  BY FS_AddElement DEF IntOn
<1>2. [y \in S |-> h[y]] = [y \in S |-> f[y]]
  BY <1>1
<1> HIDE DEF h
<1>3. Total(h) = h[x] + Total([y \in DOMAIN h \ {x} |-> h[y]])
  BY <1>1, TotalRemove DEF IntOn
<1> QED
  BY <1>1, <1>2, <1>3 DEF h

-----------------------------------------------------------------------------
(* Sums of one function over several sets *)

Sum(f, S) == Total([x \in S |-> f[x]])

NatOn(f, S) == \A x \in S : f[x] \in Nat

LEMMA SumIsTotal ==
  ASSUME NEW S, NEW T, NEW f \in [S -> T]
  PROVE  Total(f) = Sum(f, S)
<1>1. f = [x \in S |-> f[x]]
  OBVIOUS
<1> QED
  BY <1>1 DEF Sum

LEMMA SumSame ==
  ASSUME NEW S, NEW f, NEW g, \A x \in S : f[x] = g[x]
  PROVE  Sum(f, S) = Sum(g, S)
<1>1. [x \in S |-> f[x]] = [x \in S |-> g[x]]
  OBVIOUS
<1> QED
  BY <1>1 DEF Sum

LEMMA SumEmpty ==
  ASSUME NEW f
  PROVE  Sum(f, {}) = 0
BY TotalEmpty DEF Sum

LEMMA SumInt ==
  ASSUME NEW S, IsFiniteSet(S), NEW f, IntOn(f, S)
  PROVE  Sum(f, S) \in Int
<1> DEFINE h == [x \in S |-> f[x]]
<1>1. DOMAIN h = S /\ IntOn(h, S)
  BY DEF IntOn
<1> HIDE DEF h
<1>2. Total(h) \in Int
  BY <1>1, TotalInt
<1> QED
  BY <1>2 DEF h, Sum

LEMMA SumAdd ==
  ASSUME NEW S, IsFiniteSet(S), NEW x, x \notin S, NEW f, IntOn(f, S \cup {x})
  PROVE  Sum(f, S \cup {x}) = f[x] + Sum(f, S)
BY TotalAdd DEF Sum

LEMMA SumRemove ==
  ASSUME NEW S, IsFiniteSet(S), NEW x \in S, NEW f, IntOn(f, S)
  PROVE  Sum(f, S) = f[x] + Sum(f, S \ {x})
<1>1. x \notin S \ {x} /\ (S \ {x}) \cup {x} = S /\ IsFiniteSet(S \ {x})
  BY FS_RemoveElement
<1>2. Sum(f, (S \ {x}) \cup {x}) = f[x] + Sum(f, S \ {x})
  BY <1>1, SumAdd
<1> QED
  BY <1>1, <1>2

\* What is asked of a set of integers is asked of its parts.
LEMMA IntOnPart ==
  ASSUME NEW S, NEW f, IntOn(f, S), NEW T \in SUBSET S
  PROVE  IntOn(f, T)
BY DEF IntOn

LEMMA SumSplit ==
  ASSUME NEW S, IsFiniteSet(S), NEW T, IsFiniteSet(T), S \cap T = {},
         NEW f, IntOn(f, S \cup T)
  PROVE  Sum(f, S \cup T) = Sum(f, S) + Sum(f, T)
<1> DEFINE C == {U \in SUBSET S : Sum(f, U \cup T) = Sum(f, U) + Sum(f, T)}
<1>1. {} \in C
  <2>1. Sum(f, T) \in Int
    BY SumInt, IntOnPart
  <2>2. Sum(f, {} \cup T) = Sum(f, T) /\ Sum(f, {}) = 0
    <3>1. {} \cup T = T
      OBVIOUS
    <3> QED
      BY <3>1, SumEmpty
  <2> QED
    BY <2>1, <2>2
<1>2. ASSUME NEW U \in SUBSET S, NEW x \in S \ U, U \in C
      PROVE  U \cup {x} \in C
  <2>1. IsFiniteSet(U) /\ IsFiniteSet(U \cup T) /\ x \notin U \cup T
    BY FS_Subset, FS_Union
  <2>2. IntOn(f, (U \cup T) \cup {x}) /\ IntOn(f, U \cup {x}) /\ IntOn(f, U) /\ IntOn(f, T)
        /\ f[x] \in Int
    BY DEF IntOn
  <2>3. Sum(f, (U \cup T) \cup {x}) = f[x] + Sum(f, U \cup T)
    BY <2>1, <2>2, SumAdd
  <2>4. Sum(f, U \cup {x}) = f[x] + Sum(f, U)
    BY <2>1, <2>2, SumAdd
  <2>5. (U \cup {x}) \cup T = (U \cup T) \cup {x}
    OBVIOUS
  <2>6. Sum(f, U) \in Int /\ Sum(f, T) \in Int
    BY <2>1, <2>2, SumInt
  <2>7. Sum(f, U \cup T) = Sum(f, U) + Sum(f, T)
    BY <1>2
  <2>8. Sum(f, (U \cup {x}) \cup T) = f[x] + Sum(f, U \cup T)
    BY <2>3, <2>5
  <2>9. Sum(f, (U \cup {x}) \cup T) = Sum(f, U \cup {x}) + Sum(f, T)
    BY <2>2, <2>4, <2>6, <2>7, <2>8
  <2> QED
    BY <2>9
<1>3. S \in C
  <2> HIDE DEF C
  <2> QED
    BY <1>1, <1>2, SubsetInduction
<1> QED
  BY <1>3

LEMMA SumZero ==
  ASSUME NEW S, IsFiniteSet(S), NEW f, \A x \in S : f[x] = 0
  PROVE  Sum(f, S) = 0
<1> DEFINE C == {U \in SUBSET S : Sum(f, U) = 0}
<1>1. {} \in C
  BY SumEmpty
<1>2. ASSUME NEW U \in SUBSET S, NEW x \in S \ U, U \in C
      PROVE  U \cup {x} \in C
  <2>1. IsFiniteSet(U) /\ IntOn(f, U \cup {x}) /\ f[x] = 0
    BY FS_Subset DEF IntOn
  <2>2. Sum(f, U \cup {x}) = f[x] + Sum(f, U)
    BY <2>1, SumAdd
  <2> QED
    BY <1>2, <2>1, <2>2
<1>3. S \in C
  <2> HIDE DEF C
  <2> QED
    BY <1>1, <1>2, SubsetInduction
<1> QED
  BY <1>3

LEMMA SumPlus ==
  ASSUME NEW S, IsFiniteSet(S), NEW f, IntOn(f, S), NEW g, IntOn(g, S),
         NEW h, \A x \in S : h[x] = f[x] + g[x]
  PROVE  Sum(h, S) = Sum(f, S) + Sum(g, S)
<1> DEFINE C == {U \in SUBSET S : Sum(h, U) = Sum(f, U) + Sum(g, U)}
<1>0. IntOn(h, S)
  BY DEF IntOn
<1>1. {} \in C
  <2>1. Sum(f, {}) = 0 /\ Sum(g, {}) = 0 /\ Sum(h, {}) = 0
    BY SumEmpty
  <2> QED
    BY <2>1
<1>2. ASSUME NEW U \in SUBSET S, NEW x \in S \ U, U \in C
      PROVE  U \cup {x} \in C
  <2>1. IsFiniteSet(U) /\ x \notin U
    BY FS_Subset
  <2>2. IntOn(f, U \cup {x}) /\ IntOn(g, U \cup {x}) /\ IntOn(h, U \cup {x})
        /\ IntOn(f, U) /\ IntOn(g, U)
    BY <1>0, IntOnPart
  <2>3. Sum(h, U \cup {x}) = h[x] + Sum(h, U)
    BY <2>1, <2>2, SumAdd
  <2>4. Sum(f, U \cup {x}) = f[x] + Sum(f, U)
    BY <2>1, <2>2, SumAdd
  <2>5. Sum(g, U \cup {x}) = g[x] + Sum(g, U)
    BY <2>1, <2>2, SumAdd
  <2>6. Sum(f, U) \in Int /\ Sum(g, U) \in Int
    BY <2>1, <2>2, SumInt
  <2>7. f[x] \in Int /\ g[x] \in Int /\ h[x] = f[x] + g[x]
    BY DEF IntOn
  <2>8. Sum(h, U) = Sum(f, U) + Sum(g, U)
    BY <1>2
  <2>9. Sum(h, U \cup {x}) = Sum(f, U \cup {x}) + Sum(g, U \cup {x})
    BY <2>3, <2>4, <2>5, <2>6, <2>7, <2>8
  <2> QED
    BY <2>9
<1>3. S \in C
  <2> HIDE DEF C
  <2> QED
    BY <1>1, <1>2, SubsetInduction
<1> QED
  BY <1>3

LEMMA SumNat ==
  ASSUME NEW S, IsFiniteSet(S), NEW f, NatOn(f, S)
  PROVE  Sum(f, S) \in Nat
<1> DEFINE C == {U \in SUBSET S : Sum(f, U) \in Nat}
<1>1. {} \in C
  BY SumEmpty
<1>2. ASSUME NEW U \in SUBSET S, NEW x \in S \ U, U \in C
      PROVE  U \cup {x} \in C
  <2>1. IsFiniteSet(U) /\ IntOn(f, U \cup {x}) /\ f[x] \in Nat
    BY FS_Subset DEF IntOn, NatOn
  <2>2. Sum(f, U \cup {x}) = f[x] + Sum(f, U)
    BY <2>1, SumAdd
  <2> QED
    BY <1>2, <2>1, <2>2
<1>3. S \in C
  <2> HIDE DEF C
  <2> QED
    BY <1>1, <1>2, SubsetInduction
<1> QED
  BY <1>3

\* What is zero may be left out.
LEMMA SumRelevant ==
  ASSUME NEW S, IsFiniteSet(S), NEW f, IntOn(f, S), NEW T \in SUBSET S,
         \A x \in S \ T : f[x] = 0
  PROVE  Sum(f, S) = Sum(f, T)
<1>1. IsFiniteSet(T) /\ IsFiniteSet(S \ T)
  BY FS_Subset, S \ T \in SUBSET S
<1>2. T \cap (S \ T) = {} /\ T \cup (S \ T) = S
  OBVIOUS
<1>3. Sum(f, T \cup (S \ T)) = Sum(f, T) + Sum(f, S \ T)
  BY <1>1, <1>2, SumSplit
<1>4. Sum(f, S \ T) = 0
  BY <1>1, SumZero
<1>5. Sum(f, T) \in Int
  BY <1>1, IntOnPart, SumInt
<1>6. Sum(f, S) = Sum(f, T) + Sum(f, S \ T)
  BY <1>2, <1>3
<1> HIDE DEF Sum
<1> QED
  BY <1>4, <1>5, <1>6

\* A sum of which one term changes.
LEMMA SumBut ==
  ASSUME NEW S, IsFiniteSet(S), NEW x \in S, NEW f, IntOn(f, S), NEW g, IntOn(g, S),
         \A y \in S \ {x} : g[y] = f[y]
  PROVE  Sum(g, S) = Sum(f, S) + (g[x] - f[x])
<1>1. Sum(f, S) = f[x] + Sum(f, S \ {x})
  BY SumRemove
<1>2. Sum(g, S) = g[x] + Sum(g, S \ {x})
  BY SumRemove
<1>3. Sum(g, S \ {x}) = Sum(f, S \ {x})
  BY SumSame
<1>4. Sum(f, S \ {x}) \in Int
  <2>1. IsFiniteSet(S \ {x}) /\ IntOn(f, S \ {x})
    BY FS_RemoveElement, IntOnPart
  <2> QED
    BY <2>1, SumInt
<1>5. f[x] \in Int /\ g[x] \in Int
  BY DEF IntOn
<1>6. Sum(g, S) = g[x] + Sum(f, S \ {x})
  BY <1>2, <1>3
<1> QED
  BY <1>1, <1>4, <1>5, <1>6

LEMMA SumTimes ==
  ASSUME NEW S, IsFiniteSet(S), NEW f, IntOn(f, S), NEW k \in Int,
         NEW h, \A x \in S : h[x] = k * f[x]
  PROVE  Sum(h, S) = k * Sum(f, S)
<1> DEFINE C == {U \in SUBSET S : Sum(h, U) = k * Sum(f, U)}
<1>0. IntOn(h, S)
  BY DEF IntOn
<1>1. {} \in C
  <2>1. Sum(f, {}) = 0 /\ Sum(h, {}) = 0
    BY SumEmpty
  <2> QED
    BY <2>1
<1>2. ASSUME NEW U \in SUBSET S, NEW x \in S \ U, U \in C
      PROVE  U \cup {x} \in C
  <2>1. IsFiniteSet(U) /\ x \notin U
    BY FS_Subset
  <2>2. IntOn(f, U \cup {x}) /\ IntOn(h, U \cup {x}) /\ IntOn(f, U)
    BY <1>0, IntOnPart
  <2>3. Sum(h, U \cup {x}) = h[x] + Sum(h, U)
    BY <2>1, <2>2, SumAdd
  <2>4. Sum(f, U \cup {x}) = f[x] + Sum(f, U)
    BY <2>1, <2>2, SumAdd
  <2>5. Sum(f, U) \in Int
    BY <2>1, <2>2, SumInt
  <2>6. f[x] \in Int /\ h[x] = k * f[x]
    BY DEF IntOn
  <2>7. Sum(h, U) = k * Sum(f, U)
    BY <1>2
  <2>8. Sum(h, U \cup {x}) = k * f[x] + k * Sum(f, U)
    BY <2>3, <2>6, <2>7
  <2>9. \A a, b \in Int : k * (a + b) = k * a + k * b
    OBVIOUS
  <2>10. Sum(h, U \cup {x}) = k * (f[x] + Sum(f, U))
    BY <2>5, <2>6, <2>8, <2>9
  <2>11. Sum(h, U \cup {x}) = k * Sum(f, U \cup {x})
    BY <2>4, <2>10
  <2> QED
    BY <2>11
<1>3. S \in C
  <2> HIDE DEF C
  <2> QED
    BY <1>1, <1>2, SubsetInduction
<1> QED
  BY <1>3

\* A sum is not larger than one whose terms are not smaller.
LEMMA SumLeq ==
  ASSUME NEW S, IsFiniteSet(S), NEW f, IntOn(f, S), NEW g, IntOn(g, S),
         \A x \in S : f[x] <= g[x]
  PROVE  Sum(f, S) <= Sum(g, S)
<1> DEFINE h == [x \in S |-> g[x] - f[x]]
<1>1. NatOn(h, S) /\ IntOn(h, S) /\ \A x \in S : g[x] = f[x] + h[x]
  BY DEF NatOn, IntOn
<1> HIDE DEF h
<1>2. Sum(g, S) = Sum(f, S) + Sum(h, S)
  BY <1>1, SumPlus
<1>3. Sum(h, S) \in Nat /\ Sum(f, S) \in Int
  BY <1>1, SumNat, SumInt
<1> QED
  BY <1>2, <1>3

\* The number of elements of which something is so.
LEMMA SumCounts ==
  ASSUME NEW S, IsFiniteSet(S), NEW T \in SUBSET S, NEW f,
         \A x \in S : f[x] = IF x \in T THEN 1 ELSE 0
  PROVE  Sum(f, S) = Cardinality(T)
<1> DEFINE C == {U \in SUBSET T : Sum(f, U) = Cardinality(U)}
<1>0. IsFiniteSet(T) /\ IntOn(f, S)
  BY FS_Subset DEF IntOn
<1>1. {} \in C
  BY SumEmpty, FS_EmptySet
<1>2. ASSUME NEW U \in SUBSET T, NEW x \in T \ U, U \in C
      PROVE  U \cup {x} \in C
  <2>1. IsFiniteSet(U) /\ x \notin U /\ IntOn(f, U \cup {x})
    BY <1>0, FS_Subset, IntOnPart
  <2>2. Sum(f, U \cup {x}) = f[x] + Sum(f, U)
    BY <2>1, SumAdd
  <2>3. Cardinality(U \cup {x}) = Cardinality(U) + 1 /\ Cardinality(U) \in Nat
    BY <2>1, FS_AddElement, FS_CardinalityType
  <2>4. f[x] = 1 /\ Sum(f, U) = Cardinality(U)
    BY <1>2
  <2>5. Sum(f, U \cup {x}) = Cardinality(U \cup {x})
    BY <2>2, <2>3, <2>4
  <2> QED
    BY <2>5
<1>3. T \in C
  <2> HIDE DEF C
  <2> QED
    BY <1>0, <1>1, <1>2, SubsetInduction
<1>4. Sum(f, S) = Sum(f, T)
  BY <1>0, SumRelevant
<1> QED
  BY <1>3, <1>4

\* A sum may be taken over other indices, one for each.
LEMMA SumImage ==
  ASSUME NEW S, IsFiniteSet(S), NEW r, \A x, y \in S : r[x] = r[y] => x = y,
         NEW g, IntOn(g, S), NEW f, \A x \in S : f[r[x]] = g[x]
  PROVE  Sum(g, S) = Sum(f, {r[x] : x \in S})
<1> DEFINE Image(U) == {r[x] : x \in U}
           C == {U \in SUBSET S : IsFiniteSet(Image(U)) /\ Sum(g, U) = Sum(f, Image(U))}
<1>1. {} \in C
  <2>1. Image({}) = {}
    OBVIOUS
  <2> HIDE DEF Image
  <2> QED
    BY <2>1, SumEmpty, FS_EmptySet
<1>2. ASSUME NEW U \in SUBSET S, NEW x \in S \ U, U \in C
      PROVE  U \cup {x} \in C
  <2>1. Image(U \cup {x}) = Image(U) \cup {r[x]} /\ r[x] \notin Image(U)
    OBVIOUS
  <2>2. \A i \in Image(U) \cup {r[x]} : f[i] \in Int
    BY DEF IntOn
  <2>3. IsFiniteSet(U) /\ IntOn(g, U \cup {x}) /\ f[r[x]] = g[x]
    BY FS_Subset DEF IntOn
  <2> HIDE DEF Image
  <2>4. IsFiniteSet(Image(U)) /\ Sum(g, U) = Sum(f, Image(U))
    BY <1>2
  <2>5. IsFiniteSet(Image(U \cup {x}))
    <3>1. IsFiniteSet(Image(U) \cup {r[x]})
      BY <2>4, FS_AddElement
    <3> QED
      BY <2>1, <3>1
  <2>6. Sum(g, U \cup {x}) = g[x] + Sum(g, U)
    BY <2>3, SumAdd
  <2>7. Sum(f, Image(U) \cup {r[x]}) = f[r[x]] + Sum(f, Image(U))
    <3>1. IntOn(f, Image(U) \cup {r[x]})
      BY <2>2 DEF IntOn
    <3> QED
      BY <2>1, <2>4, <3>1, SumAdd
  <2> QED
    BY <2>1, <2>3, <2>4, <2>5, <2>6, <2>7
<1>3. S \in C
  <2> HIDE DEF C
  <2> QED
    BY <1>1, <1>2, SubsetInduction
<1> QED
  BY <1>3
=============================================================================

---------------------------- MODULE SumTheorems ----------------------------
(***************************************************************************)
(* Sums over finite sets, SumFunctionOnSet(f, S) of the community module   *)
(* Functions: the recursion it is defined by has exactly one solution, and *)
(* the order in which it visits the elements does not matter.              *)
(*                                                                         *)
(* The library's induction theorems take the induction hypothesis as an    *)
(* operator.  Here it is a set (of the sets that satisfy it), which makes  *)
(* every step first-order.                                                 *)
(***************************************************************************)
EXTENDS FiniteSetsExt, FiniteSetTheorems, TLAPS

\* Induction over the subsets of a finite set; P holds the ones that have the
\* property.
LEMMA SubsetInduction ==
  ASSUME NEW S, IsFiniteSet(S), NEW P,
         \A T \in SUBSET S : (\A U \in SUBSET T : U # T => U \in P) => T \in P
  PROVE  \A T \in SUBSET S : T \in P
<1> DEFINE Bad == {T \in SUBSET S : T \notin P}
<1>1. SUFFICES ASSUME Bad # {} PROVE FALSE
  OBVIOUS
<1>2. IsWellFoundedOn(StrictSubsetOrdering(S), SUBSET S)
  BY FS_StrictSubsetOrderingWellFounded, FS_FiniteSubsetsOfFinite
<1>3. Bad \subseteq SUBSET S
  OBVIOUS
<1>4. PICK T \in Bad : \A U \in Bad : <<U, T>> \notin StrictSubsetOrdering(S)
  <2> HIDE DEF Bad
  <2> QED
    BY <1>1, <1>2, <1>3, WFMin
<1>5. ASSUME NEW U \in SUBSET T, U # T
      PROVE  U \in P
  <2>1. U \in SUBSET S
    OBVIOUS
  <2>2. <<U, T>> \in StrictSubsetOrdering(S)
    BY <1>5, <2>1 DEF StrictSubsetOrdering
  <2> QED
    BY <1>4, <2>1, <2>2
<1> QED
  BY <1>5

\* Induction that adds one element at a time.
LEMMA FiniteInduction ==
  ASSUME NEW S, IsFiniteSet(S), NEW P,
         {} \in P,
         \A T \in SUBSET S : \A x \in S \ T : T \in P => T \cup {x} \in P
  PROVE  S \in P
<1>1. ASSUME NEW T \in SUBSET S, \A U \in SUBSET T : U # T => U \in P
      PROVE  T \in P
  <2>1. CASE T = {}
    BY <2>1
  <2>2. CASE T # {}
    <3>1. PICK x \in T : TRUE
      BY <2>2
    <3>2. T \ {x} \in P /\ (T \ {x}) \cup {x} = T
      BY <1>1
    <3> QED
      BY <3>2
  <2> QED
    BY <2>1, <2>2
<1> QED
  BY <1>1, SubsetInduction

-----------------------------------------------------------------------------
(* The recursion behind SumFunctionOnSet.                                  *)

\* What the recursion asks of the function that holds the sums of the
\* subsets of S.
Sums(f, S, g) ==
  g = [s \in SUBSET S |->
         IF s = {} THEN 0
         ELSE f[CHOOSE x \in s : TRUE] + g[s \ {CHOOSE x \in s : TRUE}]]

\* The solution the definition chooses.
Iter(f, S) == CHOOSE g : Sums(f, S, g)

\* The folds of the community modules come down to this recursion.
LEMMA SumIsIter ==
  ASSUME NEW f, NEW S
  PROVE  SumFunctionOnSet(f, S) = Iter(f, S)[S]
  BY DEF SumFunctionOnSet, FoldFunctionOnSet, MapThenFoldSet, Iter, Sums

\* One unfolding of the recursion.
LEMMA SumsStep ==
  ASSUME NEW f, NEW S, NEW g, Sums(f, S, g)
  PROVE  /\ g[{}] = 0
         /\ \A s \in SUBSET S : s # {} =>
              /\ (CHOOSE x \in s : TRUE) \in s
              /\ g[s] = f[CHOOSE x \in s : TRUE] + g[s \ {CHOOSE x \in s : TRUE}]
  BY DEF Sums

\* Two solutions of the recursion agree.
LEMMA SumsUnique ==
  ASSUME NEW f, NEW S, IsFiniteSet(S), NEW g, NEW h, Sums(f, S, g), Sums(f, S, h)
  PROVE  g = h
<1> DEFINE P == {s \in SUBSET S : g[s] = h[s]}
<1>1. ASSUME NEW T \in SUBSET S, \A U \in SUBSET T : U # T => U \in P
      PROVE  T \in P
  <2>1. CASE T = {}
    BY <2>1, SumsStep
  <2>2. CASE T # {}
    <3> DEFINE y == CHOOSE x \in T : TRUE
    <3>1. y \in T /\ g[T] = f[y] + g[T \ {y}] /\ h[T] = f[y] + h[T \ {y}]
      BY <2>2, SumsStep
    <3> HIDE DEF y
    <3>2. T \ {y} \in P
      BY <1>1, <3>1
    <3> QED
      BY <3>1, <3>2
  <2> QED
    BY <2>1, <2>2
<1>2. \A T \in SUBSET S : T \in P
  <2> HIDE DEF P
  <2> QED
    BY <1>1, SubsetInduction
<1> QED
  BY <1>2 DEF Sums

\* A solution for a set contains the solutions for its subsets.
LEMMA SumsRestrict ==
  ASSUME NEW f, NEW S, NEW g, Sums(f, S, g), NEW T \in SUBSET S
  PROVE  Sums(f, T, [s \in SUBSET T |-> g[s]])
  BY SumsStep DEF Sums

\* There is a solution for every finite set.
LEMMA SumsExist ==
  ASSUME NEW f, NEW S, IsFiniteSet(S)
  PROVE  Sums(f, S, Iter(f, S))
<1> DEFINE P == {T \in SUBSET S : Sums(f, T, Iter(f, T))}
<1>1. ASSUME NEW T \in SUBSET S, \A U \in SUBSET T : U # T => U \in P
      PROVE  T \in P
  <2> DEFINE c(s) == CHOOSE x \in s : TRUE
             v(s) == Iter(f, s)[s]
             g == [s \in SUBSET T |-> IF s = {} THEN 0 ELSE f[c(s)] + v(s \ {c(s)})]
  <2>1. ASSUME NEW U \in SUBSET T, U # T
        PROVE  g[U] = v(U)
    <3>1. Sums(f, U, Iter(f, U))
      BY <1>1, <2>1
    <3>2. CASE U = {}
      BY <3>1, <3>2, SumsStep
    <3>3. CASE U # {}
      <4> DEFINE W == U \ {c(U)}
      <4>1. c(U) \in U /\ v(U) = f[c(U)] + Iter(f, U)[W]
        BY <3>1, <3>3, SumsStep
      <4>2. W \in SUBSET U /\ W \in SUBSET T /\ W # T
        BY <2>1
      <4>3. Sums(f, W, Iter(f, W)) /\ IsFiniteSet(W)
        BY <1>1, <4>2, FS_Subset
      <4>4. Sums(f, W, [s \in SUBSET W |-> Iter(f, U)[s]])
        BY <3>1, <4>2, SumsRestrict
      <4>5. Iter(f, W) = [s \in SUBSET W |-> Iter(f, U)[s]]
        BY <4>3, <4>4, SumsUnique
      <4>6. Iter(f, U)[W] = v(W)
        BY <4>5
      <4>7. g[U] = f[c(U)] + v(W)
        BY <3>3
      <4> QED
        BY <4>1, <4>6, <4>7
    <3> QED
      BY <3>2, <3>3
  <2>2. ASSUME NEW s \in SUBSET T, s # {}
        PROVE  g[s \ {c(s)}] = v(s \ {c(s)})
    <3>1. c(s) \in s
      BY <2>2
    <3> QED
      BY <2>1, <3>1
  <2>3. Sums(f, T, g)
    <3> DEFINE G == [s \in SUBSET T |-> IF s = {} THEN 0 ELSE f[c(s)] + g[s \ {c(s)}]]
    <3>1. \A s \in SUBSET T : s # {} => v(s \ {c(s)}) = g[s \ {c(s)}]
      BY <2>2
    <3>2. ASSUME NEW s \in SUBSET T
          PROVE  g[s] = G[s]
      <4>1. CASE s = {}
        BY <4>1
      <4>2. CASE s # {}
        <5>1. g[s] = f[c(s)] + v(s \ {c(s)})
          BY <4>2
        <5>2. G[s] = f[c(s)] + g[s \ {c(s)}]
          BY <4>2
        <5> HIDE DEF g, G, c, v
        <5> QED
          BY <3>1, <4>2, <5>1, <5>2
      <4> QED
        BY <4>1, <4>2
    <3>3. g = G
      <4>1. g = [s \in SUBSET T |-> g[s]] /\ G = [s \in SUBSET T |-> G[s]]
        OBVIOUS
      <4> HIDE DEF g, G
      <4> QED
        BY <3>2, <4>1
    <3> QED
      BY <3>3 DEF Sums
  <2> QED
    BY <2>3 DEF Iter
<1>2. \A T \in SUBSET S : T \in P
  <2> HIDE DEF P
  <2> QED
    BY <1>1, SubsetInduction
<1> QED
  BY <1>2

-----------------------------------------------------------------------------
(* What SumFunctionOnSet computes.                                         *)

\* A sum over nothing.
THEOREM SumEmpty ==
  ASSUME NEW f
  PROVE  SumFunctionOnSet(f, {}) = 0
  BY SumIsIter, SumsExist, SumsStep, FS_EmptySet

\* One unfolding, at the element the recursion chooses.
LEMMA SumChosen ==
  ASSUME NEW f, NEW S, IsFiniteSet(S), S # {}
  PROVE  \E x \in S : SumFunctionOnSet(f, S) = f[x] + SumFunctionOnSet(f, S \ {x})
<1> DEFINE y == CHOOSE x \in S : TRUE
           W == S \ {y}
<1>1. Sums(f, S, Iter(f, S))
  BY SumsExist
<1>2. y \in S /\ Iter(f, S)[S] = f[y] + Iter(f, S)[W]
  BY <1>1, SumsStep
<1> HIDE DEF y
<1>3. W \in SUBSET S /\ IsFiniteSet(W)
  BY FS_Subset
<1>4. Sums(f, W, Iter(f, W))
  BY <1>3, SumsExist
<1>5. Iter(f, W) = [s \in SUBSET W |-> Iter(f, S)[s]]
  BY <1>1, <1>3, <1>4, SumsRestrict, SumsUnique
<1>6. Iter(f, S)[W] = Iter(f, W)[W]
  BY <1>5
<1> QED
  BY <1>2, <1>6, SumIsIter

\* A sum of integers is an integer.
THEOREM SumType ==
  ASSUME NEW f, NEW S, IsFiniteSet(S), \A x \in S : f[x] \in Int
  PROVE  SumFunctionOnSet(f, S) \in Int
<1> DEFINE P == {T \in SUBSET S : SumFunctionOnSet(f, T) \in Int}
<1>1. ASSUME NEW T \in SUBSET S, \A U \in SUBSET T : U # T => U \in P
      PROVE  T \in P
  <2>1. CASE T = {}
    BY <2>1, SumEmpty
  <2>2. CASE T # {}
    <3>1. PICK x \in T : SumFunctionOnSet(f, T) = f[x] + SumFunctionOnSet(f, T \ {x})
      BY <2>2, SumChosen, FS_Subset
    <3>2. T \ {x} \in P
      BY <1>1
    <3> QED
      BY <3>1, <3>2
  <2> QED
    BY <2>1, <2>2
<1>2. \A T \in SUBSET S : T \in P
  <2> HIDE DEF P
  <2> QED
    BY <1>1, SubsetInduction
<1> QED
  BY <1>2

\* The recursion may start at any element.
THEOREM SumRemove ==
  ASSUME NEW f, NEW S, IsFiniteSet(S), \A x \in S : f[x] \in Int, NEW x \in S
  PROVE  SumFunctionOnSet(f, S) = f[x] + SumFunctionOnSet(f, S \ {x})
<1> DEFINE P == {T \in SUBSET S : \A y \in T :
                   SumFunctionOnSet(f, T) = f[y] + SumFunctionOnSet(f, T \ {y})}
<1>1. ASSUME NEW T \in SUBSET S, \A U \in SUBSET T : U # T => U \in P
      PROVE  T \in P
  <2> SUFFICES ASSUME NEW y \in T
               PROVE  SumFunctionOnSet(f, T) = f[y] + SumFunctionOnSet(f, T \ {y})
    OBVIOUS
  <2>1. PICK z \in T : SumFunctionOnSet(f, T) = f[z] + SumFunctionOnSet(f, T \ {z})
    BY SumChosen, FS_Subset
  <2>2. CASE z = y
    BY <2>1, <2>2
  <2>3. CASE z # y
    <3> DEFINE R == (T \ {y}) \ {z}
    <3>1. R = (T \ {z}) \ {y}
      OBVIOUS
    <3>2. T \ {z} \in P /\ T \ {y} \in P
      BY <1>1
    <3>3. SumFunctionOnSet(f, T \ {z}) = f[y] + SumFunctionOnSet(f, R)
      BY <2>3, <3>1, <3>2
    <3>4. SumFunctionOnSet(f, T \ {y}) = f[z] + SumFunctionOnSet(f, R)
      BY <2>3, <3>2
    <3>5. SumFunctionOnSet(f, R) \in Int /\ f[y] \in Int /\ f[z] \in Int
      <4>1. R \in SUBSET S
        OBVIOUS
      <4>2. IsFiniteSet(R) /\ \A w \in R : f[w] \in Int
        BY <4>1, FS_Subset
      <4> QED
        BY <4>2, SumType
    <3> HIDE DEF R
    <3> QED
      BY <2>1, <3>3, <3>4, <3>5
  <2> QED
    BY <2>2, <2>3
<1>2. \A T \in SUBSET S : T \in P
  <2> HIDE DEF P
  <2> QED
    BY <1>1, SubsetInduction
<1> QED
  BY <1>2

\* One more element.
THEOREM SumAdd ==
  ASSUME NEW f, NEW S, IsFiniteSet(S), NEW y, y \notin S,
         \A x \in S \cup {y} : f[x] \in Int
  PROVE  SumFunctionOnSet(f, S \cup {y}) = SumFunctionOnSet(f, S) + f[y]
<1>1. IsFiniteSet(S \cup {y}) /\ (S \cup {y}) \ {y} = S /\ y \in S \cup {y}
  BY FS_AddElement
<1>2. SumFunctionOnSet(f, S \cup {y}) = f[y] + SumFunctionOnSet(f, S)
  BY <1>1, SumRemove
<1>3. SumFunctionOnSet(f, S) \in Int /\ f[y] \in Int
  BY SumType
<1> QED
  BY <1>2, <1>3

\* One element.
THEOREM SumSingleton ==
  ASSUME NEW f, NEW y, f[y] \in Int
  PROVE  SumFunctionOnSet(f, {y}) = f[y]
<1>1. SumFunctionOnSet(f, {} \cup {y}) = SumFunctionOnSet(f, {}) + f[y]
  BY SumAdd, FS_EmptySet
<1>2. {} \cup {y} = {y}
  OBVIOUS
<1> QED
  BY <1>1, <1>2, SumEmpty

\* Functions that agree on the set have the same sum.
THEOREM SumEqual ==
  ASSUME NEW f, NEW g, NEW S, IsFiniteSet(S), \A x \in S : f[x] \in Int /\ g[x] = f[x]
  PROVE  SumFunctionOnSet(g, S) = SumFunctionOnSet(f, S)
<1> DEFINE P == {T \in SUBSET S : SumFunctionOnSet(g, T) = SumFunctionOnSet(f, T)}
<1>1. {} \in P
  BY SumEmpty
<1>2. ASSUME NEW T \in SUBSET S, NEW y \in S \ T, T \in P
      PROVE  T \cup {y} \in P
  <2>1. IsFiniteSet(T)
    BY FS_Subset
  <2>2. SumFunctionOnSet(f, T \cup {y}) = SumFunctionOnSet(f, T) + f[y]
    BY <2>1, SumAdd
  <2>3. SumFunctionOnSet(g, T \cup {y}) = SumFunctionOnSet(g, T) + g[y]
    BY <2>1, SumAdd
  <2> QED
    BY <1>2, <2>2, <2>3
<1>3. S \in P
  <2> HIDE DEF P
  <2> QED
    BY <1>1, <1>2, FiniteInduction
<1> QED
  BY <1>3

\* A sum of zeros.
THEOREM SumZero ==
  ASSUME NEW f, NEW S, IsFiniteSet(S), \A x \in S : f[x] = 0
  PROVE  SumFunctionOnSet(f, S) = 0
<1> DEFINE P == {T \in SUBSET S : SumFunctionOnSet(f, T) = 0}
<1>1. {} \in P
  BY SumEmpty
<1>2. ASSUME NEW T \in SUBSET S, NEW y \in S \ T, T \in P
      PROVE  T \cup {y} \in P
  <2>1. IsFiniteSet(T)
    BY FS_Subset
  <2>2. SumFunctionOnSet(f, T \cup {y}) = SumFunctionOnSet(f, T) + f[y]
    BY <2>1, SumAdd
  <2> QED
    BY <1>2, <2>2
<1>3. S \in P
  <2> HIDE DEF P
  <2> QED
    BY <1>1, <1>2, FiniteInduction
<1> QED
  BY <1>3

\* The sum over two sets that have nothing in common.
THEOREM SumUnion ==
  ASSUME NEW f, NEW R, NEW S, IsFiniteSet(R), IsFiniteSet(S), R \cap S = {},
         \A x \in R \cup S : f[x] \in Int
  PROVE  SumFunctionOnSet(f, R \cup S) = SumFunctionOnSet(f, R) + SumFunctionOnSet(f, S)
<1> DEFINE P == {T \in SUBSET S :
                   SumFunctionOnSet(f, R \cup T) = SumFunctionOnSet(f, R) + SumFunctionOnSet(f, T)}
<1>1. {} \in P
  <2>1. R \cup {} = R /\ SumFunctionOnSet(f, R) \in Int
    BY SumType
  <2> QED
    BY <2>1, SumEmpty
<1>2. ASSUME NEW T \in SUBSET S, NEW y \in S \ T, T \in P
      PROVE  T \cup {y} \in P
  <2>1. IsFiniteSet(T) /\ IsFiniteSet(R \cup T)
    BY FS_Subset, FS_Union
  <2>2. SumFunctionOnSet(f, T \cup {y}) = SumFunctionOnSet(f, T) + f[y]
    BY <2>1, SumAdd
  <2>3. /\ R \cup (T \cup {y}) = (R \cup T) \cup {y}
        /\ y \notin R \cup T
    OBVIOUS
  <2>4. SumFunctionOnSet(f, (R \cup T) \cup {y}) = SumFunctionOnSet(f, R \cup T) + f[y]
    BY <2>1, <2>3, SumAdd
  <2>5. /\ SumFunctionOnSet(f, R) \in Int /\ SumFunctionOnSet(f, T) \in Int /\ f[y] \in Int
    BY <2>1, SumType
  <2>6. SumFunctionOnSet(f, R \cup T) = SumFunctionOnSet(f, R) + SumFunctionOnSet(f, T)
    BY <1>2
  <2>7. SumFunctionOnSet(f, R \cup (T \cup {y}))
          = SumFunctionOnSet(f, R) + SumFunctionOnSet(f, T \cup {y})
    <3>1. \A a, b, c, d, e, z \in Int : a = b + z /\ b = c + d /\ e = d + z => a = c + e
      OBVIOUS
    <3>2. SumFunctionOnSet(f, R \cup (T \cup {y})) = SumFunctionOnSet(f, R \cup T) + f[y]
      BY <2>3, <2>4
    <3>3. SumFunctionOnSet(f, R \cup T) \in Int /\ SumFunctionOnSet(f, T \cup {y}) \in Int
      BY <2>2, <2>5, <2>6
    <3>4. SumFunctionOnSet(f, R \cup (T \cup {y})) \in Int
      BY <2>5, <3>2, <3>3
    <3> QED
      BY <2>2, <2>5, <2>6, <3>1, <3>2, <3>3, <3>4
  <2> QED
    BY <2>7
<1>3. S \in P
  <2> HIDE DEF P
  <2> QED
    BY <1>1, <1>2, FiniteInduction
<1> QED
  BY <1>3

\* The sum of two functions.
THEOREM SumPlus ==
  ASSUME NEW f, NEW g, NEW h, NEW S, IsFiniteSet(S),
         \A x \in S : f[x] \in Int /\ g[x] \in Int /\ h[x] = f[x] + g[x]
  PROVE  SumFunctionOnSet(h, S) = SumFunctionOnSet(f, S) + SumFunctionOnSet(g, S)
<1> DEFINE P == {T \in SUBSET S :
                   SumFunctionOnSet(h, T) = SumFunctionOnSet(f, T) + SumFunctionOnSet(g, T)}
<1>1. {} \in P
  BY SumEmpty
<1>2. ASSUME NEW T \in SUBSET S, NEW y \in S \ T, T \in P
      PROVE  T \cup {y} \in P
  <2>1. IsFiniteSet(T)
    BY FS_Subset
  <2>2. SumFunctionOnSet(f, T \cup {y}) = SumFunctionOnSet(f, T) + f[y]
    BY <2>1, SumAdd
  <2>3. SumFunctionOnSet(g, T \cup {y}) = SumFunctionOnSet(g, T) + g[y]
    BY <2>1, SumAdd
  <2>4. SumFunctionOnSet(h, T \cup {y}) = SumFunctionOnSet(h, T) + h[y]
    BY <2>1, SumAdd
  <2>5. SumFunctionOnSet(f, T) \in Int /\ SumFunctionOnSet(g, T) \in Int
    BY <2>1, SumType
  <2> QED
    BY <1>2, <2>2, <2>3, <2>4, <2>5
<1>3. S \in P
  <2> HIDE DEF P
  <2> QED
    BY <1>1, <1>2, FiniteInduction
<1> QED
  BY <1>3

\* A function that changes at one point.
THEOREM SumOneChanged ==
  ASSUME NEW f, NEW g, NEW S, IsFiniteSet(S), NEW y \in S,
         \A x \in S : f[x] \in Int, g[y] \in Int,
         \A x \in S \ {y} : g[x] = f[x]
  PROVE  SumFunctionOnSet(g, S) = SumFunctionOnSet(f, S) + g[y] - f[y]
<1>1. IsFiniteSet(S \ {y})
  BY FS_Subset
<1>2. SumFunctionOnSet(g, S \ {y}) = SumFunctionOnSet(f, S \ {y})
  BY <1>1, SumEqual
<1>3. SumFunctionOnSet(g, S) = g[y] + SumFunctionOnSet(g, S \ {y})
  BY SumRemove
<1>4. SumFunctionOnSet(f, S) = f[y] + SumFunctionOnSet(f, S \ {y})
  BY SumRemove
<1>5. SumFunctionOnSet(f, S \ {y}) \in Int
  BY <1>1, SumType
<1> QED
  BY <1>2, <1>3, <1>4, <1>5

\* A sum does not depend on the names of its terms.
THEOREM SumRenamed ==
  ASSUME NEW f, NEW g, NEW b, NEW S, IsFiniteSet(S),
         \A x \in S : f[b[x]] \in Int /\ g[x] = f[b[x]],
         \A x, y \in S : b[x] = b[y] => x = y
  PROVE  SumFunctionOnSet(g, S) = SumFunctionOnSet(f, {b[x] : x \in S})
<1> DEFINE P == {T \in SUBSET S :
                   /\ IsFiniteSet({b[x] : x \in T})
                   /\ SumFunctionOnSet(g, T) = SumFunctionOnSet(f, {b[x] : x \in T})}
<1>1. {} \in P
  <2>1. {b[x] : x \in {}} = {}
    OBVIOUS
  <2> QED
    BY <2>1, SumEmpty, FS_EmptySet
<1>2. ASSUME NEW T \in SUBSET S, NEW y \in S \ T, T \in P
      PROVE  T \cup {y} \in P
  <2> DEFINE B == {b[x] : x \in T}
  <2>1. IsFiniteSet(T) /\ IsFiniteSet(B)
    BY <1>2, FS_Subset
  <2>2. {b[x] : x \in T \cup {y}} = B \cup {b[y]} /\ b[y] \notin B
    OBVIOUS
  <2>3. SumFunctionOnSet(g, T \cup {y}) = SumFunctionOnSet(g, T) + g[y]
    BY <2>1, SumAdd
  <2>4. \A z \in B \cup {b[y]} : f[z] \in Int
    OBVIOUS
  <2>5. SumFunctionOnSet(g, T) = SumFunctionOnSet(f, B)
    BY <1>2
  <2> HIDE DEF B
  <2>6. SumFunctionOnSet(f, B \cup {b[y]}) = SumFunctionOnSet(f, B) + f[b[y]]
    BY <2>1, <2>2, <2>4, SumAdd
  <2>7. IsFiniteSet(B \cup {b[y]})
    BY <2>1, FS_AddElement
  <2> QED
    BY <2>2, <2>3, <2>5, <2>6, <2>7
<1>3. S \in P
  <2> HIDE DEF P
  <2> QED
    BY <1>1, <1>2, FiniteInduction
<1> QED
  BY <1>3

\* Terms that are not selected count for nothing.
THEOREM SumSelected ==
  ASSUME NEW f, NEW h, NEW S, IsFiniteSet(S), NEW T \in SUBSET S,
         \A x \in T : f[x] \in Int /\ h[x] = f[x],
         \A x \in S \ T : h[x] = 0
  PROVE  SumFunctionOnSet(h, S) = SumFunctionOnSet(f, T)
<1>1. IsFiniteSet(T) /\ IsFiniteSet(S \ T) /\ T \cap (S \ T) = {} /\ T \cup (S \ T) = S
  BY FS_Subset
<1>2. SumFunctionOnSet(h, S) = SumFunctionOnSet(h, T) + SumFunctionOnSet(h, S \ T)
  <2>1. \A x \in T \cup (S \ T) : h[x] \in Int
    OBVIOUS
  <2>2. SumFunctionOnSet(h, T \cup (S \ T)) = SumFunctionOnSet(h, T) + SumFunctionOnSet(h, S \ T)
    BY <1>1, <2>1, SumUnion
  <2> QED
    BY <1>1, <2>2
<1>3. SumFunctionOnSet(h, S \ T) = 0
  BY <1>1, SumZero
<1>4. SumFunctionOnSet(h, T) = SumFunctionOnSet(f, T) /\ SumFunctionOnSet(f, T) \in Int
  BY <1>1, SumEqual, SumType
<1> QED
  BY <1>2, <1>3, <1>4

\* The terms f of the set S in groups: part[a] is f on the group a and 0
\* elsewhere, h[a] its sum.
Grouped(f, S, A, group, part, h) ==
  /\ IsFiniteSet(S) /\ IsFiniteSet(A)
  /\ \A x \in S : f[x] \in Int /\ group[x] \in A
  /\ \A a \in A : \A x \in S : part[a][x] = IF group[x] = a THEN f[x] ELSE 0
  /\ \A a \in A : h[a] = SumFunctionOnSet(part[a], S)

\* The sum of the sums of all groups is the sum.
THEOREM SumByGroup ==
  ASSUME NEW f, NEW S, NEW A, NEW group, NEW part, NEW h, Grouped(f, S, A, group, part, h)
  PROVE  SumFunctionOnSet(h, A) = SumFunctionOnSet(f, S)
<1> USE DEF Grouped
<1> DEFINE k(a) == [x \in S |-> IF group[x] = a THEN f[x] ELSE 0]
           H(T) == [a \in A |-> SumFunctionOnSet(k(a), T)]
           P == {T \in SUBSET S : SumFunctionOnSet(H(T), A) = SumFunctionOnSet(f, T)}
<1>0. \A a : \A x \in S : k(a)[x] \in Int /\ k(a)[x] = IF group[x] = a THEN f[x] ELSE 0
  OBVIOUS
<1>h. \A T : \A a \in A : H(T)[a] = SumFunctionOnSet(k(a), T)
  OBVIOUS
<1>1. {} \in P
  <2>1. \A a \in A : H({})[a] = 0
    BY <1>h, SumEmpty
  <2> HIDE DEF H
  <2> QED
    BY <2>1, SumZero, SumEmpty
<1>2. ASSUME NEW T \in SUBSET S, NEW y \in S \ T, T \in P
      PROVE  T \cup {y} \in P
  <2>1. IsFiniteSet(T)
    BY FS_Subset
  <2>2. SumFunctionOnSet(H(T), A) = SumFunctionOnSet(f, T)
    BY <1>2
  <2> HIDE DEF k, H
  <2>3. ASSUME NEW a \in A
        PROVE  /\ H(T)[a] \in Int
               /\ H(T \cup {y})[a] = H(T)[a] + (IF group[y] = a THEN f[y] ELSE 0)
    <3>1. SumFunctionOnSet(k(a), T \cup {y}) = SumFunctionOnSet(k(a), T) + k(a)[y]
      BY <1>0, <2>1, SumAdd
    <3>2. SumFunctionOnSet(k(a), T) \in Int
      BY <1>0, <2>1, SumType
    <3> QED
      BY <1>0, <1>h, <3>1, <3>2
  <2>4. SumFunctionOnSet(f, T \cup {y}) = SumFunctionOnSet(f, T) + f[y]
    BY <2>1, SumAdd
  <2>5. /\ group[y] \in A /\ f[y] \in Int /\ \A a \in A : H(T)[a] \in Int
        /\ H(T \cup {y})[group[y]] = H(T)[group[y]] + f[y]
        /\ \A a \in A \ {group[y]} : H(T \cup {y})[a] = H(T)[a]
    <3>1. group[y] \in A /\ f[y] \in Int
      OBVIOUS
    <3>2. H(T \cup {y})[group[y]] = H(T)[group[y]] + f[y]
      BY <2>3, <3>1
    <3>3. ASSUME NEW a \in A \ {group[y]} PROVE H(T \cup {y})[a] = H(T)[a]
      <4>1. H(T)[a] \in Int /\ H(T \cup {y})[a] = H(T)[a] + 0
        BY <2>3
      <4> QED
        BY <4>1
    <3> QED
      BY <2>3, <3>1, <3>2, <3>3
  <2>6. SumFunctionOnSet(H(T \cup {y}), A)
          = SumFunctionOnSet(H(T), A) + H(T \cup {y})[group[y]] - H(T)[group[y]]
    <3> DEFINE u == H(T)
               v == H(T \cup {y})
               q == group[y]
    <3>1. q \in A /\ (\A a \in A : u[a] \in Int) /\ (\A a \in A \ {q} : v[a] = u[a])
      BY <2>5
    <3>0. v[q] = u[q] + f[y] /\ f[y] \in Int
      BY <2>5
    <3> HIDE DEF u, v, q
    <3>2. v[q] \in Int
      BY <3>0, <3>1
    <3>3. SumFunctionOnSet(v, A) = SumFunctionOnSet(u, A) + v[q] - u[q]
      BY <3>1, <3>2, SumOneChanged
    <3> QED
      BY <3>3 DEF u, v, q
  <2>7. SumFunctionOnSet(H(T), A) \in Int
    BY <2>5, SumType
  <2>8. SumFunctionOnSet(H(T \cup {y}), A) = SumFunctionOnSet(f, T \cup {y})
    BY <2>2, <2>4, <2>5, <2>6, <2>7
  <2> QED
    BY <2>8
<1>3. S \in P
  <2> HIDE DEF P
  <2> QED
    BY <1>1, <1>2, FiniteInduction
<1>4. SumFunctionOnSet(H(S), A) = SumFunctionOnSet(f, S)
  BY <1>3
<1>5. \A a \in A : h[a] = H(S)[a] /\ H(S)[a] \in Int
  <2> HIDE DEF k, H
  <2>1. \A a \in A : h[a] = H(S)[a]
    <3>1. \A a \in A : SumFunctionOnSet(part[a], S) = SumFunctionOnSet(k(a), S)
      BY <1>0, SumEqual
    <3> QED
      BY <1>h, <3>1
  <2>2. \A a \in A : SumFunctionOnSet(k(a), S) \in Int
    BY <1>0, SumType
  <2> QED
    BY <1>h, <2>1, <2>2
<1> HIDE DEF H
<1>6. SumFunctionOnSet(h, A) = SumFunctionOnSet(H(S), A)
  BY <1>5, SumEqual
<1> QED
  BY <1>4, <1>6

-----------------------------------------------------------------------------
(* Order in finite sets of numbers.                                        *)

\* The rank of an element tells it apart, and every rank up to the number of
\* elements is taken.
THEOREM RankIsOneToOne ==
  ASSUME NEW S, IsFiniteSet(S), S \subseteq Int
  PROVE  /\ Cardinality(S) \in Nat
         /\ \A x \in S : Cardinality({z \in S : z < x}) \in 0..(Cardinality(S) - 1)
         /\ \A x, y \in S : Cardinality({z \in S : z < x}) = Cardinality({z \in S : z < y}) => x = y
         /\ \A n \in 1..Cardinality(S) : \E x \in S : Cardinality({z \in S : z < x}) = n - 1
<1> DEFINE below(x) == {z \in S : z < x}
           N == Cardinality(S)
           rank == [x \in S |-> Cardinality(below(x))]
<1>1. N \in Nat
  BY FS_CardinalityType
<1>2. ASSUME NEW x \in S
      PROVE  Cardinality(below(x)) \in 0..(N - 1)
  <2>1. below(x) \in SUBSET S /\ below(x) # S
    OBVIOUS
  <2> HIDE DEF below
  <2>2. /\ IsFiniteSet(below(x)) /\ Cardinality(below(x)) <= N
        /\ N = Cardinality(below(x)) => S = below(x)
    BY <2>1, FS_Subset
  <2>3. Cardinality(below(x)) \in Nat
    BY <2>2, FS_CardinalityType
  <2> HIDE DEF N
  <2> QED
    BY <1>1, <2>1, <2>2, <2>3
<1>3. ASSUME NEW x \in S, NEW y \in S, x < y
      PROVE  Cardinality(below(x)) # Cardinality(below(y))
  <2>1. below(x) \in SUBSET below(y) /\ x \in below(y) /\ x \notin below(x) /\ below(y) \in SUBSET S
    <3>1. \A z \in S : z \in Int
      OBVIOUS
    <3>2. \A z \in S : z < x => z < y
      BY <1>3, <3>1
    <3>3. ~(x < x)
      BY <3>1
    <3> QED
      BY <1>3, <3>2, <3>3
  <2> HIDE DEF below
  <2>2. IsFiniteSet(below(y))
    BY <2>1, FS_Subset
  <2> QED
    BY <2>1, <2>2, FS_Subset
<1>4. ASSUME NEW x \in S, NEW y \in S, Cardinality(below(x)) = Cardinality(below(y))
      PROVE  x = y
  <2>1. x < y \/ y < x \/ x = y
    OBVIOUS
  <2> HIDE DEF below
  <2> QED
    BY <1>3, <1>4, <2>1
<1> HIDE DEF below
<1>5. rank \in Injection(S, 0..(N - 1))
  <2>1. rank \in [S -> 0..(N - 1)]
    BY <1>2
  <2>2. \A x, y \in S : rank[x] = rank[y] => x = y
    BY <1>4
  <2> HIDE DEF rank
  <2> QED
    BY <2>1, <2>2 DEF Injection, IsInjective
<1>6. IsFiniteSet(0..(N - 1)) /\ Cardinality(0..(N - 1)) = N
  <2>1. 0 \in Int /\ N - 1 \in Int
    BY <1>1
  <2>2. IsFiniteSet(0..(N - 1)) /\ Cardinality(0..(N - 1)) = IF 0 > N - 1 THEN 0 ELSE N - 1 - 0 + 1
    BY <2>1, FS_Interval
  <2> HIDE DEF N
  <2> QED
    BY <1>1, <2>2
<1>7. rank \in Surjection(S, 0..(N - 1))
  BY <1>5, <1>6, FS_Injection
<1>8. \A m \in 0..(N - 1) : \E x \in S : rank[x] = m
  BY <1>7 DEF Surjection
<1>9. \A n \in 1..N : \E x \in S : Cardinality(below(x)) = n - 1
  <2> HIDE DEF N
  <2>1. \A n \in 1..N : n - 1 \in 0..(N - 1)
    BY <1>1
  <2> QED
    BY <1>8, <2>1
<1> QED
  BY <1>1, <1>2, <1>4, <1>9 DEF below

\* Max yields an element of the set that no other exceeds.
THEOREM MaxOfFinite ==
  ASSUME NEW S, IsFiniteSet(S), S # {}, S \subseteq Int
  PROVE  Max(S) \in S /\ \A x \in S : Max(S) >= x
<1> DEFINE P == {T \in SUBSET S : T # {} => \E m \in T : \A x \in T : m >= x}
<1>1. {} \in P
  OBVIOUS
<1>2. ASSUME NEW T \in SUBSET S, NEW y \in S \ T, T \in P
      PROVE  T \cup {y} \in P
  <2>1. CASE T = {}
    BY <2>1
  <2>2. CASE T # {}
    <3>1. PICK m \in T : \A x \in T : m >= x
      BY <1>2, <2>2
    <3>2. CASE m >= y
      BY <3>1, <3>2
    <3>3. CASE ~(m >= y)
      <4>1. \A x \in T \cup {y} : y >= x
        BY <3>1, <3>3
      <4> QED
        BY <4>1
    <3> QED
      BY <3>2, <3>3
  <2> QED
    BY <2>1, <2>2
<1>3. S \in P
  <2> HIDE DEF P
  <2> QED
    BY <1>1, <1>2, FiniteInduction
<1>4. \E m \in S : \A x \in S : m >= x
  BY <1>3
<1> QED
  BY <1>4 DEF Max

\* Min yields an element of the set that no other is below.
THEOREM MinOfFinite ==
  ASSUME NEW S, IsFiniteSet(S), S # {}, S \subseteq Int
  PROVE  Min(S) \in S /\ \A x \in S : Min(S) <= x
<1> DEFINE P == {T \in SUBSET S : T # {} => \E m \in T : \A x \in T : m <= x}
<1>1. {} \in P
  OBVIOUS
<1>2. ASSUME NEW T \in SUBSET S, NEW y \in S \ T, T \in P
      PROVE  T \cup {y} \in P
  <2>1. CASE T = {}
    BY <2>1
  <2>2. CASE T # {}
    <3>1. PICK m \in T : \A x \in T : m <= x
      BY <1>2, <2>2
    <3>2. CASE m <= y
      BY <3>1, <3>2
    <3>3. CASE ~(m <= y)
      <4>1. \A x \in T \cup {y} : y <= x
        BY <3>1, <3>3
      <4> QED
        BY <4>1
    <3> QED
      BY <3>2, <3>3
  <2> QED
    BY <2>1, <2>2
<1>3. S \in P
  <2> HIDE DEF P
  <2> QED
    BY <1>1, <1>2, FiniteInduction
<1>4. \E m \in S : \A x \in S : m <= x
  BY <1>3
<1> QED
  BY <1>4 DEF Min
=============================================================================

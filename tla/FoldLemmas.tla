----------------------------- MODULE FoldLemmas -----------------------------
(***************************************************************************)
(* What the folds of the community modules compute, for every finite set   *)
(* and every sequence.  The library proves induction for a predicate that  *)
(* is a parameter; here induction is over the members of a set, from the   *)
(* well-foundedness of the order on numbers and on finite subsets.         *)
(***************************************************************************)
EXTENDS Integers, Functions, FiniteSetTheorems, TLAPS

LEMMA NaturalInduction ==
  ASSUME NEW F, 0 \in F, \A n \in Nat : n \in F => n + 1 \in F
  PROVE  Nat \subseteq F
<1> DEFINE bad == Nat \ F
<1> SUFFICES ASSUME bad # {} PROVE FALSE
  OBVIOUS
<1>1. PICK n \in bad : \A m \in bad : <<m, n>> \notin OpToRel(<, Nat)
  <2>1. bad \subseteq Nat
    OBVIOUS
  <2> HIDE DEF bad
  <2> QED
    BY <2>1, NatLessThanWellFounded, WFMin
<1>2. n \in Nat /\ n \notin F /\ n # 0
  OBVIOUS
<1>3. n - 1 \in Nat /\ n - 1 < n /\ (n - 1) + 1 = n
  BY <1>2
<1>4. <<n - 1, n>> \in OpToRel(<, Nat)
  BY <1>2, <1>3 DEF OpToRel
<1>5. n - 1 \in F
  BY <1>1, <1>3, <1>4
<1> QED
  BY <1>2, <1>3, <1>5

\* A set is in F when it is there as soon as its proper subsets are.
LEMMA SubsetInduction ==
  ASSUME NEW S, IsFiniteSet(S), NEW F,
         \A T \in SUBSET S : (\A U \in SUBSET T : U # T => U \in F) => T \in F
  PROVE  \A T \in SUBSET S : T \in F
<1> DEFINE bad == {T \in SUBSET S : T \notin F}
<1> SUFFICES ASSUME bad # {} PROVE FALSE
  OBVIOUS
<1>1. bad \subseteq FiniteSubsetsOf(S)
  BY FS_FiniteSubsetsOfFinite
<1>2. PICK T \in bad : \A U \in bad : <<U, T>> \notin StrictSubsetOrdering(S)
  <2> HIDE DEF bad
  <2> QED
    BY <1>1, FS_StrictSubsetOrderingWellFounded, WFMin
<1>3. ASSUME NEW U \in SUBSET T, U # T PROVE U \in F
  <2>1. <<U, T>> \in StrictSubsetOrdering(S)
    BY <1>2, <1>3 DEF StrictSubsetOrdering
  <2> QED
    BY <1>2, <2>1
<1> QED
  BY <1>2, <1>3

\* A set is in F when F has the empty set and is closed under adding a member.
LEMMA FiniteInduction ==
  ASSUME NEW S, IsFiniteSet(S), NEW F, {} \in F,
         \A T \in SUBSET S, x \in S : T \in F /\ x \notin T => T \cup {x} \in F
  PROVE  S \in F
<1>1. ASSUME NEW T \in SUBSET S, \A U \in SUBSET T : U # T => U \in F
      PROVE  T \in F
  <2>1. CASE T = {}
    BY <2>1
  <2>2. ASSUME NEW x \in T PROVE T \in F
    <3>1. T \ {x} \in F /\ T = (T \ {x}) \cup {x}
      BY <1>1
    <3> QED
      BY <3>1
  <2> QED
    BY <2>1, <2>2
<1> QED
  BY <1>1, SubsetInduction

-----------------------------------------------------------------------------
(* Recursion over the subsets of a finite set, one element at a time       *)

Unfolds(g, sets, base, pick, step) ==
  g = [T \in sets |-> IF T = {} THEN base ELSE step[<<pick[T], g[T \ {pick[T]}]>>]]

UpTo(S, n) == {T \in SUBSET S : Cardinality(T) <= n}

LEMMA Sizes ==
  ASSUME NEW S, IsFiniteSet(S), NEW T \in SUBSET S
  PROVE  /\ IsFiniteSet(T) /\ Cardinality(T) \in 0 .. Cardinality(S)
         /\ Cardinality(T) = 0 => T = {}
         /\ \A x \in T : Cardinality(T \ {x}) = Cardinality(T) - 1
<1>1. IsFiniteSet(T) /\ Cardinality(T) <= Cardinality(S)
  BY FS_Subset
<1>2. Cardinality(T) \in Nat /\ Cardinality(S) \in Nat
  BY <1>1, FS_CardinalityType
<1>3. Cardinality(T) = 0 => T = {}
  BY <1>1, FS_EmptySet
<1>4. \A x \in T : Cardinality(T \ {x}) = Cardinality(T) - 1
  BY <1>1, FS_RemoveElement
<1> QED
  BY <1>1, <1>2, <1>3, <1>4

LEMMA RecursionExists ==
  ASSUME NEW S, IsFiniteSet(S), NEW V, NEW base \in V, NEW pick,
         \A T \in SUBSET S : T # {} => pick[T] \in T,
         NEW step, \A x \in S, v \in V : step[<<x, v>>] \in V
  PROVE  \E g \in [SUBSET S -> V] : Unfolds(g, SUBSET S, base, pick, step)
<1> DEFINE Good(n) == \E g \in [UpTo(S, n) -> V] : Unfolds(g, UpTo(S, n), base, pick, step)
           F == {n \in Nat : Good(n)}
<1>1. Good(0)
  <2> DEFINE g == [T \in UpTo(S, 0) |-> base]
  <2>1. \A T \in UpTo(S, 0) : T = {}
    BY Sizes DEF UpTo
  <2>2. g \in [UpTo(S, 0) -> V] /\ Unfolds(g, UpTo(S, 0), base, pick, step)
    BY <2>1 DEF Unfolds
  <2> QED
    BY <2>2
<1>2. ASSUME NEW n \in Nat, Good(n) PROVE Good(n + 1)
  <2>1. PICK g \in [UpTo(S, n) -> V] : Unfolds(g, UpTo(S, n), base, pick, step)
    BY <1>2
  <2> DEFINE h == [T \in UpTo(S, n + 1) |->
                     IF T = {} THEN base ELSE step[<<pick[T], g[T \ {pick[T]}]>>]]
  <2>2. ASSUME NEW T \in UpTo(S, n + 1), T # {}
        PROVE  pick[T] \in S /\ T \ {pick[T]} \in UpTo(S, n)
    <3>1. T \in SUBSET S /\ pick[T] \in T /\ Cardinality(T) <= n + 1
      BY <2>2 DEF UpTo
    <3>2. /\ Cardinality(T) \in Nat
          /\ Cardinality(T \ {pick[T]}) = Cardinality(T) - 1
      BY <3>1, Sizes
    <3>3. Cardinality(T \ {pick[T]}) <= n
      BY <3>1, <3>2
    <3> QED
      BY <3>1, <3>3 DEF UpTo
  <2>3. h \in [UpTo(S, n + 1) -> V]
    <3> SUFFICES ASSUME NEW T \in UpTo(S, n + 1), T # {}
                 PROVE  step[<<pick[T], g[T \ {pick[T]}]>>] \in V
      OBVIOUS
    <3>1. pick[T] \in S /\ g[T \ {pick[T]}] \in V
      BY <2>1, <2>2
    <3> QED
      BY <3>1
  <2>4. UpTo(S, n) \subseteq UpTo(S, n + 1)
    <3> SUFFICES ASSUME NEW T \in SUBSET S, Cardinality(T) <= n
                 PROVE  Cardinality(T) <= n + 1
      BY DEF UpTo
    <3> QED
      BY Sizes
  <2>5. \A T \in UpTo(S, n) : h[T] = g[T]
    BY <2>1, <2>4 DEF Unfolds
  <2>6. Unfolds(h, UpTo(S, n + 1), base, pick, step)
    BY <2>2, <2>5 DEF Unfolds
  <2> QED
    BY <2>3, <2>6
<1>3. Nat \subseteq F
  <2>1. 0 \in F /\ \A n \in Nat : n \in F => n + 1 \in F
    BY <1>1, <1>2
  <2> HIDE DEF F
  <2> QED
    BY <2>1, NaturalInduction
<1>4. Cardinality(S) \in Nat /\ UpTo(S, Cardinality(S)) = SUBSET S
  BY Sizes DEF UpTo
<1>5. Good(Cardinality(S))
  BY <1>3, <1>4
<1> QED
  BY <1>4, <1>5

-----------------------------------------------------------------------------
(* Sums: SumFunctionOnSet(f, S), where f takes integers on the finite S    *)

SumStep(S, f) == [pair \in S \X Int |-> f[pair[1]] + pair[2]]
AnyOf(S) == [T \in SUBSET S |-> CHOOSE x \in T : TRUE]

\* g has the sums over the subsets of S.
SumsUp(g, f, S) ==
  /\ g \in [SUBSET S -> Int]
  /\ Unfolds(g, SUBSET S, 0, AnyOf(S), SumStep(S, f))
  /\ \A T \in SUBSET S : SumFunctionOnSet(f, T) = g[T]

\* The sum is the value of a function that unfolds.
LEMMA SumUnfolds ==
  ASSUME NEW S, IsFiniteSet(S), NEW f, \A x \in S : f[x] \in Int
  PROVE  \E g : SumsUp(g, f, S)
<1>1. \A T \in SUBSET S : T # {} => AnyOf(S)[T] \in T
  BY DEF AnyOf
<1>2. \A x \in S, v \in Int : SumStep(S, f)[<<x, v>>] \in Int
  BY DEF SumStep
<1>3. PICK g \in [SUBSET S -> Int] : Unfolds(g, SUBSET S, 0, AnyOf(S), SumStep(S, f))
  <2>1. 0 \in Int
    OBVIOUS
  <2> QED
    BY <1>1, <1>2, <2>1, RecursionExists
<1>4. ASSUME NEW T \in SUBSET S PROVE SumFunctionOnSet(f, T) = g[T]
  <2> DEFINE Equation(h) ==
        h = [U \in SUBSET T |-> IF U = {} THEN 0
                                ELSE f[CHOOSE x \in U : TRUE] + h[U \ {CHOOSE x \in U : TRUE}]]
  <2>1. SumFunctionOnSet(f, T) = (CHOOSE h : Equation(h))[T]
    BY DEF SumFunctionOnSet, FoldFunctionOnSet, MapThenFoldSet
  <2> DEFINE gT == [U \in SUBSET T |-> g[U]]
  <2>2. Equation(gT)
    <3> SUFFICES ASSUME NEW U \in SUBSET T
                 PROVE  gT[U] = IF U = {} THEN 0
                                ELSE f[CHOOSE x \in U : TRUE] + gT[U \ {CHOOSE x \in U : TRUE}]
      OBVIOUS
    <3>1. CASE U = {}
      BY <1>3, <3>1 DEF Unfolds
    <3>2. CASE U # {}
      <4> DEFINE x == CHOOSE x \in U : TRUE
      <4>1. x \in U /\ AnyOf(S)[U] = x
        BY <3>2 DEF AnyOf
      <4> HIDE DEF x
      <4>2. g[U] = SumStep(S, f)[<<x, g[U \ {x}]>>]
        BY <1>3, <3>2, <4>1 DEF Unfolds
      <4>3. g[U] = f[x] + g[U \ {x}]
        <5>1. x \in S /\ g[U \ {x}] \in Int
          BY <1>3, <4>1
        <5> QED
          BY <4>2, <5>1 DEF SumStep
      <4> QED
        BY <3>2, <4>1, <4>3 DEF x
    <3> QED
      BY <3>1, <3>2
  <2>3. ASSUME NEW h, Equation(h) PROVE h[T] = gT[T]
    <3> DEFINE F == {U \in SUBSET T : h[U] = gT[U]}
    <3>1. ASSUME NEW U \in SUBSET T, \A W \in SUBSET U : W # U => W \in F
          PROVE  U \in F
      <4>1. CASE U = {}
        <5>1. h[U] = 0 /\ gT[U] = 0
          BY <2>2, <2>3, <4>1
        <5> QED
          BY <5>1
      <4>2. CASE U # {}
        <5> DEFINE x == CHOOSE x \in U : TRUE
        <5>1. x \in U
          BY <4>2
        <5>2. h[U] = f[x] + h[U \ {x}]
          BY <2>3, <4>2
        <5>3. gT[U] = f[x] + gT[U \ {x}]
          <6> HIDE DEF gT
          <6> QED
            BY <2>2, <4>2
        <5>4. h[U \ {x}] = gT[U \ {x}]
          BY <3>1, <5>1
        <5> QED
          BY <5>2, <5>3, <5>4
      <4> QED
        BY <4>1, <4>2
    <3>2. IsFiniteSet(T)
      BY FS_Subset
    <3> HIDE DEF F
    <3>3. \A U \in SUBSET T : U \in F
      BY <3>1, <3>2, SubsetInduction
    <3> QED
      BY <3>3 DEF F
  <2>4. Equation(CHOOSE h : Equation(h))
    <3> HIDE DEF Equation, gT
    <3> QED
      BY <2>2
  <2> QED
    <3> HIDE DEF Equation
    <3> QED
      BY <2>1, <2>3, <2>4
<1> QED
  BY <1>3, <1>4 DEF SumsUp

LEMMA SumOfNone == ASSUME NEW f PROVE SumFunctionOnSet(f, {}) = 0
<1>1. IsFiniteSet({}) /\ \A x \in {} : f[x] \in Int
  BY FS_EmptySet
<1>2. PICK g : SumsUp(g, f, {})
  BY <1>1, SumUnfolds
<1> QED
  BY <1>2 DEF SumsUp, Unfolds

LEMMA SumType ==
  ASSUME NEW S, IsFiniteSet(S), NEW f, \A x \in S : f[x] \in Int
  PROVE  SumFunctionOnSet(f, S) \in Int
<1>1. PICK g : SumsUp(g, f, S)
  BY SumUnfolds
<1> QED
  BY <1>1 DEF SumsUp

\* Of a set that is not empty, the sum has some member's value as a term ...
LEMMA SumPicks ==
  ASSUME NEW S, IsFiniteSet(S), NEW f, \A x \in S : f[x] \in Int, S # {}
  PROVE  \E x \in S : SumFunctionOnSet(f, S) = f[x] + SumFunctionOnSet(f, S \ {x})
<1>1. PICK g : SumsUp(g, f, S)
  BY SumUnfolds
<1> DEFINE x == AnyOf(S)[S]
<1>2. x \in S
  BY DEF AnyOf
<1> HIDE DEF x
<1>3. g[S] = SumStep(S, f)[<<x, g[S \ {x}]>>]
  BY <1>1 DEF SumsUp, Unfolds, x
<1>4. g[S \ {x}] \in Int
  BY <1>1 DEF SumsUp
<1>5. g[S] = f[x] + g[S \ {x}]
  BY <1>2, <1>3, <1>4 DEF SumStep
<1> QED
  BY <1>1, <1>2, <1>5 DEF SumsUp

\* ... and therefore, whatever is picked, each member's.
LEMMA SumRemove ==
  ASSUME NEW S, IsFiniteSet(S), NEW f, \A x \in S : f[x] \in Int, NEW x \in S
  PROVE  SumFunctionOnSet(f, S) = f[x] + SumFunctionOnSet(f, S \ {x})
<1> DEFINE Splits(T) == \A y \in T : SumFunctionOnSet(f, T) = f[y] + SumFunctionOnSet(f, T \ {y})
           F == {T \in SUBSET S : Splits(T)}
<1>1. ASSUME NEW T \in SUBSET S, \A U \in SUBSET T : U # T => U \in F, NEW y \in T
      PROVE  SumFunctionOnSet(f, T) = f[y] + SumFunctionOnSet(f, T \ {y})
  <2>1. IsFiniteSet(T)
    BY FS_Subset
  <2>2. PICK z \in T : SumFunctionOnSet(f, T) = f[z] + SumFunctionOnSet(f, T \ {z})
    BY <2>1, SumPicks
  <2>3. CASE z = y
    BY <2>2, <2>3
  <2>4. CASE z # y
    <3>1. SumFunctionOnSet(f, T \ {z}) = f[y] + SumFunctionOnSet(f, (T \ {z}) \ {y})
      <4>1. T \ {z} \in F /\ y \in T \ {z}
        BY <1>1, <2>4
      <4> QED
        BY <4>1
    <3>2. SumFunctionOnSet(f, T \ {y}) = f[z] + SumFunctionOnSet(f, (T \ {y}) \ {z})
      <4>1. T \ {y} \in F /\ z \in T \ {y}
        BY <1>1, <2>4
      <4> QED
        BY <4>1
    <3>3. SumFunctionOnSet(f, (T \ {z}) \ {y}) = SumFunctionOnSet(f, (T \ {y}) \ {z})
      <4>1. (T \ {z}) \ {y} = (T \ {y}) \ {z}
        OBVIOUS
      <4> QED
        BY <4>1
    <3>4. SumFunctionOnSet(f, (T \ {y}) \ {z}) \in Int
      <4>1. IsFiniteSet((T \ {y}) \ {z})
        BY <2>1, FS_Subset
      <4> QED
        BY <4>1, SumType
    <3>5. f[y] \in Int /\ f[z] \in Int
      OBVIOUS
    <3> HIDE DEF F, Splits
    <3> QED
      BY <2>2, <3>1, <3>2, <3>3, <3>4, <3>5
  <2> QED
    BY <2>3, <2>4
<1>2. \A T \in SUBSET S : T \in F
  <2>1. \A T \in SUBSET S : (\A U \in SUBSET T : U # T => U \in F) => T \in F
    BY <1>1
  <2> HIDE DEF F
  <2> QED
    BY <2>1, SubsetInduction
<1>3. Splits(S)
  BY <1>2
<1> QED
  BY <1>3

LEMMA SumAdd ==
  ASSUME NEW S, IsFiniteSet(S), NEW x, x \notin S,
         NEW f, \A y \in S \cup {x} : f[y] \in Int
  PROVE  SumFunctionOnSet(f, S \cup {x}) = f[x] + SumFunctionOnSet(f, S)
<1>1. IsFiniteSet(S \cup {x}) /\ (S \cup {x}) \ {x} = S
  BY FS_AddElement
<1>2. SumFunctionOnSet(f, S \cup {x}) = f[x] + SumFunctionOnSet(f, (S \cup {x}) \ {x})
  BY <1>1, SumRemove
<1> QED
  BY <1>1, <1>2

\* Sums of functions that agree, or add up, or lie below each other, do so.
LEMMA SumSame ==
  ASSUME NEW S, IsFiniteSet(S), NEW f, NEW g, \A x \in S : f[x] \in Int /\ f[x] = g[x]
  PROVE  SumFunctionOnSet(f, S) = SumFunctionOnSet(g, S)
<1> DEFINE F == {T \in SUBSET S : SumFunctionOnSet(f, T) = SumFunctionOnSet(g, T)}
<1>1. {} \in F
  BY SumOfNone
<1>2. ASSUME NEW T \in SUBSET S, NEW x \in S, T \in F, x \notin T PROVE T \cup {x} \in F
  <2>1. IsFiniteSet(T)
    BY FS_Subset
  <2>2. /\ SumFunctionOnSet(f, T \cup {x}) = f[x] + SumFunctionOnSet(f, T)
        /\ SumFunctionOnSet(g, T \cup {x}) = g[x] + SumFunctionOnSet(g, T)
    BY <1>2, <2>1, SumAdd
  <2> QED
    BY <1>2, <2>2
<1> HIDE DEF F
<1>3. S \in F
  BY <1>1, <1>2, FiniteInduction
<1> QED
  BY <1>3 DEF F

LEMMA SumPlus ==
  ASSUME NEW S, IsFiniteSet(S), NEW f, NEW g, NEW h,
         \A x \in S : f[x] \in Int /\ g[x] \in Int /\ h[x] = f[x] + g[x]
  PROVE  SumFunctionOnSet(h, S) = SumFunctionOnSet(f, S) + SumFunctionOnSet(g, S)
<1> DEFINE F == {T \in SUBSET S :
                   SumFunctionOnSet(h, T) = SumFunctionOnSet(f, T) + SumFunctionOnSet(g, T)}
<1>1. {} \in F
  BY SumOfNone
<1>2. ASSUME NEW T \in SUBSET S, NEW x \in S, T \in F, x \notin T PROVE T \cup {x} \in F
  <2>1. IsFiniteSet(T)
    BY FS_Subset
  <2>2. /\ SumFunctionOnSet(f, T \cup {x}) = f[x] + SumFunctionOnSet(f, T)
        /\ SumFunctionOnSet(g, T \cup {x}) = g[x] + SumFunctionOnSet(g, T)
    BY <1>2, <2>1, SumAdd
  <2>3. SumFunctionOnSet(h, T \cup {x}) = h[x] + SumFunctionOnSet(h, T)
    <3>1. \A y \in T \cup {x} : h[y] \in Int
      OBVIOUS
    <3> QED
      BY <1>2, <2>1, <3>1, SumAdd
  <2>4. SumFunctionOnSet(f, T) \in Int /\ SumFunctionOnSet(g, T) \in Int
    BY <2>1, SumType
  <2> QED
    BY <1>2, <2>2, <2>3, <2>4
<1> HIDE DEF F
<1>3. S \in F
  BY <1>1, <1>2, FiniteInduction
<1> QED
  BY <1>3 DEF F

LEMMA SumLeq ==
  ASSUME NEW S, IsFiniteSet(S), NEW f, NEW g,
         \A x \in S : f[x] \in Int /\ g[x] \in Int /\ f[x] <= g[x]
  PROVE  SumFunctionOnSet(f, S) <= SumFunctionOnSet(g, S)
<1> DEFINE F == {T \in SUBSET S : SumFunctionOnSet(f, T) <= SumFunctionOnSet(g, T)}
<1>1. {} \in F
  BY SumOfNone
<1>2. ASSUME NEW T \in SUBSET S, NEW x \in S, T \in F, x \notin T PROVE T \cup {x} \in F
  <2>1. IsFiniteSet(T)
    BY FS_Subset
  <2>2. /\ SumFunctionOnSet(f, T \cup {x}) = f[x] + SumFunctionOnSet(f, T)
        /\ SumFunctionOnSet(g, T \cup {x}) = g[x] + SumFunctionOnSet(g, T)
    BY <1>2, <2>1, SumAdd
  <2>3. SumFunctionOnSet(f, T) \in Int /\ SumFunctionOnSet(g, T) \in Int
    BY <2>1, SumType
  <2> QED
    BY <1>2, <2>2, <2>3
<1> HIDE DEF F
<1>3. S \in F
  BY <1>1, <1>2, FiniteInduction
<1> QED
  BY <1>3 DEF F

\* Terms of at most m add up to at most m for each.
LEMMA SumBounded ==
  ASSUME NEW S, IsFiniteSet(S), NEW m \in Nat, NEW f, \A x \in S : f[x] \in Int /\ f[x] <= m
  PROVE  SumFunctionOnSet(f, S) <= Cardinality(S) * m
<1> DEFINE F == {T \in SUBSET S : SumFunctionOnSet(f, T) <= Cardinality(T) * m}
<1>1. {} \in F
  BY SumOfNone, FS_EmptySet
<1>2. ASSUME NEW T \in SUBSET S, NEW x \in S, T \in F, x \notin T PROVE T \cup {x} \in F
  <2>1. IsFiniteSet(T)
    BY FS_Subset
  <2>2. SumFunctionOnSet(f, T \cup {x}) = f[x] + SumFunctionOnSet(f, T)
    BY <1>2, <2>1, SumAdd
  <2>3. Cardinality(T) \in Nat /\ Cardinality(T \cup {x}) = Cardinality(T) + 1
    BY <1>2, <2>1, FS_AddElement, FS_CardinalityType
  <2>4. SumFunctionOnSet(f, T) \in Int
    BY <2>1, SumType
  <2>5. (Cardinality(T) + 1) * m = Cardinality(T) * m + m
    BY <2>3
  <2> QED
    BY <1>2, <2>2, <2>3, <2>4, <2>5
<1> HIDE DEF F
<1>3. S \in F
  BY <1>1, <1>2, FiniteInduction
<1> QED
  BY <1>3 DEF F

\* Members whose terms are 0 may be left out.
LEMMA SumSupport ==
  ASSUME NEW S, IsFiniteSet(S), NEW R \in SUBSET S, NEW f,
         \A x \in S : f[x] \in Int, \A x \in S \ R : f[x] = 0
  PROVE  SumFunctionOnSet(f, S) = SumFunctionOnSet(f, R)
<1> DEFINE F == {T \in SUBSET (S \ R) : SumFunctionOnSet(f, R \cup T) = SumFunctionOnSet(f, R)}
<1>1. {} \in F
  OBVIOUS
<1>2. ASSUME NEW T \in SUBSET (S \ R), NEW x \in S \ R, T \in F, x \notin T
      PROVE  T \cup {x} \in F
  <2>1. IsFiniteSet(R \cup T) /\ x \notin R \cup T /\ R \cup (T \cup {x}) = (R \cup T) \cup {x}
    BY <1>2, FS_Subset
  <2>2. SumFunctionOnSet(f, (R \cup T) \cup {x}) = f[x] + SumFunctionOnSet(f, R \cup T)
    BY <2>1, SumAdd
  <2>3. SumFunctionOnSet(f, R \cup T) \in Int /\ f[x] = 0
    BY <2>1, SumType
  <2>4. SumFunctionOnSet(f, R \cup T) = SumFunctionOnSet(f, R)
    BY <1>2
  <2>5. SumFunctionOnSet(f, R \cup (T \cup {x})) = SumFunctionOnSet(f, (R \cup T) \cup {x})
    BY <2>1
  <2>6. SumFunctionOnSet(f, R \cup (T \cup {x})) = SumFunctionOnSet(f, R)
    <3> HIDE DEF F
    <3> QED
      BY <2>2, <2>3, <2>4, <2>5
  <2> QED
    BY <2>6
<1>3. IsFiniteSet(S \ R) /\ R \cup (S \ R) = S
  BY FS_Subset
<1> HIDE DEF F
<1>4. S \ R \in F
  BY <1>1, <1>2, <1>3, FiniteInduction
<1> QED
  BY <1>3, <1>4 DEF F

\* The sum over a set is that over a part with that over the rest.
LEMMA SumParts ==
  ASSUME NEW S, IsFiniteSet(S), NEW R \in SUBSET S, NEW f, \A x \in S : f[x] \in Int
  PROVE  SumFunctionOnSet(f, S) = SumFunctionOnSet(f, R) + SumFunctionOnSet(f, S \ R)
<1> DEFINE on == [x \in S |-> IF x \in R THEN f[x] ELSE 0]
           off == [x \in S |-> IF x \in R THEN 0 ELSE f[x]]
<1>1. \A x \in S : on[x] \in Int /\ off[x] \in Int /\ f[x] = on[x] + off[x]
  OBVIOUS
<1>2. SumFunctionOnSet(f, S) = SumFunctionOnSet(on, S) + SumFunctionOnSet(off, S)
  <2> HIDE DEF on, off
  <2> QED
    BY <1>1, SumPlus
<1>3. IsFiniteSet(R) /\ IsFiniteSet(S \ R)
  BY FS_Subset
<1>4. SumFunctionOnSet(on, S) = SumFunctionOnSet(f, R)
  <2>1. \A x \in R : f[x] \in Int /\ f[x] = on[x]
    OBVIOUS
  <2>2. \A x \in S \ R : on[x] = 0
    OBVIOUS
  <2> HIDE DEF on
  <2>3. SumFunctionOnSet(on, S) = SumFunctionOnSet(on, R)
    BY <1>1, <2>2, SumSupport
  <2> QED
    BY <1>3, <2>1, <2>3, SumSame
<1>5. SumFunctionOnSet(off, S) = SumFunctionOnSet(f, S \ R)
  <2>1. \A x \in S \ R : f[x] \in Int /\ f[x] = off[x]
    OBVIOUS
  <2>2. \A x \in S \ (S \ R) : off[x] = 0
    OBVIOUS
  <2> HIDE DEF off
  <2>3. SumFunctionOnSet(off, S) = SumFunctionOnSet(off, S \ R)
    BY <1>1, <2>2, SumSupport
  <2> QED
    BY <1>3, <2>1, <2>3, SumSame
<1> QED
  BY <1>2, <1>4, <1>5

\* Changing one term changes the sum by as much.
LEMMA SumUpdate ==
  ASSUME NEW S, IsFiniteSet(S), NEW x \in S, NEW f, NEW g,
         \A y \in S : f[y] \in Int /\ g[y] \in Int, \A y \in S \ {x} : g[y] = f[y]
  PROVE  SumFunctionOnSet(g, S) = SumFunctionOnSet(f, S) - f[x] + g[x]
<1>1. IsFiniteSet(S \ {x})
  BY FS_Subset
<1>2. SumFunctionOnSet(f, S) = f[x] + SumFunctionOnSet(f, S \ {x})
  BY SumRemove
<1>3. SumFunctionOnSet(g, S) = g[x] + SumFunctionOnSet(g, S \ {x})
  BY SumRemove
<1>4. SumFunctionOnSet(g, S \ {x}) = SumFunctionOnSet(f, S \ {x})
  BY <1>1, SumSame
<1>5. SumFunctionOnSet(f, S \ {x}) \in Int
  BY <1>1, SumType
<1> QED
  BY <1>2, <1>3, <1>4, <1>5
=============================================================================

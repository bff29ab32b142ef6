----------------------------- MODULE SumProofs -----------------------------
(***************************************************************************)
(* Sums over finite sets, SumFunctionOnSet of the community modules, in    *)
(* which the models count weights, costs, particles and tiles.  The        *)
(* operator folds over a recursive function that chooses one element after *)
(* the other; here it is shown to be the sum, whatever the order: it is    *)
(* additive, changes by what one summand changes, and splits into parts.   *)
(* And sequences laid end to end, FlattenSeq, of which the input of dedup  *)
(* is made.                                                                *)
(* Induction is stated for a set G of the arguments with the property, not *)
(* for an operator, so that it can be cited.                               *)
(***************************************************************************)
EXTENDS Integers, FiniteSetsExt, SequencesExt, FiniteSetTheorems,
        WellFoundedInduction, FunctionTheorems, TLAPS

-----------------------------------------------------------------------------
(***************************************************************************)
(* Induction.                                                              *)
(***************************************************************************)

\* The subsets of a finite set are well founded under strict inclusion.
LEMMA SubsetsWellFounded ==
  ASSUME NEW S, IsFiniteSet(S)
  PROVE  IsWellFoundedOn(StrictSubsetOrdering(S), SUBSET S)
<1>1. IsWellFoundedOn(StrictSubsetOrdering(S), FiniteSubsetsOf(S))
  BY FS_StrictSubsetOrderingWellFounded
<1>2. FiniteSubsetsOf(S) = SUBSET S
  BY FS_FiniteSubsetsOfFinite
<1> QED BY <1>1, <1>2

\* A nonempty set has a minimal element.
LEMMA Minimal ==
  ASSUME NEW R, NEW S, IsWellFoundedOn(R, S), NEW T \in SUBSET S, T # {}
  PROVE  \E a \in T : \A b \in T : <<b, a>> \notin R
  BY WFMin

\* What holds of a set whenever it holds of its proper subsets holds of every
\* finite set.
LEMMA FiniteInduction ==
  ASSUME NEW S, IsFiniteSet(S), NEW G,
         \A A \in SUBSET S : (\A B \in SUBSET A : B # A => B \in G) => A \in G
  PROVE  S \in G
<1> DEFINE T == {A \in SUBSET S : A \notin G}
<1> SUFFICES ASSUME T # {} PROVE FALSE
  OBVIOUS
<1>2. PICK A \in T : \A B \in T : <<B, A>> \notin StrictSubsetOrdering(S)
  <2> T \in SUBSET (SUBSET S)
    OBVIOUS
  <2>1. IsWellFoundedOn(StrictSubsetOrdering(S), SUBSET S)
    BY SubsetsWellFounded
  <2> HIDE DEF T
  <2> QED BY <2>1, Minimal
<1>3. ASSUME NEW B \in SUBSET A, B # A PROVE B \in G
  <2>1. B \in SUBSET S /\ A \in SUBSET S
    OBVIOUS
  <2>2. <<B, A>> \in StrictSubsetOrdering(S)
    BY <2>1, <1>3 DEF StrictSubsetOrdering
  <2> QED BY <2>1, <2>2, <1>2
<1> QED BY <1>3

\* What holds of 0 and passes from n to n + 1 holds of every natural number.
LEMMA NaturalInduction ==
  ASSUME NEW G, 0 \in G, \A n \in Nat : n \in G => n + 1 \in G
  PROVE  \A n \in Nat : n \in G
<1> DEFINE T == {n \in Nat : n \notin G}
<1> SUFFICES ASSUME T # {} PROVE FALSE
  OBVIOUS
<1>0. IsWellFoundedOn(OpToRel(<, Nat), Nat)
  BY NatLessThanWellFounded
<1>1. PICK n \in T : \A m \in T : <<m, n>> \notin OpToRel(<, Nat)
  <2> T \in SUBSET Nat
    OBVIOUS
  <2> HIDE DEF T
  <2> QED BY <1>0, Minimal
<1>2. n # 0 /\ n - 1 \in Nat
  OBVIOUS
<1>3. n - 1 \in G
  <2>1. <<n - 1, n>> \in Nat \X Nat /\ n - 1 < n
    BY <1>2
  <2>2. <<n - 1, n>> \in OpToRel(<, Nat)
    BY <2>1 DEF OpToRel
  <2> QED BY <1>1, <1>2, <2>2
<1> QED BY <1>2, <1>3

-----------------------------------------------------------------------------
(***************************************************************************)
(* The recursive function behind SumFunctionOnSet exists and is unique.    *)
(***************************************************************************)
\* The element that the fold takes next.
Choice(s) == CHOOSE x \in s : TRUE

\* g sums f over every subset of S, the chosen element first.
SumsTo(g, f, S) == g = [s \in SUBSET S |-> IF s = {} THEN 0 ELSE f[Choice(s)] + g[s \ {Choice(s)}]]

\* A sum is the value of such a function.
LEMMA Unfold ==
  ASSUME NEW f, NEW S
  PROVE  SumFunctionOnSet(f, S) = (CHOOSE g : SumsTo(g, f, S))[S]
  BY DEF SumFunctionOnSet, FoldFunctionOnSet, MapThenFoldSet, SumsTo, Choice

\* The element taken is one of the set.
LEMMA ChoiceIn == \A s : s # {} => Choice(s) \in s
  BY DEF Choice

\* What the function is at a subset,
LEMMA FoldsAt ==
  ASSUME NEW f, NEW S, NEW g, SumsTo(g, f, S), NEW A \in SUBSET S
  PROVE  g[A] = IF A = {} THEN 0 ELSE f[Choice(A)] + g[A \ {Choice(A)}]
  BY DEF SumsTo

\* and that nothing else is needed to be one.
LEMMA FoldsIf ==
  ASSUME NEW f, NEW S, NEW g, g = [A \in SUBSET S |-> g[A]],
         \A A \in SUBSET S : g[A] = IF A = {} THEN 0 ELSE f[Choice(A)] + g[A \ {Choice(A)}]
  PROVE  SumsTo(g, f, S)
  BY DEF SumsTo

\* Two such functions agree where both are defined.
LEMMA FoldsUnique ==
  ASSUME NEW f, NEW S, NEW T \in SUBSET S, IsFiniteSet(T), NEW g, NEW h,
         SumsTo(g, f, S), SumsTo(h, f, T)
  PROVE  g[T] = h[T]
<1> DEFINE G == {A \in SUBSET T : g[A] = h[A]}
<1>1. ASSUME NEW A \in SUBSET T, \A B \in SUBSET A : B # A => B \in G
      PROVE  A \in G
  <2>0. g[A] = (IF A = {} THEN 0 ELSE f[Choice(A)] + g[A \ {Choice(A)}])
    <3> A \in SUBSET S
      OBVIOUS
    <3> QED BY DEF SumsTo
  <2>1. h[A] = IF A = {} THEN 0 ELSE f[Choice(A)] + h[A \ {Choice(A)}]
    BY DEF SumsTo
  <2>2. A # {} => g[A \ {Choice(A)}] = h[A \ {Choice(A)}]
    <3> SUFFICES ASSUME A # {} PROVE A \ {Choice(A)} \in G
      OBVIOUS
    <3> Choice(A) \in A
      BY ChoiceIn
    <3> QED BY <1>1
  <2> QED BY <2>0, <2>1, <2>2
<1>2. T \in G
  <2> HIDE DEF G
  <2> QED BY <1>1, FiniteInduction
<1> QED BY <1>2

\* There is one for every finite set.
LEMMA FoldsExists ==
  ASSUME NEW f, NEW S, IsFiniteSet(S)
  PROVE  \E g : SumsTo(g, f, S)
<1> DEFINE G == {A \in SUBSET S : \E g : SumsTo(g, f, A)}
<1>1. ASSUME NEW A \in SUBSET S, \A B \in SUBSET A : B # A => B \in G
      PROVE  A \in G
  <2> DEFINE fold(B) == CHOOSE h : SumsTo(h, f, B)
             value(B) == IF B = {} THEN 0 ELSE f[Choice(B)] + fold(B \ {Choice(B)})[B \ {Choice(B)}]
             g == [B \in SUBSET A |-> value(B)]
  <2>1. ASSUME NEW B \in SUBSET A, B # A
        PROVE  SumsTo(fold(B), f, B)
    BY <1>1, <2>1
  <2>2. ASSUME NEW B \in SUBSET A, B # A
        PROVE  fold(B)[B] = value(B)
    <3>1. CASE B = {}
      <4>1. SumsTo(fold(B), f, B) /\ B \in SUBSET B
        BY <2>1, <2>2
      <4> HIDE DEF fold
      <4> QED BY <4>1, <3>1, FoldsAt
    <3>2. CASE B # {}
      <4>1. Choice(B) \in B
        BY <3>2, ChoiceIn
      <4> DEFINE C == B \ {Choice(B)}
      <4>2. C \in SUBSET A /\ C # A /\ C \in SUBSET B /\ IsFiniteSet(C)
        BY <4>1, FS_Subset
      <4>3. fold(B)[C] = fold(C)[C]
        <5>1. SumsTo(fold(B), f, B) /\ SumsTo(fold(C), f, C)
          BY <2>1, <2>2, <4>2
        <5> HIDE DEF fold, C
        <5> QED BY <5>1, <4>2, FoldsUnique
      <4>4. fold(B)[B] = f[Choice(B)] + fold(B)[C]
        <5>1. SumsTo(fold(B), f, B)
          BY <2>1, <2>2
        <5> HIDE DEF fold
        <5> QED BY <5>1, <3>2 DEF SumsTo
      <4> HIDE DEF fold
      <4> QED BY <4>3, <4>4, <3>2
    <3> QED BY <3>1, <3>2
  <2>3. SumsTo(g, f, A)
    <3> SUFFICES ASSUME NEW B \in SUBSET A
                 PROVE g[B] = IF B = {} THEN 0 ELSE f[Choice(B)] + g[B \ {Choice(B)}]
      <4> g = [B \in SUBSET A |-> g[B]]
        OBVIOUS
      <4> HIDE DEF g
      <4> QED BY FoldsIf
    <3>1. CASE B = {}
      BY <3>1
    <3>2. CASE B # {}
      <4>1. Choice(B) \in B
        BY <3>2, ChoiceIn
      <4> DEFINE C == B \ {Choice(B)}
      <4>2. C \in SUBSET A /\ C # A
        BY <4>1
      <4>3. fold(C)[C] = value(C)
        BY <4>2, <2>2
      <4> HIDE DEF fold
      <4> QED BY <4>2, <4>3, <3>2
    <3> QED BY <3>1, <3>2
  <2> HIDE DEF g
  <2> QED BY <2>3
<1>2. S \in G
  <2> HIDE DEF G
  <2> QED BY <1>1, FiniteInduction
<1> QED BY <1>2



-----------------------------------------------------------------------------
(***************************************************************************)
(* Sums.                                                                   *)
(***************************************************************************)
\* A sum is the chosen summand and the sum of the rest.
LEMMA SumChoice ==
  ASSUME NEW f, NEW S, IsFiniteSet(S)
  PROVE  SumFunctionOnSet(f, S) = IF S = {} THEN 0
           ELSE f[Choice(S)] + SumFunctionOnSet(f, S \ {Choice(S)})
<1> DEFINE C == S \ {Choice(S)}
           g == CHOOSE g : SumsTo(g, f, S)
           h == CHOOSE h : SumsTo(h, f, C)
<1>1. C \in SUBSET S /\ IsFiniteSet(C)
  BY FS_Subset
<1>2. SumsTo(g, f, S) /\ SumsTo(h, f, C)
  BY <1>1, FoldsExists
<1>3. SumFunctionOnSet(f, S) = g[S] /\ SumFunctionOnSet(f, C) = h[C]
  BY Unfold
<1> HIDE DEF g, h
<1>4. g[C] = h[C]
  BY <1>1, <1>2, FoldsUnique
<1>5. g[S] = IF S = {} THEN 0 ELSE f[Choice(S)] + g[C]
  BY <1>2 DEF SumsTo
<1> QED BY <1>3, <1>4, <1>5

\* The empty sum is zero.
LEMMA SumEmpty == \A f : SumFunctionOnSet(f, {}) = 0
  BY SumChoice, FS_EmptySet

\* The sum of integers is an integer.
LEMMA SumType ==
  ASSUME NEW S, IsFiniteSet(S), NEW f, \A a \in S : f[a] \in Int
  PROVE  SumFunctionOnSet(f, S) \in Int
<1> DEFINE G == {A \in SUBSET S : SumFunctionOnSet(f, A) \in Int}
<1>1. ASSUME NEW A \in SUBSET S, \A B \in SUBSET A : B # A => B \in G
      PROVE  A \in G
  <2>1. CASE A = {}
    BY <2>1, SumEmpty
  <2>2. CASE A # {}
    <3>1. Choice(A) \in A
      BY <2>2, ChoiceIn
    <3>2. A \ {Choice(A)} \in G
      BY <1>1, <3>1
    <3>3. SumFunctionOnSet(f, A) = f[Choice(A)] + SumFunctionOnSet(f, A \ {Choice(A)})
      BY <2>2, SumChoice, FS_Subset
    <3> QED BY <3>1, <3>2, <3>3
  <2> QED BY <2>1, <2>2
<1>2. S \in G
  <2> HIDE DEF G
  <2> QED BY <1>1, FiniteInduction
<1> QED BY <1>2

\* Any summand can be taken out, not only the chosen one.
LEMMA SumRemove ==
  ASSUME NEW S, IsFiniteSet(S), NEW f, \A a \in S : f[a] \in Int, NEW x \in S
  PROVE  SumFunctionOnSet(f, S) = f[x] + SumFunctionOnSet(f, S \ {x})
<1> DEFINE sum(A) == SumFunctionOnSet(f, A)
           G == {A \in SUBSET S : \A y \in A : sum(A) = f[y] + sum(A \ {y})}
<1>0. \A A \in SUBSET S : IsFiniteSet(A) /\ sum(A) \in Int
  BY FS_Subset, SumType
<1>1. ASSUME NEW A \in SUBSET S, \A B \in SUBSET A : B # A => B \in G
      PROVE  A \in G
  <2> SUFFICES ASSUME NEW y \in A PROVE sum(A) = f[y] + sum(A \ {y})
    OBVIOUS
  <2> DEFINE c == Choice(A)
  <2>1. c \in A
    BY ChoiceIn
  <2>2. sum(A) = f[c] + sum(A \ {c})
    BY <1>0, SumChoice
  <2>3. CASE y = c
    BY <2>2, <2>3
  <2>4. CASE y # c
    <3>1. A \ {c} \in G /\ A \ {y} \in G
      BY <1>1, <2>1
    <3>2. sum(A \ {c}) = f[y] + sum((A \ {c}) \ {y})
      BY <3>1, <2>4
    <3>3. sum(A \ {y}) = f[c] + sum((A \ {y}) \ {c})
      BY <3>1, <2>1, <2>4
    <3>4. (A \ {y}) \ {c} = (A \ {c}) \ {y}
      OBVIOUS
    <3>5. f[y] \in Int /\ f[c] \in Int /\ sum((A \ {c}) \ {y}) \in Int
      BY <1>0, <2>1
    <3>6. sum(A) = f[c] + (f[y] + sum((A \ {c}) \ {y}))
      BY <2>2, <3>2
    <3>7. f[y] + sum(A \ {y}) = f[y] + (f[c] + sum((A \ {c}) \ {y}))
      BY <3>3, <3>4
    <3> HIDE DEF sum, c
    <3> QED BY <3>5, <3>6, <3>7
  <2> QED BY <2>3, <2>4
<1>2. S \in G
  <2> HIDE DEF G
  <2> QED BY <1>1, FiniteInduction
<1> QED BY <1>2

\* A summand is added.
LEMMA SumAdd ==
  ASSUME NEW S, IsFiniteSet(S), NEW x, x \notin S, NEW f, \A a \in S \cup {x} : f[a] \in Int
  PROVE  SumFunctionOnSet(f, S \cup {x}) = f[x] + SumFunctionOnSet(f, S)
<1>1. IsFiniteSet(S \cup {x}) /\ (S \cup {x}) \ {x} = S
  BY FS_AddElement
<1> QED BY <1>1, SumRemove

\* What holds of the empty set and passes to a set with one element more holds
\* of every finite set.
LEMMA SetInduction ==
  ASSUME NEW S, IsFiniteSet(S), NEW G, {} \in G,
         \A A \in SUBSET S, x \in S : A \in G /\ x \notin A => A \cup {x} \in G
  PROVE  S \in G
<1>1. ASSUME NEW A \in SUBSET S, \A B \in SUBSET A : B # A => B \in G
      PROVE  A \in G
  <2>1. ASSUME NEW x \in A PROVE A \in G
    <3>1. A \ {x} \in G /\ A = (A \ {x}) \cup {x}
      BY <1>1
    <3> QED BY <3>1
  <2> QED BY <2>1
<1> QED BY <1>1, FiniteInduction

\* Equal summands have equal sums.
LEMMA SumEqual ==
  ASSUME NEW S, IsFiniteSet(S), NEW f, NEW g, \A a \in S : f[a] = g[a] /\ g[a] \in Int
  PROVE  SumFunctionOnSet(f, S) = SumFunctionOnSet(g, S)
<1> DEFINE G == {A \in SUBSET S : SumFunctionOnSet(f, A) = SumFunctionOnSet(g, A)}
<1>1. {} \in G
  BY SumEmpty
<1>2. ASSUME NEW A \in SUBSET S, NEW x \in S, A \in G, x \notin A
      PROVE  A \cup {x} \in G
  <2>1. IsFiniteSet(A) /\ \A a \in A \cup {x} : f[a] \in Int /\ g[a] \in Int
    BY FS_Subset
  <2>2. SumFunctionOnSet(f, A \cup {x}) = f[x] + SumFunctionOnSet(f, A)
    BY <1>2, <2>1, SumAdd
  <2>3. SumFunctionOnSet(g, A \cup {x}) = g[x] + SumFunctionOnSet(g, A)
    BY <1>2, <2>1, SumAdd
  <2> QED BY <1>2, <2>2, <2>3
<1> HIDE DEF G
<1>3. S \in G
  BY <1>1, <1>2, SetInduction
<1> QED BY <1>3 DEF G

\* Zeros sum to zero.
LEMMA SumZero ==
  ASSUME NEW S, IsFiniteSet(S), NEW f, \A a \in S : f[a] = 0
  PROVE  SumFunctionOnSet(f, S) = 0
<1> DEFINE G == {A \in SUBSET S : SumFunctionOnSet(f, A) = 0}
<1>1. {} \in G
  BY SumEmpty
<1>2. ASSUME NEW A \in SUBSET S, NEW x \in S, A \in G, x \notin A
      PROVE  A \cup {x} \in G
  <2>1. IsFiniteSet(A) /\ \A a \in A \cup {x} : f[a] \in Int
    BY FS_Subset
  <2>2. SumFunctionOnSet(f, A \cup {x}) = f[x] + SumFunctionOnSet(f, A)
    BY <1>2, <2>1, SumAdd
  <2> QED BY <1>2, <2>2
<1> HIDE DEF G
<1>3. S \in G
  BY <1>1, <1>2, SetInduction
<1> QED BY <1>3 DEF G

\* The sum of sums.
LEMMA SumPlus ==
  ASSUME NEW S, IsFiniteSet(S), NEW f, NEW g, NEW h,
         \A a \in S : f[a] = g[a] + h[a] /\ g[a] \in Int /\ h[a] \in Int
  PROVE  SumFunctionOnSet(f, S) = SumFunctionOnSet(g, S) + SumFunctionOnSet(h, S)
<1> DEFINE G == {A \in SUBSET S : SumFunctionOnSet(f, A) = SumFunctionOnSet(g, A) + SumFunctionOnSet(h, A)}
<1>1. {} \in G
  BY SumEmpty
<1>2. ASSUME NEW A \in SUBSET S, NEW x \in S, A \in G, x \notin A
      PROVE  A \cup {x} \in G
  <2>1. IsFiniteSet(A) /\ \A a \in A \cup {x} : f[a] \in Int /\ g[a] \in Int /\ h[a] \in Int
    BY FS_Subset
  <2>2. SumFunctionOnSet(f, A \cup {x}) = f[x] + SumFunctionOnSet(f, A)
    BY <1>2, <2>1, SumAdd
  <2>3. SumFunctionOnSet(g, A \cup {x}) = g[x] + SumFunctionOnSet(g, A)
    BY <1>2, <2>1, SumAdd
  <2>4. SumFunctionOnSet(h, A \cup {x}) = h[x] + SumFunctionOnSet(h, A)
    BY <1>2, <2>1, SumAdd
  <2>5. SumFunctionOnSet(g, A) \in Int /\ SumFunctionOnSet(h, A) \in Int
    BY <2>1, SumType
  <2>6. f[x] = g[x] + h[x] /\ g[x] \in Int /\ h[x] \in Int
    OBVIOUS
  <2>7. SumFunctionOnSet(f, A) = SumFunctionOnSet(g, A) + SumFunctionOnSet(h, A)
    BY <1>2
  <2>8. SumFunctionOnSet(f, A \cup {x})
          = (g[x] + SumFunctionOnSet(g, A)) + (h[x] + SumFunctionOnSet(h, A))
    BY <2>2, <2>5, <2>6, <2>7
  <2> QED BY <2>3, <2>4, <2>8
<1> HIDE DEF G
<1>3. S \in G
  BY <1>1, <1>2, SetInduction
<1> QED BY <1>3 DEF G

\* The sum over two disjoint sets.
LEMMA SumUnion ==
  ASSUME NEW S, IsFiniteSet(S), NEW T, IsFiniteSet(T), S \cap T = {},
         NEW f, \A a \in S \cup T : f[a] \in Int
  PROVE  SumFunctionOnSet(f, S \cup T) = SumFunctionOnSet(f, S) + SumFunctionOnSet(f, T)
<1> DEFINE G == {A \in SUBSET T : SumFunctionOnSet(f, S \cup A) = SumFunctionOnSet(f, S) + SumFunctionOnSet(f, A)}
<1>0. SumFunctionOnSet(f, S) \in Int
  BY SumType
<1>1. {} \in G
  <2> S \cup {} = S
    OBVIOUS
  <2> QED BY <1>0, SumEmpty
<1>2. ASSUME NEW A \in SUBSET T, NEW x \in T, A \in G, x \notin A
      PROVE  A \cup {x} \in G
  <2>1. IsFiniteSet(A) /\ IsFiniteSet(S \cup A)
    BY FS_Subset, FS_Union
  <2>2. SumFunctionOnSet(f, A \cup {x}) = f[x] + SumFunctionOnSet(f, A)
    BY <1>2, <2>1, SumAdd
  <2>3. SumFunctionOnSet(f, (S \cup A) \cup {x}) = f[x] + SumFunctionOnSet(f, S \cup A)
    <3> x \notin S \cup A
      BY <1>2
    <3> QED BY <2>1, SumAdd
  <2>4. (S \cup A) \cup {x} = S \cup (A \cup {x})
    OBVIOUS
  <2>5. SumFunctionOnSet(f, A) \in Int /\ f[x] \in Int
    BY <2>1, SumType
  <2>6. SumFunctionOnSet(f, S \cup A) = SumFunctionOnSet(f, S) + SumFunctionOnSet(f, A)
    BY <1>2
  <2>7. SumFunctionOnSet(f, (S \cup A) \cup {x}) = SumFunctionOnSet(f, S) + (f[x] + SumFunctionOnSet(f, A))
    BY <1>0, <2>3, <2>5, <2>6
  <2> QED BY <2>2, <2>4, <2>7
<1> HIDE DEF G
<1>3. T \in G
  BY <1>1, <1>2, SetInduction
<1> QED BY <1>3 DEF G

\* The sets P[b] are finite, have nothing in common, and make up S.
Parts(P, B, S) ==
  /\ \A b \in B : IsFiniteSet(P[b]) /\ P[b] \subseteq S
  /\ \A b, c \in B : b # c => P[b] \cap P[c] = {}
  /\ \A a \in S : \E b \in B : a \in P[b]

\* The parts P[b] of a set, summed one by one.
LEMMA SumByParts ==
  ASSUME NEW B, IsFiniteSet(B), NEW S, NEW P, Parts(P, B, S),
         NEW f, \A a \in S : f[a] \in Int,
         NEW g, \A b \in B : g[b] = SumFunctionOnSet(f, P[b])
  PROVE  IsFiniteSet(S) /\ SumFunctionOnSet(g, B) = SumFunctionOnSet(f, S)
<1>0. /\ UNION {P[b] : b \in B} = S
      /\ \A b \in B : IsFiniteSet(P[b]) /\ \A a \in P[b] : f[a] \in Int
      /\ \A b, c \in B : b # c => P[b] \cap P[c] = {}
  BY DEF Parts
<1> DEFINE U(A) == UNION {P[b] : b \in A}
           G == {A \in SUBSET B : IsFiniteSet(U(A)) /\ SumFunctionOnSet(g, A) = SumFunctionOnSet(f, U(A))}
<1>1. {} \in G
  <2> U({}) = {}
    OBVIOUS
  <2> QED BY SumEmpty, FS_EmptySet
<1>2. ASSUME NEW A \in SUBSET B, NEW x \in B, A \in G, x \notin A
      PROVE  A \cup {x} \in G
  <2>1. U(A \cup {x}) = U(A) \cup P[x] /\ U(A) \cap P[x] = {}
    BY <1>0, <1>2
  <2>2. IsFiniteSet(A) /\ IsFiniteSet(U(A)) /\ IsFiniteSet(P[x])
    BY <1>0, <1>2, FS_Subset
  <2>3. \A b \in B : g[b] \in Int
    BY <1>0, SumType
  <2>4. SumFunctionOnSet(g, A \cup {x}) = g[x] + SumFunctionOnSet(g, A)
    BY <1>2, <2>2, <2>3, SumAdd
  <2>5. \A a \in U(A) \cup P[x] : f[a] \in Int
    BY <1>0
  <2>6. IsFiniteSet(U(A) \cup P[x])
    BY <2>2, FS_Union
  <2>7. /\ SumFunctionOnSet(f, U(A) \cup P[x]) = SumFunctionOnSet(f, U(A)) + SumFunctionOnSet(f, P[x])
        /\ SumFunctionOnSet(f, U(A)) \in Int
    <3> HIDE DEF U
    <3> QED BY <2>1, <2>2, <2>5, SumUnion, SumType
  <2>8. SumFunctionOnSet(g, A) = SumFunctionOnSet(f, U(A))
    BY <1>2
  <2> HIDE DEF U
  <2>9. SumFunctionOnSet(g, A \cup {x}) = SumFunctionOnSet(f, U(A \cup {x}))
    <3>1. g[x] = SumFunctionOnSet(f, P[x]) /\ g[x] \in Int
      BY <2>3
    <3>2. SumFunctionOnSet(f, U(A) \cup P[x]) = SumFunctionOnSet(f, U(A)) + g[x]
      BY <2>7, <3>1
    <3>3. SumFunctionOnSet(g, A \cup {x}) = g[x] + SumFunctionOnSet(f, U(A))
      BY <2>4, <2>8
    <3>4. g[x] + SumFunctionOnSet(f, U(A)) = SumFunctionOnSet(f, U(A)) + g[x]
      BY <2>7, <3>1
    <3> QED BY <2>1, <3>2, <3>3, <3>4
  <2> QED BY <2>1, <2>6, <2>9
<1> HIDE DEF G
<1>3. B \in G
  BY <1>1, <1>2, SetInduction
<1> QED BY <1>0, <1>3 DEF G

\* The whole function is summed over its domain.
LEMMA SumOfFunction == \A f : SumFunction(f) = SumFunctionOnSet(f, DOMAIN f)
BY DEF SumFunction

\* The sum of a function defined on S.
LEMMA SumOfDefined ==
  ASSUME NEW S, IsFiniteSet(S), NEW f, \A a \in S : f[a] \in Int
  PROVE  SumFunction([a \in S |-> f[a]]) = SumFunctionOnSet(f, S)
<1> DEFINE g == [a \in S |-> f[a]]
<1>1. DOMAIN g = S /\ \A a \in S : g[a] = f[a]
  OBVIOUS
<1> HIDE DEF g
<1>2. SumFunctionOnSet(g, S) = SumFunctionOnSet(f, S)
  BY <1>1, SumEqual
<1> QED BY <1>1, <1>2, SumOfFunction DEF g

\* The same number in every place.
LEMMA SumConstant ==
  ASSUME NEW S, IsFiniteSet(S), NEW f, NEW n \in Int, \A a \in S : f[a] = n
  PROVE  SumFunctionOnSet(f, S) = n * Cardinality(S)
<1> DEFINE G == {A \in SUBSET S : SumFunctionOnSet(f, A) = n * Cardinality(A)}
<1>1. {} \in G
  BY SumEmpty, FS_EmptySet
<1>2. ASSUME NEW A \in SUBSET S, NEW x \in S, A \in G, x \notin A
      PROVE  A \cup {x} \in G
  <2>1. IsFiniteSet(A) /\ (\A a \in A \cup {x} : f[a] \in Int) /\ f[x] = n
    BY FS_Subset
  <2>2. SumFunctionOnSet(f, A \cup {x}) = n + SumFunctionOnSet(f, A)
    BY <1>2, <2>1, SumAdd
  <2>3. Cardinality(A \cup {x}) = Cardinality(A) + 1 /\ Cardinality(A) \in Nat
    BY <1>2, <2>1, FS_AddElement, FS_CardinalityType
  <2>4. n * (Cardinality(A) + 1) = n + n * Cardinality(A)
    BY <2>3
  <2> QED BY <1>2, <2>2, <2>3, <2>4
<1> HIDE DEF G
<1>3. S \in G
  BY <1>1, <1>2, SetInduction
<1> QED BY <1>3 DEF G

\* h gives the elements of S their names in T.
Renames(h, S, T) ==
  /\ \A a, b \in S : h[a] = h[b] => a = b
  /\ \A a \in S : h[a] \in T
  /\ \A b \in T : \E a \in S : h[a] = b

\* The elements of a set under other names.
LEMMA SumRenamed ==
  ASSUME NEW S, IsFiniteSet(S), NEW T, NEW h, Renames(h, S, T),
         NEW f, NEW g, \A a \in S : g[a] \in Int /\ f[h[a]] = g[a]
  PROVE  IsFiniteSet(T) /\ SumFunctionOnSet(f, T) = SumFunctionOnSet(g, S)
<1>0. {h[a] : a \in S} = T /\ \A a, b \in S : h[a] = h[b] => a = b
  BY DEF Renames
<1> DEFINE I(A) == {h[a] : a \in A}
           G == {A \in SUBSET S : IsFiniteSet(I(A)) /\ SumFunctionOnSet(f, I(A)) = SumFunctionOnSet(g, A)}
<1>1. {} \in G
  <2> I({}) = {}
    OBVIOUS
  <2> QED BY SumEmpty, FS_EmptySet
<1>2. ASSUME NEW A \in SUBSET S, NEW x \in S, A \in G, x \notin A
      PROVE  A \cup {x} \in G
  <2>1. I(A \cup {x}) = I(A) \cup {h[x]} /\ h[x] \notin I(A)
    BY <1>0, <1>2
  <2>2. IsFiniteSet(A) /\ IsFiniteSet(I(A)) /\ \A a \in A \cup {x} : g[a] \in Int
    BY <1>2, FS_Subset
  <2>3. \A b \in I(A) \cup {h[x]} : f[b] \in Int
    OBVIOUS
  <2>4. SumFunctionOnSet(g, A \cup {x}) = g[x] + SumFunctionOnSet(g, A)
    BY <1>2, <2>2, SumAdd
  <2>5. SumFunctionOnSet(f, I(A)) = SumFunctionOnSet(g, A)
    BY <1>2
  <2> HIDE DEF I
  <2>6. SumFunctionOnSet(f, I(A) \cup {h[x]}) = f[h[x]] + SumFunctionOnSet(f, I(A))
    BY <2>1, <2>2, <2>3, SumAdd
  <2>7. f[h[x]] = g[x]
    OBVIOUS
  <2>8. IsFiniteSet(I(A) \cup {h[x]})
    BY <2>2, FS_AddElement
  <2> QED BY <2>1, <2>4, <2>5, <2>6, <2>7, <2>8
<1> HIDE DEF G
<1>3. S \in G
  BY <1>1, <1>2, SetInduction
<1> QED BY <1>0, <1>3 DEF G

\* Natural numbers have a natural sum, not smaller than any of them.
LEMMA SumNatural ==
  ASSUME NEW S, IsFiniteSet(S), NEW f, \A a \in S : f[a] \in Nat
  PROVE  /\ SumFunctionOnSet(f, S) \in Nat
         /\ \A a \in S : f[a] <= SumFunctionOnSet(f, S)
<1> DEFINE G == {A \in SUBSET S : SumFunctionOnSet(f, A) \in Nat}
<1>1. {} \in G
  BY SumEmpty
<1>2. ASSUME NEW A \in SUBSET S, NEW x \in S, A \in G, x \notin A
      PROVE  A \cup {x} \in G
  <2>1. IsFiniteSet(A) /\ (\A a \in A \cup {x} : f[a] \in Int) /\ f[x] \in Nat
    BY FS_Subset
  <2>2. SumFunctionOnSet(f, A \cup {x}) = f[x] + SumFunctionOnSet(f, A)
    BY <1>2, <2>1, SumAdd
  <2> QED BY <1>2, <2>1, <2>2
<1> HIDE DEF G
<1>3. \A A \in SUBSET S : A \in G
  <2> TAKE A \in SUBSET S
  <2>1. IsFiniteSet(A)
    BY FS_Subset
  <2>2. \A B \in SUBSET A, x \in A : B \in G /\ x \notin B => B \cup {x} \in G
    BY <1>2
  <2> QED BY <1>1, <2>1, <2>2, SetInduction
<1>4. ASSUME NEW a \in S PROVE f[a] <= SumFunctionOnSet(f, S)
  <2>1. SumFunctionOnSet(f, S) = f[a] + SumFunctionOnSet(f, S \ {a})
    <3> \A b \in S : f[b] \in Int
      OBVIOUS
    <3> QED BY SumRemove
  <2>2. SumFunctionOnSet(f, S \ {a}) \in Nat
    BY <1>3 DEF G
  <2> QED BY <2>1, <2>2
<1>5. SumFunctionOnSet(f, S) \in Nat
  BY <1>3 DEF G
<1> QED BY <1>4, <1>5

\* f and g are numbers on S and differ at x at most.
Differ(f, g, S, x) ==
  /\ x \in S
  /\ \A a \in S : f[a] \in Int /\ g[a] \in Int
  /\ \A a \in S : a # x => f[a] = g[a]

\* One summand changes.
LEMMA SumChanged ==
  ASSUME NEW S, IsFiniteSet(S), NEW x, NEW f, NEW g, Differ(f, g, S, x)
  PROVE  SumFunctionOnSet(g, S) = (SumFunctionOnSet(f, S) - f[x]) + g[x]
<1>0. /\ x \in S /\ \A a \in S : f[a] \in Int /\ g[a] \in Int
      /\ \A a \in S : a # x => f[a] = g[a]
  BY DEF Differ
<1>1. IsFiniteSet(S \ {x})
  BY FS_Subset
<1>2. SumFunctionOnSet(f, S) = f[x] + SumFunctionOnSet(f, S \ {x})
  <2>1. \A a \in S : f[a] \in Int
    BY <1>0
  <2> QED BY <1>0, <2>1, SumRemove
<1>3. SumFunctionOnSet(g, S) = g[x] + SumFunctionOnSet(g, S \ {x})
  <2>1. \A a \in S : g[a] \in Int
    BY <1>0
  <2> QED BY <1>0, <2>1, SumRemove
<1> DEFINE T == S \ {x}
<1>4. \A a \in T : f[a] = g[a] /\ g[a] \in Int
  BY <1>0
<1> HIDE DEF T
<1>5. SumFunctionOnSet(f, T) = SumFunctionOnSet(g, T) /\ SumFunctionOnSet(g, T) \in Int
  BY <1>1, <1>4, SumEqual, SumType DEF T
<1>6. f[x] \in Int /\ g[x] \in Int
  BY <1>0
<1> QED
  BY <1>2, <1>3, <1>5, <1>6 DEF T

\* All summands but one are zero.
LEMMA SumSingle ==
  ASSUME NEW S, IsFiniteSet(S), NEW x \in S, NEW f, f[x] \in Int,
         \A a \in S : a # x => f[a] = 0
  PROVE  SumFunctionOnSet(f, S) = f[x]
<1> DEFINE T == S \ {x}
<1>1. IsFiniteSet(T) /\ \A a \in T : f[a] = 0
  BY FS_Subset
<1>2. \A a \in S : f[a] \in Int
  OBVIOUS
<1>3. SumFunctionOnSet(f, S) = f[x] + SumFunctionOnSet(f, T)
  BY <1>2, SumRemove
<1> HIDE DEF T
<1>4. SumFunctionOnSet(f, T) = 0
  BY <1>1, SumZero
<1> QED
  BY <1>3, <1>4

-----------------------------------------------------------------------------
\* The number of smaller elements.
Rank(M, c) == Cardinality({d \in M : d < c})

\* The elements of a finite set of numbers are numbered from zero in their order.
LEMMA Ranks ==
  ASSUME NEW M, IsFiniteSet(M), M \subseteq Int
  PROVE  /\ \A c \in M : Rank(M, c) \in 0..(Cardinality(M) - 1)
         /\ \A c, d \in M : Rank(M, c) = Rank(M, d) => c = d
         /\ \A r \in 0..(Cardinality(M) - 1) : \E c \in M : Rank(M, c) = r
<1> DEFINE m == Cardinality(M)
           below(c) == {d \in M : d < c}
<1>0. m \in Nat
  BY FS_CardinalityType
<1>1. ASSUME NEW c \in M PROVE Rank(M, c) \in 0..(m - 1)
  <2>1. below(c) \in SUBSET M /\ below(c) # M
    OBVIOUS
  <2>2. IsFiniteSet(below(c)) /\ Cardinality(below(c)) <= m /\ (m = Cardinality(below(c)) => M = below(c))
    BY <2>1, FS_Subset
  <2>3. Cardinality(below(c)) \in Nat
    BY <2>2, FS_CardinalityType
  <2> QED BY <1>0, <2>1, <2>2, <2>3 DEF Rank
<1>2. ASSUME NEW c \in M, NEW d \in M, c < d PROVE Rank(M, c) # Rank(M, d)
  <2>1. below(c) \in SUBSET below(d) /\ c \in below(d) /\ c \notin below(c)
    <3>1. \A e \in M : e < c => e < d
      BY <1>2
    <3>2. ~(c < c)
      OBVIOUS
    <3> QED BY <1>2, <3>1, <3>2
  <2>2. IsFiniteSet(below(d))
    BY FS_Subset
  <2>3. Cardinality(below(d)) = Cardinality(below(c)) => below(d) = below(c)
    BY <2>1, <2>2, FS_Subset
  <2> QED BY <2>1, <2>3 DEF Rank
<1>3. ASSUME NEW c \in M, NEW d \in M, Rank(M, c) = Rank(M, d) PROVE c = d
  <2>1. c < d \/ d < c \/ c = d
    OBVIOUS
  <2> QED BY <1>2, <1>3, <2>1
<1>4. ASSUME NEW r \in 0..(m - 1) PROVE \E c \in M : Rank(M, c) = r
  <2> DEFINE f == [c \in M |-> Rank(M, c)]
             T == 0..(m - 1)
  <2>1. IsFiniteSet(T) /\ Cardinality(T) = m
    <3>1. 0 \in Int /\ m - 1 \in Int
      BY <1>0
    <3>2. Cardinality(T) = IF 0 > m - 1 THEN 0 ELSE (m - 1) - 0 + 1
      BY <3>1, FS_Interval
    <3> QED BY <1>0, <3>1, <3>2, FS_Interval
  <2>2. f \in [M -> T]
    BY <1>1
  <2>3. \A c, d \in M : f[c] = f[d] => c = d
    BY <1>3
  <2>4. f \in Injection(M, T)
    <3> HIDE DEF f
    <3> QED BY <2>2, <2>3, Fun_IsInj
  <2>5. f \in Surjection(M, T)
    <3> HIDE DEF f, T
    <3>1. Cardinality(M) = Cardinality(T)
      BY <2>1
    <3> QED BY <2>1, <2>4, <3>1, FS_Injection
  <2>6. \E c \in M : f[c] = r
    <3>1. \A t \in T : \E c \in M : f[c] = t
      <4> HIDE DEF f, T
      <4> QED BY <2>5, Fun_SurjectionProperties
    <3> HIDE DEF f
    <3> QED BY <3>1
  <2> QED BY <2>6
<1> QED BY <1>1, <1>3, <1>4

-----------------------------------------------------------------------------
(***************************************************************************)
(* Sequences laid end to end: what FlattenSeq of the community modules     *)
(* returns.                                                                *)
(***************************************************************************)
\* F[m] are the first m sequences of S, up to n, end to end.
Laid(F, S, n) == F = [i \in 1..n |-> IF i = 1 THEN S[i] ELSE F[i - 1] \o S[i]]

LEMMA LaidExists ==
  ASSUME NEW S, NEW n \in Nat
  PROVE  \E F : Laid(F, S, n)
<1> DEFINE G == {m \in Nat : \E F : Laid(F, S, m)}
<1>1. 0 \in G
  <2>1. Laid([i \in 1..0 |-> 0], S, 0)
    BY DEF Laid
  <2> QED BY <2>1
<1>2. ASSUME NEW m \in Nat, m \in G PROVE m + 1 \in G
  <2>1. PICK F : Laid(F, S, m)
    BY <1>2
  <2> DEFINE H == [i \in 1..m + 1 |-> IF i \in 1..m THEN F[i]
                                      ELSE IF i = 1 THEN S[i] ELSE F[i - 1] \o S[i]]
  <2>2. ASSUME NEW i \in 1..m + 1
        PROVE  H[i] = IF i = 1 THEN S[i] ELSE H[i - 1] \o S[i]
    <3>1. CASE i \in 1..m
      <4>1. F[i] = IF i = 1 THEN S[i] ELSE F[i - 1] \o S[i]
        BY <2>1, <3>1 DEF Laid
      <4>2. H[i] = F[i] /\ (i # 1 => H[i - 1] = F[i - 1])
        BY <3>1
      <4> QED BY <4>1, <4>2
    <3>2. CASE i \notin 1..m
      <4>1. i # 1 => i - 1 \in 1..m
        BY <3>2
      <4>2. i # 1 => H[i - 1] = F[i - 1]
        BY <4>1
      <4> QED BY <3>2, <4>2
    <3> QED BY <3>1, <3>2
  <2>3. H = [i \in 1..m + 1 |-> H[i]]
    OBVIOUS
  <2> HIDE DEF H
  <2>4. Laid(H, S, m + 1)
    BY <2>2, <2>3 DEF Laid
  <2> QED BY <2>4
<1>3. n \in G
  <2> HIDE DEF G
  <2> QED BY <1>1, <1>2, NaturalInduction
<1> QED BY <1>3

LEMMA LaidAt ==
  ASSUME NEW F, NEW S, NEW n \in Nat, Laid(F, S, n), NEW m \in 1..n
  PROVE  F[m] = IF m = 1 THEN S[m] ELSE F[m - 1] \o S[m]
BY DEF Laid

\* What a sequence is behind another one.
LEMMA Behind ==
  ASSUME NEW T, NEW s \in Seq(T), NEW t \in Seq(T), NEW u, u = s \o t
  PROVE  /\ u \in Seq(T) /\ Len(u) = Len(s) + Len(t) /\ Len(s) \in Nat /\ Len(t) \in Nat
         /\ \A j \in 1..Len(s) : u[j] = s[j]
         /\ \A j \in 1..Len(t) : u[Len(s) + j] = t[j]
OBVIOUS

\* How many elements are before each of the sequences.
Offsets(b, S) ==
  /\ b \in [1..Len(S) + 1 -> Nat] /\ b[1] = 0
  /\ \A k \in 1..Len(S) : b[k + 1] = b[k] + Len(S[k])

\* f has the elements of the first m sequences where they belong.
EndToEnd(f, b, S, m) ==
  \A k \in 1..m : \A j \in 1..Len(S[k]) : b[k] + j \in 1..Len(f) /\ f[b[k] + j] = S[k][j]

LEMMA LaidInOrder ==
  ASSUME NEW T, NEW S \in Seq(Seq(T)), NEW F, Laid(F, S, Len(S)), Len(S) # 0
  PROVE  /\ F[Len(S)] \in Seq(T)
         /\ \E b : /\ Offsets(b, S) /\ Len(F[Len(S)]) = b[Len(S) + 1]
                   /\ EndToEnd(F[Len(S)], b, S, Len(S))
<1>0. PICK n \in Nat : n = Len(S) /\ n # 0 /\ Laid(F, S, n)
  OBVIOUS
<1>1. \A k \in 1..n : S[k] \in Seq(T) /\ Len(S[k]) \in Nat
  <2>1. \A k \in 1..n : S[k] \in Seq(T)
    BY <1>0
  <2> QED BY <2>1
<1> DEFINE b == [k \in 1..n + 1 |-> IF k = 1 THEN 0 ELSE Len(F[k - 1])]
           G == {m \in Nat : m \in 1..n =>
                   /\ F[m] \in Seq(T) /\ b[m] \in Nat
                   /\ Len(F[m]) = b[m] + Len(S[m])
                   /\ EndToEnd(F[m], b, S, m)}
<1>2. \A m \in 1..n : b[m + 1] = Len(F[m])
  BY <1>0
<1>3. b[1] = 0
  BY <1>0
<1>4. ASSUME NEW m \in 1..n, m = 1 PROVE m \in G
  <2>1. F[m] = S[m]
    BY <1>0, <1>4, LaidAt
  <2>2. b[m] = 0
    BY <1>3, <1>4
  <2>3. F[m] \in Seq(T) /\ Len(F[m]) = b[m] + Len(S[m])
    BY <1>1, <2>1, <2>2
  <2>4. EndToEnd(F[m], b, S, m)
    <3> SUFFICES ASSUME NEW k \in 1..m, NEW j \in 1..Len(S[k])
                 PROVE  b[k] + j \in 1..Len(F[m]) /\ F[m][b[k] + j] = S[k][j]
      BY DEF EndToEnd
    <3>1. k = m
      BY <1>4
    <3> HIDE DEF b
    <3> QED BY <1>1, <2>1, <2>2, <3>1
  <2> HIDE DEF b
  <2> QED BY <2>2, <2>3, <2>4
<1>5. ASSUME NEW m \in Nat, m \in G, m # 0, m + 1 \in 1..n PROVE m + 1 \in G
  <2>0. m \in 1..n /\ (m + 1) - 1 = m /\ m + 1 # 1
    BY <1>5
  <2>1. F[m] \in Seq(T) /\ EndToEnd(F[m], b, S, m)
    <3> HIDE DEF b
    <3> QED BY <1>5, <2>0
  <2>2. F[m + 1] = F[m] \o S[m + 1]
    <3>1. PICK q \in 1..n : q = m + 1
      BY <1>5
    <3>2. F[q] = IF q = 1 THEN S[q] ELSE F[q - 1] \o S[q]
      <4>1. n \in Nat /\ Laid(F, S, n) /\ q \in 1..n
        BY <1>0, <3>1
      <4> QED BY <4>1, LaidAt
    <3> QED BY <2>0, <3>1, <3>2
  <2>3. Len(F[m]) \in Nat /\ b[m + 1] = Len(F[m])
    <3>1. b[m + 1] = Len(F[m])
      BY <1>2, <2>0
    <3>2. Len(F[m]) \in Nat
      BY <2>1
    <3> QED BY <3>1, <3>2
  <2> HIDE DEF b
  <2>4. PICK l \in Nat : l = Len(F[m])
    BY <2>3
  <2>5. S[m + 1] \in Seq(T) /\ Len(S[m + 1]) \in Nat
    BY <1>1, <1>5
  <2>6. /\ F[m + 1] \in Seq(T) /\ Len(F[m + 1]) = l + Len(S[m + 1])
        /\ \A j \in 1..l : F[m + 1][j] = F[m][j]
        /\ \A j \in 1..Len(S[m + 1]) : F[m + 1][l + j] = S[m + 1][j]
    <3>1. PICK s \in Seq(T) : s = F[m]
      BY <2>1
    <3>2. PICK t \in Seq(T) : t = S[m + 1]
      BY <2>5
    <3>3. PICK u : u = F[m + 1]
      OBVIOUS
    <3>4. u = s \o t
      BY <2>2, <3>1, <3>2, <3>3
    <3>5. /\ u \in Seq(T) /\ Len(u) = Len(s) + Len(t)
          /\ \A j \in 1..Len(s) : u[j] = s[j]
          /\ \A j \in 1..Len(t) : u[Len(s) + j] = t[j]
      BY <3>4, Behind
    <3> QED BY <2>4, <3>1, <3>2, <3>3, <3>5
  <2>7. EndToEnd(F[m + 1], b, S, m + 1)
    <3> SUFFICES ASSUME NEW k \in 1..m + 1, NEW j \in 1..Len(S[k])
                 PROVE  b[k] + j \in 1..Len(F[m + 1]) /\ F[m + 1][b[k] + j] = S[k][j]
      BY DEF EndToEnd
    <3>1. CASE k = m + 1
      <4>1. b[k] = l /\ j \in 1..Len(S[m + 1])
        BY <2>3, <2>4, <3>1
      <4> QED BY <2>5, <2>6, <3>1, <4>1
    <3>2. CASE k # m + 1
      <4>1. k \in 1..m
        BY <3>2
      <4>2. b[k] + j \in 1..l /\ F[m][b[k] + j] = S[k][j]
        BY <2>1, <2>4, <4>1 DEF EndToEnd
      <4>3. b[k] + j \in 1..Len(F[m + 1])
        BY <2>5, <2>6, <4>2
      <4> QED BY <2>6, <4>2, <4>3
    <3> QED BY <3>1, <3>2
  <2>8. b[m + 1] \in Nat /\ Len(F[m + 1]) = b[m + 1] + Len(S[m + 1])
    BY <2>3, <2>4, <2>6
  <2> QED BY <2>6, <2>7, <2>8
<1>6. \A m \in 1..n : m \in G
  <2>1. 0 \in G
    OBVIOUS
  <2>2. ASSUME NEW m \in Nat, m \in G PROVE m + 1 \in G
    <3>1. CASE m + 1 \notin 1..n
      <4>1. m + 1 \in Nat
        OBVIOUS
      <4> QED BY <3>1, <4>1
    <3>2. CASE m + 1 \in 1..n /\ m = 0
      <4>1. m + 1 \in 1..n /\ m + 1 = 1
        BY <3>2
      <4> HIDE DEF G
      <4> QED BY <1>4, <4>1
    <3>3. CASE m + 1 \in 1..n /\ m # 0
      BY <1>5, <2>2, <3>3
    <3> QED BY <3>1, <3>2, <3>3
  <2> HIDE DEF G
  <2>3. \A m \in Nat : m \in G
    BY <2>1, <2>2, NaturalInduction
  <2> QED BY <2>3
<1>7. \A m \in 1..n : F[m] \in Seq(T) /\ b[m] \in Nat /\ Len(F[m]) = b[m] + Len(S[m])
                      /\ EndToEnd(F[m], b, S, m)
  <2> HIDE DEF b
  <2> QED BY <1>6
<1>8. Offsets(b, S)
  <2>1. \A k \in 1..n + 1 : b[k] \in Nat
    <3> SUFFICES ASSUME NEW k \in 1..n + 1 PROVE b[k] \in Nat
      OBVIOUS
    <3>1. CASE k = 1
      BY <3>1
    <3>2. CASE k # 1
      <4>1. k - 1 \in 1..n
        BY <3>2
      <4>2. F[k - 1] \in Seq(T)
        BY <1>7, <4>1
      <4> QED BY <3>2, <4>2
    <3> QED BY <3>1, <3>2
  <2>2. b \in [1..n + 1 -> Nat]
    BY <2>1
  <2>3. \A k \in 1..n : b[k + 1] = b[k] + Len(S[k])
    <3> HIDE DEF b
    <3> QED BY <1>2, <1>7
  <2> HIDE DEF b
  <2> QED BY <1>0, <1>3, <2>2, <2>3 DEF Offsets
<1> HIDE DEF b
<1>9. n \in 1..n
  BY <1>0
<1> QED BY <1>0, <1>2, <1>7, <1>8, <1>9

\* Every element of every sequence of S is behind those of the sequences before
\* it and those before it in its own.
LEMMA Flattened ==
  ASSUME NEW T, NEW S \in Seq(Seq(T))
  PROVE  /\ FlattenSeq(S) \in Seq(T)
         /\ \E b : /\ Offsets(b, S) /\ Len(FlattenSeq(S)) = b[Len(S) + 1]
                   /\ EndToEnd(FlattenSeq(S), b, S, Len(S))
<1>1. CASE Len(S) = 0
  <2>1. FlattenSeq(S) = << >>
    <3>1. FlattenSeq(S) = S
      BY <1>1 DEF FlattenSeq
    <3> QED BY <1>1, <3>1
  <2>2. Offsets([k \in 1..1 |-> 0], S)
    BY <1>1 DEF Offsets
  <2> QED BY <1>1, <2>1, <2>2 DEF EndToEnd
<1>2. CASE Len(S) # 0
  <2>1. FlattenSeq(S) = (CHOOSE F : Laid(F, S, Len(S)))[Len(S)]
    BY <1>2 DEF FlattenSeq, Laid
  <2>2. PICK F : F = CHOOSE G : Laid(G, S, Len(S))
    OBVIOUS
  <2>3. Laid(F, S, Len(S))
    <3>1. Len(S) \in Nat
      OBVIOUS
    <3> QED BY <2>2, <3>1, LaidExists
  <2> QED BY <1>2, <2>1, <2>2, <2>3, LaidInOrder
<1> QED BY <1>1, <1>2
=============================================================================

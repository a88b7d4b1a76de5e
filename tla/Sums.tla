-------------------------------- MODULE Sums --------------------------------
(***************************************************************************)
(* SumFunctionOnSet over finite sets: what the totals of the settlements   *)
(* and of the ledger need.                                                 *)
(*                                                                         *)
(* The sum is the recursive function iter of MapThenFoldSet, which adds    *)
(* the elements in the order CHOOSE picks them.  The library's induction   *)
(* theorems take a predicate as a parameter and cannot be instantiated, so *)
(* induction is by counterexample: the subsets that violate a claim, if    *)
(* there were any, would have a smallest one among them (SmallestSubset).  *)
(***************************************************************************)
EXTENDS Functions, FiniteSets, FiniteSetTheorems, TLAPS

\* A non-empty set of subsets of a finite set has a smallest member.
LEMMA SmallestSubset ==
  ASSUME NEW U, IsFiniteSet(U),
         NEW B, B \subseteq SUBSET U, B # {}
  PROVE  \E s \in B : \A t \in SUBSET s : t # s => t \notin B
<1> DEFINE R == StrictSubsetOrdering(U)
           F == FiniteSubsetsOf(U)
<1>1. IsWellFoundedOn(R, F)
  BY FS_StrictSubsetOrderingWellFounded
<1>2. B \subseteq F
  <2>1. \A s \in SUBSET U : IsFiniteSet(s)
    BY FS_Subset
  <2> QED BY <2>1 DEF FiniteSubsetsOf
<1> HIDE DEF R, F
<1>3. PICK s \in B : \A t \in B : ~ (<<t, s>> \in R)
  BY <1>1, <1>2, WFMin
<1>4. ASSUME NEW t \in SUBSET s, t # s, t \in B PROVE FALSE
  <2>1. <<t, s>> \in R
    BY <1>4, <1>2 DEF R, StrictSubsetOrdering, F, FiniteSubsetsOf
  <2> QED BY <2>1, <1>3, <1>4
<1> QED BY <1>4

-----------------------------------------------------------------------------
\* The recursion the sum is defined by: Adds(f, S, g) says that g satisfies it
\* on the subsets of S, Adding(f, S) is the function CHOOSE takes for iter.
Chosen(s) == CHOOSE y \in s : TRUE

Added(f, g, s) ==
    IF s = {} THEN 0 ELSE f[Chosen(s)] + g[s \ {Chosen(s)}]

Adds(f, S, g) == g = [s \in SUBSET S |-> Added(f, g, s)]

Adding(f, S) == CHOOSE g : Adds(f, S, g)

\* The sum of the library, unfolded down to its recursive function.
LEMMA SumIsAdding ==
  ASSUME NEW f, NEW S
  PROVE  SumFunctionOnSet(f, S) = Adding(f, S)[S]
BY DEF SumFunctionOnSet, FoldFunctionOnSet, MapThenFoldSet, Adding, Adds,
       Added, Chosen

\* The sum of a whole function.
LEMMA SumIsOverDomain ==
  ASSUME NEW f PROVE SumFunction(f) = SumFunctionOnSet(f, DOMAIN f)
BY DEF SumFunction, SumFunctionOnSet, FoldFunction

\* CHOOSE takes an element of the set.
LEMMA ChosenIsMember ==
  ASSUME NEW s, s # {} PROVE Chosen(s) \in s
BY DEF Chosen

\* Two functions that satisfy the recursion agree where both are defined.
LEMMA AddsAlike ==
  ASSUME NEW f, NEW S, NEW T, NEW g, NEW h, IsFiniteSet(S),
         Adds(f, S, g), Adds(f, T, h)
  PROVE  \A s \in SUBSET S : s \subseteq T => g[s] = h[s]
<1> DEFINE B == {s \in SUBSET S : s \subseteq T /\ g[s] # h[s]}
<1>1. SUFFICES ASSUME B # {} PROVE FALSE
  OBVIOUS
<1>2. PICK s \in B : \A t \in SUBSET s : t # s => t \notin B
  <2>1. B \subseteq SUBSET S
    OBVIOUS
  <2> HIDE DEF B
  <2> QED BY <1>1, <2>1, SmallestSubset
<1>3. g[s] = Added(f, g, s) /\ h[s] = Added(f, h, s)
  BY <1>2 DEF Adds
<1>4. CASE s = {}
  BY <1>2, <1>3, <1>4 DEF Added
<1>5. CASE s # {}
  <2> DEFINE t == s \ {Chosen(s)}
  <2>1. t \in SUBSET s /\ t # s
    BY <1>5, ChosenIsMember
  <2>2. g[t] = h[t]
    BY <2>1, <1>2
  <2> QED BY <2>2, <1>2, <1>3, <1>5 DEF Added
<1> QED BY <1>4, <1>5

\* There is a function that satisfies the recursion: CHOOSE takes one.
LEMMA AddingExists ==
  ASSUME NEW f, NEW S, IsFiniteSet(S)
  PROVE  Adds(f, S, Adding(f, S))
<1> DEFINE B == {s \in SUBSET S : ~ Adds(f, s, Adding(f, s))}
<1>1. SUFFICES ASSUME B # {} PROVE FALSE
  OBVIOUS
<1>2. PICK s \in B : \A t \in SUBSET s : t # s => t \notin B
  <2>1. B \subseteq SUBSET S
    OBVIOUS
  <2> HIDE DEF B
  <2> QED BY <1>1, <2>1, SmallestSubset
<1> DEFINE below(t) == Adding(f, t)[t]
           h == [t \in SUBSET s |->
                   IF t # s THEN below(t)
                   ELSE IF s = {} THEN 0
                   ELSE f[Chosen(s)] + below(s \ {Chosen(s)})]
<1>3. ASSUME NEW t \in SUBSET s PROVE h[t] = Added(f, h, t)
  <2>1. CASE t = {}
    <3>1. CASE t = s
      BY <2>1, <3>1 DEF Added
    <3>2. CASE t # s
      <4>1. Adds(f, t, Adding(f, t))
        BY <1>2, <3>2
      <4>2. Adding(f, t)[t] = Added(f, Adding(f, t), t)
        BY <4>1 DEF Adds
      <4> QED BY <4>2, <2>1, <3>2 DEF Added
    <3> QED BY <3>1, <3>2
  <2>2. CASE t # {}
    <3> DEFINE u == t \ {Chosen(t)}
    <3>1. u \in SUBSET t /\ u # t /\ u \in SUBSET s /\ u # s
      BY <2>2, ChosenIsMember
    <3>2. h[u] = below(u)
      BY <3>1
    <3>3. CASE t = s
      BY <3>2, <3>3, <2>2 DEF Added
    <3>4. CASE t # s
      <4>1. Adds(f, t, Adding(f, t)) /\ Adds(f, u, Adding(f, u))
        BY <1>2, <3>1, <3>4
      <4>2. Adding(f, t)[t] = Added(f, Adding(f, t), t)
        BY <4>1 DEF Adds
      <4>3. IsFiniteSet(u)
        BY <3>1, <1>2, FS_Subset
      <4> HIDE DEF u
      <4>4. Adding(f, t)[u] = Adding(f, u)[u]
        BY <4>1, <4>3, <3>1, AddsAlike
      <4> QED BY <4>2, <4>4, <3>2, <3>4, <2>2 DEF Added, u
    <3> QED BY <3>3, <3>4
  <2> QED BY <2>1, <2>2
<1> HIDE DEF h
<1>4. h = [t \in SUBSET s |-> Added(f, h, t)]
  <2>1. h = [t \in SUBSET s |-> h[t]]
    BY DEF h
  <2> QED BY <2>1, <1>3
<1>5. Adds(f, s, h)
  BY <1>4 DEF Adds
<1>6. Adds(f, s, Adding(f, s))
  BY <1>5 DEF Adding
<1> QED BY <1>6, <1>2

-----------------------------------------------------------------------------
\* The empty sum.
LEMMA SumOfNone ==
  ASSUME NEW f PROVE SumFunctionOnSet(f, {}) = 0
<1>1. Adds(f, {}, Adding(f, {}))
  BY AddingExists, FS_EmptySet
<1> QED BY <1>1, SumIsAdding DEF Adds, Added

\* The sum takes its chosen element first.
LEMMA SumStep ==
  ASSUME NEW f, NEW S, IsFiniteSet(S), S # {}
  PROVE  SumFunctionOnSet(f, S) =
           f[Chosen(S)] + SumFunctionOnSet(f, S \ {Chosen(S)})
<1> DEFINE T == S \ {Chosen(S)}
<1>1. IsFiniteSet(T) /\ T \subseteq S
  BY FS_Subset
<1>2. Adds(f, S, Adding(f, S)) /\ Adds(f, T, Adding(f, T))
  BY <1>1, AddingExists
<1>3. Adding(f, S)[S] = f[Chosen(S)] + Adding(f, S)[T]
  BY <1>2 DEF Adds, Added
<1> HIDE DEF T
<1>4. Adding(f, S)[T] = Adding(f, T)[T]
  BY <1>1, <1>2, AddsAlike
<1> QED BY <1>3, <1>4, SumIsAdding DEF T

\* A sum of integers is an integer.
LEMMA SumIsInt ==
  ASSUME NEW f, NEW S, IsFiniteSet(S), \A x \in S : f[x] \in Int
  PROVE  SumFunctionOnSet(f, S) \in Int
<1> DEFINE B == {s \in SUBSET S : SumFunctionOnSet(f, s) \notin Int}
<1>1. SUFFICES ASSUME B # {} PROVE FALSE
  OBVIOUS
<1>2. PICK s \in B : \A t \in SUBSET s : t # s => t \notin B
  <2>1. B \subseteq SUBSET S
    OBVIOUS
  <2> HIDE DEF B
  <2> QED BY <1>1, <2>1, SmallestSubset
<1>3. s # {}
  <2>1. SUFFICES ASSUME s = {} PROVE FALSE
    OBVIOUS
  <2>2. SumFunctionOnSet(f, s) = 0
    BY <2>1, SumOfNone
  <2> QED BY <1>2, <2>2
<1> DEFINE t == s \ {Chosen(s)}
<1>4. Chosen(s) \in s /\ t \in SUBSET s /\ t # s
  BY <1>3, ChosenIsMember
<1>5. IsFiniteSet(s)
  BY <1>2, FS_Subset
<1>6. SumFunctionOnSet(f, s) = f[Chosen(s)] + SumFunctionOnSet(f, t)
  BY <1>3, <1>5, SumStep
<1>7. SumFunctionOnSet(f, t) \in Int
  BY <1>2, <1>4
<1> QED BY <1>2, <1>4, <1>6, <1>7

\* A sum of natural numbers is a natural number.
LEMMA SumIsNat ==
  ASSUME NEW f, NEW S, IsFiniteSet(S), \A x \in S : f[x] \in Nat
  PROVE  SumFunctionOnSet(f, S) \in Nat
<1> DEFINE B == {s \in SUBSET S : SumFunctionOnSet(f, s) \notin Nat}
<1>1. SUFFICES ASSUME B # {} PROVE FALSE
  OBVIOUS
<1>2. PICK s \in B : \A t \in SUBSET s : t # s => t \notin B
  <2>1. B \subseteq SUBSET S
    OBVIOUS
  <2> HIDE DEF B
  <2> QED BY <1>1, <2>1, SmallestSubset
<1>3. s # {}
  <2>1. SUFFICES ASSUME s = {} PROVE FALSE
    OBVIOUS
  <2>2. SumFunctionOnSet(f, s) = 0
    BY <2>1, SumOfNone
  <2> QED BY <1>2, <2>2
<1> DEFINE t == s \ {Chosen(s)}
<1>4. Chosen(s) \in s /\ t \in SUBSET s /\ t # s
  BY <1>3, ChosenIsMember
<1>5. IsFiniteSet(s)
  BY <1>2, FS_Subset
<1>6. SumFunctionOnSet(f, s) = f[Chosen(s)] + SumFunctionOnSet(f, t)
  BY <1>3, <1>5, SumStep
<1>7. SumFunctionOnSet(f, t) \in Nat
  BY <1>2, <1>4
<1> QED BY <1>2, <1>4, <1>6, <1>7

\* Any element may be taken first: the order does not matter.
LEMMA SumWithout ==
  ASSUME NEW f, NEW S, IsFiniteSet(S), \A y \in S : f[y] \in Int, NEW x \in S
  PROVE  SumFunctionOnSet(f, S) = f[x] + SumFunctionOnSet(f, S \ {x})
<1> DEFINE Apart(s, y) ==
             SumFunctionOnSet(f, s) = f[y] + SumFunctionOnSet(f, s \ {y})
           B == {s \in SUBSET S : \E y \in s : ~ Apart(s, y)}
<1>1. SUFFICES ASSUME B # {} PROVE FALSE
  OBVIOUS
<1>2. PICK s \in B : \A t \in SUBSET s : t # s => t \notin B
  <2>1. B \subseteq SUBSET S
    OBVIOUS
  <2> HIDE DEF B
  <2> QED BY <1>1, <2>1, SmallestSubset
<1>3. PICK y \in s : ~ Apart(s, y)
  BY <1>2
<1> DEFINE c == Chosen(s)
           t == s \ {c}
<1>4. c \in s /\ t \in SUBSET s /\ t # s
  BY <1>3, ChosenIsMember
<1>5. IsFiniteSet(s) /\ s \subseteq S
  BY <1>2, FS_Subset
<1>6. Apart(s, c)
  BY <1>3, <1>5, SumStep
<1>7. y # c
  BY <1>3, <1>6
<1> DEFINE r == s \ {y}
           u == t \ {y}
<1>8. Apart(t, y) /\ Apart(r, c)
  <2>1. y \in t /\ c \in r /\ r \in SUBSET s /\ r # s
    BY <1>3, <1>4, <1>7
  <2> QED BY <2>1, <1>2, <1>4
<1>9. r \ {c} = u
  OBVIOUS
<1>10. f[y] \in Int /\ f[c] \in Int /\ SumFunctionOnSet(f, u) \in Int
  <2>1. IsFiniteSet(u) /\ u \subseteq S
    BY <1>5, FS_Subset
  <2> QED BY <2>1, <1>3, <1>4, <1>5, SumIsInt
<1> DEFINE su == SumFunctionOnSet(f, u)
           sr == SumFunctionOnSet(f, r)
           st == SumFunctionOnSet(f, t)
           ss == SumFunctionOnSet(f, s)
<1>11. ss = f[c] + st /\ st = f[y] + su /\ sr = f[c] + su
  BY <1>6, <1>8, <1>9
<1>12. ss # f[y] + sr
  BY <1>3
<1> HIDE DEF su, sr, st, ss, c
<1>13. su \in Int /\ f[y] \in Int /\ f[c] \in Int
  BY <1>10 DEF su
<1> QED BY <1>11, <1>12, <1>13

\* The sum depends on nothing but the terms.
LEMMA SumAlike ==
  ASSUME NEW f, NEW g, NEW S, IsFiniteSet(S), \A x \in S : f[x] = g[x]
  PROVE  SumFunctionOnSet(f, S) = SumFunctionOnSet(g, S)
<1> DEFINE B == {s \in SUBSET S : SumFunctionOnSet(f, s) # SumFunctionOnSet(g, s)}
<1>1. SUFFICES ASSUME B # {} PROVE FALSE
  OBVIOUS
<1>2. PICK s \in B : \A t \in SUBSET s : t # s => t \notin B
  <2>1. B \subseteq SUBSET S
    OBVIOUS
  <2> HIDE DEF B
  <2> QED BY <1>1, <2>1, SmallestSubset
<1>3. s # {}
  <2>1. SUFFICES ASSUME s = {} PROVE FALSE
    OBVIOUS
  <2>2. SumFunctionOnSet(f, s) = 0 /\ SumFunctionOnSet(g, s) = 0
    BY <2>1, SumOfNone
  <2> QED BY <1>2, <2>2
<1> DEFINE t == s \ {Chosen(s)}
<1>4. Chosen(s) \in s /\ t \in SUBSET s /\ t # s
  BY <1>3, ChosenIsMember
<1>5. IsFiniteSet(s)
  BY <1>2, FS_Subset
<1>6. /\ SumFunctionOnSet(f, s) = f[Chosen(s)] + SumFunctionOnSet(f, t)
      /\ SumFunctionOnSet(g, s) = g[Chosen(s)] + SumFunctionOnSet(g, t)
  BY <1>3, <1>5, SumStep
<1> QED BY <1>2, <1>4, <1>6

\* One term changes: the sum changes by the difference.
LEMMA SumChanged ==
  ASSUME NEW f, NEW g, NEW S, IsFiniteSet(S), NEW x \in S,
         \A y \in S : f[y] \in Int /\ g[y] \in Int,
         \A y \in S : y # x => g[y] = f[y]
  PROVE  SumFunctionOnSet(g, S) = SumFunctionOnSet(f, S) + (g[x] - f[x])
<1> DEFINE T == S \ {x}
<1>1. IsFiniteSet(T)
  BY FS_Subset
<1>2. SumFunctionOnSet(f, T) = SumFunctionOnSet(g, T)
  BY <1>1, SumAlike
<1>3. SumFunctionOnSet(f, T) \in Int
  BY <1>1, SumIsInt
<1>4. /\ SumFunctionOnSet(f, S) = f[x] + SumFunctionOnSet(f, T)
      /\ SumFunctionOnSet(g, S) = g[x] + SumFunctionOnSet(g, T)
  BY SumWithout
<1> HIDE DEF T
<1> QED BY <1>2, <1>3, <1>4

\* Smaller terms, smaller sum.
LEMMA SumAtMost ==
  ASSUME NEW f, NEW g, NEW S, IsFiniteSet(S),
         \A x \in S : f[x] \in Int /\ g[x] \in Int /\ f[x] <= g[x]
  PROVE  SumFunctionOnSet(f, S) <= SumFunctionOnSet(g, S)
<1> DEFINE B == {s \in SUBSET S : ~ (SumFunctionOnSet(f, s) <= SumFunctionOnSet(g, s))}
<1>1. SUFFICES ASSUME B # {} PROVE FALSE
  OBVIOUS
<1>2. PICK s \in B : \A t \in SUBSET s : t # s => t \notin B
  <2>1. B \subseteq SUBSET S
    OBVIOUS
  <2> HIDE DEF B
  <2> QED BY <1>1, <2>1, SmallestSubset
<1>3. s # {}
  <2>1. SUFFICES ASSUME s = {} PROVE FALSE
    OBVIOUS
  <2>2. SumFunctionOnSet(f, s) = 0 /\ SumFunctionOnSet(g, s) = 0
    BY <2>1, SumOfNone
  <2> QED BY <1>2, <2>2
<1> DEFINE t == s \ {Chosen(s)}
<1>4. Chosen(s) \in s /\ t \in SUBSET s /\ t # s
  BY <1>3, ChosenIsMember
<1>5. IsFiniteSet(s) /\ IsFiniteSet(t) /\ s \subseteq S /\ t \subseteq S
  BY <1>2, FS_Subset
<1>6. /\ SumFunctionOnSet(f, s) = f[Chosen(s)] + SumFunctionOnSet(f, t)
      /\ SumFunctionOnSet(g, s) = g[Chosen(s)] + SumFunctionOnSet(g, t)
  BY <1>3, <1>5, SumStep
<1>7. SumFunctionOnSet(f, t) \in Int /\ SumFunctionOnSet(g, t) \in Int
  BY <1>5, SumIsInt
<1>8. SumFunctionOnSet(f, t) <= SumFunctionOnSet(g, t)
  BY <1>2, <1>4
<1>9. f[Chosen(s)] \in Int /\ g[Chosen(s)] \in Int /\ f[Chosen(s)] <= g[Chosen(s)]
  BY <1>4, <1>5
<1> QED BY <1>2, <1>6, <1>7, <1>8, <1>9

\* A set split in two.
LEMMA SumOfParts ==
  ASSUME NEW f, NEW S, IsFiniteSet(S), NEW T, T \subseteq S,
         \A x \in S : f[x] \in Int
  PROVE  SumFunctionOnSet(f, S) =
           SumFunctionOnSet(f, T) + SumFunctionOnSet(f, S \ T)
<1> DEFINE B == {s \in SUBSET S : T \subseteq s /\ SumFunctionOnSet(f, s) #
                      SumFunctionOnSet(f, T) + SumFunctionOnSet(f, s \ T)}
<1>1. SUFFICES ASSUME B # {} PROVE FALSE
  OBVIOUS
<1>2. PICK s \in B : \A t \in SUBSET s : t # s => t \notin B
  <2>1. B \subseteq SUBSET S
    OBVIOUS
  <2> HIDE DEF B
  <2> QED BY <1>1, <2>1, SmallestSubset
<1>3. SumFunctionOnSet(f, T) \in Int
  BY FS_Subset, SumIsInt
<1>4. s # T
  <2>1. SumFunctionOnSet(f, T \ T) = 0
    <3>1. T \ T = {}
      OBVIOUS
    <3> QED BY <3>1, SumOfNone
  <2>2. SumFunctionOnSet(f, T) =
          SumFunctionOnSet(f, T) + SumFunctionOnSet(f, T \ T)
    BY <2>1, <1>3
  <2> QED BY <2>2, <1>2
<1>5. PICK x \in s : x \notin T
  BY <1>2, <1>4
<1> DEFINE t == s \ {x}
<1>6. t \in SUBSET s /\ t # s /\ T \subseteq t /\ (s \ T) \ {x} = t \ T
  BY <1>2, <1>5
<1>7. SumFunctionOnSet(f, t) = SumFunctionOnSet(f, T) + SumFunctionOnSet(f, t \ T)
  BY <1>2, <1>6
<1>8. /\ IsFiniteSet(s) /\ IsFiniteSet(s \ T) /\ IsFiniteSet(t \ T)
      /\ s \subseteq S
  BY <1>2, FS_Subset
<1>9. SumFunctionOnSet(f, s) = f[x] + SumFunctionOnSet(f, t)
  BY <1>5, <1>8, SumWithout
<1>10. SumFunctionOnSet(f, s \ T) = f[x] + SumFunctionOnSet(f, t \ T)
  <2>1. \A y \in s \ T : f[y] \in Int
    BY <1>8
  <2>2. x \in s \ T
    BY <1>5
  <2>3. SumFunctionOnSet(f, s \ T) = f[x] + SumFunctionOnSet(f, (s \ T) \ {x})
    BY <2>1, <2>2, <1>8, SumWithout
  <2> QED BY <2>3, <1>6
<1>11. SumFunctionOnSet(f, t \ T) \in Int /\ f[x] \in Int
  BY <1>5, <1>8, SumIsInt
<1> QED BY <1>2, <1>3, <1>7, <1>9, <1>10, <1>11

\* A set split in groups: the sum of the groups' sums.
LEMMA SumOfGroups ==
  ASSUME NEW f, NEW S, IsFiniteSet(S), \A x \in S : f[x] \in Int,
         NEW T, IsFiniteSet(T), NEW group, NEW h,
         \A y \in T : group[y] \subseteq S,
         \A x \in S : \E y \in T : x \in group[y],
         \A y, z \in T : y # z => group[y] \cap group[z] = {},
         \A y \in T : h[y] = SumFunctionOnSet(f, group[y])
  PROVE  SumFunctionOnSet(h, T) = SumFunctionOnSet(f, S)
<1> DEFINE In(t) == {x \in S : \E y \in t : x \in group[y]}
           B == {s \in SUBSET T : SumFunctionOnSet(h, s) # SumFunctionOnSet(f, In(s))}
<1>1. SUFFICES ASSUME B # {} PROVE FALSE
  <2>1. In(T) = S
    OBVIOUS
  <2>2. B = {} => SumFunctionOnSet(h, T) = SumFunctionOnSet(f, In(T))
    OBVIOUS
  <2> QED BY <2>1, <2>2
<1>2. PICK s \in B : \A t \in SUBSET s : t # s => t \notin B
  <2>1. B \subseteq SUBSET T
    OBVIOUS
  <2> HIDE DEF B
  <2> QED BY <1>1, <2>1, SmallestSubset
<1>3. s # {}
  <2>1. SUFFICES ASSUME s = {} PROVE FALSE
    OBVIOUS
  <2>2. In(s) = {}
    BY <2>1
  <2>3. SumFunctionOnSet(h, s) = 0 /\ SumFunctionOnSet(f, In(s)) = 0
    BY <2>1, <2>2, SumOfNone
  <2> QED BY <1>2, <2>3
<1> DEFINE y == Chosen(s)
           t == s \ {y}
<1>4. y \in s /\ y \in T /\ t \in SUBSET s /\ t # s
  BY <1>2, <1>3, ChosenIsMember
<1>5. IsFiniteSet(s) /\ IsFiniteSet(In(s)) /\ \A x \in In(s) : f[x] \in Int
  BY <1>2, FS_Subset
<1>6. SumFunctionOnSet(h, s) = h[y] + SumFunctionOnSet(h, t)
  BY <1>3, <1>5, SumStep
<1>7. SumFunctionOnSet(h, t) = SumFunctionOnSet(f, In(t))
  BY <1>2, <1>4
<1>8. h[y] = SumFunctionOnSet(f, group[y])
  BY <1>4
<1>9. group[y] \subseteq In(s) /\ In(s) \ group[y] = In(t)
  BY <1>2, <1>4
<1>10. SumFunctionOnSet(f, In(s)) =
         SumFunctionOnSet(f, group[y]) + SumFunctionOnSet(f, In(s) \ group[y])
  <2> DEFINE a == In(s)
             b == group[y]
  <2>1. IsFiniteSet(a) /\ b \subseteq a /\ \A x \in a : f[x] \in Int
    BY <1>5, <1>9
  <2> HIDE DEF a, b
  <2>2. SumFunctionOnSet(f, a) =
          SumFunctionOnSet(f, b) + SumFunctionOnSet(f, a \ b)
    BY <2>1, SumOfParts
  <2> QED BY <2>2 DEF a, b
<1> QED BY <1>2, <1>6, <1>7, <1>8, <1>9, <1>10
-----------------------------------------------------------------------------
\* A multiple of one term and another term, summed up.
LEMMA SumIsLinear ==
  ASSUME NEW f, NEW g, NEW h, NEW c \in Int, NEW S, IsFiniteSet(S),
         \A x \in S : f[x] \in Int /\ g[x] \in Int /\ h[x] = c * f[x] + g[x]
  PROVE  SumFunctionOnSet(h, S) =
           c * SumFunctionOnSet(f, S) + SumFunctionOnSet(g, S)
<1> DEFINE B == {s \in SUBSET S : SumFunctionOnSet(h, s) #
                    c * SumFunctionOnSet(f, s) + SumFunctionOnSet(g, s)}
<1>1. SUFFICES ASSUME B # {} PROVE FALSE
  OBVIOUS
<1>2. PICK s \in B : \A t \in SUBSET s : t # s => t \notin B
  <2>1. B \subseteq SUBSET S
    OBVIOUS
  <2> HIDE DEF B
  <2> QED BY <1>1, <2>1, SmallestSubset
<1>3. s # {}
  <2>1. SUFFICES ASSUME s = {} PROVE FALSE
    OBVIOUS
  <2>2. /\ SumFunctionOnSet(h, s) = 0 /\ SumFunctionOnSet(f, s) = 0
        /\ SumFunctionOnSet(g, s) = 0
    BY <2>1, SumOfNone
  <2>3. c * 0 + 0 = 0
    OBVIOUS
  <2> QED BY <1>2, <2>2, <2>3
<1> DEFINE x == Chosen(s)
           t == s \ {x}
<1>4. x \in s /\ x \in S /\ t \in SUBSET s /\ t # s
  BY <1>2, <1>3, ChosenIsMember
<1>5. IsFiniteSet(s) /\ IsFiniteSet(t)
  BY <1>2, <1>4, FS_Subset
<1>6. /\ SumFunctionOnSet(h, s) = h[x] + SumFunctionOnSet(h, t)
      /\ SumFunctionOnSet(f, s) = f[x] + SumFunctionOnSet(f, t)
      /\ SumFunctionOnSet(g, s) = g[x] + SumFunctionOnSet(g, t)
  BY <1>3, <1>5, SumStep
<1>7. SumFunctionOnSet(h, t) = c * SumFunctionOnSet(f, t) + SumFunctionOnSet(g, t)
  BY <1>2, <1>4
<1>8. SumFunctionOnSet(f, t) \in Int /\ SumFunctionOnSet(g, t) \in Int
  BY <1>2, <1>4, <1>5, SumIsInt
<1>9. /\ f[x] \in Int /\ g[x] \in Int /\ h[x] = c * f[x] + g[x]
  BY <1>4
<1>10. ASSUME NEW a \in Int, NEW b \in Int PROVE c * (a + b) = c * a + c * b
  OBVIOUS
<1>11. c * SumFunctionOnSet(f, s) = c * f[x] + c * SumFunctionOnSet(f, t)
  BY <1>6, <1>8, <1>9, <1>10
<1>12. c * f[x] \in Int /\ c * SumFunctionOnSet(f, t) \in Int
  BY <1>8, <1>9
<1> HIDE DEF x, t
<1>13. SumFunctionOnSet(h, s) = c * SumFunctionOnSet(f, s) + SumFunctionOnSet(g, s)
  BY <1>6, <1>7, <1>8, <1>9, <1>11, <1>12
<1> QED BY <1>2, <1>13

\* Where the terms are one or zero, the sum counts the ones.
LEMMA SumCounts ==
  ASSUME NEW f, NEW S, IsFiniteSet(S), \A x \in S : f[x] \in {0, 1}
  PROVE  SumFunctionOnSet(f, S) = Cardinality({x \in S : f[x] = 1})
<1> DEFINE Ones(s) == {x \in s : f[x] = 1}
           B == {s \in SUBSET S : SumFunctionOnSet(f, s) # Cardinality(Ones(s))}
<1>1. SUFFICES ASSUME B # {} PROVE FALSE
  <2>1. Ones(S) = {x \in S : f[x] = 1}
    OBVIOUS
  <2> QED BY <2>1
<1>2. PICK s \in B : \A t \in SUBSET s : t # s => t \notin B
  <2>1. B \subseteq SUBSET S
    OBVIOUS
  <2> HIDE DEF B
  <2> QED BY <1>1, <2>1, SmallestSubset
<1>3. s # {}
  <2>1. SUFFICES ASSUME s = {} PROVE FALSE
    OBVIOUS
  <2>2. SumFunctionOnSet(f, s) = 0 /\ Ones(s) = {} /\ Cardinality({}) = 0
    BY <2>1, SumOfNone, FS_EmptySet
  <2> QED BY <1>2, <2>2
<1> DEFINE x == Chosen(s)
           t == s \ {x}
<1>4. x \in s /\ x \in S /\ t \in SUBSET s /\ t # s /\ x \notin t
  BY <1>2, <1>3, ChosenIsMember
<1>5. IsFiniteSet(s) /\ IsFiniteSet(t) /\ IsFiniteSet(Ones(t))
  BY <1>2, <1>4, FS_Subset
<1>6. SumFunctionOnSet(f, s) = f[x] + SumFunctionOnSet(f, t)
  BY <1>3, <1>5, SumStep
<1>7. SumFunctionOnSet(f, t) = Cardinality(Ones(t))
  BY <1>2, <1>4
<1>8. Cardinality(Ones(t)) \in Nat
  BY <1>5, FS_CardinalityType
<1>9. CASE f[x] = 1
  <2>1. Ones(s) = Ones(t) \cup {x} /\ x \notin Ones(t)
    BY <1>4, <1>9
  <2>2. Cardinality(Ones(s)) = Cardinality(Ones(t)) + 1
    <3> HIDE DEF Ones
    <3> QED BY <1>5, <2>1, FS_AddElement
  <2>3. SumFunctionOnSet(f, s) = Cardinality(Ones(s))
    <3> HIDE DEF Ones, x, t
    <3> QED BY <1>6, <1>7, <1>8, <1>9, <2>2
  <2> QED BY <1>2, <2>3
<1>10. CASE f[x] = 0
  <2>1. Ones(s) = Ones(t)
    BY <1>4, <1>10
  <2>2. SumFunctionOnSet(f, s) = Cardinality(Ones(s))
    <3> HIDE DEF Ones, x, t
    <3> QED BY <1>6, <1>7, <1>8, <1>10, <2>1
  <2> QED BY <1>2, <2>2
<1> QED BY <1>4, <1>9, <1>10

\* Zeros add up to zero.
LEMMA SumOfZeros ==
  ASSUME NEW f, NEW S, IsFiniteSet(S), \A x \in S : f[x] = 0
  PROVE  SumFunctionOnSet(f, S) = 0
<1>1. {x \in S : f[x] = 1} = {}
  OBVIOUS
<1> QED BY <1>1, SumCounts, FS_EmptySet

=============================================================================

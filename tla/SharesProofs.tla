---------------------------- MODULE SharesProofs ----------------------------
(***************************************************************************)
(* Theorems about SettlementShares, for splits of any size: the shares add *)
(* up to what was collected less the fee, and no division is fairer.       *)
(***************************************************************************)
EXTENDS SettlementShares, Sums, FunctionTheorems, TLAPS

(***************************************************************************)
(* Division                                                                *)
(***************************************************************************)

LEMMA DivideNat ==
    ASSUME NEW a \in Nat, NEW b \in Nat \ {0}
    PROVE  /\ a \div b \in Nat /\ a % b \in Nat
           /\ a % b < b
           /\ a = b * (a \div b) + (a % b)
  OBVIOUS

\* Something divided by itself, and by something larger.
LEMMA DivideOnce ==
    ASSUME NEW b \in Nat \ {0}, NEW g \in Nat, NEW q \in Nat, NEW m \in 0..(b - 1),
           b * g = b * q + m
    PROVE  q <= g /\ m = 0
  <1>1. b * (g - q) = m
    OBVIOUS
  <1>2. g - q >= 0
    BY <1>1
  <1>3. g - q < 1
    BY <1>1
  <1> QED BY <1>1, <1>2, <1>3

LEMMA DivideLess ==
    ASSUME NEW b \in Nat \ {0}, NEW a \in Nat, a < b, NEW g \in Nat \ {0},
           NEW q \in Nat, NEW m \in Nat, a * g = b * q + m
    PROVE  q < g
  <1>1. a * g < b * g
    OBVIOUS
  <1>2. b * q < b * g
    BY <1>1
  <1> QED BY <1>2

(***************************************************************************)
(* Ranks: who is served when the first n are served                        *)
(***************************************************************************)

\* before[i] are the members of S that a strict total order puts before i.
Orders(before, S) ==
    /\ before \in [S -> SUBSET S]
    /\ \A i \in S : i \notin before[i]
    /\ \A i, j \in S : i # j => i \in before[j] \/ j \in before[i]
    /\ \A i, j \in S : i \in before[j] => before[i] \subseteq before[j]

\* Whoever comes later has a higher rank.
LEMMA RanksGrow ==
    ASSUME NEW S, IsFiniteSet(S), NEW before, Orders(before, S),
           NEW i \in S, NEW j \in S, i \in before[j]
    PROVE  /\ Cardinality(before[i]) \in Nat /\ Cardinality(before[j]) \in Nat
           /\ Cardinality(before[i]) < Cardinality(before[j])
  <1>1. before[i] \subseteq before[j] /\ i \notin before[i] /\ before[j] \subseteq S
    BY DEF Orders
  <1>2. IsFiniteSet(before[j])
    BY <1>1, FS_Subset
  <1>3. IsFiniteSet(before[i])
    BY <1>1, <1>2, FS_Subset
  <1>4. Cardinality(before[i]) \in Nat /\ Cardinality(before[j]) \in Nat
    BY <1>2, <1>3, FS_CardinalityType
  <1>5. Cardinality(before[i]) <= Cardinality(before[j])
    BY <1>1, <1>2, FS_Subset
  <1>6. Cardinality(before[i]) # Cardinality(before[j])
    BY <1>1, <1>2, FS_Subset
  <1> QED BY <1>4, <1>5, <1>6

\* Ranks are below the number of members.
LEMMA RanksAreBounded ==
    ASSUME NEW S, IsFiniteSet(S), NEW before, Orders(before, S), NEW i \in S
    PROVE  Cardinality(before[i]) \in 0..(Cardinality(S) - 1)
  <1>1. before[i] \subseteq S /\ i \notin before[i]
    BY DEF Orders
  <1>2. IsFiniteSet(before[i])
    BY <1>1, FS_Subset
  <1>3. Cardinality(before[i]) \in Nat /\ Cardinality(S) \in Nat
    BY <1>2, FS_CardinalityType
  <1>4. Cardinality(before[i]) <= Cardinality(S) /\ Cardinality(before[i]) # Cardinality(S)
    BY <1>1, FS_Subset
  <1> QED BY <1>3, <1>4

\* Exactly n members have a rank below n.
LEMMA FirstOnes ==
    ASSUME NEW S, IsFiniteSet(S), NEW before, Orders(before, S),
           NEW n \in 0..Cardinality(S)
    PROVE  Cardinality({i \in S : Cardinality(before[i]) < n}) = n
  <1> DEFINE Ranks == 0..(Cardinality(S) - 1)
             rank == [i \in S |-> Cardinality(before[i])]
             First == {i \in S : Cardinality(before[i]) < n}
             places == 0..(n - 1)
             place == [i \in First |-> Cardinality(before[i])]
  <1>1. Cardinality(S) \in Nat
    BY FS_CardinalityType
  <1>2. IsFiniteSet(Ranks) /\ Cardinality(Ranks) = Cardinality(S)
    <2> DEFINE m == Cardinality(S) - 1
    <2>1. m \in Int /\ 0 \in Int /\ m >= -1
      BY <1>1
    <2>2. IsFiniteSet(0..m) /\ Cardinality(0..m) = IF 0 > m THEN 0 ELSE m - 0 + 1
      <3> HIDE DEF m
      <3> QED BY <2>1, FS_Interval
    <2> QED BY <1>1, <2>1, <2>2
  <1>3. rank \in [S -> Ranks]
    BY RanksAreBounded
  <1>4. \A i, j \in S : i # j => rank[i] # rank[j]
    <2> SUFFICES ASSUME NEW i \in S, NEW j \in S, i # j
                 PROVE  Cardinality(before[i]) # Cardinality(before[j])
      OBVIOUS
    <2>1. CASE i \in before[j]
      BY <2>1, RanksGrow
    <2>2. CASE j \in before[i]
      BY <2>2, RanksGrow
    <2> QED BY <2>1, <2>2 DEF Orders
  <1>5. \A i \in S : rank[i] = Cardinality(before[i])
    OBVIOUS
  <1>6. \A p \in Ranks : \E i \in S : rank[i] = p
    <2> HIDE DEF rank, Ranks
    <2>1. rank \in Injection(S, Ranks)
      BY <1>3, <1>4 DEF Injection, IsInjective
    <2>2. rank \in Surjection(S, Ranks)
      BY <1>2, <2>1, FS_Injection
    <2> QED BY <2>2 DEF Surjection
  <1>7. place \in [First -> places]
    <2>1. \A i \in S : rank[i] \in Ranks
      BY <1>3
    <2>2. \A i \in First : Cardinality(before[i]) \in places
      BY <1>1, <1>5, <2>1
    <2> QED BY <2>2
  <1>8. \A i \in First : i \in S /\ place[i] = rank[i]
    OBVIOUS
  <1>9. \A p \in places : \E i \in First : place[i] = p
    <2> SUFFICES ASSUME NEW p \in places
                 PROVE  \E i \in First : place[i] = p
      OBVIOUS
    <2>1. p \in Ranks /\ p < n
      BY <1>1
    <2>2. PICK i \in S : rank[i] = p
      BY <1>6, <2>1
    <2>3. i \in First /\ place[i] = p
      BY <2>1, <2>2
    <2> QED BY <2>3
  <1> HIDE DEF place, First, rank, Ranks
  <1>10. place \in Bijection(First, places)
    <2>1. place \in Injection(First, places)
      BY <1>4, <1>7, <1>8 DEF Injection, IsInjective
    <2>2. place \in Surjection(First, places)
      BY <1>7, <1>9 DEF Surjection
    <2> QED BY <2>1, <2>2 DEF Bijection
  <1>11. IsFiniteSet(First)
    BY FS_Subset DEF First
  <1>12. Cardinality(places) = Cardinality(First)
    BY <1>10, <1>11, FS_Bijection DEF ExistsBijection
  <1>13. Cardinality(places) = n
    <2>1. n - 1 \in Int /\ 0 \in Int /\ n \in Nat
      BY <1>1
    <2>2. Cardinality(0..(n - 1)) = IF 0 > n - 1 THEN 0 ELSE n - 1 - 0 + 1
      BY <2>1, FS_Interval
    <2> QED BY <2>1, <2>2
  <1> QED BY <1>12, <1>13 DEF First

-----------------------------------------------------------------------------
(* Rounding down *)

\* What Splits says of the allocations and of the fee, without its bounds.
IsDivisible(parts, fee) ==
    /\ IsFiniteSet(DOMAIN parts) /\ DOMAIN parts \subseteq Nat
    /\ \A i \in DOMAIN parts :
        parts[i].gross \in Nat \ {0} /\ parts[i].bears \in BOOLEAN
    /\ fee \in Nat
    /\ fee > 0 => Base(parts) > 0

LEMMA SplitsFit ==
    split \in Splits => IsDivisible(split[1], split[2])
  <1> SUFFICES ASSUME split \in Splits
               PROVE  IsDivisible(split[1], split[2])
    OBVIOUS
  <1> DEFINE parts == split[1]
             fee == split[2]
  <1>1. PICK n \in 1..MaxParts : parts \in [1..n -> Allocation]
    BY DEF Splits
  <1>2. fee \in 0..MaxFee /\ Accepted(parts, fee)
    BY DEF Splits
  <1> HIDE DEF parts, fee
  <1>3. n \in Nat /\ fee \in Nat /\ MaxGross \in Nat
    BY <1>1, <1>2, SharesAssumption
  <1>4. DOMAIN parts = 1..n
    BY <1>1
  <1>5. IsFiniteSet(DOMAIN parts) /\ DOMAIN parts \subseteq Nat
    BY <1>3, <1>4, FS_Interval
  <1>6. \A i \in DOMAIN parts :
            parts[i].gross \in Nat \ {0} /\ parts[i].bears \in BOOLEAN
    BY <1>1, <1>3, <1>4 DEF Allocation
  <1>7. IsDivisible(parts, fee)
    BY <1>2, <1>3, <1>5, <1>6 DEF IsDivisible, Accepted
  <1> QED BY <1>7 DEF parts, fee

\* What bears the fee comes to more than nothing, and to each of its parts.
LEMMA BaseIsPositive ==
    ASSUME NEW parts, NEW fee, IsDivisible(parts, fee)
    PROVE  /\ Base(parts) \in Nat
           /\ IsFiniteSet(Bearing(parts))
           /\ \A i \in Bearing(parts) : Base(parts) \in Nat \ {0}
  <1> DEFINE g == GrossAmounts(parts)
             S == Bearing(parts)
  <1>1. S \subseteq DOMAIN parts
    BY DEF Bearing
  <1>2. IsFiniteSet(S)
    BY <1>1, FS_Subset DEF IsDivisible
  <1>3. \A i \in S : g[i] \in Nat \ {0}
    BY <1>1 DEF GrossAmounts, IsDivisible
  <1> HIDE DEF g, S
  <1>4. SumFunctionOnSet(g, S) \in Nat
    BY <1>2, <1>3, SumIsNat
  <1>5. ASSUME NEW i \in S PROVE SumFunctionOnSet(g, S) > 0
    <2>1. SumFunctionOnSet(g, S) = g[i] + SumFunctionOnSet(g, S \ {i})
      BY <1>2, <1>3, SumWithout
    <2>2. IsFiniteSet(S \ {i})
      BY <1>2, FS_Subset
    <2>3. SumFunctionOnSet(g, S \ {i}) \in Nat
      BY <1>3, <2>2, SumIsNat
    <2>4. g[i] \in Nat \ {0}
      BY <1>3
    <2> QED BY <2>1, <2>3, <2>4
  <1> QED BY <1>2, <1>4, <1>5 DEF Base, g, S

\* A part that bears the fee: its exact quota is its floor and its remainder.
LEMMA QuotaIsDivided ==
    ASSUME NEW parts, NEW fee, IsDivisible(parts, fee), NEW i \in Bearing(parts)
    PROVE  /\ Floor(parts, fee, i) \in Nat
           /\ Remainder(parts, fee, i) \in 0..(Base(parts) - 1)
           /\ fee * parts[i].gross =
                Base(parts) * Floor(parts, fee, i) + Remainder(parts, fee, i)
  <1>1. fee \in Nat /\ parts[i].gross \in Nat /\ parts[i].bears
    BY DEF IsDivisible, Bearing
  <1>2. Base(parts) \in Nat \ {0}
    BY BaseIsPositive
  <1>3. fee * parts[i].gross \in Nat
    BY <1>1
  <1> DEFINE a == fee * parts[i].gross
             b == Base(parts)
  <1>4. a \in Nat /\ b \in Nat \ {0}
    BY <1>2, <1>3
  <1>5. Floor(parts, fee, i) = a \div b /\ Remainder(parts, fee, i) = a % b
    BY <1>1 DEF Floor, Remainder
  <1> HIDE DEF a, b
  <1>6. /\ a \div b \in Nat /\ a % b \in Nat
        /\ a % b < b
        /\ a = b * (a \div b) + (a % b)
    BY <1>4, DivideNat
  <1>7. a % b \in 0..(b - 1)
    BY <1>4, <1>6
  <1> QED BY <1>5, <1>6, <1>7 DEF a, b

\* The order in which the allocations are served is one.
LEMMA ServedInOrder ==
    ASSUME NEW parts, NEW fee, IsDivisible(parts, fee)
    PROVE  Orders([i \in Bearing(parts) |-> Before(parts, fee, i)], Bearing(parts))
  <1> DEFINE S == Bearing(parts)
             before == [i \in S |-> Before(parts, fee, i)]
             rem == [i \in S |-> Remainder(parts, fee, i)]
  <1>1. \A i \in S : rem[i] \in Int
    <2>1. \A i \in S : rem[i] = Remainder(parts, fee, i)
      OBVIOUS
    <2>2. Base(parts) \in Nat
      BY BaseIsPositive
    <2> HIDE DEF S, rem
    <2> QED BY <2>1, <2>2, QuotaIsDivided DEF S
  <1>2. \A i, j \in S : j \in before[i] <=> rem[j] > rem[i] \/ (rem[j] = rem[i] /\ j < i)
    BY DEF Before
  <1>3. before \in [S -> SUBSET S]
    BY DEF Before
  <1>4. \A i \in S : i \in Int
    BY DEF Bearing, IsDivisible
  <1> HIDE DEF before, rem, S
  <1>5. \A i \in S : i \notin before[i]
    BY <1>1, <1>2, <1>4
  <1>6. \A i, j \in S : i # j => i \in before[j] \/ j \in before[i]
    BY <1>1, <1>2, <1>4
  <1>7. \A i, j \in S : i \in before[j] => before[i] \subseteq before[j]
    <2> SUFFICES ASSUME NEW i \in S, NEW j \in S, i \in before[j],
                        NEW k \in before[i]
                 PROVE  k \in before[j]
      OBVIOUS
    <2>1. k \in S
      BY <1>3
    <2> QED BY <1>1, <1>2, <1>4, <2>1
  <1>8. Orders(before, S)
    BY <1>3, <1>5, <1>6, <1>7 DEF Orders
  <1> QED BY <1>8 DEF before, S

-----------------------------------------------------------------------------
(* What the parts that bear the fee add up to *)

\* The whole kobos of each quota, and the kobo more of those served first.
Floors(parts, fee) == [i \in DOMAIN parts |-> Floor(parts, fee, i)]

Bonus(parts, fee, i) ==
    IF Cardinality(Before(parts, fee, i)) < Leftover(parts, fee) THEN 1 ELSE 0

LEMMA ShareIsFloorAndBonus ==
    ASSUME NEW parts, NEW fee, IsDivisible(parts, fee), NEW i \in DOMAIN parts
    PROVE  /\ Bonus(parts, fee, i) \in {0, 1}
           /\ i \in Bearing(parts) =>
                FeeShare(parts, fee, i) = Floor(parts, fee, i) + Bonus(parts, fee, i)
           /\ i \notin Bearing(parts) =>
                FeeShare(parts, fee, i) = 0 /\ Floor(parts, fee, i) = 0
  <1>1. Bonus(parts, fee, i) \in {0, 1}
    BY DEF Bonus
  <1>2. ASSUME i \in Bearing(parts)
        PROVE  FeeShare(parts, fee, i) = Floor(parts, fee, i) + Bonus(parts, fee, i)
    BY <1>2 DEF FeeShare, Bonus, Bearing
  <1>3. ASSUME i \notin Bearing(parts)
        PROVE  FeeShare(parts, fee, i) = 0 /\ Floor(parts, fee, i) = 0
    BY <1>3 DEF FeeShare, Floor, Bearing
  <1> QED BY <1>1, <1>2, <1>3

\* A function that is zero where no fee is borne adds up where it is.
LEMMA SumWhereBorne ==
    ASSUME NEW parts, NEW fee, IsDivisible(parts, fee), NEW f,
           \A i \in Bearing(parts) : f[i] \in Int,
           \A i \in DOMAIN parts \ Bearing(parts) : f[i] = 0
    PROVE  SumFunctionOnSet(f, DOMAIN parts) = SumFunctionOnSet(f, Bearing(parts))
  <1> DEFINE D == DOMAIN parts
             S == Bearing(parts)
  <1>1. IsFiniteSet(D) /\ S \subseteq D
    BY DEF IsDivisible, Bearing
  <1>2. /\ \A i \in S : f[i] \in Int
        /\ \A i \in D \ S : f[i] = 0
    OBVIOUS
  <1> HIDE DEF D, S
  <1>3. \A i \in D : f[i] \in Int
    BY <1>2
  <1>4. IsFiniteSet(D \ S) /\ IsFiniteSet(S)
    BY <1>1, FS_Subset
  <1>5. SumFunctionOnSet(f, D) = SumFunctionOnSet(f, S) + SumFunctionOnSet(f, D \ S)
    BY <1>1, <1>3, SumOfParts
  <1>6. SumFunctionOnSet(f, D \ S) = 0
    BY <1>2, <1>4, SumOfZeros
  <1>7. SumFunctionOnSet(f, S) \in Int
    BY <1>2, <1>4, SumIsInt
  <1>8. SumFunctionOnSet(f, D) = SumFunctionOnSet(f, S)
    BY <1>5, <1>6, <1>7
  <1> QED BY <1>8 DEF D, S

\* What the floors leave of the fee is what the remainders come to, in units
\* of the base; so it is not negative, and less than one unit for each part.
LEMMA LeftoverIsRemainders ==
    ASSUME NEW parts, NEW fee, IsDivisible(parts, fee), Bearing(parts) # {}
    PROVE  LET S == Bearing(parts)
               rem == [i \in S |-> Remainder(parts, fee, i)]
           IN  /\ Leftover(parts, fee) \in Int
               /\ Base(parts) * Leftover(parts, fee) = SumFunctionOnSet(rem, S)
               /\ Leftover(parts, fee) =
                    fee - SumFunctionOnSet(Floors(parts, fee), S)
  <1> DEFINE S == Bearing(parts)
             g == GrossAmounts(parts)
             flo == Floors(parts, fee)
             rem == [i \in S |-> Remainder(parts, fee, i)]
             quota == [i \in S |-> fee * g[i]]
             zero == [i \in S |-> 0]
             B == Base(parts)
             F == SumFunctionOnSet(flo, S)
             R == SumFunctionOnSet(rem, S)
  <1>1. IsFiniteSet(S) /\ S \subseteq DOMAIN parts /\ B \in Nat \ {0} /\ fee \in Nat
    BY BaseIsPositive DEF Bearing, IsDivisible
  <1>2. \A i \in S : /\ g[i] \in Nat /\ flo[i] \in Nat /\ rem[i] \in Nat
                     /\ quota[i] = fee * g[i] /\ zero[i] = 0
                     /\ quota[i] = B * flo[i] + rem[i]
    <2> SUFFICES ASSUME NEW i \in S
                 PROVE  /\ g[i] \in Nat /\ flo[i] \in Nat /\ rem[i] \in Nat
                        /\ quota[i] = fee * g[i] /\ zero[i] = 0
                        /\ quota[i] = B * flo[i] + rem[i]
      OBVIOUS
    <2>1. i \in DOMAIN parts /\ parts[i].gross \in Nat
      BY DEF Bearing, IsDivisible
    <2>2. /\ g[i] = parts[i].gross /\ flo[i] = Floor(parts, fee, i)
          /\ rem[i] = Remainder(parts, fee, i) /\ quota[i] = fee * g[i] /\ zero[i] = 0
      BY <2>1 DEF GrossAmounts, Floors
    <2>3. /\ Floor(parts, fee, i) \in Nat
          /\ Remainder(parts, fee, i) \in 0..(Base(parts) - 1)
          /\ fee * parts[i].gross =
                Base(parts) * Floor(parts, fee, i) + Remainder(parts, fee, i)
      BY QuotaIsDivided
    <2>4. Remainder(parts, fee, i) \in Nat
      BY <1>1, <2>3
    <2> QED BY <2>1, <2>2, <2>3, <2>4
  <1>3. B = SumFunctionOnSet(g, S)
    BY DEF Base
  <1>4. flo = Floors(parts, fee) /\ DOMAIN flo = DOMAIN parts
    BY DEF Floors
  <1>5. Leftover(parts, fee) = fee - SumFunctionOnSet(flo, DOMAIN parts)
    BY <1>4, SumIsOverDomain DEF Leftover, Floors
  <1>6. \A i \in DOMAIN parts \ Bearing(parts) : flo[i] = 0
    BY ShareIsFloorAndBonus DEF Floors
  <1>7. SumFunctionOnSet(flo, DOMAIN parts) = SumFunctionOnSet(flo, Bearing(parts))
    <2> HIDE DEF flo
    <2> QED BY <1>2, <1>6, SumWhereBorne
  <1> HIDE DEF S, g, flo, rem, quota, zero, B
  <1>8. F \in Int /\ R \in Int
    BY <1>1, <1>2, SumIsInt
  <1>9. SumFunctionOnSet(quota, S) = fee * SumFunctionOnSet(g, S) + SumFunctionOnSet(zero, S)
    <2>1. fee \in Int /\ \A i \in S : /\ g[i] \in Int /\ zero[i] \in Int
                                      /\ quota[i] = fee * g[i] + zero[i]
      BY <1>1, <1>2
    <2> QED BY <1>1, <2>1, SumIsLinear
  <1>10. SumFunctionOnSet(zero, S) = 0
    BY <1>1, <1>2, SumOfZeros
  <1>11. SumFunctionOnSet(quota, S) = B * F + R
    <2>1. B \in Int /\ \A i \in S : /\ flo[i] \in Int /\ rem[i] \in Int
                                    /\ quota[i] = B * flo[i] + rem[i]
      BY <1>1, <1>2
    <2> QED BY <1>1, <2>1, SumIsLinear
  <1>12. fee * B = B * F + R
    <2>1. fee * B \in Int
      BY <1>1
    <2> QED BY <1>3, <1>9, <1>10, <1>11, <2>1
  <1>13. Leftover(parts, fee) = fee - F
    BY <1>5, <1>7 DEF S
  <1> HIDE DEF F, R
  <1>14. B * (fee - F) = R
    BY <1>1, <1>8, <1>12
  <1>15. fee - F \in Int
    BY <1>1, <1>8
  <1> QED BY <1>13, <1>14, <1>15 DEF S, flo, rem, B, F, R

\* There is no more to hand out than there are parts to take it.
LEMMA LeftoverIsServed ==
    ASSUME NEW parts, NEW fee, IsDivisible(parts, fee), Bearing(parts) # {}
    PROVE  Leftover(parts, fee) \in 0..Cardinality(Bearing(parts))
  <1> DEFINE S == Bearing(parts)
             rem == [i \in S |-> Remainder(parts, fee, i)]
             one == [i \in S |-> 1]
             zero == [i \in S |-> 0]
             top == [i \in S |-> Base(parts) - 1]
             B == Base(parts)
             L == Leftover(parts, fee)
             R == SumFunctionOnSet(rem, S)
             n == Cardinality(S)
  <1>1. IsFiniteSet(S) /\ B \in Nat \ {0} /\ n \in Nat
    BY BaseIsPositive, FS_CardinalityType
  <1>2. \A i \in S : /\ rem[i] \in Nat /\ rem[i] <= B - 1
                     /\ top[i] = B - 1 /\ one[i] = 1 /\ zero[i] = 0
    BY <1>1, QuotaIsDivided
  <1>3. L \in Int /\ B * L = R
    BY LeftoverIsRemainders
  <1>4. {i \in S : one[i] = 1} = S
    BY <1>2
  <1> HIDE DEF S, rem, one, zero, top, B, L, n
  <1>5. R \in Nat
    BY <1>1, <1>2, SumIsNat
  <1>6. R <= SumFunctionOnSet(top, S)
    <2>1. \A i \in S : rem[i] \in Int /\ top[i] \in Int /\ rem[i] <= top[i]
      BY <1>1, <1>2
    <2> QED BY <1>1, <2>1, SumAtMost
  <1>7. SumFunctionOnSet(one, S) = n
    BY <1>1, <1>2, <1>4, SumCounts DEF n
  <1>8. SumFunctionOnSet(zero, S) = 0
    BY <1>1, <1>2, SumOfZeros
  <1>9. SumFunctionOnSet(top, S) = (B - 1) * n
    <2>1. B - 1 \in Int /\ \A i \in S : /\ one[i] \in Int /\ zero[i] \in Int
                                        /\ top[i] = (B - 1) * one[i] + zero[i]
      BY <1>1, <1>2
    <2>2. SumFunctionOnSet(top, S) =
            (B - 1) * SumFunctionOnSet(one, S) + SumFunctionOnSet(zero, S)
      BY <1>1, <2>1, SumIsLinear
    <2>3. (B - 1) * n \in Int
      BY <1>1
    <2> QED BY <1>7, <1>8, <2>2, <2>3
  <1> HIDE DEF R
  <1>10. B * L <= (B - 1) * n
    BY <1>3, <1>6, <1>9
  <1>11. L >= 0
    BY <1>1, <1>3, <1>5
  <1>12. L <= n
    <2> SUFFICES ASSUME L >= n + 1 PROVE FALSE
      BY <1>1, <1>3
    <2>1. B * L >= B * (n + 1)
      BY <1>1, <1>3
    <2>2. B * (n + 1) = B * n + B /\ (B - 1) * n = B * n - n
      BY <1>1
    <2>3. B * L \in Int /\ B * n \in Int
      BY <1>1, <1>3
    <2> QED BY <1>1, <1>10, <2>1, <2>2, <2>3
  <1>13. L \in 0..n
    BY <1>1, <1>3, <1>11, <1>12
  <1> QED BY <1>13 DEF L, n, S

\* Every kobo of the fee is borne by someone.
LEMMA FeeIsBorne ==
    ASSUME NEW parts, NEW fee, IsDivisible(parts, fee),
           NEW borne, borne = [i \in DOMAIN parts |-> FeeShare(parts, fee, i)]
    PROVE  /\ \A i \in DOMAIN parts : borne[i] \in Nat
           /\ SumFunctionOnSet(borne, DOMAIN parts) = fee
  <1> DEFINE S == Bearing(parts)
             flo == Floors(parts, fee)
             bonus == [i \in S |-> Bonus(parts, fee, i)]
             L == Leftover(parts, fee)
  <1>1. IsFiniteSet(S) /\ S \subseteq DOMAIN parts /\ fee \in Nat
    BY BaseIsPositive DEF Bearing, IsDivisible
  <1>2. \A i \in S : /\ flo[i] \in Nat /\ bonus[i] \in {0, 1}
                     /\ borne[i] = flo[i] + bonus[i]
    <2> SUFFICES ASSUME NEW i \in S
                 PROVE  /\ flo[i] \in Nat /\ bonus[i] \in {0, 1}
                        /\ borne[i] = flo[i] + bonus[i]
      OBVIOUS
    <2>1. i \in DOMAIN parts
      BY <1>1
    <2>2. /\ flo[i] = Floor(parts, fee, i) /\ bonus[i] = Bonus(parts, fee, i)
          /\ borne[i] = FeeShare(parts, fee, i)
      BY <2>1 DEF Floors
    <2> QED BY <2>1, <2>2, QuotaIsDivided, ShareIsFloorAndBonus
  <1>3. \A i \in DOMAIN parts \ S : borne[i] = 0
    BY ShareIsFloorAndBonus
  <1>4. \A i \in DOMAIN parts : borne[i] \in Nat
    <2> HIDE DEF S, flo, bonus
    <2>1. \A i \in S : borne[i] \in Nat
      BY <1>2
    <2> QED BY <1>3, <2>1
  <1>5. SumFunctionOnSet(borne, DOMAIN parts) = SumFunctionOnSet(borne, S)
    <2>1. \A i \in S : borne[i] \in Int
      BY <1>1, <1>4
    <2> QED BY <1>3, <2>1, SumWhereBorne
  <1>6. CASE S = {}
    <2>1. Base(parts) = 0
      BY <1>6, SumOfNone DEF Base
    <2>2. fee = 0
      BY <1>1, <2>1 DEF IsDivisible
    <2>3. SumFunctionOnSet(borne, S) = 0
      BY <1>6, SumOfNone
    <2> QED BY <1>4, <1>5, <2>2, <2>3
  <1>7. CASE S # {}
    <2> DEFINE before == [i \in S |-> Before(parts, fee, i)]
    <2>1. L \in 0..Cardinality(S) /\ Cardinality(S) \in Nat
      BY <1>1, <1>7, LeftoverIsServed, FS_CardinalityType
    <2>2. L = fee - SumFunctionOnSet(flo, S)
      BY <1>7, LeftoverIsRemainders
    <2>3. Orders(before, S)
      BY ServedInOrder
    <2>4. \A i \in S : bonus[i] = IF Cardinality(before[i]) < L THEN 1 ELSE 0
      BY DEF Bonus
    <2> HIDE DEF before, L, S, flo, bonus
    <2>5. Cardinality({i \in S : Cardinality(before[i]) < L}) = L
      BY <1>1, <2>1, <2>3, FirstOnes
    <2>6. {i \in S : bonus[i] = 1} = {i \in S : Cardinality(before[i]) < L}
      BY <2>4
    <2>7. SumFunctionOnSet(bonus, S) = L
      BY <1>1, <1>2, <2>5, <2>6, SumCounts
    <2>8. SumFunctionOnSet(borne, S) =
            1 * SumFunctionOnSet(flo, S) + SumFunctionOnSet(bonus, S)
      <3>1. 1 \in Int /\ \A i \in S : /\ flo[i] \in Int /\ bonus[i] \in Int
                                      /\ borne[i] = 1 * flo[i] + bonus[i]
        BY <1>2
      <3> QED BY <1>1, <3>1, SumIsLinear
    <2>9. SumFunctionOnSet(flo, S) \in Int
      BY <1>1, <1>2, SumIsInt
    <2>10. SumFunctionOnSet(borne, S) = fee
      BY <1>1, <2>1, <2>2, <2>7, <2>8, <2>9
    <2> QED BY <1>4, <1>5, <2>10
  <1> QED BY <1>6, <1>7

\* A fee that does not exceed what bears it takes no more of a part than the
\* part is.
LEMMA ShareIsBorneByItsPart ==
    ASSUME NEW parts, NEW fee, IsDivisible(parts, fee), fee <= Base(parts),
           NEW i \in DOMAIN parts
    PROVE  FeeShare(parts, fee, i) <= parts[i].gross
  <1>1. fee \in Nat /\ parts[i].gross \in Nat \ {0}
    BY DEF IsDivisible
  <1>2. CASE i \notin Bearing(parts)
    BY <1>1, <1>2, ShareIsFloorAndBonus
  <1>3. CASE i \in Bearing(parts)
    <2> DEFINE B == Base(parts)
               g == parts[i].gross
               q == Floor(parts, fee, i)
               m == Remainder(parts, fee, i)
               b == Bonus(parts, fee, i)
    <2>1. /\ B \in Nat \ {0} /\ g \in Nat \ {0} /\ q \in Nat /\ m \in 0..(B - 1)
          /\ fee * g = B * q + m
      BY <1>1, <1>3, BaseIsPositive, QuotaIsDivided
    <2>2. FeeShare(parts, fee, i) = q + b /\ b \in {0, 1}
      BY <1>3, ShareIsFloorAndBonus
    <2>3. ASSUME fee = B PROVE b = 0
      <3> DEFINE S == Bearing(parts)
                 rem == [j \in S |-> Remainder(parts, fee, j)]
      <3>1. \A j \in S : rem[j] = 0
        <4> SUFFICES ASSUME NEW j \in S PROVE Remainder(parts, fee, j) = 0
          OBVIOUS
        <4>1. parts[j].gross \in Nat
          BY DEF Bearing, IsDivisible
        <4>2. /\ Floor(parts, fee, j) \in Nat /\ Remainder(parts, fee, j) \in 0..(B - 1)
              /\ B * parts[j].gross = B * Floor(parts, fee, j) + Remainder(parts, fee, j)
          BY <2>3, QuotaIsDivided
        <4> QED BY <2>1, <4>1, <4>2, DivideOnce
      <3>2. IsFiniteSet(S)
        BY BaseIsPositive
      <3>3. SumFunctionOnSet(rem, S) = 0
        <4> HIDE DEF S, rem
        <4> QED BY <3>1, <3>2, SumOfZeros
      <3> DEFINE L == Leftover(parts, fee)
      <3>4. L \in Int /\ B * L = 0
        BY <1>3, <3>3, LeftoverIsRemainders
      <3>5. L = 0
        <4>1. B \in Nat \ {0}
          BY <2>1
        <4> HIDE DEF B, L
        <4> QED BY <3>4, <4>1
      <3>6. Cardinality(Before(parts, fee, i)) \in Nat
        <4>1. Before(parts, fee, i) \subseteq S
          BY DEF Before
        <4> QED BY <3>2, <4>1, FS_Subset, FS_CardinalityType
      <3> QED BY <3>5, <3>6 DEF Bonus
    <2> HIDE DEF B, g, q, m, b
    <2>4. fee <= B
      BY DEF B
    <2>5. CASE fee = B
      <3>1. B * g = B * q + m
        BY <2>1, <2>5
      <3>2. q <= g
        BY <2>1, <3>1, DivideOnce
      <3> QED BY <2>1, <2>2, <2>3, <2>5, <3>2 DEF g
    <2>6. CASE fee < B
      <3>1. q < g
        BY <1>1, <2>1, <2>6, DivideLess
      <3> QED BY <2>1, <2>2, <3>1 DEF g
    <2> QED BY <1>1, <2>1, <2>4, <2>5, <2>6
  <1> QED BY <1>2, <1>3

-----------------------------------------------------------------------------
(* Theorems *)

\* The shares come to what was collected less the fee; so do the shares that
\* are recorded, provided the fee does not exceed what bears it.
THEOREM SharesAlwaysAddUp == split \in Splits => SharesAddUp
  <1> SUFFICES ASSUME split \in Splits PROVE SharesAddUp
    OBVIOUS
  <1> DEFINE parts == split[1]
             fee == split[2]
             D == DOMAIN parts
             g == GrossAmounts(parts)
             borne == [i \in D |-> FeeShare(parts, fee, i)]
             shares == Shares(parts, fee, FALSE)
             R == Recorded(parts, fee, FALSE)
  <1>1. IsDivisible(parts, fee)
    BY SplitsFit
  <1> HIDE DEF parts, fee
  <1>2. /\ \A i \in D : borne[i] \in Nat
        /\ SumFunctionOnSet(borne, D) = fee
    <2> HIDE DEF borne
    <2> QED BY <1>1, FeeIsBorne DEF borne
  <1>3. /\ IsFiniteSet(D) /\ fee \in Nat
        /\ DOMAIN g = D /\ DOMAIN shares = D /\ R \subseteq D
    BY <1>1 DEF IsDivisible, GrossAmounts, Shares, Recorded
  <1>4. \A i \in D : /\ g[i] \in Nat /\ g[i] = parts[i].gross
                     /\ shares[i] = g[i] - borne[i]
                     /\ borne[i] = FeeShare(parts, fee, i)
    BY <1>1 DEF IsDivisible, GrossAmounts, Shares
  <1>5. Gross(parts) = SumFunctionOnSet(g, D)
    BY <1>3, SumIsOverDomain DEF Gross
  <1>6. SumFunction(shares) = SumFunctionOnSet(shares, D)
    BY <1>3, SumIsOverDomain
  <1>7. R = {i \in D : shares[i] > 0}
    BY DEF Recorded
  <1> HIDE DEF D, g, borne, shares, R
  <1>8. \A i \in D : shares[i] \in Int
    BY <1>2, <1>4
  <1>9. SumFunctionOnSet(shares, D) \in Int
    BY <1>3, <1>8, SumIsInt
  <1>10. SumFunctionOnSet(g, D) =
            1 * SumFunctionOnSet(shares, D) + SumFunctionOnSet(borne, D)
    <2>1. 1 \in Int /\ \A i \in D : /\ shares[i] \in Int /\ borne[i] \in Int
                                    /\ g[i] = 1 * shares[i] + borne[i]
      BY <1>2, <1>4, <1>8
    <2> QED BY <1>3, <2>1, SumIsLinear
  <1>11. SumFunction(shares) = Gross(parts) - fee
    BY <1>2, <1>3, <1>5, <1>6, <1>9, <1>10
  <1>12. ASSUME fee <= Base(parts)
         PROVE  SumFunctionOnSet(shares, R) = Gross(parts) - fee
    <2>1. \A i \in D : borne[i] <= g[i]
      BY <1>1, <1>4, <1>12, ShareIsBorneByItsPart DEF D
    <2>2. \A i \in D \ R : shares[i] = 0
      BY <1>2, <1>4, <1>7, <2>1
    <2>3. IsFiniteSet(D \ R) /\ IsFiniteSet(R)
      BY <1>3, FS_Subset
    <2>4. SumFunctionOnSet(shares, D) =
            SumFunctionOnSet(shares, R) + SumFunctionOnSet(shares, D \ R)
      BY <1>3, <1>8, SumOfParts
    <2>5. SumFunctionOnSet(shares, D \ R) = 0
      BY <2>2, <2>3, SumOfZeros
    <2>6. SumFunctionOnSet(shares, R) \in Int
      BY <1>3, <1>8, <2>3, SumIsInt
    <2>7. SumFunctionOnSet(shares, D) = SumFunctionOnSet(shares, R)
      BY <2>4, <2>5, <2>6
    <2> QED BY <1>6, <1>11, <2>7
  <1> QED BY <1>11, <1>12 DEF SharesAddUp, parts, fee, shares, R

\* Of two parts, one kobo of fee moved from the one to the other never brings
\* both nearer to their exact quotas, and a tax bears nothing.
THEOREM SharesAreAlwaysFair == split \in Splits => SharesAreFair
  <1> SUFFICES ASSUME split \in Splits PROVE SharesAreFair
    OBVIOUS
  <1> DEFINE parts == split[1]
             fee == split[2]
             S == Bearing(parts)
             rem(i) == Remainder(parts, fee, i)
             bonus(i) == Bonus(parts, fee, i)
             B == Base(parts)
  <1>1. IsDivisible(parts, fee)
    BY SplitsFit
  <1> HIDE DEF parts, fee
  <1>2. \A i \in DOMAIN parts \ S : FeeShare(parts, fee, i) = 0
    BY <1>1, ShareIsFloorAndBonus
  <1>3. ASSUME NEW i \in S
        PROVE  /\ B \in Nat \ {0} /\ rem(i) \in 0..(B - 1) /\ bonus(i) \in {0, 1}
               /\ Excess(parts, fee, i) = bonus(i) * B - rem(i)
    <2> DEFINE q == Floor(parts, fee, i)
               e == FeeShare(parts, fee, i)
               c == fee * parts[i].gross
    <2>1. B \in Nat \ {0} /\ i \in DOMAIN parts
      BY <1>1, BaseIsPositive DEF Bearing
    <2>2. q \in Nat /\ rem(i) \in 0..(B - 1) /\ c = B * q + rem(i)
      BY <1>1, QuotaIsDivided
    <2>3. e = q + bonus(i) /\ bonus(i) \in {0, 1}
      BY <1>1, <2>1, ShareIsFloorAndBonus
    <2>4. Excess(parts, fee, i) = e * B - c
      BY DEF Excess
    <2> HIDE DEF q, e, c, B, rem, bonus
    <2>5. (q + bonus(i)) * B = q * B + bonus(i) * B /\ B * q = q * B
      <3>1. CASE bonus(i) = 0
        BY <2>1, <2>2, <3>1
      <3>2. CASE bonus(i) = 1
        BY <2>1, <2>2, <3>2
      <3> QED BY <2>3, <3>1, <3>2
    <2>6. q * B \in Int /\ bonus(i) * B \in Int /\ rem(i) \in Int
      BY <2>1, <2>2, <2>3
    <2>7. Excess(parts, fee, i) = bonus(i) * B - rem(i)
      BY <2>2, <2>3, <2>4, <2>5, <2>6
    <2> QED BY <2>1, <2>2, <2>3, <2>7
  <1>4. ASSUME NEW i \in S, NEW j \in S, bonus(i) = 1, bonus(j) = 0
        PROVE  rem(j) <= rem(i)
    <2> DEFINE before == [k \in S |-> Before(parts, fee, k)]
    <2>1. CASE rem(j) > rem(i)
      <3>1. j \in before[i]
        BY <2>1 DEF Before
      <3>2. Orders(before, S) /\ IsFiniteSet(S)
        BY <1>1, ServedInOrder, BaseIsPositive
      <3> HIDE DEF before, S
      <3>3. /\ Cardinality(before[i]) \in Nat /\ Cardinality(before[j]) \in Nat
            /\ Cardinality(before[j]) < Cardinality(before[i])
        BY <3>1, <3>2, RanksGrow
      <3>4. /\ Cardinality(before[i]) < Leftover(parts, fee)
            /\ ~ (Cardinality(before[j]) < Leftover(parts, fee))
        BY <1>4 DEF Bonus, before
      <3>5. Leftover(parts, fee) \in Int
        BY <1>1, LeftoverIsRemainders DEF S
      <3> QED BY <3>3, <3>4, <3>5
    <2>2. rem(i) \in Int /\ rem(j) \in Int
      BY <1>3
    <2> QED BY <2>1, <2>2
  <1>5. ASSUME NEW i \in S, NEW j \in S
        PROVE  Excess(parts, fee, i) - Excess(parts, fee, j) <= B
    <2>1. /\ B \in Nat \ {0} /\ rem(i) \in 0..(B - 1) /\ rem(j) \in 0..(B - 1)
          /\ bonus(i) \in {0, 1} /\ bonus(j) \in {0, 1}
          /\ Excess(parts, fee, i) = bonus(i) * B - rem(i)
          /\ Excess(parts, fee, j) = bonus(j) * B - rem(j)
      BY <1>3
    <2>2. bonus(i) = 1 /\ bonus(j) = 0 => rem(j) <= rem(i)
      BY <1>4
    <2> HIDE DEF B, rem, bonus
    <2>3. CASE bonus(i) = 1
      BY <2>1, <2>2, <2>3
    <2>4. CASE bonus(i) = 0
      BY <2>1, <2>4
    <2> QED BY <2>1, <2>3, <2>4
  <1> QED BY <1>2, <1>5 DEF SharesAreFair, parts, fee, S, B

=============================================================================

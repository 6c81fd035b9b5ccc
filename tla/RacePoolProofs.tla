---------------------------- MODULE RacePoolProofs ----------------------------
(***************************************************************************)
(* What holds of betting and settlement for any races, bets, sessions and  *)
(* funds.  In this order: a division is fair and to the last unit; a       *)
(* settled race has no bet left behind and a closed pool takes none; a     *)
(* carryover is applied once; the balances of bettors and of pools are     *)
(* what the bets, the settlements and the carryovers say; and a race with  *)
(* money stuck in it is on its reconciliation report.                      *)
(***************************************************************************)
EXTENDS SettlementReconciliation, SumTheorems, TLAPS

-----------------------------------------------------------------------------
(* The division of a pool *)

\* Dividing by a positive number leaves a quotient and a remainder.
LEMMA DivMod ==
  ASSUME NEW a \in Nat, NEW w \in Nat \ {0}
  PROVE  /\ a \div w \in Nat /\ a % w \in 0 .. w - 1
         /\ a = w * (a \div w) + (a % w)
<1>1. a \div w \in Int /\ a % w \in Int
  OBVIOUS
<1>2. a % w \in 0 .. w - 1
  OBVIOUS
<1>3. a = w * (a \div w) + (a % w)
  OBVIOUS
<1>4. a \div w >= 0
  OBVIOUS
<1> QED
  BY <1>1, <1>2, <1>3, <1>4

\* A part of what p times w is, counted in units of w and rounded down.
LEMMA RoundedDown ==
  ASSUME NEW a \in Nat, NEW w \in Nat \ {0}, NEW p \in Nat, a <= w * p,
         NEW q, q = a \div w
  PROVE  q \in 0 .. p /\ q * w \in a - w + 1 .. a
<1>1. q \in Nat /\ a % w \in 0 .. w - 1 /\ a = w * q + (a % w)
  BY DivMod
<1>2. PICK r \in 0 .. w - 1 : a = w * q + r
  BY <1>1
<1>3. PICK m \in Nat : m = w * q /\ m = q * w
  <2>1. w * q \in Nat /\ w * q = q * w
    BY <1>1
  <2> QED
    BY <2>1
<1>4. m <= a /\ a - w + 1 <= m /\ m \in Int /\ a - w + 1 \in Int
  BY <1>2, <1>3
<1>5. q <= p
  <2> SUFFICES ASSUME p + 1 <= q PROVE FALSE
    BY <1>1
  <2>1. \A x, y, z \in Nat : x <= y => z * x <= z * y
    OBVIOUS
  <2>2. w * (p + 1) <= m
    BY <1>1, <1>3, <2>1
  <2>3. w * (p + 1) = w * p + w /\ w * p \in Nat
    OBVIOUS
  <2> QED
    BY <1>4, <2>2, <2>3
<1> QED
  BY <1>1, <1>3, <1>4, <1>5

\* The house take is its share in basis points of the stakes, rounded down.
LEMMA HouseShare ==
  ASSUME NEW stake, Total(stake) \in Nat, NEW bps \in 0 .. BasisPoints
  PROVE  /\ HouseTake(stake, bps) \in 0 .. Total(stake)
         /\ HouseTake(stake, bps) * BasisPoints
              \in Total(stake) * bps - BasisPoints + 1 .. Total(stake) * bps
<1> DEFINE p == Total(stake)
           w == BasisPoints
           a == p * bps
           h == HouseTake(stake, bps)
<1>1. w \in Nat \ {0} /\ p \in Nat /\ bps \in Nat /\ bps <= w
  BY DEF BasisPoints
<1>2. h = a \div w
  BY DEF HouseTake
<1> HIDE DEF p, w, h
<1>3. a \in Nat /\ a <= w * p
  <2>1. \A x, y, z \in Nat : x <= y => z * x <= z * y
    OBVIOUS
  <2>2. p * bps \in Nat /\ p * bps <= p * w /\ p * w = w * p
    BY <1>1, <2>1
  <2> QED
    BY <2>2
<1> HIDE DEF a
<1>4. h \in 0 .. p /\ h * w \in a - w + 1 .. a
  BY <1>1, <1>2, <1>3, RoundedDown
<1> QED
  BY <1>4 DEF a, p, w, h

\* In a strict order of a finite set, as many elements have fewer than L before
\* them as L says.
LEMMA Ranks ==
  ASSUME NEW S, IsFiniteSet(S), NEW R,
         \A x \in S : <<x, x>> \notin R,
         \A x, y, z \in S : <<x, y>> \in R /\ <<y, z>> \in R => <<x, z>> \in R,
         \A x, y \in S : x = y \/ <<x, y>> \in R \/ <<y, x>> \in R,
         NEW ahead, \A x \in S : ahead[x] \in SUBSET S,
         \A x, y \in S : y \in ahead[x] <=> <<y, x>> \in R,
         NEW rank, \A x \in S : rank[x] = Cardinality(ahead[x]),
         NEW L \in Nat, L <= Cardinality(S),
         NEW first, first = {x \in S : rank[x] < L}
  PROVE  Cardinality(first) = L
<1> DEFINE Ahead(x) == ahead[x]
           n == Cardinality(S)
           First == first
           place == [x \in First |-> rank[x]]
<1>1. n \in Nat /\ \A x \in S : IsFiniteSet(Ahead(x)) /\ rank[x] \in Nat
  <2>1. \A x \in S : Ahead(x) \in SUBSET S
    OBVIOUS
  <2> QED
    BY <2>1, FS_Subset, FS_CardinalityType
<1>2. \A x \in S : rank[x] \in 0 .. n - 1
  <2> TAKE x \in S
  <2>1. Ahead(x) \in SUBSET S /\ x \notin Ahead(x) /\ rank[x] = Cardinality(Ahead(x))
    OBVIOUS
  <2>2. Cardinality(Ahead(x)) <= n /\ (n = Cardinality(Ahead(x)) => S = Ahead(x))
    BY <2>1, FS_Subset
  <2>3. n \in Nat /\ rank[x] \in Nat
    BY <1>1
  <2> HIDE DEF n, Ahead
  <2>4. rank[x] < n
    BY <2>1, <2>2, <2>3
  <2> QED
    BY <2>3, <2>4
<1>3. \A x, y \in S : <<x, y>> \in R => rank[x] < rank[y]
  <2> SUFFICES ASSUME NEW x \in S, NEW y \in S, <<x, y>> \in R PROVE rank[x] < rank[y]
    OBVIOUS
  <2>1. Ahead(x) \in SUBSET Ahead(y) /\ x \in Ahead(y) /\ x \notin Ahead(x)
    OBVIOUS
  <2>2. Cardinality(Ahead(x)) <= Cardinality(Ahead(y))
        /\ (Cardinality(Ahead(y)) = Cardinality(Ahead(x)) => Ahead(y) = Ahead(x))
    BY <2>1, <1>1, FS_Subset
  <2> QED
    BY <2>1, <2>2, <1>1
<1>4. \A x, y \in S : rank[x] = rank[y] => x = y
  <2> SUFFICES ASSUME NEW x \in S, NEW y \in S, x # y PROVE rank[x] # rank[y]
    OBVIOUS
  <2>1. rank[x] \in Nat /\ rank[y] \in Nat
    BY <1>1
  <2>2. rank[x] < rank[y] \/ rank[y] < rank[x]
    BY <1>3
  <2> QED
    BY <2>1, <2>2
<1> DEFINE ranks == [x \in S |-> rank[x]]
<1>5. ranks \in Injection(S, 0 .. n - 1)
  <2>1. ranks \in [S -> 0 .. n - 1]
    BY <1>2
  <2>2. \A x, y \in S : ranks[x] = ranks[y] => x = y
    BY <1>4
  <2> HIDE DEF ranks
  <2> QED
    BY <2>1, <2>2 DEF Injection, IsInjective
<1>6. IsFiniteSet(0 .. n - 1) /\ Cardinality(0 .. n - 1) = n
  <2> HIDE DEF n
  <2>1. IsFiniteSet(0 .. n - 1) /\ Cardinality(0 .. n - 1) = IF 0 > n - 1 THEN 0 ELSE n - 1 - 0 + 1
    BY <1>1, FS_Interval
  <2> QED
    BY <2>1, <1>1
<1>7. ranks \in Surjection(S, 0 .. n - 1)
  BY <1>5, <1>6, FS_Injection
<1>8. First \in SUBSET S /\ IsFiniteSet(First)
  BY FS_Subset
<1>9. IsFiniteSet(0 .. L - 1) /\ Cardinality(0 .. L - 1) = L
  BY FS_Interval
<1>10. place \in Bijection(First, 0 .. L - 1)
  <2>1. place \in [First -> 0 .. L - 1]
    BY <1>2
  <2>2. \A x, y \in First : place[x] = place[y] => x = y
    BY <1>4
  <2>3. \A i \in 0 .. L - 1 : \E x \in First : place[x] = i
    <3> SUFFICES ASSUME NEW i \in 0 .. L - 1 PROVE \E x \in First : place[x] = i
      OBVIOUS
    <3>1. i \in 0 .. n - 1
      BY <1>1
    <3> HIDE DEF n
    <3>2. PICK x \in S : ranks[x] = i
      BY <1>7, <3>1 DEF Surjection
    <3>3. x \in First
      BY <3>2
    <3> QED
      BY <3>2, <3>3
  <2> HIDE DEF place, First
  <2> QED
    BY <2>1, <2>2, <2>3 DEF Bijection, Injection, Surjection, IsInjective
<1>11. ExistsBijection(First, 0 .. L - 1)
  BY <1>10 DEF ExistsBijection
<1>12. Cardinality(First) = L
  BY <1>8, <1>9, <1>11, FS_Bijection
<1> QED
  BY <1>12

-----------------------------------------------------------------------------

\* The winners and the pool of a division that has some.
DivisionInputs(D, stake, winners, net) ==
  /\ IsFiniteSet(D) /\ D \subseteq Nat
  /\ stake \in [D -> Nat \ {0}]
  /\ winners \in SUBSET D /\ winners # {}
  /\ net \in Nat

LEMMA StakesOnWinners ==
  ASSUME NEW D, NEW stake, NEW winners, NEW net, DivisionInputs(D, stake, winners, net)
  PROVE  /\ IsFiniteSet(winners)
         /\ StakesOn(stake, winners) = Sum(stake, winners)
         /\ StakesOn(stake, winners) \in Nat \ {0}
<1>1. IsFiniteSet(winners) /\ NatOn(stake, winners) /\ IntOn(stake, winners)
  <2>1. IsFiniteSet(D) /\ winners \in SUBSET D
    BY DEF DivisionInputs
  <2>2. \A b \in winners : stake[b] \in Nat
    BY DEF DivisionInputs
  <2> QED
    BY <2>1, <2>2, FS_Subset DEF NatOn, IntOn
<1>2. StakesOn(stake, winners) = Sum(stake, winners)
  BY DEF StakesOn, Sum
<1>3. PICK w \in winners : TRUE
  BY DEF DivisionInputs
<1>4. Sum(stake, winners) = stake[w] + Sum(stake, winners \ {w})
  BY <1>1, SumRemove
<1>5. IsFiniteSet(winners \ {w}) /\ NatOn(stake, winners \ {w})
  BY <1>1, FS_RemoveElement DEF NatOn
<1>6. Sum(stake, winners \ {w}) \in Nat
  BY <1>5, SumNat
<1>7. stake[w] \in Nat \ {0}
  BY DEF DivisionInputs
<1> QED
  BY <1>1, <1>2, <1>4, <1>6, <1>7

\* What rounding leaves: the remainders add up to so many units, fewer than
\* there are winners that do not divide evenly.
LEMMA LeftoverFits ==
  ASSUME NEW D, NEW stake, NEW winners, NEW net, DivisionInputs(D, stake, winners, net),
         NEW uneven, uneven = {b \in winners : Remainder(stake, winners, net, b) # 0}
  PROVE  /\ Leftover(stake, winners, net) \in Nat
         /\ Leftover(stake, winners, net) <= Cardinality(uneven)
<1> DEFINE W == StakesOn(stake, winners)
           base == [b \in winners |-> Base(stake, winners, net, b)]
           rem == [b \in winners |-> Remainder(stake, winners, net, b)]
           part == [b \in winners |-> net * stake[b]]
           L == Leftover(stake, winners, net)
           cap == [b \in winners |-> (W - 1) * (IF b \in uneven THEN 1 ELSE 0)]
           one == [b \in winners |-> IF b \in uneven THEN 1 ELSE 0]
           floor == [b \in winners |-> W * base[b]]
<1>1. IsFiniteSet(winners) /\ W = Sum(stake, winners) /\ W \in Nat \ {0} /\ net \in Nat
      /\ IntOn(stake, winners)
  <2>1. IsFiniteSet(winners) /\ W = Sum(stake, winners) /\ W \in Nat \ {0}
    BY StakesOnWinners
  <2>2. net \in Nat /\ \A b \in winners : stake[b] \in Int
    BY DEF DivisionInputs
  <2> QED
    BY <2>1, <2>2 DEF IntOn
<1>2. \A b \in winners : /\ base[b] \in Nat /\ rem[b] \in 0 .. W - 1
                         /\ part[b] = W * base[b] + rem[b]
  <2> TAKE b \in winners
  <2>1. net * stake[b] \in Nat
    BY <1>1 DEF DivisionInputs
  <2>2. base[b] = (net * stake[b]) \div W /\ rem[b] = (net * stake[b]) % W
        /\ part[b] = net * stake[b]
    BY DEF Base, Remainder
  <2> HIDE DEF W, base, rem, part
  <2> QED
    BY <1>1, <2>1, <2>2, DivMod, ZenonT(40)
<1>3. L = net - Sum(base, winners)
  BY DEF Leftover, Sum
<1>4. uneven = {b \in winners : rem[b] # 0}
      /\ \A b \in winners : one[b] = IF b \in uneven THEN 1 ELSE 0
  OBVIOUS
<1>5. \A b \in winners : part[b] = net * stake[b] /\ floor[b] = W * base[b]
                        /\ cap[b] = (W - 1) * one[b]
  OBVIOUS
<1> HIDE DEF W, base, rem, part, L, cap, one, floor
<1>6. IntOn(base, winners) /\ IntOn(rem, winners) /\ NatOn(rem, winners)
      /\ IntOn(one, winners)
  BY <1>1, <1>2, <1>4 DEF IntOn, NatOn
<1>7. IntOn(floor, winners) /\ IntOn(cap, winners)
  BY <1>1, <1>5, <1>6 DEF IntOn
<1>8. Sum(part, winners) = net * W
  BY <1>1, <1>5, SumTimes
<1>9. Sum(floor, winners) = W * Sum(base, winners)
  BY <1>1, <1>5, <1>6, SumTimes
<1>10. Sum(part, winners) = Sum(floor, winners) + Sum(rem, winners)
  BY <1>1, <1>2, <1>5, <1>6, <1>7, SumPlus
<1>11. Sum(base, winners) \in Int /\ Sum(rem, winners) \in Nat
  BY <1>1, <1>6, SumInt, SumNat
<1>12. L \in Int /\ Sum(rem, winners) = W * L
  <2> DEFINE x == Sum(base, winners)
  <2>1. Sum(rem, winners) = net * W - W * x
    BY <1>1, <1>8, <1>9, <1>10, <1>11
  <2>2. net * W - W * x = W * (net - x)
    BY <1>1, <1>11
  <2> QED
    BY <1>1, <1>3, <1>11, <2>1, <2>2
<1>13. Sum(one, winners) = Cardinality(uneven) /\ Cardinality(uneven) \in Nat
  <2>1. uneven \in SUBSET winners
    BY <1>4
  <2> QED
    BY <1>1, <1>4, <2>1, SumCounts, FS_Subset, FS_CardinalityType
<1>14. Sum(cap, winners) = (W - 1) * Cardinality(uneven)
  <2>1. W - 1 \in Int /\ \A b \in winners : cap[b] = (W - 1) * one[b]
    BY <1>1, <1>5
  <2>2. Sum(cap, winners) = (W - 1) * Sum(one, winners)
    BY <1>1, <1>6, <2>1, SumTimes
  <2> QED
    BY <1>13, <2>2
<1>15. \A b \in winners : rem[b] <= cap[b]
  BY <1>1, <1>2, <1>4, <1>5
<1>16. Sum(rem, winners) <= Sum(cap, winners)
  BY <1>1, <1>6, <1>7, <1>15, SumLeq
<1>17. W * L >= 0 /\ W * L <= (W - 1) * Cardinality(uneven)
  BY <1>11, <1>12, <1>14, <1>16
<1>18. \A w, l, m \in Int :
         w > 0 /\ m >= 0 /\ w * l >= 0 /\ w * l <= (w - 1) * m => l >= 0 /\ l <= m
  <2> TAKE w, l, m \in Int
  <2> HAVE w > 0 /\ m >= 0 /\ w * l >= 0 /\ w * l <= (w - 1) * m
  <2>1. l >= 0
    OBVIOUS
  <2>2. (w - 1) * m <= w * m
    OBVIOUS
  <2>3. w * l <= w * m
    BY <2>2
  <2>4. l <= m
    BY <2>3
  <2> QED
    BY <2>1, <2>4
<1> QED
  BY <1>1, <1>12, <1>13, <1>17, <1>18 DEF L

\* Who gets one of the units that rounding left.
GetsUnit(stake, winners, net, b) ==
  Cardinality({c \in winners : Before(stake, winners, net, c, b)})
    < Leftover(stake, winners, net)

\* The units that rounding left go to as many winners, each of which did not
\* divide evenly and comes before every winner that gets none.
LEMMA UnitsGiven ==
  ASSUME NEW D, NEW stake, NEW winners, NEW net, DivisionInputs(D, stake, winners, net),
         NEW up, up = {b \in winners : GetsUnit(stake, winners, net, b)}
  PROVE  /\ Cardinality(up) = Leftover(stake, winners, net)
         /\ \A b \in up : Remainder(stake, winners, net, b) > 0
         /\ \A b \in up, d \in winners \ up : Before(stake, winners, net, b, d)
<1> DEFINE rem == [b \in winners |-> Remainder(stake, winners, net, b)]
           uneven == {b \in winners : rem[b] # 0}
           L == Leftover(stake, winners, net)
           R == {p \in winners \X winners : Before(stake, winners, net, p[1], p[2])}
           Ahead(x) == {y \in winners : <<y, x>> \in R}
           rank == [x \in winners |-> Cardinality(Ahead(x))]
<1>1. /\ IsFiniteSet(winners) /\ \A b \in winners : b \in Nat
      /\ \A b \in winners : rem[b] \in Nat
  <2>1. IsFiniteSet(winners) /\ StakesOn(stake, winners) \in Nat \ {0}
    BY StakesOnWinners
  <2>2. \A b \in winners : b \in Nat /\ net * stake[b] \in Nat
    BY DEF DivisionInputs
  <2>3. ASSUME NEW b \in winners
        PROVE  Remainder(stake, winners, net, b) \in Nat
    <3> DEFINE a == net * stake[b]
               w == StakesOn(stake, winners)
    <3>1. a \in Nat /\ w \in Nat \ {0} /\ Remainder(stake, winners, net, b) = a % w
      BY <2>1, <2>2 DEF Remainder
    <3> HIDE DEF a, w
    <3> QED
      BY <3>1, DivMod
  <2> QED
    BY <2>1, <2>2, <2>3
<1>2. L \in Nat /\ L <= Cardinality(uneven)
  <2>1. uneven = {b \in winners : Remainder(stake, winners, net, b) # 0}
    OBVIOUS
  <2> HIDE DEF uneven
  <2> QED
    BY <2>1, LeftoverFits
<1>3. \A x, y \in winners : <<x, y>> \in R <=> \/ rem[x] > rem[y]
                                             \/ (rem[x] = rem[y] /\ x < y)
  BY DEF Before
<1>4. /\ up = {b \in winners : Cardinality(Ahead(b)) < L}
      /\ up = {b \in winners : rank[b] < L}
  <2>1. \A b \in winners : Ahead(b) = {c \in winners : Before(stake, winners, net, c, b)}
    OBVIOUS
  <2> QED
    BY <2>1 DEF GetsUnit
<1>5. \A x, y \in winners : <<x, y>> \in R => Before(stake, winners, net, x, y)
  OBVIOUS
<1>6. \A b \in winners : rem[b] = Remainder(stake, winners, net, b)
  OBVIOUS
<1>7. uneven = {b \in winners : rem[b] # 0} /\ uneven \in SUBSET winners
  OBVIOUS
<1>8. \A b \in winners : Ahead(b) \in SUBSET winners
  OBVIOUS
<1>19. \A b \in winners : rank[b] = Cardinality(Ahead(b))
  OBVIOUS
<1> HIDE DEF rem, uneven, L, R, rank
<1>9. Cardinality(uneven) <= Cardinality(winners) /\ IsFiniteSet(uneven)
      /\ Cardinality(uneven) \in Nat /\ Cardinality(winners) \in Nat
  BY <1>1, <1>7, FS_Subset, FS_CardinalityType
<1>10. \A b \in winners : IsFiniteSet(Ahead(b))
  BY <1>1, <1>8, FS_Subset
<1>20. \A b \in winners : rank[b] \in Nat
  BY <1>10, <1>19, FS_CardinalityType
<1>21. \A b, d \in winners : <<d, b>> \in R <=> d \in Ahead(b)
  OBVIOUS
<1> HIDE DEF Ahead
<1>11. \A x \in winners : <<x, x>> \notin R
  BY <1>1, <1>3
<1>12. \A x, y, z \in winners : <<x, y>> \in R /\ <<y, z>> \in R => <<x, z>> \in R
  BY <1>1, <1>3
<1>13. \A x, y \in winners : x = y \/ <<x, y>> \in R \/ <<y, x>> \in R
  <2> TAKE x, y \in winners
  <2>1. /\ x \in Nat /\ y \in Nat /\ rem[x] \in Nat /\ rem[y] \in Nat
        /\ <<x, y>> \in R <=> rem[x] > rem[y] \/ (rem[x] = rem[y] /\ x < y)
        /\ <<y, x>> \in R <=> rem[y] > rem[x] \/ (rem[y] = rem[x] /\ y < x)
    BY <1>1, <1>3
  <2> QED
    BY <2>1
<1>14. L <= Cardinality(winners)
  BY <1>2, <1>9
<1>15. Cardinality(up) = L
  <2>2. IsFiniteSet(winners) /\ L \in Nat
    BY <1>1, <1>2
  <2> DEFINE ahead == [x \in winners |-> Ahead(x)]
  <2>1. /\ \A x \in winners : ahead[x] \in SUBSET winners
        /\ \A x, y \in winners : y \in ahead[x] <=> <<y, x>> \in R
        /\ \A x \in winners : rank[x] = Cardinality(ahead[x])
    BY <1>8, <1>19, <1>21
  <2> HIDE DEF ahead
  <2> QED
    BY <1>4, <1>11, <1>12, <1>13, <1>14, <2>1, <2>2, Ranks, SMTT(30)
<1>16. \A b \in up : rem[b] > 0
  <2> SUFFICES ASSUME NEW b \in winners, rem[b] = 0
               PROVE  ~(rank[b] < L)
    BY <1>1, <1>4
  <2>1. uneven \in SUBSET Ahead(b)
    <3> SUFFICES ASSUME NEW c \in uneven PROVE c \in Ahead(b)
      OBVIOUS
    <3>1. c \in winners /\ rem[c] \in Nat /\ rem[c] # 0
      BY <1>1, <1>7
    <3>2. rem[c] > rem[b]
      BY <3>1
    <3> QED
      BY <1>3, <1>21, <3>1, <3>2
  <2>2. Cardinality(uneven) <= rank[b]
    BY <1>10, <1>19, <2>1, FS_Subset
  <2> QED
    BY <1>2, <1>9, <1>20, <2>2
<1>17. \A b \in up, d \in winners \ up : <<b, d>> \in R
  <2> SUFFICES ASSUME NEW b \in winners, NEW d \in winners, <<d, b>> \in R,
                      rank[b] < L
               PROVE  rank[d] < L
    BY <1>4, <1>13
  <2>1. Ahead(d) \in SUBSET Ahead(b)
    BY <1>8, <1>12, <1>21
  <2>2. rank[d] <= rank[b]
    BY <1>10, <1>19, <2>1, FS_Subset
  <2> QED
    BY <1>2, <1>20, <2>2
<1> QED
  BY <1>4, <1>5, <1>6, <1>15, <1>16, <1>17 DEF L

\* The winners are paid the pool to the last unit, each within a unit of its exact
\* share, those with the larger remainders rounded up.
LEMMA WinnersPaid ==
  ASSUME NEW D, NEW stake, NEW winners, NEW net, DivisionInputs(D, stake, winners, net),
         NEW W, W = StakesOn(stake, winners),
         NEW paid, \A b \in winners : paid[b] = Payout(stake, winners, net, b)
  PROVE  /\ NatOn(paid, winners)
         /\ Sum(paid, winners) = net
         /\ \A b \in winners : LET over == paid[b] * W - net * stake[b]
                               IN -W < over /\ over < W
         /\ \A b, d \in winners :
              LET overB == paid[b] * W - net * stake[b]
                  overD == paid[d] * W - net * stake[d]
              IN overB > 0 /\ overD < 0 =>
                   overB < W + overD \/ (overB = W + overD /\ b < d)
<1> DEFINE base == [b \in winners |-> Base(stake, winners, net, b)]
           rem == [b \in winners |-> Remainder(stake, winners, net, b)]
           part == [b \in winners |-> net * stake[b]]
           up == {b \in winners : GetsUnit(stake, winners, net, b)}
           unit == [b \in winners |-> IF b \in up THEN 1 ELSE 0]
           L == Leftover(stake, winners, net)
<1>1. IsFiniteSet(winners) /\ W \in Nat \ {0} /\ net \in Nat
  <2>1. IsFiniteSet(winners) /\ W \in Nat \ {0}
    BY StakesOnWinners
  <2> QED
    BY <2>1 DEF DivisionInputs
<1>2. \A b \in winners : /\ base[b] \in Nat /\ rem[b] \in 0 .. W - 1
                         /\ part[b] = W * base[b] + rem[b]
  <2> TAKE b \in winners
  <2>1. net * stake[b] \in Nat
    BY <1>1 DEF DivisionInputs
  <2>2. base[b] = (net * stake[b]) \div W /\ rem[b] = (net * stake[b]) % W
        /\ part[b] = net * stake[b]
    BY DEF Base, Remainder
  <2> HIDE DEF base, rem, part
  <2> QED
    BY <1>1, <2>1, <2>2, DivMod, ZenonT(40)
<1>3. L = net - Sum(base, winners)
  BY DEF Leftover, Sum
<1>4. /\ Cardinality(up) = L
      /\ \A b \in up : rem[b] > 0
      /\ \A b \in up, d \in winners \ up : Before(stake, winners, net, b, d)
  BY UnitsGiven
<1>5. \A b, d \in winners : Before(stake, winners, net, b, d) =>
                             rem[b] > rem[d] \/ (rem[b] = rem[d] /\ b < d)
  BY DEF Before
<1>6. \A b \in winners : paid[b] = base[b] + unit[b]
  BY DEF Payout, GetsUnit
<1>7. \A b \in winners : unit[b] = IF b \in up THEN 1 ELSE 0
  OBVIOUS
<1>8. up \in SUBSET winners
  OBVIOUS
<1>9. \A b \in winners : part[b] = net * stake[b]
  OBVIOUS
<1> HIDE DEF base, rem, part, up, unit, L
<1>10. IntOn(base, winners) /\ IntOn(unit, winners) /\ NatOn(paid, winners)
  BY <1>2, <1>6, <1>7 DEF IntOn, NatOn
<1>11. Sum(paid, winners) = Sum(base, winners) + Sum(unit, winners)
  BY <1>1, <1>6, <1>10, SumPlus
<1>12. Sum(unit, winners) = L
  BY <1>1, <1>4, <1>7, <1>8, SumCounts
<1>13. Sum(base, winners) \in Int
  BY <1>1, <1>10, SumInt
<1>14. Sum(paid, winners) = net
  BY <1>1, <1>3, <1>11, <1>12, <1>13
<1>15. \A b \in winners : paid[b] * W - net * stake[b]
                           = IF b \in up THEN W - rem[b] ELSE - rem[b]
  <2> TAKE b \in winners
  <2>1. \A m \in Int : (m + 1) * W - (W * m + rem[b]) = W - rem[b]
                       /\ (m + 0) * W - (W * m + rem[b]) = - rem[b]
    BY <1>1, <1>2
  <2> QED
    BY <1>2, <1>6, <1>7, <1>9, <2>1
<1>16. ASSUME NEW b \in winners
       PROVE  LET over == paid[b] * W - net * stake[b] IN -W < over /\ over < W
  <2>1. rem[b] \in 0 .. W - 1 /\ (b \in up => rem[b] > 0)
    BY <1>2, <1>4
  <2> QED
    BY <1>1, <1>15, <2>1
<1>17. ASSUME NEW b \in winners, NEW d \in winners
       PROVE  LET overB == paid[b] * W - net * stake[b]
                  overD == paid[d] * W - net * stake[d]
              IN overB > 0 /\ overD < 0 =>
                   overB < W + overD \/ (overB = W + overD /\ b < d)
  <2> DEFINE overB == paid[b] * W - net * stake[b]
             overD == paid[d] * W - net * stake[d]
  <2>1. /\ overB = IF b \in up THEN W - rem[b] ELSE - rem[b]
        /\ overD = IF d \in up THEN W - rem[d] ELSE - rem[d]
    BY <1>15
  <2>2. rem[b] \in 0 .. W - 1 /\ rem[d] \in 0 .. W - 1
    BY <1>2
  <2>3. b \in up /\ d \notin up => rem[b] > rem[d] \/ (rem[b] = rem[d] /\ b < d)
    BY <1>4, <1>5
  <2> HIDE DEF overB, overD
  <2>4. overB > 0 /\ overD < 0 => overB < W + overD \/ (overB = W + overD /\ b < d)
    BY <1>1, <2>1, <2>2, <2>3
  <2> QED
    BY <2>4 DEF overB, overD
<1> QED
  BY <1>10, <1>14, <1>16, <1>17

\* A pool and what is carried into it, to be divided.
PoolInputs(D, stake, winners, carried, bps) ==
  /\ IsFiniteSet(D) /\ D \subseteq Nat
  /\ stake \in [D -> Nat \ {0}]
  /\ winners \in SUBSET D
  /\ carried \in Nat /\ bps \in 0 .. BasisPoints

\* The house takes no more than the stakes; the rest is what is divided.
LEMMA HouseAndNet ==
  ASSUME NEW D, NEW stake, NEW winners, NEW carried, NEW bps,
         PoolInputs(D, stake, winners, carried, bps)
  PROVE  /\ Total(stake) = Sum(stake, D) /\ Total(stake) \in Nat
         /\ HouseTake(stake, bps) \in 0 .. Total(stake)
         /\ HouseTake(stake, bps) * BasisPoints
              \in Total(stake) * bps - BasisPoints + 1 .. Total(stake) * bps
         /\ NetPool(stake, carried, bps) \in Nat
<1> DEFINE t == Total(stake)
<1>1. Total(stake) = Sum(stake, D)
  BY SumIsTotal DEF PoolInputs
<1>2. Sum(stake, D) \in Nat
  <2>1. IsFiniteSet(D) /\ NatOn(stake, D)
    BY DEF PoolInputs, NatOn
  <2> QED
    BY <2>1, SumNat
<1>3. t \in Nat /\ bps \in 0 .. 10000 /\ carried \in Nat
  BY <1>1, <1>2 DEF PoolInputs, BasisPoints
<1>4. /\ HouseTake(stake, bps) = (t * bps) \div 10000
      /\ NetPool(stake, carried, bps) = t - HouseTake(stake, bps) + carried
      /\ BasisPoints = 10000
  BY DEF HouseTake, NetPool, BasisPoints
<1> HIDE DEF t
<1>5. /\ HouseTake(stake, bps) \in 0 .. t
      /\ HouseTake(stake, bps) * BasisPoints \in t * bps - BasisPoints + 1 .. t * bps
  <2>1. Total(stake) \in Nat /\ bps \in 0 .. BasisPoints
    BY <1>3 DEF t, BasisPoints
  <2> QED
    BY <2>1, HouseShare, Zenon DEF t
<1>6. NetPool(stake, carried, bps) \in Nat
  BY <1>3, <1>4, <1>5
<1> QED
  BY <1>1, <1>3, <1>4, <1>5, <1>6 DEF t

\* What the bets are paid: the whole pool if someone won, otherwise nothing.
LEMMA AllPaid ==
  ASSUME NEW D, NEW stake, NEW winners, NEW carried, NEW bps,
         PoolInputs(D, stake, winners, carried, bps),
         NEW c, c = Calculation(stake, winners, carried, bps)
  PROVE  /\ c.payout \in [D -> Nat]
         /\ \A b \in D \ winners : c.payout[b] = 0
         /\ \A b \in winners : c.payout[b] = Payout(stake, winners, c.net, b)
         /\ Total(c.payout) = IF winners = {} THEN 0 ELSE c.net
         /\ c.net \in Nat /\ c.net = NetPool(stake, carried, bps)
<1> DEFINE net == NetPool(stake, carried, bps)
           paid == c.payout
<1>1. net \in Nat /\ c.net = net
  BY HouseAndNet DEF Calculation
<1>2. DOMAIN stake = D /\ IsFiniteSet(D) /\ winners \in SUBSET D
  BY DEF PoolInputs
<1>3. paid = [b \in D |-> Payout(stake, winners, net, b)]
  BY <1>2 DEF Calculation
<1> HIDE DEF net, paid
<1>4. \A b \in D : paid[b] = Payout(stake, winners, net, b)
  BY <1>3
<1>5. \A b \in D \ winners : paid[b] = 0
  BY <1>4 DEF Payout
<1>6. winners # {} => DivisionInputs(D, stake, winners, net)
  BY <1>1 DEF PoolInputs, DivisionInputs
<1>7. /\ winners # {} => NatOn(paid, winners) /\ Sum(paid, winners) = net
      /\ winners = {} => NatOn(paid, winners) /\ Sum(paid, winners) = 0
  <2>1. CASE winners # {}
    <3>1. \A b \in winners : paid[b] = Payout(stake, winners, net, b)
      BY <1>2, <1>4
    <3> QED
      BY <1>6, <2>1, <3>1, WinnersPaid
  <2>2. CASE winners = {}
    BY <2>2, SumEmpty DEF NatOn
  <2> QED
    BY <2>1, <2>2
<1>8. \A b \in D : paid[b] \in Nat
  <2> TAKE b \in D
  <2>1. b \in winners => paid[b] \in Nat
    BY <1>7 DEF NatOn
  <2>2. b \notin winners => paid[b] = 0
    BY <1>5
  <2> QED
    BY <2>1, <2>2
<1>9. paid \in [D -> Nat]
  BY <1>3, <1>8
<1>10. Total(paid) = Sum(paid, winners)
  <2>1. Total(paid) = Sum(paid, D)
    BY <1>9, SumIsTotal
  <2>2. IntOn(paid, D)
    BY <1>8 DEF IntOn
  <2>3. Sum(paid, D) = Sum(paid, winners)
    BY <1>2, <1>5, <2>2, SumRelevant
  <2> QED
    BY <2>1, <2>3
<1>11. \A b \in winners : paid[b] = Payout(stake, winners, net, b)
  BY <1>2, <1>4
<1>12. Total(paid) = IF winners = {} THEN 0 ELSE net
  BY <1>7, <1>10
<1> QED
  BY <1>1, <1>5, <1>9, <1>11, <1>12 DEF paid, net

\* Whatever the stakes, the winners, the carryover and the house take are, the
\* pool is divided fairly and to the last unit (calculatePoolProration).
THEOREM DivisionIsFair ==
  ASSUME NEW D, NEW stake, NEW winners, NEW carried, NEW bps,
         PoolInputs(D, stake, winners, carried, bps)
  PROVE  IsFairDivision(Calculation(stake, winners, carried, bps))
<1> DEFINE c == Calculation(stake, winners, carried, bps)
           net == NetPool(stake, carried, bps)
           W == StakesOn(stake, winners)
           paid == c.payout
           over(b) == paid[b] * W - net * stake[b]
<1>1. /\ c.stake = stake /\ c.winners = winners /\ c.carried = carried /\ c.bps = bps
      /\ c.houseTake = HouseTake(stake, bps) /\ c.net = net
      /\ c.carryover = IF winners = {} THEN net ELSE 0
      /\ DOMAIN stake = D
  BY DEF Calculation, PoolInputs
<1>2. /\ \A b \in D \ winners : paid[b] = 0
      /\ \A b \in winners : paid[b] = Payout(stake, winners, net, b)
      /\ Total(paid) = IF winners = {} THEN 0 ELSE net
      /\ net \in Nat
  BY <1>1, AllPaid
<1>3. /\ Total(stake) \in Nat /\ c.houseTake \in Int /\ carried \in Nat
      /\ c.houseTake * BasisPoints
           \in Total(stake) * bps - BasisPoints + 1 .. Total(stake) * bps
      /\ net = Total(stake) - c.houseTake + carried
  <2>1. carried \in Nat
    BY DEF PoolInputs
  <2>2. net = Total(stake) - c.houseTake + carried
    BY <1>1 DEF NetPool
  <2>3. /\ Total(stake) \in Nat
        /\ HouseTake(stake, bps) \in 0 .. Total(stake)
        /\ HouseTake(stake, bps) * BasisPoints
             \in Total(stake) * bps - BasisPoints + 1 .. Total(stake) * bps
    BY HouseAndNet
  <2>4. c.houseTake = HouseTake(stake, bps)
    BY <1>1
  <2>5. HouseTake(stake, bps) \in Int
    BY <2>3
  <2> HIDE DEF c, net
  <2> QED
    BY <2>1, <2>2, <2>3, <2>4, <2>5, Zenon
<1>4. winners # {} =>
        /\ \A b \in winners : -W < over(b) /\ over(b) < W
        /\ \A b, d \in winners : over(b) > 0 /\ over(d) < 0 =>
             over(b) < W + over(d) \/ (over(b) = W + over(d) /\ b < d)
  <2> HAVE winners # {}
  <2>1. DivisionInputs(D, stake, winners, net)
    BY <1>2 DEF PoolInputs, DivisionInputs
  <2> HIDE DEF net, paid, c
  <2> QED
    BY <1>2, <2>1, WinnersPaid
<1> HIDE DEF c, net, paid, W
<1>5. Total(stake) + carried = c.houseTake + c.carryover + Total(paid)
  BY <1>1, <1>2, <1>3
<1>6. c.carryover > 0 => winners = {}
  BY <1>1
<1> QED
  BY <1>1, <1>2, <1>3, <1>4, <1>5, <1>6 DEF IsFairDivision, W, paid, c

-----------------------------------------------------------------------------
(* The races *)

\* The part of TypeOK that the proofs need.
TableShape ==
  /\ pool \in [Races -> PoolStates]
  /\ bet \in [Bets -> BetRows \cup {NoBet}]
  /\ stakeOf \in [Bets -> StakeStates]
  /\ run = [r \in Races |-> [completed |-> run[r].completed,
                             division |-> run[r].division, review |-> run[r].review]]

SessionShape ==
  /\ session = [s \in Sessions |-> session[s]]
  /\ \A s \in Sessions : session[s].op = "place" => session[s].offer \in Offers
  /\ \A s \in Sessions : session[s].op \in {"settle", "apply"} => session[s].race \in Races

\* A stake is reserved exactly for the bets that were accepted.
ReservedIfAccepted ==
  \A b \in Bets : stakeOf[b] = "none" <=> bet[b] = NoBet \/ bet[b].status = "rejected"

\* A completed run and a settled pool are one thing.
RunSettlesPool == \A r \in Races : Completed(r) <=> pool[r] = "settled"

NoneLeftBehind == \A r \in Races : Completed(r) => AcceptedBets(r) = {}

SettledIffCaptured ==
  \A b \in Bets : stakeOf[b] = "captured" <=>
    bet[b] # NoBet /\ bet[b].status \in {"settled_win", "settled_loss"}

DividedBets ==
  \A b \in Bets : stakeOf[b] = "captured" =>
    LET c == run[bet[b].offer.race].division
    IN /\ Completed(bet[b].offer.race)
       /\ b \in DOMAIN c.stake /\ c.stake[b] = bet[b].offer.stake
       /\ bet[b].status = "settled_win" <=> b \in c.winners

PoolInv ==
  /\ TableShape
  /\ SessionShape
  /\ ReservedIfAccepted
  /\ RunSettlesPool
  /\ NoneLeftBehind
  /\ SettledIffCaptured
  /\ DividedBets

\* Every step is one of these.
LEMMA NextCases ==
  ASSUME Next
  PROVE  \/ \E r \in Races : CreateRacePool(r) \/ FreezePool(r) \/ ApplyHouseTake(r)
         \/ \E r \in Races : MarkManualReview(r) \/ ResolveManualReview(r) \/ VoidPool(r)
         \/ \E g \in Registrations : RegisterPoolSelection(g)
         \/ \E b \in Bets : ReleaseReservation(b)
         \/ \E s \in Sessions, o \in Offers, refused \in BOOLEAN : PlaceBet(s, o, refused)
         \/ \E s \in Sessions, r \in Races, x \in Selections, bps \in HouseTakes :
              PrepareSettlement(s, r, x, bps)
         \/ \E s \in Sessions, r \in Races : PrepareApplication(s, r)
         \/ \E s \in Sessions : ReplayBet(s) \/ BetAlreadyExists(s) \/ Answered(s)
         \/ \E s \in Sessions : SettlementFails(s) \/ LockTarget(s)
                                \/ TargetNotEligible(s) \/ Fail(s)
         \/ \E s \in Sessions : RecordRejectedBet(s)
         \/ \E s \in Sessions : AcceptBet(s)
         \/ \E s \in Sessions : SettleRace(s)
         \/ \E s \in Sessions : ApplyCarryovers(s)
  BY PoolsAssumption DEF Next, Finish

\* A division is between the accepted bets of the race.
LEMMA DivisionBets ==
  ASSUME NEW r, NEW x, NEW bps
  PROVE  /\ Division(r, x, bps).stake = Stakes(AcceptedBets(r))
         /\ Division(r, x, bps).winners =
              {b \in AcceptedBets(r) : bet[b].offer.selection = x}
  BY DEF Division, Calculation

\* Initially nothing is placed and no race is settled.
LEMMA PoolInit == Init => PoolInv
  BY DEF Init, PoolInv, TableShape, SessionShape, ReservedIfAccepted, RunSettlesPool, NoneLeftBehind,
         SettledIffCaptured, DividedBets, Completed, AcceptedBets, PoolStates,
         StakeStates, Idle

\* A session goes on to what it is given to do.
LEMMA SessionStep ==
  ASSUME SessionShape, NEW s \in Sessions, NEW new,
         session' = [session EXCEPT ![s] = new],
         new.op = "place" => new.offer \in Offers,
         new.op \in {"settle", "apply"} => new.race \in Races
  PROVE  SessionShape'
  BY DEF SessionShape

\* Steps that change no bet, no stake, no division and no settled pool.
LEMMA BetsUntouched ==
  ASSUME PoolInv, UNCHANGED <<bet, stakeOf>>, TableShape', SessionShape',
         \A r \in Races : /\ run'[r].completed = run[r].completed
                          /\ run'[r].division = run[r].division
                          /\ pool'[r] = "settled" <=> pool[r] = "settled"
  PROVE  PoolInv'
<1>1. \A r : AcceptedBets(r)' = AcceptedBets(r)
  BY DEF AcceptedBets
<1>2. \A r \in Races : Completed(r)' <=> Completed(r)
  BY DEF Completed
<1>3. \A b \in Bets : bet[b] # NoBet => bet[b].offer.race \in Races
  BY PoolsAssumption DEF PoolInv, TableShape, BetRows
<1>4. ReservedIfAccepted' /\ SettledIffCaptured'
  BY DEF PoolInv, ReservedIfAccepted, SettledIffCaptured
<1>5. RunSettlesPool'
  BY <1>2 DEF PoolInv, RunSettlesPool
<1>6. NoneLeftBehind'
  BY <1>1, <1>2 DEF PoolInv, NoneLeftBehind
<1>7. DividedBets'
  <2> SUFFICES ASSUME NEW b \in Bets, stakeOf[b] = "captured"
               PROVE  /\ run'[bet[b].offer.race].completed
                      /\ b \in DOMAIN run'[bet[b].offer.race].division.stake
                      /\ run'[bet[b].offer.race].division.stake[b] = bet[b].offer.stake
                      /\ bet[b].status = "settled_win"
                            <=> b \in run'[bet[b].offer.race].division.winners
    BY DEF DividedBets, Completed
  <2>1. bet[b].offer.race \in Races
    BY <1>3 DEF PoolInv, SettledIffCaptured
  <2> QED
    BY <2>1 DEF PoolInv, DividedBets, Completed
<1> QED
  BY <1>4, <1>5, <1>6, <1>7 DEF PoolInv

\* Operators open, freeze or review a pool and take for the house.
LEMMA PoolStep ==
  ASSUME PoolInv, NEW r \in Races,
         \/ CreateRacePool(r) \/ FreezePool(r) \/ ApplyHouseTake(r)
         \/ MarkManualReview(r) \/ ResolveManualReview(r) \/ VoidPool(r)
  PROVE  PoolInv'
<1>1. UNCHANGED <<bet, stakeOf, session>>
  BY DEF CreateRacePool, FreezePool, ApplyHouseTake, MarkManualReview,
         ResolveManualReview, VoidPool, LeaveManualReview, tables, balances
<1>2. CASE UNCHANGED run /\ (UNCHANGED pool \/ CreateRacePool(r) \/ FreezePool(r))
  <2>1. TableShape' /\ \A q \in Races : pool'[q] = "settled" <=> pool[q] = "settled"
    BY <1>1, <1>2 DEF PoolInv, TableShape, CreateRacePool, FreezePool, PoolStates
  <2> QED
    BY <1>1, <1>2, <2>1, BetsUntouched DEF PoolInv, SessionShape
<1>3. CASE MarkManualReview(r) \/ ResolveManualReview(r) \/ VoidPool(r)
  <2>1. PICK status, n :
          /\ status \in PoolStates \ {"settled"}
          /\ pool' = [pool EXCEPT ![r] = status]
          /\ run' = [run EXCEPT ![r].review = n]
          /\ pool[r] # "settled"
    BY <1>3 DEF MarkManualReview, ResolveManualReview, VoidPool, LeaveManualReview,
                PoolStates
  <2>2. \A q \in Races : pool'[q] = "settled" <=> pool[q] = "settled"
    BY <2>1 DEF PoolInv, TableShape
  <2>3. \A q \in Races : /\ run'[q].completed = run[q].completed
                         /\ run'[q].division = run[q].division
    BY <2>1 DEF PoolInv, TableShape
  <2>4. run' = [q \in Races |-> [completed |-> run'[q].completed,
                                division |-> run'[q].division, review |-> run'[q].review]]
    BY <2>1, SMTT(30) DEF PoolInv, TableShape
  <2>5. TableShape'
    BY <1>1, <2>1, <2>4 DEF PoolInv, TableShape
  <2> QED
    BY <1>1, <2>2, <2>3, <2>5, BetsUntouched DEF PoolInv, SessionShape
<1> QED
  BY <1>2, <1>3 DEF CreateRacePool, FreezePool, ApplyHouseTake, tables, balances

\* Steps of a session that change no bet, no stake, no run and no pool.
LEMMA QuietStep ==
  ASSUME PoolInv, UNCHANGED <<pool, bet, stakeOf, run>>, SessionShape'
  PROVE  PoolInv'
BY BetsUntouched DEF PoolInv, TableShape

\* A selection is registered.
LEMMA SelectionStep ==
  ASSUME PoolInv, NEW g \in Registrations, RegisterPoolSelection(g)
  PROVE  PoolInv'
BY QuietStep DEF RegisterPoolSelection, balances, PoolInv, SessionShape

\* A look before a transaction changes the session alone.
LEMMA LookStep ==
  ASSUME PoolInv, NEW s \in Sessions,
         \/ \E o \in Offers, refused \in BOOLEAN : PlaceBet(s, o, refused)
         \/ \E r \in Races, x \in Selections, bps \in HouseTakes :
              PrepareSettlement(s, r, x, bps)
         \/ \E r \in Races : PrepareApplication(s, r)
  PROVE  PoolInv'
<1>1. UNCHANGED <<pool, bet, stakeOf, run>>
  BY DEF PlaceBet, PrepareSettlement, PrepareApplication, tables, balances
<1>2. CASE \E o \in Offers, refused \in BOOLEAN : PlaceBet(s, o, refused)
  <2>1. PICK o \in Offers, refused \in BOOLEAN : PlaceBet(s, o, refused)
    BY <1>2
  <2> DEFINE new == [op |-> "place", offer |-> o, refused |-> refused]
  <2>2. session' = [session EXCEPT ![s] = new] /\ new.op = "place" /\ new.offer \in Offers
    BY <2>1 DEF PlaceBet
  <2> HIDE DEF new
  <2> QED
    BY <1>1, <2>2, SessionStep, QuietStep DEF PoolInv
<1>3. CASE \E r \in Races, x \in Selections, bps \in HouseTakes :
             PrepareSettlement(s, r, x, bps)
  <2>1. PICK r \in Races, x \in Selections, bps \in HouseTakes :
               PrepareSettlement(s, r, x, bps)
    BY <1>3
  <2> DEFINE new == [op |-> "settle", race |-> r, winner |-> x,
                     expected |-> Division(r, x, bps)]
  <2>2. session' = [session EXCEPT ![s] = new] /\ new.op = "settle" /\ new.race \in Races
    BY <2>1 DEF PrepareSettlement
  <2> HIDE DEF new
  <2> QED
    BY <1>1, <2>2, SessionStep, QuietStep DEF PoolInv
<1>4. CASE \E r \in Races : PrepareApplication(s, r)
  <2>1. PICK r \in Races : PrepareApplication(s, r)
    BY <1>4
  <2> DEFINE new == [op |-> "apply", race |-> r]
  <2>2. session' = [session EXCEPT ![s] = new] /\ new.op = "apply" /\ new.race \in Races
    BY <2>1 DEF PrepareApplication
  <2> HIDE DEF new
  <2> QED
    BY <1>1, <2>2, SessionStep, QuietStep DEF PoolInv
<1> QED
  BY <1>2, <1>3, <1>4

\* A session that fails, answers or applies carryovers touches no bet.
LEMMA AsideStep ==
  ASSUME PoolInv, NEW s \in Sessions,
         \/ ReplayBet(s) \/ BetAlreadyExists(s) \/ Answered(s)
         \/ SettlementFails(s) \/ LockTarget(s) \/ TargetNotEligible(s) \/ Fail(s)
         \/ ApplyCarryovers(s)
  PROVE  PoolInv'
<1>1. UNCHANGED <<pool, bet, stakeOf, run>>
  BY DEF ReplayBet, BetAlreadyExists, Answered, SettlementFails, LockTarget,
         TargetNotEligible, Fail, ApplyCarryovers, tables, balances
<1>2. \E new : /\ session' = [session EXCEPT ![s] = new]
              /\ new.op \in {"idle", "answered", "applying"}
  <2>1. CASE ReplayBet(s)
    <3> DEFINE id == session[s].offer.bet
               new == [op |-> "answered", bet |-> id, accepted |-> bet[id].status = "accepted"]
    <3>1. session' = [session EXCEPT ![s] = new] /\ new.op = "answered"
      BY <2>1, Zenon DEF ReplayBet, Answer
    <3> HIDE DEF new
    <3> QED
      BY <3>1
  <2>2. CASE LockTarget(s)
    <3> DEFINE new == [op |-> "applying", race |-> session[s].race, seen |-> pool]
    <3>1. session' = [session EXCEPT ![s] = new] /\ new.op = "applying"
      BY <2>2 DEF LockTarget
    <3> HIDE DEF new
    <3> QED
      BY <3>1
  <2>3. CASE ~ReplayBet(s) /\ ~LockTarget(s)
    <3>1. session' = [session EXCEPT ![s] = Idle] /\ Idle.op = "idle"
      BY <2>3 DEF BetAlreadyExists, Answered, SettlementFails, TargetNotEligible, Fail,
                  ApplyCarryovers, Idle
    <3> QED
      BY <3>1
  <2> QED
    BY <2>1, <2>2, <2>3
<1> QED
  BY <1>1, <1>2, SessionStep, QuietStep DEF PoolInv

\* A stake given back is that of a bet that is not settled.
LEMMA ReleaseStep ==
  ASSUME PoolInv, NEW b \in Bets, ReleaseReservation(b)
  PROVE  PoolInv'
<1>1. /\ UNCHANGED <<pool, bet, run, session>>
      /\ stakeOf[b] = "locked" /\ stakeOf' = [stakeOf EXCEPT ![b] = "released"]
  BY DEF ReleaseReservation, tables
<1>2. TableShape' /\ SessionShape'
  BY <1>1 DEF PoolInv, TableShape, SessionShape, StakeStates
<1>3. \A d \in Bets : /\ stakeOf'[d] = "captured" <=> stakeOf[d] = "captured"
                      /\ stakeOf'[d] = "none" <=> stakeOf[d] = "none"
  BY <1>1 DEF PoolInv, TableShape
<1>4. ReservedIfAccepted' /\ SettledIffCaptured'
  BY <1>1, <1>3 DEF PoolInv, ReservedIfAccepted, SettledIffCaptured
<1>5. RunSettlesPool' /\ NoneLeftBehind'
  BY <1>1 DEF PoolInv, RunSettlesPool, NoneLeftBehind, Completed, AcceptedBets
<1>6. DividedBets'
  BY <1>1, <1>3 DEF PoolInv, DividedBets, Completed
<1> QED
  BY <1>2, <1>4, <1>5, <1>6 DEF PoolInv

\* A new bet, rejected, or accepted while its pool is open: no settled race has it.
LEMMA NewBet ==
  ASSUME PoolInv, SessionShape', UNCHANGED <<pool, run>>,
         NEW o \in Offers, bet[o.bet] = NoBet, NEW status \in {"accepted", "rejected"},
         bet' = [bet EXCEPT ![o.bet] = [offer |-> o, status |-> status]],
         \/ status = "rejected" /\ stakeOf' = stakeOf
         \/ /\ status = "accepted" /\ pool[o.race] = "open"
            /\ stakeOf' = [stakeOf EXCEPT ![o.bet] = "locked"]
  PROVE  PoolInv'
<1>1. o.bet \in Bets /\ o.race \in Races
  BY PoolsAssumption
<1>2. bet'[o.bet] = [offer |-> o, status |-> status] /\ bet'[o.bet] # NoBet
  BY <1>1, PoolsAssumption DEF PoolInv, TableShape, BetRows, BetStatuses
<1>3. \A b \in Bets \ {o.bet} : bet'[b] = bet[b] /\ stakeOf'[b] = stakeOf[b]
  BY <1>1 DEF PoolInv, TableShape
<1>4. /\ status = "rejected" => stakeOf'[o.bet] = "none"
      /\ status = "accepted" => stakeOf'[o.bet] = "locked"
  BY <1>1 DEF PoolInv, TableShape, ReservedIfAccepted
<1>5. TableShape'
  <2>1. [offer |-> o, status |-> status] \in BetRows
    BY DEF BetRows, BetStatuses
  <2> QED
    BY <1>1, <2>1 DEF PoolInv, TableShape, StakeStates
<1>6. ReservedIfAccepted' /\ SettledIffCaptured'
  BY <1>1, <1>2, <1>3, <1>4 DEF PoolInv, ReservedIfAccepted, SettledIffCaptured
<1>7. RunSettlesPool'
  BY DEF PoolInv, RunSettlesPool, Completed
<1>8. NoneLeftBehind'
  <2> SUFFICES ASSUME NEW r \in Races, run[r].completed
               PROVE  AcceptedBets(r)' = {}
    BY DEF NoneLeftBehind, Completed
  <2>1. AcceptedBets(r) = {} /\ pool[r] = "settled"
    BY DEF PoolInv, NoneLeftBehind, RunSettlesPool, Completed
  <2>2. ~(bet'[o.bet].offer.race = r /\ bet'[o.bet].status = "accepted")
    BY <1>2, <2>1
  <2> QED
    BY <1>3, <2>1, <2>2 DEF AcceptedBets
<1>9. DividedBets'
  BY <1>3, <1>4 DEF PoolInv, DividedBets, Completed
<1> QED
  BY <1>5, <1>6, <1>7, <1>8, <1>9 DEF PoolInv

\* The two ways in which a bet is recorded.
LEMMA BetStep ==
  ASSUME PoolInv, NEW s \in Sessions, RecordRejectedBet(s) \/ AcceptBet(s)
  PROVE  PoolInv'
<1> DEFINE o == session[s].offer
<1>1. o \in Offers /\ bet[o.bet] = NoBet /\ UNCHANGED <<pool, run>>
  BY DEF RecordRejectedBet, AcceptBet, PoolInv, SessionShape
<1>2. CASE RecordRejectedBet(s)
  <2>1. /\ bet' = [bet EXCEPT ![o.bet] = [offer |-> o, status |-> "rejected"]]
        /\ stakeOf' = stakeOf
    BY <1>2 DEF RecordRejectedBet, balances
  <2>2. Answer(s, o.bet, FALSE)
    BY <1>2 DEF RecordRejectedBet
  <2>3. SessionShape'
    BY <2>2, SessionStep DEF Answer, PoolInv
  <2> QED
    BY <1>1, <2>1, <2>3, NewBet
<1>3. CASE AcceptBet(s)
  <2>1. /\ bet' = [bet EXCEPT ![o.bet] = [offer |-> o, status |-> "accepted"]]
        /\ stakeOf' = [stakeOf EXCEPT ![o.bet] = "locked"]
        /\ pool[o.race] = "open"
    BY <1>3 DEF AcceptBet, MayAccept, RulesAllow
  <2>2. Answer(s, o.bet, TRUE)
    BY <1>3 DEF AcceptBet
  <2>3. SessionShape'
    BY <2>2, SessionStep DEF Answer, PoolInv
  <2> QED
    BY <1>1, <2>1, <2>3, NewBet
<1> QED
  BY <1>2, <1>3

\* What a settlement does to the bets: those accepted on its race, which are the
\* ones it divided between, get their result; the others stay as they are.
LEMMA SettledBets ==
  ASSUME PoolInv, NEW s \in Sessions, SettleRace(s)
  PROVE  LET c == session[s].expected
             A == AcceptedBets(session[s].race)
         IN /\ DOMAIN c.stake = A /\ c.winners \subseteq A
            /\ \A b \in Bets \ A : bet'[b] = bet[b] /\ stakeOf'[b] = stakeOf[b]
            /\ \A b \in A :
                 /\ b \in Bets /\ bet[b] \in BetRows /\ bet[b].offer.race = session[s].race
                 /\ stakeOf'[b] = "captured" /\ c.stake[b] = bet[b].offer.stake
                 /\ bet'[b] \in BetRows /\ bet'[b] # NoBet
                 /\ bet'[b].offer = bet[b].offer
                 /\ bet'[b].status =
                      IF b \in c.winners THEN "settled_win" ELSE "settled_loss"
<1> DEFINE r == session[s].race
           winner == session[s].winner
           c == session[s].expected
           A == AcceptedBets(r)
<1>1. Division(r, winner, c.bps) = c /\ CaptureStakes(r, c) /\ MarkBetsSettled(c)
  BY DEF SettleRace
<1>2. c.stake = Stakes(A) /\ c.winners = {b \in A : bet[b].offer.selection = winner}
  BY <1>1, DivisionBets
<1>3. /\ DOMAIN c.stake = A /\ c.winners \subseteq A
      /\ \A b \in A : c.stake[b] = bet[b].offer.stake
  BY <1>2 DEF Stakes
<1>4. \A b \in Bets : /\ stakeOf'[b] = IF b \in A THEN "captured" ELSE stakeOf[b]
                      /\ b \notin A => bet'[b] = bet[b]
  BY <1>1, <1>3 DEF CaptureStakes, MarkBetsSettled
<1>5. \A b \in A : /\ b \in Bets /\ bet[b] \in BetRows /\ bet[b].offer.race = r
                   /\ bet[b].status = "accepted"
  BY DEF AcceptedBets, PoolInv, TableShape
<1>6. ASSUME NEW b \in A
      PROVE  /\ bet'[b] \in BetRows /\ bet'[b] # NoBet
             /\ bet'[b].offer = bet[b].offer
             /\ bet'[b].status = IF b \in c.winners THEN "settled_win" ELSE "settled_loss"
  <2> DEFINE result == IF b \in c.winners THEN "settled_win" ELSE "settled_loss"
  <2>1. bet'[b] = [bet[b] EXCEPT !.status = result]
    BY <1>1, <1>3, <1>5, <1>6 DEF MarkBetsSettled
  <2>2. result \in BetStatuses
    BY DEF BetStatuses
  <2> HIDE DEF result
  <2>3. bet'[b] \in BetRows /\ bet'[b].offer = bet[b].offer /\ bet'[b].status = result
    BY <1>5, <1>6, <2>1, <2>2 DEF BetRows
  <2> QED
    BY <2>3, PoolsAssumption DEF result
<1> QED
  BY <1>3, <1>4, <1>5, <1>6

\* What a settlement does to the runs.
LEMMA SettledRun ==
  ASSUME PoolInv, NEW s \in Sessions, SettleRace(s)
  PROVE  LET r == session[s].race
         IN /\ run' = [q \in Races |-> [completed |-> run'[q].completed,
                              division |-> run'[q].division, review |-> run'[q].review]]
            /\ run'[r].completed /\ run'[r].division = session[s].expected
            /\ run'[r].completed = TRUE /\ run'[r].review = run[r].review
            /\ \A q \in Races \ {r} : run'[q] = run[q]
<1> DEFINE r == session[s].race
           c == session[s].expected
           row == [completed |-> run[r].completed, division |-> run[r].division,
                   review |-> run[r].review]
<1>1. /\ r \in Races
      /\ run' = [run EXCEPT ![r].completed = TRUE, ![r].division = c]
  BY SMTT(30) DEF SettleRace, PoolInv, SessionShape
<1>2. run[r] = row /\ DOMAIN run = Races
  BY <1>1 DEF PoolInv, TableShape
<1>3. run' = [run EXCEPT ![r] = [[row EXCEPT !.completed = TRUE] EXCEPT !.division = c]]
  BY <1>1, <1>2
<1>4. run'[r] = [completed |-> TRUE, division |-> c, review |-> run[r].review]
  BY <1>1, <1>2, <1>3
<1>5. \A q \in Races \ {r} : run'[q] = run[q]
  BY <1>2, <1>3
<1>6. run' = [q \in Races |-> run'[q]]
  BY <1>2, <1>3
<1>7. \A q \in Races : run'[q] = [completed |-> run'[q].completed,
               division |-> run'[q].division, review |-> run'[q].review]
  BY <1>4, <1>5 DEF PoolInv, TableShape
<1>8. run' = [q \in Races |-> [completed |-> run'[q].completed,
                             division |-> run'[q].division, review |-> run'[q].review]]
  BY <1>6, <1>7, Zenon
<1>9. run'[r].completed /\ run'[r].completed = TRUE /\ run'[r].division = c
      /\ run'[r].review = run[r].review
  BY <1>4
<1> QED
  BY <1>5, <1>8, <1>9

\* The transaction of a settlement takes all accepted bets of its race along.
LEMMA SettleStep ==
  ASSUME PoolInv, NEW s \in Sessions, SettleRace(s)
  PROVE  PoolInv'
<1> DEFINE r == session[s].race
           c == session[s].expected
           A == AcceptedBets(r)
<1>1. /\ r \in Races /\ ~run[r].completed /\ pool[r] = "frozen"
      /\ pool' = [pool EXCEPT ![r] = "settled"]
      /\ run' = [run EXCEPT ![r].completed = TRUE, ![r].division = c]
      /\ session' = [session EXCEPT ![s] = Idle]
  BY DEF SettleRace, ReadyToSettle, PoolInv, SessionShape
<1>2. DOMAIN c.stake = A /\ c.winners \subseteq A
  BY SettledBets
<1>3. \A b \in Bets \ A : bet'[b] = bet[b] /\ stakeOf'[b] = stakeOf[b]
  BY SettledBets
<1>4. \A b \in A :
        /\ b \in Bets /\ bet[b] \in BetRows /\ bet[b].offer.race = r
        /\ stakeOf'[b] = "captured" /\ c.stake[b] = bet[b].offer.stake
  BY SettledBets
<1>5. \A b \in A : /\ bet'[b] \in BetRows /\ bet'[b] # NoBet
                   /\ bet'[b].offer = bet[b].offer
                   /\ bet'[b].status =
                        IF b \in c.winners THEN "settled_win" ELSE "settled_loss"
  BY SettledBets
<1>6. /\ run' = [q \in Races |-> [completed |-> run'[q].completed,
                              division |-> run'[q].division, review |-> run'[q].review]]
      /\ run'[r].completed /\ run'[r].division = c
      /\ \A q \in Races \ {r} : run'[q] = run[q]
  BY SettledRun
<1>7. TableShape'
  <2>1. pool' \in [Races -> PoolStates]
    BY <1>1, SMTT(30) DEF PoolInv, TableShape, PoolStates
  <2>2. bet' \in [Bets -> BetRows \cup {NoBet}]
    BY <1>3, <1>5 DEF SettleRace, MarkBetsSettled, PoolInv, TableShape
  <2>3. stakeOf' \in [Bets -> StakeStates]
    BY <1>3 DEF SettleRace, CaptureStakes, PoolInv, TableShape, StakeStates
  <2> QED
    BY <1>6, <2>1, <2>2, <2>3 DEF TableShape
<1>8. SessionShape'
  BY <1>1, SessionStep DEF PoolInv, Idle
<1>9. ReservedIfAccepted' /\ SettledIffCaptured'
  <2>1. \A b \in A : /\ stakeOf'[b] = "captured"
                     /\ bet'[b] # NoBet /\ bet'[b].status \in {"settled_win", "settled_loss"}
    BY <1>3, <1>4, <1>5
  <2>2. \A b \in Bets \ A : bet'[b] = bet[b] /\ stakeOf'[b] = stakeOf[b]
    BY <1>3
  <2> QED
    BY <2>1, <2>2 DEF PoolInv, ReservedIfAccepted, SettledIffCaptured
<1>10. RunSettlesPool'
  <2>1. \A q \in Races \ {r} : pool'[q] = pool[q]
    BY <1>1 DEF PoolInv, TableShape
  <2>2. pool'[r] = "settled"
    BY <1>1 DEF PoolInv, TableShape
  <2> QED
    BY <1>6, <2>1, <2>2 DEF PoolInv, RunSettlesPool, Completed
<1>11. NoneLeftBehind'
  <2>1. \A q \in Races : AcceptedBets(q)' \subseteq AcceptedBets(q) \ A
    BY <1>3, <1>5 DEF AcceptedBets
  <2> QED
    BY <1>6, <2>1 DEF PoolInv, NoneLeftBehind, Completed
<1>12. DividedBets'
  <2> SUFFICES ASSUME NEW b \in Bets, stakeOf'[b] = "captured"
               PROVE  LET q == bet'[b].offer.race
                      IN /\ run'[q].completed
                         /\ b \in DOMAIN run'[q].division.stake
                         /\ run'[q].division.stake[b] = bet'[b].offer.stake
                         /\ bet'[b].status = "settled_win" <=> b \in run'[q].division.winners
    BY DEF DividedBets, Completed
  <2>1. CASE b \in A
    <3>1. bet'[b].offer.race = r /\ bet'[b].offer.stake = c.stake[b]
      BY <1>2, <1>4, <1>5, <2>1
    <3>2. bet'[b].status = "settled_win" <=> b \in c.winners
      BY <1>5, <2>1
    <3> QED
      BY <1>2, <1>6, <2>1, <3>1, <3>2
  <2>2. CASE b \notin A
    <3>1. bet'[b] = bet[b] /\ stakeOf[b] = "captured"
      BY <1>3, <2>2
    <3>2. run[bet[b].offer.race].completed /\ bet[b].offer.race \in Races
      BY <3>1, PoolsAssumption, SMTT(30)
      DEF PoolInv, DividedBets, SettledIffCaptured, TableShape, BetRows, Completed
    <3>3. run'[bet[b].offer.race] = run[bet[b].offer.race]
      BY <1>1, <1>6, <3>2
    <3> QED
      BY <3>1, <3>3 DEF PoolInv, DividedBets, Completed
  <2> QED
    BY <2>1, <2>2
<1> QED
  BY <1>7, <1>8, <1>9, <1>10, <1>11, <1>12 DEF PoolInv

\* The invariant holds whatever the bettors, the backend and the operators do.
THEOREM SettlementInvariant == Spec => []PoolInv
<1>1. ASSUME PoolInv, [Next]_vars
      PROVE  PoolInv'
  <2>1. CASE Next
    BY <1>1, <2>1, NextCases, PoolStep, ReleaseStep, LookStep, AsideStep, BetStep,
       SettleStep, SelectionStep
  <2>2. CASE UNCHANGED vars
    BY <1>1, <2>2, QuietStep DEF vars, tables, balances, PoolInv, SessionShape
  <2> QED
    BY <1>1, <2>1, <2>2
<1> QED
  BY <1>1, PoolInit, PTL DEF Spec

\* SettledCompletely: once a race is settled every bet that was accepted on it has
\* its result and its stake is captured and divided, none is left behind.
THEOREM SettledCompletelyHolds == Spec => []SettledCompletely
<1>1. PoolInv => SettledCompletely
  BY DEF PoolInv, SettledCompletely, RunSettlesPool, NoneLeftBehind, SettledIffCaptured,
         DividedBets
<1> QED
  BY <1>1, SettlementInvariant, PTL

\* ClosedPoolTakesNoBets: a bet enters an open pool only, on whatever earlier look
\* at the pool it was let in.
THEOREM ClosedPoolTakesNoBetsHolds == Spec => ClosedPoolTakesNoBets
<1> DEFINE Closed == \A r \in Races : pool[r] # "open" => AcceptedBets(r)' \subseteq AcceptedBets(r)
<1>1. ASSUME PoolInv, Next
      PROVE  Closed
  <2>1. CASE UNCHANGED bet
    BY <2>1 DEF AcceptedBets
  <2>2. ASSUME NEW s \in Sessions, RecordRejectedBet(s)
        PROVE  Closed
    <3>1. \A b \in Bets : bet'[b] = bet[b] \/ bet'[b].status = "rejected"
      BY <1>1, <2>2 DEF RecordRejectedBet, PoolInv, TableShape
    <3> QED
      BY <3>1 DEF AcceptedBets
  <2>3. ASSUME NEW s \in Sessions, AcceptBet(s)
        PROVE  Closed
    <3>1. \A b \in Bets : bet'[b] = bet[b] \/ pool[bet'[b].offer.race] = "open"
      BY <1>1, <2>3 DEF AcceptBet, MayAccept, RulesAllow, PoolInv, TableShape
    <3> QED
      BY <3>1 DEF AcceptedBets
  <2>4. ASSUME NEW s \in Sessions, SettleRace(s)
        PROVE  Closed
    <3>1. \A b \in Bets : bet'[b] = bet[b] \/ bet'[b].status # "accepted"
      BY <1>1, <2>4, SettledBets
    <3> QED
      BY <3>1 DEF AcceptedBets
  <2> QED
    BY <1>1, <2>1, <2>2, <2>3, <2>4, NextCases, ZenonT(40)
    DEF CreateRacePool, FreezePool, ApplyHouseTake, MarkManualReview, ResolveManualReview,
        VoidPool, LeaveManualReview, RegisterPoolSelection, ReleaseReservation, PlaceBet,
        PrepareSettlement, PrepareApplication, ReplayBet, BetAlreadyExists, Answered,
        SettlementFails, LockTarget, TargetNotEligible, Fail, ApplyCarryovers, tables
<1>2. ASSUME PoolInv, UNCHANGED vars
      PROVE  Closed
  BY <1>2 DEF vars, tables, AcceptedBets
<1>3. PoolInv /\ [Next]_vars => [Closed]_vars
  BY <1>1, <1>2
<1> QED
  BY <1>3, SettlementInvariant, PTL DEF Spec, ClosedPoolTakesNoBets

-----------------------------------------------------------------------------
(* Carryovers *)

\* An application of carryovers holds the row of its target from the look at the
\* pools on: what it saw of the target is still so.
LockedWhileApplying ==
  \A s \in Sessions : session[s].op = "applying" =>
    LET r == session[s].race
    IN /\ r \in Races /\ rowLock[r] = s
       /\ session[s].seen[r] = pool[r] /\ MayReceive(pool, r)

\* A race carries over by its settlement.
CarriedIfSettled == \A q \in Races : carryover[q].status # "none" => run[q].completed

CarryInv ==
  /\ rowLock = [r \in Races |-> rowLock[r]]
  /\ carryover = [r \in Races |-> [status |-> carryover[r].status,
                                   amount |-> carryover[r].amount,
                                   target |-> carryover[r].target]]
  /\ LockedWhileApplying
  /\ CarriedIfSettled

LEMMA CarryInit == Init => CarryInv
  BY DEF Init, CarryInv, LockedWhileApplying, CarriedIfSettled, Idle

\* What a step of one session must leave alone for the others: the pools that are
\* locked, and the locks that are held.
LEMMA CarryKept ==
  ASSUME CarryInv, rowLock' = [r \in Races |-> rowLock'[r]], UNCHANGED carryover,
         \A q \in Races : run[q].completed => run'[q].completed,
         \A s \in Sessions : session'[s].op = "applying" =>
            /\ session'[s] = session[s]
            /\ rowLock'[session[s].race] = rowLock[session[s].race]
            /\ pool'[session[s].race] = pool[session[s].race]
  PROVE  CarryInv'
<1>1. LockedWhileApplying'
  <2> SUFFICES ASSUME NEW s \in Sessions, session'[s].op = "applying"
               PROVE  LET r == session'[s].race
                      IN /\ r \in Races /\ rowLock'[r] = s
                         /\ session'[s].seen[r] = pool'[r] /\ pool'[r] \in {"open", "frozen"}
    BY DEF LockedWhileApplying, MayReceive
  <2> DEFINE r == session[s].race
  <2>1. /\ session'[s] = session[s]
        /\ rowLock'[r] = rowLock[r] /\ pool'[r] = pool[r]
    OBVIOUS
  <2>2. /\ r \in Races /\ rowLock[r] = s
        /\ session[s].seen[r] = pool[r] /\ pool[r] \in {"open", "frozen"}
    BY <2>1, ZenonT(40) DEF CarryInv, LockedWhileApplying, MayReceive
  <2> QED
    BY <2>1, <2>2
<1>2. CarriedIfSettled'
  BY DEF CarryInv, CarriedIfSettled
<1> QED
  BY <1>1, <1>2 DEF CarryInv

\* Operators, the backend and those who register change no pool that is locked.
LEMMA CarryPoolStep ==
  ASSUME PoolInv, CarryInv,
         \/ \E r \in Races : \/ CreateRacePool(r) \/ FreezePool(r) \/ ApplyHouseTake(r)
                            \/ MarkManualReview(r) \/ ResolveManualReview(r) \/ VoidPool(r)
         \/ \E g \in Registrations : RegisterPoolSelection(g)
         \/ \E b \in Bets : ReleaseReservation(b)
  PROVE  CarryInv'
<1>1. UNCHANGED <<carryover, rowLock, session>>
  BY DEF CreateRacePool, FreezePool, ApplyHouseTake, MarkManualReview, ResolveManualReview,
         VoidPool, LeaveManualReview, RegisterPoolSelection, ReleaseReservation, tables,
         balances
<1>2. \/ run' = run
      \/ \E r \in Races : \E n : run' = [run EXCEPT ![r].review = n]
  <2>1. CASE \E r \in Races : MarkManualReview(r)
    BY <2>1 DEF MarkManualReview
  <2>2. CASE \E r \in Races : ResolveManualReview(r) \/ VoidPool(r)
    BY <2>2 DEF ResolveManualReview, VoidPool, LeaveManualReview
  <2> QED
    BY <2>1, <2>2 DEF CreateRacePool, FreezePool, ApplyHouseTake, RegisterPoolSelection,
       ReleaseReservation, tables
<1>3. \A q \in Races : run'[q].completed = run[q].completed
  <2>1. ASSUME NEW r \in Races, NEW n, run' = [run EXCEPT ![r].review = n], NEW q \in Races
        PROVE  run'[q].completed = run[q].completed
    BY <2>1 DEF PoolInv, TableShape
  <2> QED
    BY <1>2, <2>1
<1>4. \A q \in Races : pool'[q] = pool[q] \/ rowLock[q] = NoSession \/ ~MayReceive(pool, q)
  BY DEF CreateRacePool, FreezePool, ApplyHouseTake, MarkManualReview, ResolveManualReview,
         VoidPool, LeaveManualReview, RegisterPoolSelection, ReleaseReservation, tables,
         balances, PoolInv, TableShape, Unlocked, MayReceive
<1>5. ASSUME NEW s \in Sessions, session[s].op = "applying"
      PROVE  pool'[session[s].race] = pool[session[s].race]
  <2>1. /\ session[s].race \in Races /\ rowLock[session[s].race] = s
        /\ MayReceive(pool, session[s].race)
    BY <1>5 DEF CarryInv, LockedWhileApplying
  <2>2. s # NoSession
    BY PoolsAssumption
  <2> QED
    BY <1>4, <2>1, <2>2
<1> QED
  BY <1>1, <1>3, <1>5, CarryKept DEF CarryInv

\* A session that places a bet, looks, or gives up.
LEMMA CarrySessionStep ==
  ASSUME PoolInv, CarryInv, NEW s \in Sessions,
         \/ \E o \in Offers, refused \in BOOLEAN : PlaceBet(s, o, refused)
         \/ \E r \in Races, x \in Selections, bps \in HouseTakes :
              PrepareSettlement(s, r, x, bps)
         \/ \E r \in Races : PrepareApplication(s, r)
         \/ ReplayBet(s) \/ BetAlreadyExists(s) \/ Answered(s)
         \/ RecordRejectedBet(s) \/ AcceptBet(s)
         \/ SettlementFails(s) \/ TargetNotEligible(s) \/ Fail(s)
  PROVE  CarryInv'
<1>1. UNCHANGED <<pool, run, carryover>>
  BY DEF PlaceBet, PrepareSettlement, PrepareApplication, ReplayBet, BetAlreadyExists,
         Answered, RecordRejectedBet, AcceptBet, SettlementFails, TargetNotEligible, Fail,
         tables
<1>2. rowLock' = rowLock \/ Unlock(s)
  BY DEF PlaceBet, PrepareSettlement, PrepareApplication, ReplayBet, BetAlreadyExists,
         Answered, RecordRejectedBet, AcceptBet, SettlementFails, TargetNotEligible, Fail
<1>3. /\ \A t \in Sessions \ {s} : session'[t] = session[t]
      /\ session'[s].op # "applying"
  <2>1. CASE \E o \in Offers, refused \in BOOLEAN : PlaceBet(s, o, refused)
    BY <2>1 DEF PlaceBet, PoolInv, SessionShape
  <2>2. CASE \E r \in Races, x \in Selections, bps \in HouseTakes :
               PrepareSettlement(s, r, x, bps)
    BY <2>2 DEF PrepareSettlement, PoolInv, SessionShape
  <2>3. CASE \E r \in Races : PrepareApplication(s, r)
    BY <2>3 DEF PrepareApplication, PoolInv, SessionShape
  <2>4. CASE ReplayBet(s) \/ RecordRejectedBet(s) \/ AcceptBet(s)
    BY <2>4 DEF ReplayBet, RecordRejectedBet, AcceptBet, Answer, PoolInv, SessionShape
  <2>5. CASE BetAlreadyExists(s) \/ Answered(s) \/ SettlementFails(s)
             \/ TargetNotEligible(s) \/ Fail(s)
    BY <2>5 DEF BetAlreadyExists, Answered, SettlementFails, TargetNotEligible, Fail, Idle,
                PoolInv, SessionShape
  <2> QED
    BY <2>1, <2>2, <2>3, <2>4, <2>5
<1>4. \A t \in Sessions \ {s} : session[t].op = "applying" =>
        rowLock'[session[t].race] = rowLock[session[t].race]
  BY <1>2, ZenonT(40) DEF Unlock, CarryInv, LockedWhileApplying
<1>5. rowLock' = [r \in Races |-> rowLock'[r]]
  BY <1>2 DEF Unlock, CarryInv
<1> QED
  BY <1>1, <1>3, <1>4, <1>5, CarryKept

\* A settlement is of a race that carried nothing over and that no one has locked.
LEMMA CarrySettleStep ==
  ASSUME PoolInv, CarryInv, NEW s \in Sessions, SettleRace(s)
  PROVE  CarryInv'
<1> DEFINE r == session[s].race
           c == session[s].expected
           row == [status |-> "pending", amount |-> c.carryover, target |-> r]
<1>1. /\ r \in Races /\ rowLock[r] = NoSession /\ rowLock' = rowLock
      /\ pool' = [pool EXCEPT ![r] = "settled"]
      /\ session' = [session EXCEPT ![s] = Idle] /\ session[s].op = "settle"
  BY DEF SettleRace, Unlocked, PoolInv, SessionShape
<1>2. carryover' = carryover \/ carryover' = [carryover EXCEPT ![r] = row]
  BY DEF SettleRace, CarryOver
<1>3. run'[r].completed /\ \A q \in Races : run[q].completed => run'[q].completed
  BY <1>1, SettleStep DEF PoolInv, RunSettlesPool, Completed, TableShape
<1>4. carryover' = [q \in Races |-> [status |-> carryover'[q].status,
                                   amount |-> carryover'[q].amount,
                                   target |-> carryover'[q].target]]
  BY <1>1, <1>2 DEF CarryInv
<1>5. CarriedIfSettled'
  BY <1>1, <1>2, <1>3 DEF CarryInv, CarriedIfSettled
<1>6. LockedWhileApplying'
  <2> SUFFICES ASSUME NEW t \in Sessions, session'[t].op = "applying"
               PROVE  LET q == session'[t].race
                      IN /\ q \in Races /\ rowLock'[q] = t
                         /\ session'[t].seen[q] = pool'[q] /\ pool'[q] \in {"open", "frozen"}
    BY DEF LockedWhileApplying, MayReceive
  <2> DEFINE q == session[t].race
  <2>1. session'[t] = session[t]
    BY <1>1 DEF PoolInv, SessionShape, Idle
  <2>2. /\ q \in Races /\ rowLock[q] = t
        /\ session[t].seen[q] = pool[q] /\ pool[q] \in {"open", "frozen"}
    BY <2>1 DEF CarryInv, LockedWhileApplying, MayReceive
  <2>3. q # r
    BY <1>1, <2>2, PoolsAssumption
  <2>4. pool'[q] = pool[q]
    BY <1>1, <2>2, <2>3 DEF PoolInv, TableShape
  <2> QED
    BY <1>1, <2>1, <2>2, <2>4
<1> QED
  BY <1>1, <1>4, <1>5, <1>6 DEF CarryInv

\* The look at the pools under the lock of the target.
LEMMA CarryLockStep ==
  ASSUME PoolInv, CarryInv, NEW s \in Sessions, LockTarget(s)
  PROVE  CarryInv'
<1> DEFINE r == session[s].race
           new == [op |-> "applying", race |-> r, seen |-> pool]
<1>1. /\ rowLock[r] = NoSession /\ MayReceive(pool, r)
      /\ rowLock' = [rowLock EXCEPT ![r] = s] /\ session' = [session EXCEPT ![s] = new]
      /\ UNCHANGED <<pool, carryover, run>>
  BY DEF LockTarget, LockRow, Unlocked, tables
<1>2. r \in Races
  BY DEF PoolInv, SessionShape, LockTarget
<1>3. rowLock' = [q \in Races |-> rowLock'[q]]
  BY <1>1 DEF CarryInv
<1>4. ASSUME NEW t \in Sessions, session'[t].op = "applying"
      PROVE  LET q == session'[t].race
             IN /\ q \in Races /\ rowLock'[q] = t
                /\ session'[t].seen[q] = pool[q] /\ pool[q] \in {"open", "frozen"}
  <2>1. CASE t = s
    <3>1. session'[t] = new
      BY <1>1, <2>1 DEF PoolInv, SessionShape
    <3>2. rowLock'[r] = s
      BY <1>1, <1>2 DEF CarryInv
    <3> QED
      BY <1>1, <1>2, <2>1, <3>1, <3>2 DEF MayReceive
  <2>2. CASE t # s
    <3>1. session'[t] = session[t]
      BY <1>1, <2>2 DEF PoolInv, SessionShape
    <3>2. LET q == session[t].race
          IN /\ q \in Races /\ rowLock[q] = t
             /\ session[t].seen[q] = pool[q] /\ pool[q] \in {"open", "frozen"}
      BY <1>4, <3>1 DEF CarryInv, LockedWhileApplying, MayReceive
    <3>3. session[t].race # r
      BY <1>1, <3>2, PoolsAssumption
    <3> QED
      BY <1>1, <3>1, <3>2, <3>3 DEF CarryInv
  <2> QED
    BY <2>1, <2>2
<1>5. LockedWhileApplying'
  BY <1>1, <1>4 DEF LockedWhileApplying, MayReceive
<1> QED
  BY <1>1, <1>3, <1>5 DEF CarryInv, CarriedIfSettled

\* An application takes carryovers that are pending, of earlier races, to a race
\* whose pool is to be settled: what it saw of that pool is still so.
LEMMA CarryApplication ==
  ASSUME PoolInv, CarryInv, NEW s \in Sessions, ApplyCarryovers(s)
  PROVE  LET r == session[s].race
         IN /\ r \in Races /\ pool[r] \in {"open", "frozen"}
            /\ \A q \in Races :
                 \/ carryover'[q] = carryover[q]
                 \/ /\ carryover[q].status = "pending" /\ q < r
                    /\ carryover'[q] = [status |-> "applied", target |-> r,
                                       amount |-> carryover[q].amount]
<1> DEFINE r == session[s].race
           found == Eligible(session[s].seen, r)
<1>1. /\ session[s].op = "applying"
      /\ carryover' = [q \in Races |->
           IF q \in found THEN [carryover[q] EXCEPT !.status = "applied", !.target = r]
           ELSE carryover[q]]
  BY DEF ApplyCarryovers
<1>2. r \in Races /\ pool[r] \in {"open", "frozen"}
  BY <1>1 DEF CarryInv, LockedWhileApplying, MayReceive
<1>3. \A q \in found : q \in Races /\ carryover[q].status = "pending" /\ q < r
  BY DEF Eligible, IsNextEligible
<1>4. ASSUME NEW q \in found
      PROVE  carryover'[q] = [status |-> "applied", target |-> r,
                              amount |-> carryover[q].amount]
  <2> DEFINE row == [status |-> carryover[q].status, amount |-> carryover[q].amount,
                     target |-> carryover[q].target]
  <2>1. carryover[q] = row /\ q \in Races
    BY <1>3 DEF CarryInv
  <2>2. carryover'[q] = [[row EXCEPT !.status = "applied"] EXCEPT !.target = r]
    BY <1>1, <1>4, <2>1
  <2> QED
    BY <2>2
<1> QED
  BY <1>1, <1>2, <1>3, <1>4

LEMMA CarryApplyStep ==
  ASSUME PoolInv, CarryInv, NEW s \in Sessions, ApplyCarryovers(s)
  PROVE  CarryInv'
<1>1. /\ UNCHANGED <<pool, run>> /\ Unlock(s) /\ session' = [session EXCEPT ![s] = Idle]
      /\ carryover' = [q \in Races |-> carryover'[q]]
  BY DEF ApplyCarryovers
<1>2. \A q \in Races : /\ carryover'[q] = carryover[q] \/ carryover[q].status = "pending"
                       /\ carryover'[q] = [status |-> carryover'[q].status,
                                          amount |-> carryover'[q].amount,
                                          target |-> carryover'[q].target]
  <2> SUFFICES ASSUME NEW q \in Races
               PROVE  /\ carryover'[q] = carryover[q] \/ carryover[q].status = "pending"
                      /\ carryover'[q] = [status |-> carryover'[q].status,
                                         amount |-> carryover'[q].amount,
                                         target |-> carryover'[q].target]
    OBVIOUS
  <2> DEFINE r == session[s].race
  <2>1. \/ carryover'[q] = carryover[q]
        \/ /\ carryover[q].status = "pending"
           /\ carryover'[q] = [status |-> "applied", target |-> r,
                              amount |-> carryover[q].amount]
    BY CarryApplication, Zenon
  <2>2. carryover[q] = [status |-> carryover[q].status, amount |-> carryover[q].amount,
                        target |-> carryover[q].target]
    BY DEF CarryInv
  <2> QED
    BY <2>1, <2>2
<1>3. ASSUME NEW t \in Sessions, session'[t].op = "applying"
      PROVE  LET q == session'[t].race
             IN /\ q \in Races /\ rowLock'[q] = t
                /\ session'[t].seen[q] = pool[q] /\ pool[q] \in {"open", "frozen"}
  <2>1. session'[t] = session[t] /\ t # s
    BY <1>1, <1>3 DEF PoolInv, SessionShape, Idle
  <2>2. LET q == session[t].race
        IN /\ q \in Races /\ rowLock[q] = t
           /\ session[t].seen[q] = pool[q] /\ pool[q] \in {"open", "frozen"}
    BY <1>3, <2>1 DEF CarryInv, LockedWhileApplying, MayReceive
  <2> QED
    BY <1>1, <2>1, <2>2 DEF Unlock
<1>4. LockedWhileApplying'
  BY <1>1, <1>3 DEF LockedWhileApplying, MayReceive
<1>5. CarriedIfSettled'
  BY <1>1, <1>2 DEF CarryInv, CarriedIfSettled
<1>6. rowLock' = [q \in Races |-> rowLock'[q]]
  BY <1>1 DEF Unlock
<1>7. carryover' = [q \in Races |-> [status |-> carryover'[q].status,
                                   amount |-> carryover'[q].amount,
                                   target |-> carryover'[q].target]]
  BY <1>1, <1>2
<1> QED
  BY <1>4, <1>5, <1>6, <1>7 DEF CarryInv

\* Carryovers belong to settled races, and who applies some has locked their target.
THEOREM CarryoverInvariant == Spec => [](PoolInv /\ CarryInv)
<1>1. ASSUME PoolInv, CarryInv, [Next]_vars
      PROVE  CarryInv'
  <2>1. CASE Next
    BY <1>1, <2>1, NextCases, CarryPoolStep, CarrySessionStep, CarrySettleStep,
       CarryLockStep, CarryApplyStep
  <2>2. CASE UNCHANGED vars
    BY <1>1, <2>2 DEF vars, tables, CarryInv, LockedWhileApplying, CarriedIfSettled,
                      MayReceive
  <2> QED
    BY <1>1, <2>1, <2>2
<1> QED
  BY <1>1, CarryInit, SettlementInvariant, PTL DEF Spec

\* CarriedOnce: a carryover is applied once, to a later race whose pool is still to
\* be settled, although the pools were read before they could be posted.
THEOREM CarriedOnceHolds == Spec => CarriedOnce
<1> DEFINE Once == \A q \in Races :
             /\ carryover[q].status = "applied" => carryover'[q] = carryover[q]
             /\ carryover'[q].status = "applied" /\ carryover[q].status # "applied" =>
                  /\ q < carryover'[q].target
                  /\ pool[carryover'[q].target] \in {"open", "frozen"}
                  /\ carryover[q].status = "pending"
<1>1. ASSUME PoolInv, CarryInv, Next
      PROVE  Once
  <2>1. CASE UNCHANGED carryover
    BY <2>1
  <2>2. ASSUME NEW s \in Sessions, SettleRace(s)
        PROVE  Once
    <3> DEFINE r == session[s].race
               row == [status |-> "pending", amount |-> session[s].expected.carryover,
                       target |-> r]
    <3>1. carryover' = carryover \/ carryover' = [carryover EXCEPT ![r] = row]
      BY <2>2 DEF SettleRace, CarryOver
    <3>2. r \in Races /\ ~run[r].completed
      BY <1>1, <2>2 DEF SettleRace, ReadyToSettle, PoolInv, SessionShape
    <3>3. carryover[r].status = "none"
      BY <1>1, <3>2 DEF CarryInv, CarriedIfSettled
    <3> QED
      BY <1>1, <3>1, <3>2, <3>3 DEF CarryInv
  <2>3. ASSUME NEW s \in Sessions, ApplyCarryovers(s)
        PROVE  Once
    <3> DEFINE r == session[s].race
    <3>1. ASSUME NEW q \in Races
          PROVE  \/ carryover'[q] = carryover[q]
                 \/ /\ carryover[q].status = "pending" /\ q < r
                    /\ pool[r] \in {"open", "frozen"} /\ carryover'[q].target = r
      <4>1. /\ pool[r] \in {"open", "frozen"}
            /\ \/ carryover'[q] = carryover[q]
               \/ /\ carryover[q].status = "pending" /\ q < r
                  /\ carryover'[q] = [status |-> "applied", target |-> r,
                                     amount |-> carryover[q].amount]
        BY <1>1, <2>3, CarryApplication, Zenon
      <4> QED
        BY <4>1
    <3> QED
      BY <3>1
  <2> QED
    BY <1>1, <2>1, <2>2, <2>3, NextCases, ZenonT(40)
    DEF CreateRacePool, FreezePool, ApplyHouseTake, MarkManualReview, ResolveManualReview,
        VoidPool, LeaveManualReview, RegisterPoolSelection, ReleaseReservation, PlaceBet,
        PrepareSettlement, PrepareApplication, ReplayBet, BetAlreadyExists, Answered,
        RecordRejectedBet, AcceptBet, SettlementFails, LockTarget, TargetNotEligible, Fail,
        tables
<1>2. ASSUME UNCHANGED vars
      PROVE  Once
  BY <1>2 DEF vars, tables
<1>3. PoolInv /\ CarryInv /\ [Next]_vars => [Once]_vars
  BY <1>1, <1>2
<1> QED
  BY <1>3, CarryoverInvariant, PTL DEF Spec, CarriedOnce

-----------------------------------------------------------------------------
(* The kinds of values *)

\* What a row of a bet holds.
LEMMA BetRow ==
  ASSUME NEW row \in BetRows
  PROVE  /\ row.offer \in Offers /\ row.status \in BetStatuses /\ row # NoBet
         /\ row.offer.race \in Races /\ row.offer.user \in Users
         /\ row.offer.bet \in Bets /\ row.offer.stake \in Nat \ {0}
<1>1. row.offer \in Offers /\ row.status \in BetStatuses /\ row # NoBet
  BY PoolsAssumption DEF BetRows
<1> QED
  BY <1>1, PoolsAssumption

\* A division of bets is what TypeOK says a division is.
LEMMA DivisionTyped ==
  ASSUME NEW D \in SUBSET Bets, NEW stake, NEW winners, NEW carried, NEW bps,
         PoolInputs(D, stake, winners, carried, bps)
  PROVE  IsDivision(Calculation(stake, winners, carried, bps))
<1> DEFINE c == Calculation(stake, winners, carried, bps)
<1>1. /\ c.stake = stake /\ c.winners = winners /\ c.carried = carried /\ c.bps = bps
      /\ c.houseTake = HouseTake(stake, bps)
      /\ c.carryover = IF winners = {} THEN c.net ELSE 0
  BY DEF Calculation
<1>2. c.payout \in [D -> Nat] /\ c.net \in Nat
  BY AllPaid
<1>3. c.houseTake \in Nat
  <2>1. HouseTake(stake, bps) \in 0 .. Total(stake)
    BY HouseAndNet
  <2> QED
    BY <1>1, <2>1
<1>4. /\ stake \in [D -> Nat] /\ DOMAIN stake = D /\ winners \in SUBSET D
      /\ carried \in Nat /\ bps \in 0 .. BasisPoints
  BY DEF PoolInputs
<1>5. c.carryover \in Nat
  BY <1>1, <1>2
<1> HIDE DEF c
<1> QED
  BY <1>1, <1>2, <1>3, <1>4, <1>5 DEF IsDivision, c

\* Nothing was divided before a settlement.
LEMMA NothingDivided == IsDivision(NoDivision) /\ NoDivision.carryover = 0
<1> DEFINE none == [b \in {} |-> 0]
<1>1. IsFiniteSet({}) /\ none \in [{} -> Nat \ {0}] /\ DOMAIN none = {}
  BY FS_EmptySet
<1> HIDE DEF none
<1>2. PoolInputs({}, none, {}, 0, 0)
  BY <1>1 DEF PoolInputs, BasisPoints
<1>3. NoDivision = Calculation(none, {}, 0, 0)
  BY DEF NoDivision, none
<1>4. IsDivision(NoDivision)
  BY <1>2, <1>3, DivisionTyped, {} \in SUBSET Bets
<1>5. Total(none) = 0
  BY <1>1, TotalEmpty
<1>6. HouseTake(none, 0) = 0
  <2>1. HouseTake(none, 0) \in 0 .. Total(none)
    BY <1>2, HouseAndNet
  <2> QED
    BY <1>5, <2>1
<1>7. NoDivision.carryover = NetPool(none, 0, 0)
  BY <1>3 DEF Calculation
<1> QED
  BY <1>4, <1>5, <1>6, <1>7 DEF NetPool

-----------------------------------------------------------------------------

\* The parts of TypeOK.
TablesTyped ==
  /\ pool \in [Races -> PoolStates]
  /\ selection \in [Races -> [Selections -> Statuses \cup {"absent"}]]
  /\ bet \in [Bets -> BetRows \cup {NoBet}]
  /\ stakeOf \in [Bets -> StakeStates]
  /\ carryover \in [Races -> [status: CarryoverStates, amount: Nat, target: Races]]

RunsTyped == \A r \in Races : /\ run[r].review \in {0, 1} /\ run[r].completed \in BOOLEAN
                              /\ IsDivision(run[r].division)

MoneyTyped ==
  /\ available \in [Users -> Nat] /\ locked \in [Users -> Nat]
  /\ clearing \in [Races -> Int] /\ rollover \in [Races -> Nat]
  /\ taken \in [Races -> Nat]

SessionTyped(x) ==
  \/ x \in Idling \cup Placing \cup Answering \cup Applying \cup Locking
  \/ /\ x.op = "settle" /\ x.race \in Races /\ x.winner \in Selections
     /\ IsDivision(x.expected)

SessionsTyped ==
  /\ rowLock \in [Races -> Sessions \cup {NoSession}]
  /\ \A s \in Sessions : SessionTyped(session[s])

LEMMA TypeParts == TypeOK <=> TablesTyped /\ RunsTyped /\ MoneyTyped /\ SessionsTyped
BY DEF TypeOK, TablesTyped, RunsTyped, MoneyTyped, SessionsTyped, SessionTyped

LEMMA TypePartsNext ==
  TypeOK' <=> TablesTyped' /\ RunsTyped' /\ MoneyTyped' /\ SessionsTyped'
BY DEF TypeOK, TablesTyped, RunsTyped, MoneyTyped, SessionsTyped, SessionTyped

\* Carryovers are amounts.
LEMMA CarryoversAreAmounts ==
  ASSUME NEW rows \in [Races -> [status: CarryoverStates, amount: Nat, target: Races]],
         NEW S \in SUBSET Races, NEW sum, sum = Total([q \in S |-> rows[q].amount])
  PROVE  sum \in Nat
<1> DEFINE f == [q \in S |-> rows[q].amount]
<1>1. IsFiniteSet(S)
  BY PoolsAssumption, FS_Subset
<1>2. \A q \in S : f[q] \in Nat
  OBVIOUS
<1>3. f = [q \in S |-> f[q]]
  OBVIOUS
<1> HIDE DEF f
<1>4. Sum(f, S) \in Nat
  BY <1>1, <1>2, SumNat DEF NatOn
<1> QED
  BY <1>3, <1>4 DEF Sum, f

\* A settlement divides its pool fairly and into what a division is.
LEMMA RaceDivision ==
  ASSUME TablesTyped, NEW r \in Races, NEW x, NEW bps \in 0 .. BasisPoints
  PROVE  /\ IsDivision(Division(r, x, bps)) /\ IsFairDivision(Division(r, x, bps))
         /\ Division(r, x, bps).carried = Carried(r)
         /\ Division(r, x, bps).bps = bps
<1> DEFINE A == AcceptedBets(r)
           winners == {b \in A : bet[b].offer.selection = x}
<1>1. A \in SUBSET Bets /\ winners \in SUBSET A
  BY DEF AcceptedBets
<1>2. \A b \in A : bet[b].offer.stake \in Nat \ {0}
  BY BetRow DEF AcceptedBets, TablesTyped
<1>3. Stakes(A) \in [A -> Nat \ {0}]
  BY <1>2 DEF Stakes
<1>4. IsFiniteSet(A) /\ A \subseteq Nat
  BY <1>1, PoolsAssumption, FS_Subset
<1>5. Carried(r) \in Nat
  <2> DEFINE S == {q \in Races : carryover[q].status = "applied" /\ carryover[q].target = r}
  <2>1. S \in SUBSET Races /\ Carried(r) = Total([q \in S |-> carryover[q].amount])
    BY DEF Carried, CarryoversOf
  <2> HIDE DEF S
  <2> QED
    BY <2>1, CarryoversAreAmounts DEF TablesTyped
<1>6. Division(r, x, bps) = Calculation(Stakes(A), winners, Carried(r), bps)
  BY DEF Division
<1> HIDE DEF A, winners
<1>7. PoolInputs(A, Stakes(A), winners, Carried(r), bps)
  BY <1>1, <1>3, <1>4, <1>5 DEF PoolInputs
<1>8. Division(r, x, bps).carried = Carried(r) /\ Division(r, x, bps).bps = bps
  BY <1>6 DEF Calculation
<1> QED
  BY <1>1, <1>6, <1>7, <1>8, DivisionTyped, DivisionIsFair

\* A session goes on to what it is given to do.
LEMMA SessionTo ==
  ASSUME SessionsTyped, SessionShape, NEW s \in Sessions, NEW new,
         session' = [session EXCEPT ![s] = new], SessionTyped(new),
         rowLock' = rowLock \/ Unlock(s) \/ (\E r \in Races : LockRow(r, s))
  PROVE  SessionsTyped'
<1>1. \A t \in Sessions : SessionTyped(session'[t])
  BY DEF SessionsTyped, SessionShape
<1>2. rowLock' \in [Races -> Sessions \cup {NoSession}]
  BY DEF SessionsTyped, Unlock, LockRow
<1> QED
  BY <1>1, <1>2 DEF SessionsTyped

LEMMA PlacingTyped ==
  ASSUME TypeOK, PoolInv, NEW s \in Sessions,
         \/ \E o \in Offers, refused \in BOOLEAN : PlaceBet(s, o, refused)
         \/ ReplayBet(s) \/ RecordRejectedBet(s) \/ AcceptBet(s)
  PROVE  SessionsTyped'
<1>1. SessionsTyped /\ SessionShape
  BY TypeParts DEF PoolInv
<1>2. CASE \E o \in Offers, refused \in BOOLEAN : PlaceBet(s, o, refused)
  <2>1. PICK o \in Offers, refused \in BOOLEAN : PlaceBet(s, o, refused)
    BY <1>2
  <2> DEFINE new == [op |-> "place", offer |-> o, refused |-> refused]
  <2>2. session' = [session EXCEPT ![s] = new] /\ rowLock' = rowLock
    BY <2>1 DEF PlaceBet
  <2>3. SessionTyped(new)
    BY DEF SessionTyped, Placing
  <2> HIDE DEF new
  <2> QED
    BY <1>1, <2>2, <2>3, SessionTo
<1>3. CASE ReplayBet(s) \/ RecordRejectedBet(s) \/ AcceptBet(s)
  <2> DEFINE id == session[s].offer.bet
  <2>1. PICK accepted \in BOOLEAN : Answer(s, id, accepted) /\ session[s].op = "place"
    <3>1. CASE ReplayBet(s)
      <4> DEFINE good == bet[id].status = "accepted"
      <4>1. Answer(s, id, good) /\ session[s].op = "place"
        BY <3>1 DEF ReplayBet
      <4>2. good \in BOOLEAN
        OBVIOUS
      <4> QED
        BY <4>1, <4>2, Zenon
    <3>2. CASE RecordRejectedBet(s) \/ AcceptBet(s)
      <4>1. /\ session[s].op = "place"
            /\ Answer(s, id, FALSE) \/ Answer(s, id, TRUE)
        BY <3>2 DEF RecordRejectedBet, AcceptBet
      <4> QED
        BY <4>1, Zenon
    <3> QED
      BY <1>3, <3>1, <3>2
  <2> DEFINE new == [op |-> "answered", bet |-> id, accepted |-> accepted]
  <2>2. session' = [session EXCEPT ![s] = new] /\ rowLock' = rowLock
    BY <1>3, <2>1 DEF Answer, ReplayBet, RecordRejectedBet, AcceptBet
  <2>3. id \in Bets
    BY <1>1, <2>1, PoolsAssumption DEF SessionShape
  <2>4. SessionTyped(new)
    BY <2>3 DEF SessionTyped, Answering
  <2> HIDE DEF new
  <2> QED
    BY <1>1, <2>2, <2>4, SessionTo
<1> QED
  BY <1>2, <1>3

LEMMA SettlingTyped ==
  ASSUME TypeOK, PoolInv, NEW s \in Sessions,
         \/ \E r \in Races, x \in Selections, bps \in HouseTakes :
              PrepareSettlement(s, r, x, bps)
         \/ \E r \in Races : PrepareApplication(s, r)
         \/ LockTarget(s)
  PROVE  SessionsTyped'
<1>1. SessionsTyped /\ SessionShape /\ TablesTyped
  BY TypeParts DEF PoolInv
<1>2. CASE \E r \in Races, x \in Selections, bps \in HouseTakes :
             PrepareSettlement(s, r, x, bps)
  <2>1. PICK r \in Races, x \in Selections, bps \in HouseTakes :
               PrepareSettlement(s, r, x, bps)
    BY <1>2
  <2> DEFINE new == [op |-> "settle", race |-> r, winner |-> x,
                     expected |-> Division(r, x, bps)]
  <2>2. session' = [session EXCEPT ![s] = new] /\ rowLock' = rowLock
    BY <2>1 DEF PrepareSettlement
  <2>3. IsDivision(Division(r, x, bps))
    <3>1. bps \in 0 .. BasisPoints
      BY PoolsAssumption
    <3> QED
      BY <1>1, <3>1, RaceDivision
  <2>4. SessionTyped(new)
    BY <2>3 DEF SessionTyped
  <2> HIDE DEF new
  <2> QED
    BY <1>1, <2>2, <2>4, SessionTo
<1>3. CASE \E r \in Races : PrepareApplication(s, r)
  <2>1. PICK r \in Races : PrepareApplication(s, r)
    BY <1>3
  <2> DEFINE new == [op |-> "apply", race |-> r]
  <2>2. session' = [session EXCEPT ![s] = new] /\ rowLock' = rowLock
    BY <2>1 DEF PrepareApplication
  <2>3. SessionTyped(new)
    BY DEF SessionTyped, Applying
  <2> HIDE DEF new
  <2> QED
    BY <1>1, <2>2, <2>3, SessionTo
<1>4. CASE LockTarget(s)
  <2> DEFINE r == session[s].race
             new == [op |-> "applying", race |-> r, seen |-> pool]
  <2>1. session' = [session EXCEPT ![s] = new] /\ LockRow(r, s) /\ session[s].op = "apply"
    BY <1>4 DEF LockTarget
  <2>2. r \in Races /\ pool \in [Races -> PoolStates]
    BY <1>1, <2>1 DEF SessionShape, TablesTyped
  <2>3. SessionTyped(new)
    BY <2>2 DEF SessionTyped, Locking
  <2> HIDE DEF new
  <2> QED
    BY <1>1, <2>1, <2>2, <2>3, SessionTo
<1> QED
  BY <1>2, <1>3, <1>4

\* What the sessions are doing and which rows they hold stays of its kind.
LEMMA SessionsStep ==
  ASSUME TypeOK, PoolInv, Next
  PROVE  SessionsTyped'
<1>1. SessionsTyped /\ SessionShape
  BY TypeParts DEF PoolInv
<1>2. ASSUME NEW s \in Sessions,
             \/ BetAlreadyExists(s) \/ Answered(s) \/ SettlementFails(s)
             \/ TargetNotEligible(s) \/ Fail(s) \/ SettleRace(s) \/ ApplyCarryovers(s)
      PROVE  SessionsTyped'
  <2>1. session' = [session EXCEPT ![s] = Idle] /\ (rowLock' = rowLock \/ Unlock(s))
    BY <1>2, ZenonT(40) DEF BetAlreadyExists, Answered, SettlementFails, TargetNotEligible, Fail,
                SettleRace, ApplyCarryovers
  <2>2. SessionTyped(Idle)
    BY DEF SessionTyped, Idling
  <2> QED
    BY <1>1, <2>1, <2>2, SessionTo
<1>3. ASSUME UNCHANGED <<session, rowLock>>
      PROVE  SessionsTyped'
  BY <1>1, <1>3 DEF SessionsTyped
<1> QED
  BY <1>2, <1>3, NextCases, PlacingTyped, SettlingTyped
  DEF CreateRacePool, FreezePool, ApplyHouseTake, MarkManualReview, ResolveManualReview,
      VoidPool, LeaveManualReview, RegisterPoolSelection, ReleaseReservation, balances

\* Only what bettors, carryovers and settlements do changes the records that money
\* follows.
LEMMA TablesStep ==
  ASSUME TypeOK, PoolInv, CarryInv, PoolInv', Next
  PROVE  TablesTyped'
<1>1. TablesTyped /\ SessionsTyped
  BY TypeParts
<1>2. /\ pool' \in [Races -> PoolStates] /\ bet' \in [Bets -> BetRows \cup {NoBet}]
      /\ stakeOf' \in [Bets -> StakeStates]
  BY DEF PoolInv, TableShape
<1>3. selection' \in [Races -> [Selections -> Statuses \cup {"absent"}]]
  <2>1. ASSUME NEW g \in Registrations, RegisterPoolSelection(g)
        PROVE  selection' \in [Races -> [Selections -> Statuses \cup {"absent"}]]
    <3>1. g.race \in Races /\ g.selection \in Selections /\ g.status \in Statuses
      BY PoolsAssumption
    <3> DEFINE row == [selection[g.race] EXCEPT ![g.selection] = g.status]
    <3>2. selection' = [selection EXCEPT ![g.race] = row]
      BY <2>1 DEF RegisterPoolSelection
    <3>3. row \in [Selections -> Statuses \cup {"absent"}]
      BY <1>1, <3>1 DEF TablesTyped
    <3> HIDE DEF row
    <3> QED
      BY <1>1, <3>2, <3>3 DEF TablesTyped
  <2> QED
    BY <1>1, <2>1, NextCases, ZenonT(40)
    DEF CreateRacePool, FreezePool, ApplyHouseTake, MarkManualReview, ResolveManualReview,
        VoidPool, LeaveManualReview, ReleaseReservation, PlaceBet, PrepareSettlement,
        PrepareApplication, ReplayBet, BetAlreadyExists, Answered, RecordRejectedBet,
        AcceptBet, SettlementFails, LockTarget, TargetNotEligible, Fail, SettleRace,
        ApplyCarryovers, TablesTyped, tables
<1>4. carryover' \in [Races -> [status: CarryoverStates, amount: Nat, target: Races]]
  <2>1. ASSUME NEW s \in Sessions, SettleRace(s)
        PROVE  carryover' \in [Races -> [status: CarryoverStates, amount: Nat, target: Races]]
    <3> DEFINE r == session[s].race
               row == [status |-> "pending", amount |-> session[s].expected.carryover,
                       target |-> r]
    <3>1. carryover' = carryover \/ carryover' = [carryover EXCEPT ![r] = row]
      BY <2>1 DEF SettleRace, CarryOver
    <3>2. IsDivision(session[s].expected) /\ r \in Races
      <4>1. session[s].op = "settle"
        BY <2>1 DEF SettleRace
      <4> QED
        BY <1>1, <4>1
        DEF SessionsTyped, SessionTyped, Idling, Idle, Placing, Answering, Applying, Locking
    <3>3. row \in [status: CarryoverStates, amount: Nat, target: Races]
      BY <3>2 DEF IsDivision, CarryoverStates
    <3> HIDE DEF row
    <3> QED
      BY <1>1, <3>1, <3>3 DEF TablesTyped
  <2>2. ASSUME NEW s \in Sessions, ApplyCarryovers(s)
        PROVE  carryover' \in [Races -> [status: CarryoverStates, amount: Nat, target: Races]]
    <3> DEFINE r == session[s].race
    <3>1. carryover' = [q \in Races |-> carryover'[q]]
      BY <2>2 DEF ApplyCarryovers
    <3>2. r \in Races
      BY <2>2, CarryApplication, Zenon
    <3>3. ASSUME NEW q \in Races
          PROVE  carryover'[q] \in [status: CarryoverStates, amount: Nat, target: Races]
      <4>1. \/ carryover'[q] = carryover[q]
            \/ carryover'[q] = [status |-> "applied", target |-> r,
                                amount |-> carryover[q].amount]
        BY <2>2, CarryApplication, Zenon
      <4>2. carryover[q] \in [status: CarryoverStates, amount: Nat, target: Races]
        BY <1>1 DEF TablesTyped
      <4> QED
        BY <3>2, <4>1, <4>2 DEF CarryoverStates
    <3> QED
      BY <3>1, <3>3
  <2> QED
    BY <1>1, <2>1, <2>2, NextCases, ZenonT(40)
    DEF CreateRacePool, FreezePool, ApplyHouseTake, MarkManualReview, ResolveManualReview,
        VoidPool, LeaveManualReview, RegisterPoolSelection, ReleaseReservation, PlaceBet,
        PrepareSettlement, PrepareApplication, ReplayBet, BetAlreadyExists, Answered,
        RecordRejectedBet, AcceptBet, SettlementFails, LockTarget, TargetNotEligible, Fail,
        TablesTyped, tables
<1> QED
  BY <1>2, <1>3, <1>4 DEF TablesTyped

\* A run is completed by its settlement, with the division that was computed.
LEMMA RunsStep ==
  ASSUME TypeOK, PoolInv, Next
  PROVE  RunsTyped'
<1>1. RunsTyped /\ SessionsTyped
  BY TypeParts
<1>2. ASSUME NEW s \in Sessions, SettleRace(s)
      PROVE  RunsTyped'
  <2> DEFINE r == session[s].race
  <2>1. IsDivision(session[s].expected)
    <3>1. session[s].op = "settle"
      BY <1>2 DEF SettleRace
    <3> QED
      BY <1>1, <3>1
      DEF SessionsTyped, SessionTyped, Idling, Idle, Placing, Answering, Applying, Locking
  <2>2. /\ run'[r].completed = TRUE /\ run'[r].division = session[s].expected
        /\ run'[r].review = run[r].review /\ \A q \in Races \ {r} : run'[q] = run[q]
    BY <1>2, SettledRun
  <2> QED
    BY <1>1, <2>1, <2>2 DEF RunsTyped
<1>3. ASSUME NEW r \in Races, MarkManualReview(r) \/ ResolveManualReview(r) \/ VoidPool(r)
      PROVE  RunsTyped'
  <2>1. PICK n \in {0, 1} : run' = [run EXCEPT ![r].review = n]
    BY <1>1, <1>3 DEF MarkManualReview, ResolveManualReview, VoidPool, LeaveManualReview,
                      RunsTyped
  <2>2. \A q \in Races : /\ run'[q].completed = run[q].completed
                         /\ run'[q].division = run[q].division
                         /\ run'[q].review \in {n, run[q].review}
    BY <2>1 DEF PoolInv, TableShape
  <2> QED
    BY <1>1, <2>2 DEF RunsTyped
<1>4. ASSUME UNCHANGED run
      PROVE  RunsTyped'
  BY <1>1, <1>4 DEF RunsTyped
<1> QED
  BY <1>2, <1>3, <1>4, NextCases, ZenonT(40)
  DEF CreateRacePool, FreezePool, ApplyHouseTake, RegisterPoolSelection, ReleaseReservation,
      PlaceBet, PrepareSettlement, PrepareApplication, ReplayBet, BetAlreadyExists, Answered,
      RecordRejectedBet, AcceptBet, SettlementFails, LockTarget, TargetNotEligible, Fail,
      ApplyCarryovers, tables

-----------------------------------------------------------------------------
(* The money of the bettors *)

\* What the bets of a user hold of its balance, and what they won or lost it.
Held(bt, st, u) ==
  [b \in Bets |-> IF bt[b] # NoBet /\ bt[b].offer.user = u /\ st[b] = "locked"
                  THEN bt[b].offer.stake ELSE 0]

Won(bt, st, rn, u) ==
  [b \in Bets |-> IF bt[b] # NoBet /\ bt[b].offer.user = u /\ st[b] = "captured"
                  THEN rn[bt[b].offer.race].division.payout[b] - bt[b].offer.stake ELSE 0]

LEMMA HeldSum ==
  ASSUME NEW bt \in [Bets -> BetRows \cup {NoBet}], NEW st, NEW u,
         NEW S, S = {b \in {d \in Bets : bt[d] # NoBet /\ bt[d].offer.user = u} :
                       st[b] = "locked"}
  PROVE  /\ NatOn(Held(bt, st, u), Bets)
         /\ Total([b \in S |-> bt[b].offer.stake]) = Sum(Held(bt, st, u), Bets)
<1> DEFINE f == Held(bt, st, u)
           g == [b \in S |-> bt[b].offer.stake]
<1>1. S \in SUBSET Bets /\ IsFiniteSet(Bets)
  BY PoolsAssumption
<1>2. \A b \in Bets : f[b] \in Nat
  BY BetRow DEF Held
<1>3. (\A b \in S : g[b] = f[b]) /\ (\A b \in Bets \ S : f[b] = 0)
  BY <1>1 DEF Held
<1>4. g = [b \in S |-> g[b]]
  OBVIOUS
<1> HIDE DEF f, g
<1>5. Sum(f, Bets) = Sum(f, S)
  BY <1>1, <1>2, <1>3, SumRelevant DEF IntOn
<1>6. Sum(g, S) = Sum(f, S)
  BY <1>3, SumSame
<1>7. Total(g) = Sum(f, Bets)
  BY <1>4, <1>5, <1>6 DEF Sum
<1> QED
  BY <1>2, <1>7 DEF NatOn, f, g

LEMMA WonSum ==
  ASSUME NEW bt \in [Bets -> BetRows \cup {NoBet}], NEW st, NEW rn, NEW u,
         NEW S, S = {b \in {d \in Bets : bt[d] # NoBet /\ bt[d].offer.user = u} :
                       st[b] = "captured"},
         \A b \in S : rn[bt[b].offer.race].division.payout[b] \in Nat
  PROVE  /\ IntOn(Won(bt, st, rn, u), Bets)
         /\ Total([b \in S |-> rn[bt[b].offer.race].division.payout[b] - bt[b].offer.stake])
              = Sum(Won(bt, st, rn, u), Bets)
<1> DEFINE f == Won(bt, st, rn, u)
           g == [b \in S |-> rn[bt[b].offer.race].division.payout[b] - bt[b].offer.stake]
<1>1. S \in SUBSET Bets /\ IsFiniteSet(Bets)
  BY PoolsAssumption
<1>2. (\A b \in S : g[b] = f[b]) /\ (\A b \in Bets \ S : f[b] = 0)
  BY <1>1 DEF Won
<1>3. \A b \in S : g[b] \in Int
  <2> TAKE b \in S
  <2>1. bt[b].offer.stake \in Int /\ rn[bt[b].offer.race].division.payout[b] \in Int
    BY BetRow
  <2> QED
    BY <2>1
<1>4. g = [b \in S |-> g[b]]
  OBVIOUS
<1> HIDE DEF f, g
<1>5. \A b \in Bets : f[b] \in Int
  BY <1>1, <1>2, <1>3
<1>6. Sum(f, Bets) = Sum(f, S)
  BY <1>1, <1>2, <1>5, SumRelevant DEF IntOn
<1>7. Sum(g, S) = Sum(f, S)
  BY <1>2, SumSame
<1>8. Total(g) = Sum(f, Bets)
  BY <1>4, <1>6, <1>7 DEF Sum
<1> QED
  BY <1>5, <1>8 DEF IntOn, f, g

\* BalancesFollowBets, with sums over all bets.
UsersBalanced ==
  \A u \in Users :
    /\ locked[u] = Sum(Held(bet, stakeOf, u), Bets)
    /\ available[u] + locked[u] = Funds[u] + Sum(Won(bet, stakeOf, run, u), Bets)

\* What was captured was divided and paid.
CapturedIsPaid ==
  \A b \in Bets : bet[b] # NoBet /\ stakeOf[b] = "captured" =>
    run[bet[b].offer.race].division.payout[b] \in Nat

LEMMA CapturedPaid ==
  PoolInv /\ TablesTyped /\ RunsTyped => CapturedIsPaid
<1> SUFFICES ASSUME PoolInv, TablesTyped, RunsTyped,
                    NEW b \in Bets, bet[b] # NoBet, stakeOf[b] = "captured"
             PROVE  run[bet[b].offer.race].division.payout[b] \in Nat
  BY DEF CapturedIsPaid
<1>1. bet[b].offer.race \in Races
  BY BetRow DEF TablesTyped
<1>2. b \in DOMAIN run[bet[b].offer.race].division.stake
  BY DEF PoolInv, DividedBets
<1>3. IsDivision(run[bet[b].offer.race].division)
  BY <1>1 DEF RunsTyped
<1> QED
  BY <1>2, <1>3 DEF IsDivision

LEMMA BalancesAreSums ==
  PoolInv /\ TablesTyped /\ RunsTyped => (BalancesFollowBets <=> UsersBalanced)
<1> SUFFICES ASSUME PoolInv, TablesTyped, RunsTyped
             PROVE  BalancesFollowBets <=> UsersBalanced
  OBVIOUS
<1>1. bet \in [Bets -> BetRows \cup {NoBet}]
  BY DEF TablesTyped
<1>2. ASSUME NEW u \in Users
      PROVE  LET reserved == {b \in BetsOf(u) : stakeOf[b] = "locked"}
                 captured == {b \in BetsOf(u) : stakeOf[b] = "captured"}
             IN /\ Total(Stakes(reserved)) = Sum(Held(bet, stakeOf, u), Bets)
                /\ Total([b \in captured |-> Gain(b)]) = Sum(Won(bet, stakeOf, run, u), Bets)
  <2> DEFINE mine == {d \in Bets : bet[d] # NoBet /\ bet[d].offer.user = u}
             reserved == {b \in mine : stakeOf[b] = "locked"}
             captured == {b \in mine : stakeOf[b] = "captured"}
  <2>1. Total([b \in reserved |-> bet[b].offer.stake]) = Sum(Held(bet, stakeOf, u), Bets)
    BY <1>1, HeldSum
  <2>2. \A b \in captured : run[bet[b].offer.race].division.payout[b] \in Nat
    BY CapturedPaid, SMTT(30) DEF CapturedIsPaid
  <2>3. Total([b \in captured |-> run[bet[b].offer.race].division.payout[b]
                                   - bet[b].offer.stake])
          = Sum(Won(bet, stakeOf, run, u), Bets)
    BY <1>1, <2>2, WonSum
  <2> QED
    BY <2>1, <2>3, Zenon DEF BetsOf, Stakes, Gain
<1> QED
  BY <1>2, Zenon DEF BalancesFollowBets, UsersBalanced

LEMMA BalancesAreSumsNext ==
  PoolInv' /\ TablesTyped' /\ RunsTyped' => (BalancesFollowBets' <=> UsersBalanced')
BY BalancesAreSums, PTL

LEMMA CapturedPaidNext == PoolInv' /\ TablesTyped' /\ RunsTyped' => CapturedIsPaid'
BY CapturedPaid, PTL

\* What the sums are made of are numbers.
LEMMA HeldTyped ==
  ASSUME NEW bt \in [Bets -> BetRows \cup {NoBet}], NEW st, NEW u
  PROVE  IntOn(Held(bt, st, u), Bets) /\ Sum(Held(bt, st, u), Bets) \in Nat
<1>1. NatOn(Held(bt, st, u), Bets)
  BY HeldSum
<1>2. IsFiniteSet(Bets)
  BY PoolsAssumption
<1>3. Sum(Held(bt, st, u), Bets) \in Nat
  BY <1>1, <1>2, SumNat
<1>4. IntOn(Held(bt, st, u), Bets)
  BY <1>1 DEF NatOn, IntOn
<1> QED
  BY <1>3, <1>4

LEMMA WonTyped ==
  ASSUME NEW bt \in [Bets -> BetRows \cup {NoBet}], NEW st, NEW rn, NEW u,
         \A b \in Bets : bt[b] # NoBet /\ st[b] = "captured" =>
           rn[bt[b].offer.race].division.payout[b] \in Nat
  PROVE  IntOn(Won(bt, st, rn, u), Bets) /\ Sum(Won(bt, st, rn, u), Bets) \in Int
<1>1. IntOn(Won(bt, st, rn, u), Bets)
  <2> DEFINE S == {b \in {d \in Bets : bt[d] # NoBet /\ bt[d].offer.user = u} :
                     st[b] = "captured"}
  <2>1. \A b \in S : rn[bt[b].offer.race].division.payout[b] \in Nat
    OBVIOUS
  <2>2. S = {b \in {d \in Bets : bt[d] # NoBet /\ bt[d].offer.user = u} : st[b] = "captured"}
    OBVIOUS
  <2> HIDE DEF S
  <2> QED
    BY <2>1, <2>2, WonSum
<1> QED
  BY <1>1, SumInt, PoolsAssumption

\* Steps that move no stake.
LEMMA StakesStay ==
  ASSUME UsersBalanced, UNCHANGED <<available, locked>>,
         \A u \in Users, b \in Bets :
           /\ Held(bet', stakeOf', u)[b] = Held(bet, stakeOf, u)[b]
           /\ Won(bet', stakeOf', run', u)[b] = Won(bet, stakeOf, run, u)[b]
  PROVE  UsersBalanced'
<1> SUFFICES ASSUME NEW u \in Users
             PROVE  /\ locked'[u] = Sum(Held(bet', stakeOf', u), Bets)
                    /\ available'[u] + locked'[u]
                         = Funds[u] + Sum(Won(bet', stakeOf', run', u), Bets)
  BY DEF UsersBalanced
<1>1. Sum(Held(bet', stakeOf', u), Bets) = Sum(Held(bet, stakeOf, u), Bets)
  BY SumSame
<1>2. Sum(Won(bet', stakeOf', run', u), Bets) = Sum(Won(bet, stakeOf, run, u), Bets)
  BY SumSame
<1> QED
  BY <1>1, <1>2 DEF UsersBalanced

\* One stake is reserved or given back.
LEMMA StakeMoves ==
  ASSUME UsersBalanced, TablesTyped, TablesTyped', MoneyTyped,
         NEW d \in Bets, NEW w \in Users, NEW k \in Int,
         \A u \in Users, b \in Bets :
           /\ Held(bet', stakeOf', u)[b]
                = Held(bet, stakeOf, u)[b] + (IF b = d /\ u = w THEN k ELSE 0)
           /\ Won(bet', stakeOf', run', u)[b] = Won(bet, stakeOf, run, u)[b],
         \A u \in Users : /\ locked'[u] = locked[u] + (IF u = w THEN k ELSE 0)
                          /\ available'[u] = available[u] - (IF u = w THEN k ELSE 0),
         CapturedIsPaid
  PROVE  UsersBalanced'
<1> SUFFICES ASSUME NEW u \in Users
             PROVE  /\ locked'[u] = Sum(Held(bet', stakeOf', u), Bets)
                    /\ available'[u] + locked'[u]
                         = Funds[u] + Sum(Won(bet', stakeOf', run', u), Bets)
  BY DEF UsersBalanced
<1> DEFINE new == Held(bet', stakeOf', u)
           old == Held(bet, stakeOf, u)
           n == IF u = w THEN k ELSE 0
<1>1. IntOn(old, Bets) /\ Sum(old, Bets) \in Nat /\ IntOn(new, Bets) /\ IsFiniteSet(Bets)
  <2>1. bet \in [Bets -> BetRows \cup {NoBet}] /\ bet' \in [Bets -> BetRows \cup {NoBet}]
    BY DEF TablesTyped
  <2> QED
    BY <2>1, HeldTyped, PoolsAssumption
<1>2. \A b \in Bets : new[b] = old[b] + (IF b = d /\ u = w THEN k ELSE 0)
  OBVIOUS
<1>3. Sum(Won(bet', stakeOf', run', u), Bets) = Sum(Won(bet, stakeOf, run, u), Bets)
  BY SumSame
<1>4. locked'[u] = locked[u] + n /\ available'[u] = available[u] - n
  OBVIOUS
<1>5. locked[u] = Sum(old, Bets) /\ locked[u] \in Nat /\ available[u] \in Nat
      /\ available[u] + locked[u] = Funds[u] + Sum(Won(bet, stakeOf, run, u), Bets)
  BY DEF UsersBalanced, MoneyTyped
<1> HIDE DEF new, old
<1>6. \A b \in Bets \ {d} : new[b] = old[b]
  BY <1>1, <1>2 DEF IntOn
<1>7. new[d] - old[d] = n
  BY <1>1, <1>2 DEF IntOn
<1>8. Sum(new, Bets) = Sum(old, Bets) + (new[d] - old[d])
  BY <1>1, <1>6, SumBut
<1>9. n \in Int
  OBVIOUS
<1> HIDE DEF n
<1>10. available'[u] + locked'[u] = available[u] + locked[u]
  BY <1>4, <1>5, <1>9
<1> QED
  BY <1>3, <1>4, <1>5, <1>7, <1>8, <1>10 DEF new

\* The stake of a bet that is accepted is reserved.
LEMMA AcceptBalanced ==
  ASSUME PoolInv, TypeOK, UsersBalanced, TablesTyped', CapturedIsPaid,
         NEW s \in Sessions, AcceptBet(s)
  PROVE  UsersBalanced'
<1> DEFINE o == session[s].offer
           d == o.bet
           w == o.user
           k == o.stake
<1>1. /\ o \in Offers /\ bet[d] = NoBet
      /\ bet' = [bet EXCEPT ![d] = [offer |-> o, status |-> "accepted"]]
      /\ stakeOf' = [stakeOf EXCEPT ![d] = "locked"]
      /\ available' = [available EXCEPT ![w] = @ - k]
      /\ locked' = [locked EXCEPT ![w] = @ + k]
      /\ UNCHANGED run
  BY DEF AcceptBet, PoolInv, SessionShape
<1>2. d \in Bets /\ w \in Users /\ k \in Nat \ {0}
  BY <1>1, PoolsAssumption
<1>3. TablesTyped /\ MoneyTyped
  BY TypeParts
<1> HIDE DEF o
<1>4. /\ bet'[d] = [offer |-> o, status |-> "accepted"] /\ bet'[d] # NoBet
      /\ stakeOf'[d] = "locked" /\ stakeOf[d] = "none"
      /\ \A b \in Bets \ {d} : bet'[b] = bet[b] /\ stakeOf'[b] = stakeOf[b]
  <2>1. [offer |-> o, status |-> "accepted"] \in BetRows
    BY <1>1 DEF BetRows, BetStatuses
  <2> QED
    BY <1>1, <1>2, <1>3, <2>1, PoolsAssumption
    DEF TablesTyped, PoolInv, ReservedIfAccepted
<1>5. ASSUME NEW u \in Users, NEW b \in Bets
      PROVE  /\ Held(bet', stakeOf', u)[b]
                  = Held(bet, stakeOf, u)[b] + (IF b = d /\ u = w THEN k ELSE 0)
             /\ Won(bet', stakeOf', run', u)[b] = Won(bet, stakeOf, run, u)[b]
  <2>1. CASE b = d
    <3>1. Held(bet, stakeOf, u)[b] = 0 /\ Won(bet, stakeOf, run, u)[b] = 0
      BY <1>1, <1>5, <2>1 DEF Held, Won
    <3>2. Held(bet', stakeOf', u)[b] = (IF u = w THEN k ELSE 0)
          /\ Won(bet', stakeOf', run', u)[b] = 0
      BY <1>4, <1>5, <2>1 DEF Held, Won
    <3> QED
      BY <1>2, <2>1, <3>1, <3>2
  <2>2. CASE b # d
    <3>1. Held(bet', stakeOf', u)[b] = Held(bet, stakeOf, u)[b]
          /\ Won(bet', stakeOf', run', u)[b] = Won(bet, stakeOf, run, u)[b]
      BY <1>1, <1>4, <1>5, <2>2 DEF Held, Won
    <3>2. Held(bet, stakeOf, u)[b] \in Int
      BY <1>3, <1>5, HeldTyped DEF TablesTyped, IntOn
    <3> QED
      BY <2>2, <3>1, <3>2
  <2> QED
    BY <2>1, <2>2
<1>6. \A u \in Users : /\ locked'[u] = locked[u] + (IF u = w THEN k ELSE 0)
                       /\ available'[u] = available[u] - (IF u = w THEN k ELSE 0)
  BY <1>1, <1>2, <1>3 DEF MoneyTyped
<1> HIDE DEF d, w, k
<1> QED
  BY <1>2, <1>3, <1>5, <1>6, StakeMoves

\* The stake of a bet is given back.
LEMMA ReleaseBalanced ==
  ASSUME PoolInv, TypeOK, UsersBalanced, TablesTyped', CapturedIsPaid,
         NEW d \in Bets, ReleaseReservation(d)
  PROVE  UsersBalanced'
<1> DEFINE w == bet[d].offer.user
           k == bet[d].offer.stake
<1>1. /\ stakeOf[d] = "locked" /\ stakeOf' = [stakeOf EXCEPT ![d] = "released"]
      /\ available' = [available EXCEPT ![w] = @ + k]
      /\ locked' = [locked EXCEPT ![w] = @ - k]
      /\ UNCHANGED <<bet, run>>
  BY DEF ReleaseReservation, tables
<1>2. TablesTyped /\ MoneyTyped
  BY TypeParts
<1>3. bet[d] # NoBet /\ w \in Users /\ k \in Nat \ {0}
  BY <1>1, <1>2, BetRow DEF TablesTyped, PoolInv, ReservedIfAccepted
<1>4. stakeOf'[d] = "released" /\ \A b \in Bets \ {d} : stakeOf'[b] = stakeOf[b]
  BY <1>1, <1>2 DEF TablesTyped
<1>5. ASSUME NEW u \in Users, NEW b \in Bets
      PROVE  /\ Held(bet', stakeOf', u)[b]
                  = Held(bet, stakeOf, u)[b] + (IF b = d /\ u = w THEN -k ELSE 0)
             /\ Won(bet', stakeOf', run', u)[b] = Won(bet, stakeOf, run, u)[b]
  <2>1. CASE b = d
    <3>1. Held(bet, stakeOf, u)[b] = (IF u = w THEN k ELSE 0)
          /\ Won(bet, stakeOf, run, u)[b] = 0
      BY <1>1, <1>3, <1>5, <2>1 DEF Held, Won
    <3>2. Held(bet', stakeOf', u)[b] = 0 /\ Won(bet', stakeOf', run', u)[b] = 0
      BY <1>4, <1>5, <2>1 DEF Held, Won
    <3> QED
      BY <1>3, <2>1, <3>1, <3>2
  <2>2. CASE b # d
    <3>1. Held(bet', stakeOf', u)[b] = Held(bet, stakeOf, u)[b]
          /\ Won(bet', stakeOf', run', u)[b] = Won(bet, stakeOf, run, u)[b]
      BY <1>1, <1>4, <1>5, <2>2 DEF Held, Won
    <3>2. Held(bet, stakeOf, u)[b] \in Int
      BY <1>2, <1>5, HeldTyped DEF TablesTyped, IntOn
    <3> QED
      BY <2>2, <3>1, <3>2
  <2> QED
    BY <2>1, <2>2
<1>6. \A u \in Users : /\ locked'[u] = locked[u] + (IF u = w THEN -k ELSE 0)
                       /\ available'[u] = available[u] - (IF u = w THEN -k ELSE 0)
  BY <1>1, <1>2, <1>3 DEF MoneyTyped
<1>7. -k \in Int
  BY <1>3
<1> DEFINE m == -k
<1> HIDE DEF w, k, m
<1> QED
  BY <1>2, <1>3, <1>5, <1>6, <1>7, StakeMoves DEF m

\* What a division gives or takes from the bets of a user.
Part(c, f, bt, u) ==
  [b \in Bets |-> IF b \in DOMAIN c.stake /\ bt[b].offer.user = u THEN f[b] ELSE 0]

LEMMA PartSum ==
  ASSUME NEW c, DOMAIN c.stake \in SUBSET Bets, NEW f, NatOn(f, DOMAIN c.stake),
         NEW bt, NEW u, NEW S, S = {b \in DOMAIN c.stake : bt[b].offer.user = u}
  PROVE  /\ NatOn(Part(c, f, bt, u), Bets)
         /\ Total([b \in S |-> f[b]]) = Sum(Part(c, f, bt, u), Bets)
         /\ Sum(Part(c, f, bt, u), Bets) \in Nat
<1> DEFINE g == Part(c, f, bt, u)
<1>1. S \in SUBSET Bets /\ IsFiniteSet(Bets)
  BY PoolsAssumption
<1>2. (\A b \in S : f[b] = g[b]) /\ (\A b \in Bets \ S : g[b] = 0)
  BY <1>1 DEF Part
<1>3. \A b \in S : f[b] \in Nat
  BY DEF NatOn
<1> HIDE DEF g
<1>4. \A b \in Bets : g[b] \in Nat
  BY <1>1, <1>2, <1>3
<1>5. Sum(g, Bets) = Sum(g, S)
  BY <1>1, <1>2, <1>4, SumRelevant DEF IntOn
<1>6. Sum(f, S) = Sum(g, S)
  BY <1>2, SumSame
<1>7. NatOn(g, Bets)
  BY <1>4 DEF NatOn
<1>8. Sum(g, Bets) \in Nat
  BY <1>1, <1>7, SumNat
<1> QED
  BY <1>5, <1>6, <1>7, <1>8 DEF Sum, g

\* A settlement captures the stakes of its bets and pays what they won.
LEMMA SettleBalanced ==
  ASSUME PoolInv, TypeOK, UsersBalanced, TablesTyped', CapturedIsPaid, CapturedIsPaid',
         NEW s \in Sessions, SettleRace(s)
  PROVE  UsersBalanced'
<1> DEFINE r == session[s].race
           c == session[s].expected
           A == AcceptedBets(r)
<1>1. TablesTyped /\ MoneyTyped /\ SessionsTyped
  BY TypeParts
<1>2. /\ DOMAIN c.stake = A
      /\ \A b \in Bets \ A : bet'[b] = bet[b] /\ stakeOf'[b] = stakeOf[b]
      /\ \A b \in A :
           /\ b \in Bets /\ bet[b] \in BetRows /\ bet[b].offer.race = r
           /\ stakeOf'[b] = "captured" /\ c.stake[b] = bet[b].offer.stake
           /\ bet'[b] # NoBet /\ bet'[b].offer = bet[b].offer
  BY SettledBets, SMTT(30)
<1>3. /\ run'[r].division = c /\ \A q \in Races \ {r} : run'[q] = run[q]
      /\ r \in Races /\ ~run[r].completed
  BY SettledRun DEF SettleRace, ReadyToSettle, PoolInv, SessionShape
<1>4. IsDivision(c)
  <2>1. session[s].op = "settle"
    BY DEF SettleRace
  <2> QED
    BY <1>1, <2>1
    DEF SessionsTyped, SessionTyped, Idling, Idle, Placing, Answering, Applying, Locking
<1>5. /\ CaptureStakes(r, c) /\ PayOut(r, c)
  BY DEF SettleRace
<1>6. \A b \in A : stakeOf[b] = "locked" /\ bet[b] # NoBet
  BY <1>2, <1>5 DEF CaptureStakes, AcceptedBets
<1>7. \A b \in Bets \ A : stakeOf[b] = "captured" /\ bet[b] # NoBet =>
        bet[b].offer.race \in Races \ {r}
  <2> TAKE b \in Bets \ A
  <2> HAVE stakeOf[b] = "captured" /\ bet[b] # NoBet
  <2>1. bet[b].offer.race \in Races
    BY <1>1, BetRow DEF TablesTyped
  <2>2. run[bet[b].offer.race].completed
    BY DEF PoolInv, DividedBets, Completed
  <2> QED
    BY <1>3, <2>1, <2>2
<1> SUFFICES ASSUME NEW u \in Users
             PROVE  /\ locked'[u] = Sum(Held(bet', stakeOf', u), Bets)
                    /\ available'[u] + locked'[u]
                         = Funds[u] + Sum(Won(bet', stakeOf', run', u), Bets)
  BY DEF UsersBalanced
<1> DEFINE held == Held(bet, stakeOf, u)
           heldNow == Held(bet', stakeOf', u)
           won == Won(bet, stakeOf, run, u)
           wonNow == Won(bet', stakeOf', run', u)
           staked == Part(c, c.stake, bet, u)
           paid == Part(c, c.payout, bet, u)
<1>8. /\ locked'[u] = locked[u] - Sum(staked, Bets)
      /\ available'[u] = available[u] + Sum(paid, Bets)
      /\ NatOn(staked, Bets) /\ NatOn(paid, Bets)
      /\ Sum(staked, Bets) \in Nat /\ Sum(paid, Bets) \in Nat
  <2> DEFINE S == {b \in DOMAIN c.stake : bet[b].offer.user = u}
  <2>1. DOMAIN c.stake \in SUBSET Bets
    BY <1>2
  <2>2. NatOn(c.stake, DOMAIN c.stake) /\ NatOn(c.payout, DOMAIN c.stake)
    BY <1>4 DEF IsDivision, NatOn
  <2>3. locked'[u] = locked[u] - Total([b \in S |-> c.stake[b]])
        /\ available'[u] = available[u] + Total([b \in S |-> c.payout[b]])
    BY <1>5 DEF CaptureStakes, PayOut, BetsIn
  <2>4. S = {b \in DOMAIN c.stake : bet[b].offer.user = u}
    OBVIOUS
  <2> HIDE DEF S, c
  <2>5. /\ NatOn(staked, Bets) /\ Sum(staked, Bets) \in Nat
        /\ Total([b \in S |-> c.stake[b]]) = Sum(staked, Bets)
    BY <2>1, <2>2, <2>4, PartSum
  <2>6. /\ NatOn(paid, Bets) /\ Sum(paid, Bets) \in Nat
        /\ Total([b \in S |-> c.payout[b]]) = Sum(paid, Bets)
    BY <2>1, <2>2, <2>4, PartSum
  <2> QED
    BY <2>3, <2>5, <2>6
<1>9. /\ IntOn(held, Bets) /\ Sum(held, Bets) \in Nat
      /\ IntOn(heldNow, Bets) /\ Sum(heldNow, Bets) \in Nat /\ IsFiniteSet(Bets)
      /\ IntOn(won, Bets) /\ Sum(won, Bets) \in Int
      /\ IntOn(wonNow, Bets) /\ Sum(wonNow, Bets) \in Int
  <2>1. bet \in [Bets -> BetRows \cup {NoBet}] /\ bet' \in [Bets -> BetRows \cup {NoBet}]
    BY <1>1 DEF TablesTyped
  <2>2. /\ IntOn(held, Bets) /\ Sum(held, Bets) \in Nat
        /\ IntOn(heldNow, Bets) /\ Sum(heldNow, Bets) \in Nat
    BY <2>1, HeldTyped
  <2>3. IntOn(won, Bets) /\ Sum(won, Bets) \in Int
    BY <2>1, WonTyped DEF CapturedIsPaid
  <2>4. IntOn(wonNow, Bets) /\ Sum(wonNow, Bets) \in Int
    BY <2>1, WonTyped DEF CapturedIsPaid
  <2> QED
    BY <2>2, <2>3, <2>4, PoolsAssumption
<1>10. ASSUME NEW b \in Bets
       PROVE  /\ held[b] = heldNow[b] + staked[b]
              /\ wonNow[b] + staked[b] = won[b] + paid[b]
  <2>1. CASE b \in A /\ bet[b].offer.user = u
    <3>1. /\ held[b] = bet[b].offer.stake /\ heldNow[b] = 0 /\ won[b] = 0
          /\ wonNow[b] = c.payout[b] - bet[b].offer.stake
          /\ staked[b] = bet[b].offer.stake /\ paid[b] = c.payout[b]
      BY <1>2, <1>3, <1>6, <1>10, <2>1 DEF Held, Won, Part
    <3>2. bet[b].offer.stake \in Nat /\ c.payout[b] \in Nat
      BY <1>2, <1>4, <2>1, BetRow DEF IsDivision
    <3> HIDE DEF held, heldNow, won, wonNow, staked, paid, c
    <3> QED
      BY <3>1, <3>2
  <2>2. CASE b \in A /\ bet[b].offer.user # u
    BY <1>2, <1>10, <2>2 DEF Held, Won, Part
  <2>3. CASE b \notin A
    <3>1. /\ held[b] = heldNow[b] /\ staked[b] = 0 /\ paid[b] = 0 /\ wonNow[b] = won[b]
      BY <1>2, <1>3, <1>7, <1>10, <2>3 DEF Held, Won, Part
    <3>2. heldNow[b] \in Int /\ won[b] \in Int
      BY <1>9, <1>10 DEF IntOn
    <3> HIDE DEF held, heldNow, won, wonNow, staked, paid
    <3> QED
      BY <3>1, <3>2
  <2> QED
    BY <2>1, <2>2, <2>3
<1>11. locked[u] = Sum(held, Bets) /\ available[u] \in Nat /\ Funds[u] \in Nat
       /\ available[u] + locked[u] = Funds[u] + Sum(won, Bets)
  BY <1>1, PoolsAssumption DEF UsersBalanced, MoneyTyped
<1> HIDE DEF held, heldNow, won, wonNow, staked, paid, c, A, r
<1>12. IntOn(staked, Bets) /\ IntOn(paid, Bets)
  BY <1>8 DEF NatOn, IntOn
<1>13. Sum(held, Bets) = Sum(heldNow, Bets) + Sum(staked, Bets)
  BY <1>9, <1>10, <1>12, SumPlus
<1>14. Sum(wonNow, Bets) + Sum(staked, Bets) = Sum(won, Bets) + Sum(paid, Bets)
  <2> DEFINE both == [b \in Bets |-> wonNow[b] + staked[b]]
  <2>1. \A b \in Bets : both[b] = wonNow[b] + staked[b] /\ both[b] = won[b] + paid[b]
    BY <1>10
  <2> HIDE DEF both
  <2>2. Sum(both, Bets) = Sum(wonNow, Bets) + Sum(staked, Bets)
    BY <1>9, <1>12, <2>1, SumPlus
  <2>3. Sum(both, Bets) = Sum(won, Bets) + Sum(paid, Bets)
    BY <1>9, <1>12, <2>1, SumPlus
  <2> QED
    BY <2>2, <2>3
<1>15. locked'[u] = Sum(heldNow, Bets)
  BY <1>8, <1>9, <1>11, <1>13
<1>16. available'[u] + locked'[u] = Funds[u] + Sum(wonNow, Bets)
  <2> DEFINE sh == Sum(held, Bets)
             sn == Sum(heldNow, Bets)
             ss == Sum(staked, Bets)
             sp == Sum(paid, Bets)
             sw == Sum(won, Bets)
             sx == Sum(wonNow, Bets)
  <2>1. sn \in Int /\ sh \in Int /\ ss \in Int /\ sp \in Int /\ sw \in Int /\ sx \in Int
    BY <1>8, <1>9
  <2>2. /\ available'[u] = available[u] + sp /\ locked'[u] = sn /\ locked[u] = sh
        /\ sh = sn + ss /\ sx + ss = sw + sp
    BY <1>8, <1>11, <1>13, <1>14, <1>15
  <2> HIDE DEF sh, sn, ss, sp, sw, sx
  <2>3. available[u] + sh = Funds[u] + sw
    BY <1>11, <2>2 DEF sw
  <2>6. available[u] \in Int /\ Funds[u] \in Int
    BY <1>11
  <2>8. available[u] + (sn + ss) = Funds[u] + sw /\ sx + ss = sw + sp
    BY <2>2, <2>3
  <2> DEFINE av == available[u]
             fu == Funds[u]
  <2>9. /\ av \in Int /\ fu \in Int
        /\ av + (sn + ss) = fu + sw /\ sx + ss = sw + sp
    BY <2>6, <2>8
  <2> HIDE DEF av, fu
  <2>5. (av + sp) + sn = fu + sx
    BY <2>1, <2>9
  <2>7. (available[u] + sp) + sn = Funds[u] + sx
    BY <2>5 DEF av, fu
  <2>4. available'[u] + locked'[u] = Funds[u] + sx
    BY <2>2, <2>7
  <2> QED
    BY <2>4 DEF sx
<1> QED
  BY <1>15, <1>16 DEF heldNow, wonNow

-----------------------------------------------------------------------------
(* The money of the pools *)

LEMMA CarriedTyped ==
  ASSUME TablesTyped, NEW r
  PROVE  Carried(r) \in Nat
<1> DEFINE S == {q \in Races : carryover[q].status = "applied" /\ carryover[q].target = r}
<1>1. S \in SUBSET Races /\ Carried(r) = Total([q \in S |-> carryover[q].amount])
  BY DEF Carried, CarryoversOf
<1> HIDE DEF S
<1> QED
  BY <1>1, CarryoversAreAmounts DEF TablesTyped

\* Steps that touch no account of a pool.
LEMMA PoolsStay ==
  ASSUME PoolsAccounted, UNCHANGED <<carryover, clearing, rollover, taken>>,
         \A r \in Races : /\ run'[r].completed = run[r].completed
                          /\ run'[r].division = run[r].division
  PROVE  PoolsAccounted'
BY DEF PoolsAccounted, Completed, Carried, CarryoversOf

LEMMA HouseTakeAccounted ==
  ASSUME TypeOK, PoolsAccounted, NEW d \in Races, ApplyHouseTake(d)
  PROVE  PoolsAccounted'
<1>1. /\ UNCHANGED <<carryover, rollover, run>> /\ taken[d] = 0
      /\ taken' = [taken EXCEPT ![d] = 1] /\ clearing' = [clearing EXCEPT ![d] = @ - 1]
  BY DEF ApplyHouseTake, tables
<1>2. /\ clearing \in [Races -> Int] /\ taken \in [Races -> Nat] /\ TablesTyped
  BY TypeParts DEF MoneyTyped
<1>3. \A r \in Races \ {d} : clearing'[r] = clearing[r] /\ taken'[r] = taken[r]
  BY <1>1, <1>2
<1>4. clearing'[d] = clearing[d] - 1 /\ taken'[d] = 1
  BY <1>1, <1>2
<1>5. \A r \in Races : Carried(r)' = Carried(r) /\ Completed(r)' = Completed(r)
  BY <1>1 DEF Carried, CarryoversOf, Completed
<1>6. \A r \in Races : clearing'[r] = (IF Completed(r) THEN 0 ELSE Carried(r)) - taken'[r]
  <2> TAKE r \in Races
  <2>1. clearing[r] = (IF Completed(r) THEN 0 ELSE Carried(r)) - taken[r]
    BY DEF PoolsAccounted
  <2>2. CASE r # d
    BY <1>3, <2>1, <2>2
  <2>3. CASE r = d
    <3> DEFINE in == IF Completed(d) THEN 0 ELSE Carried(d)
    <3>1. in \in Int
      BY <1>2, CarriedTyped
    <3>2. clearing[d] = in - 0
      BY <1>1, <2>1, <2>3
    <3> HIDE DEF in
    <3>3. clearing'[d] = in - 1
      BY <1>4, <3>1, <3>2
    <3> QED
      BY <1>4, <2>3, <3>3 DEF in
  <2> QED
    BY <2>2, <2>3
<1>7. \A r \in Races :
        /\ rollover[r] = (IF carryover[r].status = "pending" THEN carryover[r].amount ELSE 0)
        /\ carryover[r].amount = run[r].division.carryover
        /\ carryover[r].status = "none" <=> carryover[r].amount = 0
  BY DEF PoolsAccounted
<1> QED
  BY <1>1, <1>5, <1>6, <1>7 DEF PoolsAccounted

\* A settlement divides its clearing account to the last unit.
LEMMA SettleAccounted ==
  ASSUME TypeOK, PoolInv, CarryInv, PoolsAccounted, NEW s \in Sessions, SettleRace(s)
  PROVE  PoolsAccounted' /\ IsFairDivision(session[s].expected)
<1> DEFINE r == session[s].race
           c == session[s].expected
           row == [status |-> "pending", amount |-> c.carryover, target |-> r]
           out == Total(c.payout)
<1>1. /\ r \in Races /\ ~run[r].completed /\ session[s].op = "settle"
      /\ Division(r, session[s].winner, c.bps) = c
      /\ clearing' = [clearing EXCEPT ![r] =
                       @ + Total(c.stake) - c.houseTake - c.carryover - Total(c.payout)]
      /\ rollover' = [rollover EXCEPT ![r] = @ + c.carryover]
      /\ carryover' = IF c.carryover > 0 THEN [carryover EXCEPT ![r] = row] ELSE carryover
      /\ taken' = taken
  BY DEF SettleRace, ReadyToSettle, PayOut, CarryOver, PoolInv, SessionShape
<1>2. TablesTyped /\ MoneyTyped /\ IsDivision(c)
  <2>1. SessionsTyped /\ TablesTyped /\ MoneyTyped
    BY TypeParts
  <2> QED
    BY <1>1, <2>1
    DEF SessionsTyped, SessionTyped, Idling, Idle, Placing, Answering, Applying, Locking
<1>3. IsFairDivision(c) /\ c.carried = Carried(r)
  BY <1>1, <1>2, RaceDivision DEF IsDivision
<1>4. /\ run'[r].completed /\ run'[r].division = c
      /\ \A q \in Races \ {r} : run'[q] = run[q]
  BY SettledRun
<1>5. carryover[r].status = "none"
  BY <1>1 DEF CarryInv, CarriedIfSettled
<1>6. c.carryover \in Nat /\ c.houseTake \in Nat /\ Carried(r) \in Nat
  BY <1>2, <1>3 DEF IsDivision
<1>7. Total(c.stake) \in Nat /\ out \in Nat
  <2> DEFINE D == DOMAIN c.stake
  <2>1. D \in SUBSET Bets /\ c.stake \in [D -> Nat] /\ c.payout \in [D -> Nat]
    BY <1>2 DEF IsDivision
  <2> HIDE DEF D, c
  <2>2. IsFiniteSet(D)
    BY <2>1, PoolsAssumption, FS_Subset
  <2>3. NatOn(c.stake, D) /\ NatOn(c.payout, D)
    BY <2>1 DEF NatOn
  <2>4. Total(c.stake) = Sum(c.stake, D) /\ Total(c.payout) = Sum(c.payout, D)
    BY <2>1, SumIsTotal
  <2> QED
    BY <2>2, <2>3, <2>4, SumNat
<1>8. Total(c.stake) + c.carried = c.houseTake + c.carryover + out
  BY <1>3 DEF IsFairDivision
<1>9. clearing[r] = Carried(r) - taken[r] /\ rollover[r] = 0
  BY <1>1, <1>5 DEF PoolsAccounted, Completed
<1>10. clearing'[r] = 0 - taken[r] /\ \A q \in Races \ {r} : clearing'[q] = clearing[q]
  <2>1. clearing'[r] = clearing[r] + Total(c.stake) - c.houseTake - c.carryover - out
    BY <1>1, <1>2 DEF MoneyTyped
  <2>2. \A q \in Races \ {r} : clearing'[q] = clearing[q]
    BY <1>1, <1>2 DEF MoneyTyped
  <2> DEFINE cl == clearing[r]
             st == Total(c.stake)
             ht == c.houseTake
             co == c.carryover
             ca == Carried(r)
             tk == taken[r]
  <2>3. tk \in Int
    BY <1>1, <1>2 DEF MoneyTyped
  <2>4. /\ st \in Int /\ ht \in Int /\ co \in Int /\ ca \in Int /\ out \in Int
        /\ cl = ca - tk /\ st + ca = ht + co + out
    BY <1>3, <1>6, <1>7, <1>8, <1>9
  <2> HIDE DEF cl, st, ht, co, ca, tk, out
  <2>5. cl + st - ht - co - out = 0 - tk
    BY <2>3, <2>4
  <2> QED
    BY <2>1, <2>2, <2>5 DEF cl, st, ht, co, tk, out
<1>11. rollover'[r] = c.carryover /\ \A q \in Races \ {r} : rollover'[q] = rollover[q]
  <2>1. rollover'[r] = 0 + c.carryover
    BY <1>1, <1>2, <1>9 DEF MoneyTyped
  <2>2. \A q \in Races \ {r} : rollover'[q] = rollover[q]
    BY <1>1, <1>2 DEF MoneyTyped
  <2> HIDE DEF c
  <2> QED
    BY <1>6, <2>1, <2>2
<1>12. /\ \A q \in Races \ {r} : carryover'[q] = carryover[q]
       /\ c.carryover > 0 => carryover'[r] = row
       /\ ~(c.carryover > 0) => carryover'[r] = carryover[r]
  BY <1>1, <1>2 DEF TablesTyped
<1>13. /\ carryover'[r].amount = c.carryover
       /\ carryover'[r].status = "none" <=> c.carryover = 0
       /\ carryover'[r].status \in {"none", "pending"}
  <2>1. CASE c.carryover > 0
    <3>1. carryover'[r].amount = c.carryover /\ carryover'[r].status = "pending"
      BY <1>12, <2>1
    <3> QED
      BY <1>6, <2>1, <3>1
  <2>2. CASE ~(c.carryover > 0)
    <3>1. c.carryover = 0
      BY <1>6, <2>2
    <3>2. carryover[r].amount = 0
      BY <1>1, <1>5 DEF PoolsAccounted
    <3> QED
      BY <1>5, <1>12, <2>2, <3>1, <3>2
  <2> QED
    BY <2>1, <2>2
<1>14. \A q \in Races : Carried(q)' = Carried(q)
  <2> TAKE q \in Races
  <2> DEFINE S == {x \in Races : carryover[x].status = "applied" /\ carryover[x].target = q}
             T == {x \in Races : carryover'[x].status = "applied" /\ carryover'[x].target = q}
  <2>1. S = T /\ r \notin S
    BY <1>5, <1>12, <1>13
  <2>2. \A x \in S : carryover'[x].amount = carryover[x].amount
    BY <1>12, <2>1
  <2>3. [x \in S |-> carryover'[x].amount] = [x \in S |-> carryover[x].amount]
    BY <2>2
  <2>4. /\ Carried(q) = Total([x \in S |-> carryover[x].amount])
        /\ Carried(q)' = Total([x \in T |-> carryover'[x].amount])
    BY Zenon DEF Carried, CarryoversOf
  <2> QED
    BY <2>1, <2>3, <2>4
<1>15. ASSUME NEW q \in Races
       PROVE  /\ clearing'[q] = (IF Completed(q)' THEN 0 ELSE Carried(q)') - taken'[q]
              /\ rollover'[q] = IF carryover'[q].status = "pending"
                                THEN carryover'[q].amount ELSE 0
              /\ carryover'[q].amount = run'[q].division.carryover
              /\ carryover'[q].status = "none" <=> carryover'[q].amount = 0
  <2>1. CASE q = r
    <3>1. Completed(q)' /\ taken'[q] = taken[q] /\ run'[q].division.carryover = c.carryover
      BY <1>1, <1>4, <2>1 DEF Completed
    <3> HIDE DEF c, r
    <3> QED
      BY <1>10, <1>11, <1>13, <2>1, <3>1
  <2>2. CASE q # r
    <3>1. Completed(q)' = Completed(q)
      BY <1>4, <2>2 DEF Completed
    <3> QED
      BY <1>1, <1>4, <1>10, <1>11, <1>12, <1>14, <2>2, <3>1 DEF PoolsAccounted
  <2> QED
    BY <2>1, <2>2
<1>16. PoolsAccounted'
  BY <1>15, Zenon DEF PoolsAccounted
<1> QED
  BY <1>3, <1>16 DEF c

\* What was carried over goes where it is carried, once.
LEMMA ApplicationAccounted ==
  ASSUME TypeOK, PoolInv, CarryInv, PoolsAccounted, NEW s \in Sessions, ApplyCarryovers(s)
  PROVE  PoolsAccounted'
<1>1. PICK r \in Races : r = session[s].race /\ pool[r] \in {"open", "frozen"}
  BY CarryApplication, Zenon
<1> DEFINE found == Eligible(session[s].seen, r)
           amount == [q \in Races |-> carryover[q].amount]
           S == {x \in Races : carryover[x].status = "applied" /\ carryover[x].target = r}
<1>2. /\ clearing' = [clearing EXCEPT ![r] = @ + CarryoversOf(found)]
      /\ rollover' = [q \in Races |->
           IF q \in found THEN rollover[q] - carryover[q].amount ELSE rollover[q]]
      /\ carryover' = [q \in Races |->
           IF q \in found THEN [carryover[q] EXCEPT !.status = "applied", !.target = r]
           ELSE carryover[q]]
      /\ UNCHANGED <<run, taken>>
  BY <1>1 DEF ApplyCarryovers
<1>3. TablesTyped /\ MoneyTyped
  BY TypeParts
<1>4. ~Completed(r)
  BY <1>1 DEF PoolInv, RunSettlesPool
<1>5. found \in SUBSET Races /\ \A q \in found : carryover[q].status = "pending"
  BY DEF Eligible
<1>6. \A q \in Races \ found : carryover'[q] = carryover[q] /\ rollover'[q] = rollover[q]
  BY <1>2
<1>7. ASSUME NEW q \in found
      PROVE  /\ carryover'[q].status = "applied" /\ carryover'[q].target = r
             /\ carryover'[q].amount = carryover[q].amount
             /\ rollover'[q] = rollover[q] - carryover[q].amount
  <2> DEFINE row == [status |-> carryover[q].status, amount |-> carryover[q].amount,
                     target |-> carryover[q].target]
  <2>1. carryover[q] = row /\ q \in Races
    BY <1>5 DEF CarryInv
  <2>2. carryover'[q] = [[row EXCEPT !.status = "applied"] EXCEPT !.target = r]
    BY <1>2, <1>7, <2>1
  <2>3. rollover'[q] = rollover[q] - carryover[q].amount
    BY <1>2, <1>7, <2>1
  <2> QED
    BY <2>2, <2>3
<1>8. IntOn(amount, Races) /\ IsFiniteSet(Races) /\ S \in SUBSET Races /\ found \cap S = {}
  BY <1>3, <1>5, PoolsAssumption DEF TablesTyped, IntOn
<1>9. \A q \in Races : carryover[q].amount = amount[q] /\ carryover'[q].amount = amount[q]
                       /\ amount[q] \in Nat
  BY <1>3, <1>6, <1>7 DEF TablesTyped
<1>10. CarryoversOf(found) = Sum(amount, found) /\ Carried(r) = Sum(amount, S)
  <2>1. CarryoversOf(found) = Total([q \in found |-> carryover[q].amount])
        /\ Carried(r) = Total([q \in S |-> carryover[q].amount])
    BY DEF CarryoversOf, Carried
  <2> HIDE DEF S, amount, found
  <2>2. /\ [q \in found |-> carryover[q].amount] = [q \in found |-> amount[q]]
        /\ [q \in S |-> carryover[q].amount] = [q \in S |-> amount[q]]
    BY <1>5, <1>8, <1>9
  <2> QED
    BY <2>1, <2>2 DEF Sum
<1>11. Carried(r)' = Sum(amount, S \cup found)
  <2> DEFINE T == {x \in Races : carryover'[x].status = "applied" /\ carryover'[x].target = r}
  <2>1. T = S \cup found
    BY <1>5, <1>6, <1>7
  <2>2. Carried(r)' = Total([q \in T |-> carryover'[q].amount])
    BY Zenon DEF Carried, CarryoversOf
  <2> HIDE DEF S, amount, found, T
  <2>3. [q \in S \cup found |-> carryover'[q].amount] = [q \in S \cup found |-> amount[q]]
    BY <1>5, <1>8, <1>9
  <2> QED
    BY <2>1, <2>2, <2>3 DEF Sum
<1>12. ASSUME NEW q \in Races \ {r}
       PROVE  Carried(q)' = Carried(q)
  <2> DEFINE Before_ == {x \in Races : carryover[x].status = "applied" /\ carryover[x].target = q}
             Now == {x \in Races : carryover'[x].status = "applied" /\ carryover'[x].target = q}
  <2>1. Now = Before_
    BY <1>5, <1>6, <1>7
  <2>2. [x \in Now |-> carryover'[x].amount] = [x \in Now |-> carryover[x].amount]
    BY <1>9
  <2>3. /\ Carried(q) = Total([x \in Before_ |-> carryover[x].amount])
        /\ Carried(q)' = Total([x \in Now |-> carryover'[x].amount])
    BY Zenon DEF Carried, CarryoversOf
  <2> QED
    BY <2>1, <2>2, <2>3
<1>13. /\ clearing'[r] = clearing[r] + CarryoversOf(found)
       /\ \A q \in Races \ {r} : clearing'[q] = clearing[q]
       /\ clearing[r] = Carried(r) - taken[r] /\ taken[r] \in Nat
  <2>1. clearing[r] = Carried(r) - taken[r]
    BY <1>4 DEF PoolsAccounted
  <2> QED
    BY <1>2, <1>3, <2>1 DEF MoneyTyped
<1> HIDE DEF found, S, amount
<1>14. IsFiniteSet(S) /\ IsFiniteSet(found) /\ IntOn(amount, S \cup found)
  <2>1. S \cup found \in SUBSET Races
    BY <1>5, <1>8
  <2> QED
    BY <1>5, <1>8, <2>1, FS_Subset, IntOnPart
<1>15. Sum(amount, S \cup found) = Sum(amount, S) + Sum(amount, found)
  <2>1. S \cap found = {}
    BY <1>8
  <2> QED
    BY <1>14, <2>1, SumSplit
<1>16. clearing'[r] = Carried(r)' - taken'[r]
  <2> DEFINE x == Sum(amount, S)
             y == Sum(amount, found)
             t == taken[r]
  <2>1. x \in Int /\ y \in Int /\ t \in Int
    <3>1. S \in SUBSET (S \cup found) /\ found \in SUBSET (S \cup found)
      OBVIOUS
    <3>2. IntOn(amount, S) /\ IntOn(amount, found)
      BY <1>14, <3>1, IntOnPart
    <3>3. x \in Int /\ y \in Int
      BY <1>14, <3>2, SumInt
    <3> QED
      BY <1>13, <3>3
  <2>2. clearing'[r] = (x - t) + y /\ Carried(r)' = x + y /\ taken'[r] = t
    BY <1>2, <1>10, <1>11, <1>13, <1>15
  <2> HIDE DEF x, y, t
  <2>3. (x - t) + y = (x + y) - t
    BY <2>1
  <2> QED
    BY <2>2, <2>3
<1>17. ASSUME NEW q \in Races
       PROVE  /\ clearing'[q] = (IF Completed(q)' THEN 0 ELSE Carried(q)') - taken'[q]
              /\ rollover'[q] = IF carryover'[q].status = "pending"
                                THEN carryover'[q].amount ELSE 0
              /\ carryover'[q].amount = run'[q].division.carryover
              /\ carryover'[q].status = "none" <=> carryover'[q].amount = 0
  <2>1. Completed(q)' = Completed(q)
    BY <1>2 DEF Completed
  <2>2. clearing'[q] = (IF Completed(q)' THEN 0 ELSE Carried(q)') - taken'[q]
    <3>1. CASE q = r
      BY <1>4, <1>16, <2>1, <3>1
    <3>2. CASE q # r
      <4>1. clearing[q] = (IF Completed(q) THEN 0 ELSE Carried(q)) - taken[q]
        BY DEF PoolsAccounted
      <4>2. clearing'[q] = clearing[q] /\ taken'[q] = taken[q] /\ Carried(q)' = Carried(q)
        BY <1>2, <1>12, <1>13, <3>2
      <4> QED
        BY <2>1, <4>1, <4>2
    <3> QED
      BY <3>1, <3>2
  <2>3. CASE q \in found
    <3>1. /\ carryover[q].status = "pending" /\ rollover[q] = carryover[q].amount
          /\ carryover[q].amount = run[q].division.carryover /\ carryover[q].amount # 0
      BY <1>5, <2>3 DEF PoolsAccounted
    <3>2. carryover[q].amount - carryover[q].amount = 0
      BY <1>9
    <3> QED
      BY <1>2, <1>7, <2>2, <2>3, <3>1, <3>2
  <2>4. CASE q \notin found
    BY <1>2, <1>6, <2>2, <2>4 DEF PoolsAccounted
  <2> QED
    BY <2>3, <2>4
<1> QED
  BY <1>17, Zenon DEF PoolsAccounted

-----------------------------------------------------------------------------

\* The types, and the sums of which the balances of bettors and pools consist.
MoneyInv == TypeOK /\ UsersBalanced /\ PoolsAccounted /\ FairSettlement

\* The money of the bettors through a step.
LEMMA UsersStep ==
  ASSUME PoolInv, TypeOK, UsersBalanced, PoolInv', TablesTyped', RunsTyped', Next
  PROVE  UsersBalanced'
<1>1. TablesTyped /\ MoneyTyped /\ RunsTyped
  BY TypeParts
<1>2. CapturedIsPaid /\ CapturedIsPaid'
  BY <1>1, CapturedPaid, CapturedPaidNext
<1>3. \A b \in Bets : bet[b] # NoBet => bet[b].offer.race \in Races
  BY <1>1, BetRow DEF TablesTyped
<1>4. ASSUME UNCHANGED <<bet, stakeOf, available, locked>>,
             \A r \in Races : run'[r].division = run[r].division
      PROVE  UsersBalanced'
  <2>1. \A u \in Users, b \in Bets :
          /\ Held(bet', stakeOf', u)[b] = Held(bet, stakeOf, u)[b]
          /\ Won(bet', stakeOf', run', u)[b] = Won(bet, stakeOf, run, u)[b]
    BY <1>3, <1>4 DEF Held, Won
  <2> QED
    BY <1>4, <2>1, StakesStay
<1>5. ASSUME NEW s \in Sessions, RecordRejectedBet(s)
      PROVE  UsersBalanced'
  <2> DEFINE d == session[s].offer.bet
  <2>1. /\ UNCHANGED <<stakeOf, available, locked, run>> /\ bet[d] = NoBet
        /\ \A b \in Bets \ {d} : bet'[b] = bet[b]
    BY <1>1, <1>5 DEF RecordRejectedBet, balances, TablesTyped
  <2>2. d \in Bets => stakeOf[d] = "none"
    BY <2>1 DEF PoolInv, ReservedIfAccepted
  <2>3. \A u \in Users, b \in Bets :
          /\ Held(bet', stakeOf', u)[b] = Held(bet, stakeOf, u)[b]
          /\ Won(bet', stakeOf', run', u)[b] = Won(bet, stakeOf, run, u)[b]
    BY <2>1, <2>2 DEF Held, Won
  <2> QED
    BY <2>1, <2>3, StakesStay
<1>6. ASSUME NEW r \in Races, MarkManualReview(r) \/ ResolveManualReview(r) \/ VoidPool(r)
      PROVE  UsersBalanced'
  <2>1. PICK n : run' = [run EXCEPT ![r].review = n]
    BY <1>6 DEF MarkManualReview, ResolveManualReview, VoidPool, LeaveManualReview
  <2>2. \A q \in Races : run'[q].division = run[q].division
    BY <2>1 DEF PoolInv, TableShape
  <2>3. UNCHANGED <<bet, stakeOf, available, locked>>
    BY <1>6 DEF MarkManualReview, ResolveManualReview, VoidPool, LeaveManualReview, balances
  <2> QED
    BY <1>4, <2>2, <2>3
<1> QED
  BY <1>1, <1>2, <1>4, <1>5, <1>6, NextCases, AcceptBalanced, ReleaseBalanced, SettleBalanced,
     ZenonT(40)
  DEF CreateRacePool, FreezePool, ApplyHouseTake, RegisterPoolSelection, PlaceBet,
      PrepareSettlement, PrepareApplication, ReplayBet, BetAlreadyExists, Answered,
      SettlementFails, LockTarget, TargetNotEligible, Fail, ApplyCarryovers, tables, balances

\* The money of the pools, and how it was divided, through a step.
LEMMA PoolsStep ==
  ASSUME PoolInv, CarryInv, TypeOK, PoolsAccounted, FairSettlement, Next
  PROVE  PoolsAccounted' /\ FairSettlement'
<1>1. ASSUME UNCHANGED <<carryover, clearing, rollover, taken, run>>
      PROVE  PoolsAccounted' /\ FairSettlement'
  <2>1. FairSettlement'
    BY <1>1 DEF FairSettlement, Completed
  <2> QED
    BY <1>1, <2>1, PoolsStay
<1>2. ASSUME NEW r \in Races, MarkManualReview(r) \/ ResolveManualReview(r) \/ VoidPool(r)
      PROVE  PoolsAccounted' /\ FairSettlement'
  <2>1. PICK n : run' = [run EXCEPT ![r].review = n]
    BY <1>2 DEF MarkManualReview, ResolveManualReview, VoidPool, LeaveManualReview
  <2>2. \A q \in Races : /\ run'[q].division = run[q].division
                         /\ run'[q].completed = run[q].completed
    BY <2>1 DEF PoolInv, TableShape
  <2>3. UNCHANGED <<carryover, clearing, rollover, taken>>
    BY <1>2 DEF MarkManualReview, ResolveManualReview, VoidPool, LeaveManualReview, balances
  <2>4. FairSettlement'
    BY <2>2 DEF FairSettlement, Completed
  <2> QED
    BY <2>2, <2>3, <2>4, PoolsStay
<1>3. ASSUME NEW r \in Races, ApplyHouseTake(r)
      PROVE  PoolsAccounted' /\ FairSettlement'
  <2>1. UNCHANGED run
    BY <1>3 DEF ApplyHouseTake, tables
  <2>2. FairSettlement'
    BY <2>1 DEF FairSettlement, Completed
  <2> QED
    BY <1>3, <2>2, HouseTakeAccounted
<1>4. ASSUME NEW s \in Sessions, SettleRace(s)
      PROVE  PoolsAccounted' /\ FairSettlement'
  <2> DEFINE r == session[s].race
  <2>1. PoolsAccounted' /\ IsFairDivision(session[s].expected)
    BY <1>4, SettleAccounted
  <2>2. /\ run'[r].division = session[s].expected
        /\ \A q \in Races \ {r} : run'[q] = run[q]
    BY <1>4, SettledRun
  <2>3. FairSettlement'
    BY <2>1, <2>2 DEF FairSettlement, Completed
  <2> QED
    BY <2>1, <2>3
<1>5. ASSUME NEW s \in Sessions, ApplyCarryovers(s)
      PROVE  PoolsAccounted' /\ FairSettlement'
  <2>1. UNCHANGED run
    BY <1>5 DEF ApplyCarryovers
  <2>2. FairSettlement'
    BY <2>1 DEF FairSettlement, Completed
  <2> QED
    BY <1>5, <2>2, ApplicationAccounted
<1> QED
  BY <1>1, <1>2, <1>3, <1>4, <1>5, NextCases, ZenonT(40)
  DEF CreateRacePool, FreezePool, RegisterPoolSelection, ReleaseReservation, PlaceBet,
      PrepareSettlement, PrepareApplication, ReplayBet, BetAlreadyExists, Answered,
      RecordRejectedBet, AcceptBet, SettlementFails, LockTarget, TargetNotEligible, Fail,
      tables, balances

\* The balances are of their kinds: what is locked and what is carried over are sums.
LEMMA MoneyStep ==
  ASSUME PoolInv, TypeOK, TablesTyped', UsersBalanced', PoolsAccounted', Next
  PROVE  MoneyTyped'
<1>1. TablesTyped /\ MoneyTyped /\ SessionsTyped
  BY TypeParts
<1>2. \A u \in Users : locked'[u] \in Nat
  <2> TAKE u \in Users
  <2>1. Sum(Held(bet', stakeOf', u), Bets) \in Nat
    BY HeldTyped DEF TablesTyped
  <2> QED
    BY <2>1 DEF UsersBalanced
<1>3. \A r \in Races : rollover'[r] \in Nat
  <2> TAKE r \in Races
  <2>1. carryover'[r].amount \in Nat
    BY DEF TablesTyped
  <2> QED
    BY <2>1 DEF PoolsAccounted
<1>4. ASSUME UNCHANGED <<available, locked, clearing, rollover, taken>>
      PROVE  MoneyTyped'
  BY <1>1, <1>4 DEF MoneyTyped
<1>5. ASSUME NEW r \in Races, ApplyHouseTake(r)
      PROVE  MoneyTyped'
  BY <1>1, <1>5 DEF ApplyHouseTake, MoneyTyped
<1>6. ASSUME NEW b \in Bets, ReleaseReservation(b)
      PROVE  MoneyTyped'
  <2>1. bet[b] # NoBet
    BY <1>6 DEF ReleaseReservation, PoolInv, ReservedIfAccepted
  <2>2. bet[b].offer.stake \in Nat
    BY <1>1, <2>1, BetRow DEF TablesTyped
  <2>3. bet[b].offer.user \in Users
    BY <1>1, <2>1, BetRow DEF TablesTyped
  <2> DEFINE o == bet[b].offer
  <2>4. /\ available' = [available EXCEPT ![o.user] = @ + o.stake]
        /\ locked' = [locked EXCEPT ![o.user] = @ - o.stake]
        /\ UNCHANGED <<clearing, rollover, taken>>
    BY <1>6 DEF ReleaseReservation
  <2>5. o.user \in Users /\ o.stake \in Nat
    BY <2>2, <2>3
  <2> HIDE DEF o
  <2>6. available' \in [Users -> Nat]
    BY <1>1, <2>4, <2>5 DEF MoneyTyped
  <2>7. locked' = [u \in Users |-> locked'[u]]
    BY <1>1, <2>4 DEF MoneyTyped
  <2> QED
    BY <1>1, <1>2, <2>4, <2>6, <2>7 DEF MoneyTyped
<1>7. ASSUME NEW s \in Sessions, AcceptBet(s)
      PROVE  MoneyTyped'
  <2> DEFINE o == session[s].offer
  <2>1. o.stake \in Nat /\ o.user \in Users
    BY <1>7, PoolsAssumption DEF AcceptBet, PoolInv, SessionShape
  <2>2. /\ available[o.user] >= o.stake /\ available' = [available EXCEPT ![o.user] = @ - o.stake]
        /\ locked' = [locked EXCEPT ![o.user] = @ + o.stake]
        /\ UNCHANGED <<clearing, rollover, taken>>
    BY <1>7 DEF AcceptBet, MayAccept
  <2> HIDE DEF o
  <2>3. available' \in [Users -> Nat] /\ locked' \in [Users -> Nat]
    BY <1>1, <2>1, <2>2 DEF MoneyTyped
  <2> QED
    BY <1>1, <2>2, <2>3 DEF MoneyTyped
<1>8. ASSUME NEW s \in Sessions, SettleRace(s)
      PROVE  MoneyTyped'
  <2> DEFINE r == session[s].race
             c == session[s].expected
             won == [u \in Users |-> Total([b \in BetsIn(c, u) |-> c.payout[b]])]
  <2>1. IsDivision(c)
    <3>1. session[s].op = "settle"
      BY <1>8 DEF SettleRace
    <3> QED
      BY <1>1, <3>1
      DEF SessionsTyped, SessionTyped, Idling, Idle, Placing, Answering, Applying, Locking
  <2>2. \A u \in Users : available'[u] = available[u] + won[u]
    BY <1>8 DEF SettleRace, PayOut
  <2>3. \A u \in Users : won[u] \in Nat
    <3> TAKE u \in Users
    <3> DEFINE S == BetsIn(c, u)
    <3>1. S \in SUBSET Bets /\ won[u] = Sum(c.payout, S) /\ NatOn(c.payout, S)
      BY <2>1 DEF BetsIn, IsDivision, Sum, NatOn
    <3> HIDE DEF S
    <3>2. IsFiniteSet(S)
      BY <3>1, PoolsAssumption, FS_Subset
    <3> QED
      BY <3>1, <3>2, SumNat
  <2>4. /\ available' = [u \in Users |-> available'[u]]
        /\ locked' = [u \in Users |-> locked'[u]]
        /\ clearing' = [clearing EXCEPT ![r] =
                        @ + Total(c.stake) - c.houseTake - c.carryover - Total(c.payout)]
        /\ rollover' = [q \in Races |-> rollover'[q]] /\ taken' = taken
    BY <1>1, <1>8 DEF SettleRace, PayOut, CaptureStakes, CarryOver, MoneyTyped
  <2>5. available' \in [Users -> Nat]
    <3> HIDE DEF won
    <3>1. \A u \in Users : available'[u] \in Nat
      BY <1>1, <2>2, <2>3 DEF MoneyTyped
    <3> QED
      BY <2>4, <3>1
  <2>6. clearing' \in [Races -> Int]
    <3>1. \A q \in Races : clearing'[q] \in Int
      <4> TAKE q \in Races
      <4>1. clearing'[q] = (IF Completed(q)' THEN 0 ELSE Carried(q)') - taken'[q]
        BY DEF PoolsAccounted
      <4>2. Carried(q)' \in Nat
        <5> DEFINE S == {x \in Races : carryover'[x].status = "applied"
                                       /\ carryover'[x].target = q}
        <5>1. S \in SUBSET Races /\ Carried(q)' = Total([x \in S |-> carryover'[x].amount])
          BY DEF Carried, CarryoversOf
        <5> HIDE DEF S
        <5> QED
          BY <5>1, CarryoversAreAmounts DEF TablesTyped
      <4>3. taken'[q] \in Nat
        BY <1>1, <2>4 DEF MoneyTyped
      <4> QED
        BY <4>1, <4>2, <4>3
    <3> QED
      BY <1>1, <2>4, <3>1 DEF MoneyTyped
  <2> QED
    BY <1>1, <1>2, <1>3, <2>4, <2>5, <2>6 DEF MoneyTyped
<1>9. ASSUME NEW s \in Sessions, ApplyCarryovers(s)
      PROVE  MoneyTyped'
  <2> DEFINE found == Eligible(session[s].seen, session[s].race)
  <2>1. CarryoversOf(found) \in Nat
    <3>1. found \in SUBSET Races /\ CarryoversOf(found) = Total([q \in found |-> carryover[q].amount])
      BY DEF Eligible, CarryoversOf
    <3> HIDE DEF found
    <3> QED
      BY <1>1, <3>1, CarryoversAreAmounts DEF TablesTyped
  <2>2. /\ clearing' = [clearing EXCEPT ![session[s].race] = @ + CarryoversOf(found)]
        /\ rollover' = [q \in Races |-> rollover'[q]]
        /\ UNCHANGED <<available, locked, taken>>
    BY <1>9 DEF ApplyCarryovers
  <2> DEFINE k == CarryoversOf(found)
             r == session[s].race
  <2>3. k \in Nat /\ clearing' = [clearing EXCEPT ![r] = @ + k]
    BY <2>1, <2>2
  <2>5. r \in Races
    <3>1. session[s].op = "applying"
      BY <1>9 DEF ApplyCarryovers
    <3> QED
      BY <1>1, <3>1
      DEF SessionsTyped, SessionTyped, Idling, Idle, Placing, Answering, Applying, Locking
  <2> HIDE DEF found, k, r
  <2>4. clearing' \in [Races -> Int]
    <3>1. clearing \in [Races -> Int]
      BY <1>1 DEF MoneyTyped
    <3>2. ASSUME NEW n \in Nat, clearing' = [clearing EXCEPT ![r] = @ + n]
          PROVE  clearing' \in [Races -> Int]
      BY <2>5, <3>1, <3>2
    <3> QED
      BY <2>3, <3>2
  <2> QED
    BY <1>1, <1>3, <2>2, <2>4 DEF MoneyTyped
<1> QED
  BY <1>4, <1>5, <1>6, <1>7, <1>8, <1>9, NextCases, ZenonT(40)
  DEF CreateRacePool, FreezePool, RegisterPoolSelection, PlaceBet,
      PrepareSettlement, PrepareApplication, ReplayBet, BetAlreadyExists, Answered,
      RecordRejectedBet, SettlementFails, LockTarget, TargetNotEligible, Fail,
      MarkManualReview, ResolveManualReview, VoidPool, LeaveManualReview,
      tables, balances

LEMMA MoneyInit == Init => MoneyInv
<1> SUFFICES ASSUME Init
             PROVE  MoneyInv
  OBVIOUS
<1>1. TypeOK
  <2>1. TablesTyped /\ MoneyTyped /\ SessionsTyped
    BY PoolsAssumption
    DEF Init, TablesTyped, MoneyTyped, SessionsTyped, SessionTyped, Idling, PoolStates,
        StakeStates, CarryoverStates
  <2>2. RunsTyped
    <3> HIDE DEF NoDivision
    <3> QED
      BY NothingDivided DEF Init, RunsTyped
  <2> QED
    BY <2>1, <2>2, TypeParts
<1>2. UsersBalanced
  <2> SUFFICES ASSUME NEW u \in Users
               PROVE  /\ locked[u] = Sum(Held(bet, stakeOf, u), Bets)
                      /\ available[u] + locked[u]
                           = Funds[u] + Sum(Won(bet, stakeOf, run, u), Bets)
    BY DEF UsersBalanced
  <2>1. IsFiniteSet(Bets) /\ Funds[u] \in Nat
    BY PoolsAssumption
  <2>2. \A b \in Bets : Held(bet, stakeOf, u)[b] = 0 /\ Won(bet, stakeOf, run, u)[b] = 0
    BY DEF Init, Held, Won
  <2>3. Sum(Held(bet, stakeOf, u), Bets) = 0 /\ Sum(Won(bet, stakeOf, run, u), Bets) = 0
    BY <2>1, <2>2, SumZero
  <2>4. available[u] = Funds[u] /\ locked[u] = 0
    BY DEF Init
  <2> QED
    BY <2>1, <2>3, <2>4
<1>3. PoolsAccounted
  <2> SUFFICES ASSUME NEW r \in Races
               PROVE  /\ clearing[r] = (IF Completed(r) THEN 0 ELSE Carried(r)) - taken[r]
                      /\ rollover[r] = (IF carryover[r].status = "pending"
                                       THEN carryover[r].amount ELSE 0)
                      /\ carryover[r].amount = run[r].division.carryover
                      /\ carryover[r].status = "none" <=> carryover[r].amount = 0
    BY DEF PoolsAccounted
  <2> DEFINE S == {q \in Races : carryover[q].status = "applied" /\ carryover[q].target = r}
             f == [q \in S |-> carryover[q].amount]
  <2>1. S = {}
    BY DEF Init
  <2>2. Total(f) = 0
    <3>1. DOMAIN f = {}
      BY <2>1
    <3> HIDE DEF f
    <3> QED
      BY <3>1, TotalEmpty
  <2>3. Carried(r) = 0
    BY <2>2 DEF Carried, CarryoversOf
  <2>4. /\ clearing[r] = 0 /\ taken[r] = 0 /\ rollover[r] = 0
        /\ carryover[r].status = "none" /\ carryover[r].amount = 0
        /\ run[r].division = NoDivision
    BY DEF Init
  <2>5. run[r].division.carryover = 0
    BY <2>4, NothingDivided
  <2> QED
    BY <2>3, <2>4, <2>5
<1>4. FairSettlement
  BY DEF Init, FairSettlement, Completed
<1> QED
  BY <1>1, <1>2, <1>3, <1>4 DEF MoneyInv

\* The invariant all of it rests on: rows and sessions as in PoolInv and CarryInv, and
\* the sums of the money, with the kinds of values they are sums of.
THEOREM MoneyInvariant == Spec => [](PoolInv /\ CarryInv /\ MoneyInv)
<1>1. ASSUME PoolInv, CarryInv, MoneyInv, [Next]_vars, PoolInv'
      PROVE  MoneyInv'
  <2>1. TypeOK /\ UsersBalanced /\ PoolsAccounted /\ FairSettlement
    BY <1>1 DEF MoneyInv
  <2>2. CASE Next
    <3>1. TablesTyped' /\ RunsTyped' /\ SessionsTyped'
      BY <1>1, <2>1, <2>2, TablesStep, RunsStep, SessionsStep
    <3>2. UsersBalanced'
      BY <1>1, <2>1, <2>2, <3>1, UsersStep
    <3>3. PoolsAccounted' /\ FairSettlement'
      BY <1>1, <2>1, <2>2, PoolsStep
    <3>4. MoneyTyped'
      BY <1>1, <2>1, <2>2, <3>1, <3>2, <3>3, MoneyStep
    <3> QED
      BY <3>1, <3>2, <3>3, <3>4, TypePartsNext DEF MoneyInv
  <2>3. CASE UNCHANGED vars
    <3>1. UNCHANGED <<pool, selection, bet, run, carryover, stakeOf, available, locked,
                      clearing, rollover, taken, rowLock, session>>
      BY <2>3 DEF vars, tables, balances
    <3>2. TypeOK'
      BY <2>1, <3>1 DEF TypeOK
    <3>3. UsersBalanced'
      BY <2>1, <3>1 DEF UsersBalanced
    <3>4. PoolsAccounted'
      BY <2>1, <3>1, PoolsStay
    <3>5. FairSettlement'
      BY <2>1, <3>1 DEF FairSettlement, Completed
    <3> QED
      BY <3>2, <3>3, <3>4, <3>5 DEF MoneyInv
  <2> QED
    BY <1>1, <2>2, <2>3
<1>2. PoolInv /\ CarryInv /\ MoneyInv /\ [Next]_vars /\ PoolInv' => MoneyInv'
  BY <1>1
<1> QED
  BY <1>2, MoneyInit, CarryoverInvariant, PTL DEF Spec

\* TypeOK: no balance of a user is ever negative, nor what a pool carries over.
THEOREM TypeOKHolds == Spec => []TypeOK
<1>1. MoneyInv => TypeOK
  BY DEF MoneyInv
<1> QED
  BY <1>1, MoneyInvariant, PTL

\* FairSettlement: every settlement divided its pool to the last unit, and no winner
\* got less or more than its part by a unit or more.
THEOREM FairSettlementHolds == Spec => []FairSettlement
<1>1. MoneyInv => FairSettlement
  BY DEF MoneyInv
<1> QED
  BY <1>1, MoneyInvariant, PTL

\* MoneyAccounted: the balances of bettors and of pools are what the bets, the
\* settlements and the carryovers say.
THEOREM MoneyAccountedHolds == Spec => []MoneyAccounted
<1>1. PoolInv /\ MoneyInv => MoneyAccounted
  BY TypeParts, BalancesAreSums DEF MoneyInv, MoneyAccounted
<1> QED
  BY <1>1, MoneyInvariant, PTL

-----------------------------------------------------------------------------
(* What the reconciliation report says *)

\* Bets and carried amounts are with pools that exist.
PoolsExist ==
  /\ \A b \in Bets : bet[b] # NoBet /\ bet[b].status = "accepted" =>
       pool[bet[b].offer.race] # "absent"
  /\ \A q \in Races : carryover[q].status = "applied" => pool[carryover[q].target] # "absent"

\* A pool that exists goes on existing.
LEMMA PoolsLast ==
  ASSUME PoolInv, [Next]_vars
  PROVE  \A r \in Races : pool[r] # "absent" => pool'[r] # "absent"
<1>1. pool \in [Races -> PoolStates]
  BY DEF PoolInv, TableShape
<1>2. CASE UNCHANGED pool
  BY <1>2
<1>3. ASSUME NEW d \in Races, CreateRacePool(d) \/ FreezePool(d) \/ MarkManualReview(d)
                              \/ ResolveManualReview(d) \/ VoidPool(d)
      PROVE  \A r \in Races : pool[r] # "absent" => pool'[r] # "absent"
  <2>1. PICK status : status # "absent" /\ pool' = [pool EXCEPT ![d] = status]
    BY <1>3 DEF CreateRacePool, FreezePool, MarkManualReview, ResolveManualReview, VoidPool,
                LeaveManualReview
  <2> QED
    BY <1>1, <2>1
<1>4. ASSUME NEW s \in Sessions, SettleRace(s)
      PROVE  \A r \in Races : pool[r] # "absent" => pool'[r] # "absent"
  BY <1>1, <1>4 DEF SettleRace
<1>5. CASE UNCHANGED vars
  BY <1>5, <1>2 DEF vars, tables
<1>6. CASE Next
  BY <1>2, <1>3, <1>4, <1>6, NextCases, ZenonT(40)
  DEF ApplyHouseTake, RegisterPoolSelection, ReleaseReservation, PlaceBet,
      PrepareSettlement, PrepareApplication, ReplayBet, BetAlreadyExists, Answered,
      RecordRejectedBet, AcceptBet, SettlementFails, LockTarget, TargetNotEligible, Fail,
      ApplyCarryovers, tables
<1> QED
  BY <1>5, <1>6

\* A bet is accepted on a pool that is open.
LEMMA BetsEnterOpenPools ==
  ASSUME PoolInv, Next, NEW b \in Bets, bet'[b] # NoBet, bet'[b].status = "accepted"
  PROVE  bet'[b] = bet[b] \/ pool[bet'[b].offer.race] = "open"
<1>1. CASE UNCHANGED bet
  BY <1>1
<1>2. ASSUME NEW s \in Sessions, RecordRejectedBet(s)
      PROVE  bet'[b] = bet[b]
  BY <1>2 DEF RecordRejectedBet, PoolInv, TableShape
<1>3. ASSUME NEW s \in Sessions, AcceptBet(s)
      PROVE  bet'[b] = bet[b] \/ pool[bet'[b].offer.race] = "open"
  BY <1>3 DEF AcceptBet, MayAccept, RulesAllow, PoolInv, TableShape
<1>4. ASSUME NEW s \in Sessions, SettleRace(s)
      PROVE  bet'[b] = bet[b]
  BY <1>4, SettledBets
<1> QED
  BY <1>1, <1>2, <1>3, <1>4, NextCases, ZenonT(40)
  DEF CreateRacePool, FreezePool, ApplyHouseTake, MarkManualReview, ResolveManualReview,
      VoidPool, LeaveManualReview, RegisterPoolSelection, ReleaseReservation, PlaceBet,
      PrepareSettlement, PrepareApplication, ReplayBet, BetAlreadyExists, Answered,
      SettlementFails, LockTarget, TargetNotEligible, Fail, ApplyCarryovers, tables

\* A carryover is applied to a pool that is open or frozen.
LEMMA CarriedToLivePools ==
  ASSUME PoolInv, CarryInv, Next, NEW q \in Races, carryover'[q].status = "applied"
  PROVE  carryover'[q] = carryover[q] \/ pool[carryover'[q].target] \in {"open", "frozen"}
<1>1. CASE UNCHANGED carryover
  BY <1>1
<1>2. ASSUME NEW s \in Sessions, SettleRace(s)
      PROVE  carryover'[q] = carryover[q]
  <2> DEFINE r == session[s].race
             row == [status |-> "pending", amount |-> session[s].expected.carryover,
                     target |-> r]
  <2>1. carryover' = carryover \/ carryover' = [carryover EXCEPT ![r] = row]
    BY <1>2 DEF SettleRace, CarryOver
  <2> QED
    BY <2>1 DEF CarryInv
<1>3. ASSUME NEW s \in Sessions, ApplyCarryovers(s)
      PROVE  carryover'[q] = carryover[q] \/ pool[carryover'[q].target] \in {"open", "frozen"}
  <2> DEFINE r == session[s].race
  <2>1. /\ pool[r] \in {"open", "frozen"}
        /\ \/ carryover'[q] = carryover[q]
           \/ carryover'[q] = [status |-> "applied", target |-> r, amount |-> carryover[q].amount]
    BY <1>3, CarryApplication
  <2> HIDE DEF r
  <2> QED
    BY <2>1
<1> QED
  BY <1>1, <1>2, <1>3, NextCases, ZenonT(40)
  DEF CreateRacePool, FreezePool, ApplyHouseTake, MarkManualReview, ResolveManualReview,
      VoidPool, LeaveManualReview, RegisterPoolSelection, ReleaseReservation, PlaceBet,
      PrepareSettlement, PrepareApplication, ReplayBet, BetAlreadyExists, Answered,
      RecordRejectedBet, AcceptBet, SettlementFails, LockTarget, TargetNotEligible, Fail,
      tables

\* A race that has a bet, a run or a carryover has a pool, and keeps it.
THEOREM PoolsExistHolds == Spec => []PoolsExist
<1>1. Init => PoolsExist
  BY DEF Init, PoolsExist
<1>2. ASSUME PoolInv, CarryInv, TypeOK, TypeOK', PoolsExist, [Next]_vars
      PROVE  PoolsExist'
  <2>1. CASE UNCHANGED vars
    BY <1>2, <2>1 DEF PoolsExist, vars, tables
  <2>2. CASE Next
    <3>1. ASSUME NEW b \in Bets, bet'[b] # NoBet, bet'[b].status = "accepted"
          PROVE  pool'[bet'[b].offer.race] # "absent"
      <4>1. bet'[b].offer.race \in Races
        <5>1. bet' \in [Bets -> BetRows \cup {NoBet}]
          BY <1>2 DEF TypeOK
        <5> QED
          BY <3>1, <5>1, BetRow
      <4>2. pool[bet'[b].offer.race] # "absent"
        BY <1>2, <2>2, <3>1, BetsEnterOpenPools DEF PoolsExist
      <4> QED
        BY <1>2, <4>1, <4>2, PoolsLast
    <3>2. ASSUME NEW q \in Races, carryover'[q].status = "applied"
          PROVE  pool'[carryover'[q].target] # "absent"
      <4>1. carryover'[q].target \in Races
        BY <1>2 DEF TypeOK
      <4>2. pool[carryover'[q].target] # "absent"
        BY <1>2, <2>2, <3>2, CarriedToLivePools DEF PoolsExist
      <4> QED
        BY <1>2, <4>1, <4>2, PoolsLast
    <3> QED
      BY <3>1, <3>2 DEF PoolsExist
  <2> QED
    BY <1>2, <2>1, <2>2
<1>3. PoolInv /\ CarryInv /\ TypeOK /\ TypeOK' /\ PoolsExist /\ [Next]_vars => PoolsExist'
  BY <1>2
<1> QED
  BY <1>1, <1>3, CarryoverInvariant, TypeOKHolds, PTL DEF Spec

\* If any later race can take a carryover, one of them is the first that can.
LEMMA FirstSuccessor ==
  ASSUME NEW S, IsFiniteSet(S), S \subseteq Nat, S # {}
  PROVE  \E m \in S : \A n \in S : m <= n
<1> DEFINE C == {U \in SUBSET S : U = {} \/ \E m \in U : \A n \in U : m <= n}
<1>1. {} \in C
  OBVIOUS
<1>2. ASSUME NEW U \in SUBSET S, NEW x \in S \ U, U \in C
      PROVE  U \cup {x} \in C
  <2>1. CASE U = {}
    BY <2>1
  <2>2. CASE U # {}
    <3>1. PICK m \in U : \A n \in U : m <= n
      BY <1>2, <2>2
    <3>2. m \in Nat /\ x \in Nat
      OBVIOUS
    <3>3. \A n \in U : n \in Nat
      OBVIOUS
    <3>4. CASE m <= x
      BY <3>1, <3>4
    <3>5. CASE x < m
      <4>1. \A n \in U \cup {x} : x <= n
        BY <3>1, <3>2, <3>3, <3>5
      <4> QED
        BY <4>1
    <3> QED
      BY <3>2, <3>4, <3>5
  <2> QED
    BY <2>1, <2>2
<1>3. S \in C
  <2> HIDE DEF C
  <2> QED
    BY <1>1, <1>2, SubsetInduction
<1> QED
  BY <1>3

\* Stakes, or amounts carried in, are with a race that is not yet settled.
LEMMA MoneyWaits ==
  ASSUME PoolInv, MoneyInv, PoolsExist, NEW r \in Races,
         HoldsStakes(r) \/ clearing[r] # -taken[r]
  PROVE  pool[r] \notin {"absent", "settled"}
<1>1. TablesTyped /\ MoneyTyped
  BY TypeParts DEF MoneyInv
<1>2. pool[r] = "settled" <=> Completed(r)
  BY DEF PoolInv, RunSettlesPool
<1>3. CASE HoldsStakes(r)
  <2>1. PICK b \in Bets : stakeOf[b] = "locked" /\ bet[b].offer.race = r
    BY <1>3 DEF HoldsStakes
  <2>2. bet[b] # NoBet /\ bet[b].status = "accepted"
    <3>1. bet[b] # NoBet /\ bet[b].status # "rejected"
      BY <2>1 DEF PoolInv, ReservedIfAccepted
    <3>2. bet[b].status \in BetStatuses
      BY <1>1, <3>1 DEF TablesTyped, BetRows
    <3> QED
      BY <2>1, <3>1, <3>2 DEF PoolInv, SettledIffCaptured, BetStatuses
  <2>3. b \in AcceptedBets(r)
    BY <2>1, <2>2 DEF AcceptedBets
  <2> QED
    BY <1>2, <2>1, <2>2, <2>3 DEF PoolInv, NoneLeftBehind, PoolsExist
<1>4. CASE clearing[r] # -taken[r]
  <2>1. taken[r] \in Nat /\ clearing[r] = (IF Completed(r) THEN 0 ELSE Carried(r)) - taken[r]
    BY <1>1 DEF MoneyTyped, MoneyInv, PoolsAccounted
  <2>2. ~Completed(r) /\ Carried(r) # 0
    BY <1>4, <2>1
  <2> DEFINE S == {q \in Races : carryover[q].status = "applied" /\ carryover[q].target = r}
             f == [q \in S |-> carryover[q].amount]
  <2>3. Carried(r) = Total(f) /\ DOMAIN f = S
    BY DEF Carried, CarryoversOf
  <2>4. S # {}
    <3> HIDE DEF f
    <3> QED
      BY <2>2, <2>3, TotalEmpty
  <2>5. pool[r] # "absent"
    BY <2>4 DEF PoolsExist
  <2> QED
    BY <1>2, <2>2, <2>5
<1> QED
  BY <1>3, <1>4

\* StuckMoneyIsReported: money that stays with a race is on its report, and a race
\* whose money went where it belongs raises no error.
THEOREM StuckMoneyIsReportedHolds == Spec => []StuckMoneyIsReported
<1>1. ASSUME PoolInv, MoneyInv, PoolsExist, NEW r \in Races
      PROVE  /\ HoldsStakes(r) \/ clearing[r] # -taken[r] =>
                  Errors(r) \/ Warnings(r) \/ pool[r] \in {"open", "frozen", "voided"}
             /\ rollover[r] # 0 => Warnings(r) \/ ~HasSuccessor(r)
             /\ Errors(r) => taken[r] # 0
             /\ Completed(r) /\ taken[r] # 0 => Errors(r) \/ carryover[r].status = "pending"
  <2>1. TablesTyped /\ MoneyTyped /\ PoolsAccounted
    BY <1>1, TypeParts DEF MoneyInv
  <2>2. taken[r] \in Nat /\ pool[r] \in PoolStates
    BY <2>1 DEF MoneyTyped, TablesTyped
  <2>3. Completed(r) => clearing[r] = 0 - taken[r]
    BY <2>1 DEF PoolsAccounted
  <2>4. (Completed(r) <=> pool[r] = "settled") /\ (Completed(r) => AcceptedBets(r) = {})
    BY <1>1 DEF PoolInv, RunSettlesPool, NoneLeftBehind
  <2>5. ASSUME HoldsStakes(r) \/ clearing[r] # -taken[r]
        PROVE  Warnings(r) \/ pool[r] \in {"open", "frozen", "voided"}
    <3>1. pool[r] \notin {"absent", "settled"}
      BY <1>1, <2>5, MoneyWaits
    <3> QED
      BY <2>2, <3>1 DEF PoolStates, Warnings, ManualReviewPoolStale
  <2>6. ASSUME rollover[r] # 0, HasSuccessor(r)
        PROVE  Warnings(r)
    <3>1. carryover[r].status = "pending"
      BY <2>1, <2>6 DEF PoolsAccounted
    <3> DEFINE S == {t \in Races : r < t /\ MayReceive(pool, t)}
    <3>2. S # {} /\ S \subseteq Nat /\ S \subseteq Races /\ IsFiniteSet(Races)
      BY <2>6, PoolsAssumption DEF HasSuccessor
    <3>3. IsFiniteSet(S)
      BY <3>2, FS_Subset
    <3>4. PICK t \in S : \A n \in S : t <= n
      <4> HIDE DEF S
      <4> QED
        BY <3>2, <3>3, FirstSuccessor
    <3>5. IsNextEligible(pool, r, t)
      BY <3>4, PoolsAssumption DEF IsNextEligible
    <3> QED
      BY <3>1, <3>5 DEF Warnings, PendingCarryoverEligibleButUnapplied
  <2>7. Errors(r) => taken[r] # 0
    BY <2>2, <2>3, <2>4
    DEF Errors, SettledPoolWithoutCompletedRun, CompletedRunWithPoolNotSettled,
        CompletedSettlementWithNonTerminalBets, SettlementClearingResidualUnhandled
  <2>8. Completed(r) /\ taken[r] # 0 => Errors(r) \/ carryover[r].status = "pending"
    BY <2>2, <2>3 DEF Errors, SettlementClearingResidualUnhandled
  <2> QED
    BY <2>5, <2>6, <2>7, <2>8
<1>2. PoolInv /\ MoneyInv /\ PoolsExist => StuckMoneyIsReported
  BY <1>1 DEF StuckMoneyIsReported
<1> QED
  BY <1>2, MoneyInvariant, PoolsExistHolds, PTL
=============================================================================

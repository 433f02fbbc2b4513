--------------------------- MODULE FeeTiersProofs ---------------------------
\* The fee tiers for every list of rates and weights: what recommended_tiers reads
\* off the sorted entries is what the reference finds without any order, and a
\* later target is never dearer.
EXTENDS MCFeeTiers, FiniteFacts, SequenceTheorems, TLAPS

Entries == Seq(Nat \X Nat)

-----------------------------------------------------------------------------
\* Sorting.

LEMMA EntryFacts ==
  ASSUME NEW rw \in Entries
  PROVE  /\ Len(rw) \in Nat
         /\ \A i \in 1..Len(rw) : rw[i] \in Nat \X Nat /\ rw[i][1] \in Nat /\ rw[i][2] \in Nat
BY LenProperties, ElementOfSeq DEF Entries

LEMMA SameBound ==
  ASSUME NEW m \in Nat, NEW n \in Nat, 1..m = 1..n
  PROVE  m = n
<1>1. \A k \in Nat \ {0} : k \in 1..m <=> k \in 1..n
  OBVIOUS
<1>2. ASSUME m < n PROVE FALSE
  <2>1. n \in 1..n /\ n \notin 1..m /\ n # 0
    BY <1>2
  <2>2. QED
    BY <1>1, <2>1
<1>3. ASSUME n < m PROVE FALSE
  <2>1. m \in 1..m /\ m \notin 1..n /\ m # 0
    BY <1>3
  <2>2. QED
    BY <1>1, <2>1
<1>4. QED
  BY <1>2, <1>3

LEMMA PlacesFacts ==
  ASSUME NEW rw \in Entries
  PROVE  LET n == Len(rw)
             p == Places(rw)
         IN  /\ p \in [1..n -> 1..n]
             /\ \A i, j \in 1..n : p[i] = p[j] => i = j
             /\ \A k \in 1..n : \E i \in 1..n : p[i] = k
             /\ \A i, j \in 1..n : i < j => rw[p[i]][1] >= rw[p[j]][1]
<1> DEFINE n == Len(rw)
           p == Places(rw)
           D == 1..n
           R == {q \in D \X D : Precedes(rw, q[1], q[2])}
<1>1. n \in Nat /\ \A i \in D : rw[i][1] \in Nat /\ i \in Nat
  BY EntryFacts
<1>2. IsFiniteSet(D) /\ Cardinality(D) = n
  BY <1>1, FirstNumbers
<1>3. \A i, j \in D : <<i, j>> \in R <=>
          \/ rw[i][1] > rw[j][1]
          \/ rw[i][1] = rw[j][1] /\ i < j
  BY DEF Precedes
<1> HIDE DEF R
<1>4. Orders(R, D)
  <2>1. \A x \in D : <<x, x>> \notin R
    BY <1>1, <1>3
  <2>2. \A x, y, z \in D : <<x, y>> \in R /\ <<y, z>> \in R => <<x, z>> \in R
    BY <1>1, <1>3
  <2>3. ASSUME NEW x \in D, NEW y \in D PROVE x = y \/ <<x, y>> \in R \/ <<y, x>> \in R
    <3>1. x \in Nat /\ y \in Nat /\ rw[x][1] \in Nat /\ rw[y][1] \in Nat
      BY <1>1
    <3>2. \/ rw[x][1] > rw[y][1] \/ rw[y][1] > rw[x][1]
          \/ rw[x][1] = rw[y][1] /\ (x = y \/ x < y \/ y < x)
      BY <3>1
    <3> HIDE DEF D
    <3>3. QED
      BY <1>3, <3>2
  <2> HIDE DEF D
  <2>4. QED
    BY <2>1, <2>2, <2>3 DEF Orders
<1>5. \A s \in [D -> D] : InOrder(s, n, R) <=> \A i, j \in D : i < j => Precedes(rw, s[i], s[j])
  BY DEF InOrder, R
<1>6. \E s \in [D -> D] : InOrder(s, n, R)
  BY <1>2, <1>4, SortedExists
<1>7. p \in [D -> D] /\ \A i, j \in D : i < j => Precedes(rw, p[i], p[j])
  BY <1>5, <1>6 DEF Places
<1>8. InOrder(p, n, R)
  BY <1>5, <1>7
<1> HIDE DEF p
<1>9. /\ \A i, j \in D : p[i] = p[j] => i = j
      /\ \A x \in D : \E i \in D : p[i] = x
  BY <1>2, <1>4, <1>7, <1>8, SortedOnto
<1>10. ASSUME NEW i \in D, NEW j \in D, i < j PROVE rw[p[i]][1] >= rw[p[j]][1]
  BY <1>1, <1>7, <1>10 DEF Precedes
<1>11. QED
  BY <1>7, <1>9, <1>10 DEF p

\* The sorted entries, found at places p of the snapshot.
LEMMA SortedEntries ==
  ASSUME NEW rw \in Entries
  PROVE  LET n == Len(rw)
             p == Places(rw)
             e == SortedDesc(rw)
         IN  /\ e \in Entries /\ Len(e) = n
             /\ \A i \in 1..n : e[i] = rw[p[i]]
             /\ \A i, j \in 1..n : i <= j => e[i][1] >= e[j][1]
<1> DEFINE n == Len(rw)
           p == Places(rw)
           e == SortedDesc(rw)
<1>1. n \in Nat /\ \A i \in 1..n : rw[i] \in Nat \X Nat /\ rw[i][1] \in Nat
  BY EntryFacts
<1>2. /\ p \in [1..n -> 1..n]
      /\ \A i, j \in 1..n : i < j => rw[p[i]][1] >= rw[p[j]][1]
  BY PlacesFacts
<1>3. e = [i \in 1..n |-> rw[p[i]]]
  BY DEF SortedDesc
<1> HIDE DEF n, p, e
<1>4. \A i \in 1..n : e[i] = rw[p[i]]
  BY <1>3
<1>5. e \in [1..n -> Nat \X Nat]
  BY <1>1, <1>2, <1>3
<1>6. e \in Entries
  BY <1>1, <1>5, SeqDef DEF Entries
<1>7. Len(e) = n
  <2>1. Len(e) \in Nat /\ DOMAIN e = 1..Len(e)
    BY <1>6, LenProperties DEF Entries
  <2>2. 1..Len(e) = 1..n
    BY <1>5, <2>1
  <2>3. QED
    BY <1>1, <2>1, <2>2, SameBound
<1>8. ASSUME NEW i \in 1..n, NEW j \in 1..n, i <= j PROVE e[i][1] >= e[j][1]
  <2>1. e[i][1] \in Nat /\ e[j][1] \in Nat
    BY <1>1, <1>2, <1>4
  <2>2. CASE i = j
    BY <2>1, <2>2
  <2>3. CASE i < j
    BY <1>2, <1>4, <2>3
  <2>4. QED
    BY <1>1, <1>8, <2>2, <2>3
<1>9. QED
  BY <1>4, <1>6, <1>7, <1>8 DEF n, p, e

-----------------------------------------------------------------------------
\* Weights.

WeightTable(e) == [i \in 1..Len(e) |-> e[i][2]]

LEMMA Weighing ==
  ASSUME NEW e \in Entries, NEW S \in SUBSET (1..Len(e))
  PROVE  /\ WeightOf(e, S) = Total(WeightTable(e), S) /\ WeightOf(e, S) \in Nat
         /\ \A T \in SUBSET S : WeightOf(e, T) <= WeightOf(e, S)
         /\ WeightOf(e, {}) = 0
<1>1. Len(e) \in Nat /\ \A i \in 1..Len(e) : WeightTable(e)[i] \in Nat
  BY EntryFacts DEF WeightTable
<1>2. \A T : WeightOf(e, T) = Total(WeightTable(e), T)
  BY DEF WeightOf, WeightTable, Total
<1>3. IsFiniteSet(S)
  BY <1>1, FirstNumbers, FiniteTogether
<1>4. Total(WeightTable(e), S) \in Nat /\ Total(WeightTable(e), {}) = 0
  BY <1>1, <1>3, TotalNat, TotalStep
<1>5. \A T \in SUBSET S : Total(WeightTable(e), T) <= Total(WeightTable(e), S)
  BY <1>1, <1>3, TotalSubset
<1>6. QED
  BY <1>2, <1>4, <1>5

\* Sorting moves the entries that pay at least r, and not their weight.
LEMMA WeightSorted ==
  ASSUME NEW rw \in Entries, NEW r
  PROVE  WeightAtOrAbove(rw, r) =
             WeightOf(SortedDesc(rw), {k \in 1..Len(rw) : SortedDesc(rw)[k][1] >= r})
<1> DEFINE n == Len(rw)
           p == Places(rw)
           e == SortedDesc(rw)
           A == {k \in 1..n : e[k][1] >= r}
           B == {i \in 1..n : rw[i][1] >= r}
           f == WeightTable(e)
           g == WeightTable(rw)
<1>1. /\ p \in [1..n -> 1..n]
      /\ \A i, j \in 1..n : p[i] = p[j] => i = j
      /\ \A k \in 1..n : \E i \in 1..n : p[i] = k
  BY PlacesFacts
<1>2. e \in Entries /\ Len(e) = n /\ \A i \in 1..n : e[i] = rw[p[i]]
  BY SortedEntries
<1>3. n \in Nat /\ \A i \in 1..n : rw[i][2] \in Nat
  BY EntryFacts
<1>4. \A i \in 1..n : f[i] = e[i][2] /\ g[i] = rw[i][2]
  BY <1>2 DEF WeightTable
<1> HIDE DEF n, p, e, f, g
<1>5. {p[k] : k \in A} = B
  BY <1>1, <1>2
<1>6. ASSUME NEW k \in A PROVE g[p[k]] \in Nat /\ f[k] = g[p[k]]
  <2>1. k \in 1..n /\ p[k] \in 1..n
    BY <1>1
  <2>2. f[k] = e[k][2] /\ e[k] = rw[p[k]]
    BY <1>2, <1>4, <2>1
  <2>3. g[p[k]] = rw[p[k]][2] /\ rw[p[k]][2] \in Nat
    BY <1>3, <1>4, <2>1
  <2>4. QED
    BY <2>2, <2>3
<1>7. IsFiniteSet(A)
  BY <1>3, FirstNumbers, FiniteTogether
<1> HIDE DEF A, B
<1>8. A \subseteq 1..n
  BY DEF A
<1>9. \A x, y \in A : p[x] = p[y] => x = y
  BY <1>1, <1>8
<1>10. Total(f, A) = Total(g, {p[k] : k \in A})
  BY <1>6, <1>7, <1>9, TotalRenamed
<1>11. Total(f, A) = Total(g, B)
  BY <1>5, <1>10
<1>12. WeightOf(e, A) = Total(f, A)
  BY <1>2, <1>8, Weighing DEF f
<1>13. WeightOf(rw, B) = Total(g, B)
  BY Weighing DEF B, g, n
<1>14. WeightAtOrAbove(rw, r) = WeightOf(rw, B)
  BY DEF WeightAtOrAbove, B, n
<1>15. WeightAtOrAbove(rw, r) = WeightOf(e, A)
  BY <1>11, <1>12, <1>13, <1>14
<1>16. QED
  BY <1>15 DEF A, e, n

-----------------------------------------------------------------------------
\* One tier.

Filling(rw, threshold) ==
    {r \in {rw[i][1] : i \in 1..Len(rw)} : WeightAtOrAbove(rw, r) >= threshold}

\* The first entry that reaches the threshold has the highest rate that fills it.
LEMMA FirstReaching ==
  ASSUME NEW rw \in Entries, NEW threshold \in Nat \ {0}
  PROVE  LET e == SortedDesc(rw)
             reaching == Reaching(e, threshold)
             filling == Filling(rw, threshold)
         IN  /\ reaching \subseteq 1..Len(rw)
             /\ reaching = {} <=> filling = {}
             /\ reaching # {} =>
                    /\ Min(reaching) \in reaching /\ \A i \in reaching : Min(reaching) <= i
                    /\ Max(filling) = e[Min(reaching)][1]
                    /\ Max(filling) \in filling /\ \A r \in filling : Max(filling) >= r
<1> DEFINE n == Len(rw)
           e == SortedDesc(rw)
           A(r) == {k \in 1..n : e[k][1] >= r}
           reaching == Reaching(e, threshold)
           filling == Filling(rw, threshold)
           m == Min(reaching)
<1>1. /\ e \in Entries /\ Len(e) = n
      /\ \A i \in 1..n : e[i] = rw[Places(rw)[i]]
      /\ \A i, j \in 1..n : i <= j => e[i][1] >= e[j][1]
  BY SortedEntries
<1>2. /\ Places(rw) \in [1..n -> 1..n]
      /\ \A k \in 1..n : \E i \in 1..n : Places(rw)[i] = k
  BY PlacesFacts
<1>3. n \in Nat /\ \A i \in 1..n : rw[i][1] \in Nat /\ e[i][1] \in Nat
  BY <1>1, <1>2, EntryFacts
<1>4. reaching = {i \in 1..n : WeightOf(e, 1..i) >= threshold}
  BY <1>1 DEF Reaching, Cumulative
<1>5. \A r : r \in filling <=> /\ \E i \in 1..n : r = rw[i][1]
                               /\ WeightOf(e, A(r)) >= threshold
  BY WeightSorted DEF Filling
<1>6. \A S \in SUBSET (1..n) : /\ WeightOf(e, S) \in Nat
                               /\ \A T \in SUBSET S : WeightOf(e, T) <= WeightOf(e, S)
  BY <1>1, Weighing
<1>7. WeightOf(e, {}) = 0
  BY <1>1, Weighing
<1> HIDE DEF n, e, filling
<1>8. ASSUME reaching # {} PROVE m \in reaching /\ \A i \in reaching : m <= i
  <2>1. reaching \subseteq Nat
    BY <1>3, <1>4
  <2>2. \E x \in reaching : \A y \in reaching : x <= y
    BY <1>8, <2>1, LeastNumber
  <2>3. QED
    BY <2>2 DEF Min
<1> HIDE DEF m, reaching
<1>9. ASSUME NEW i \in reaching PROVE e[i][1] \in filling
  <2>1. i \in 1..n /\ WeightOf(e, 1..i) >= threshold
    BY <1>4
  <2>2. 1..i \subseteq 1..n /\ \A k \in 1..i : k <= i
    BY <1>3, <2>1
  <2>3. 1..i \subseteq A(e[i][1])
    BY <1>1, <2>1, <2>2
  <2>4. WeightOf(e, 1..i) <= WeightOf(e, A(e[i][1]))
    BY <1>6, <2>3
  <2>5. WeightOf(e, 1..i) \in Nat /\ WeightOf(e, A(e[i][1])) \in Nat
    BY <1>6, <2>2
  <2>6. \E k \in 1..n : e[i][1] = rw[k][1]
    BY <1>1, <1>2, <2>1
  <2>7. WeightOf(e, A(e[i][1])) >= threshold
    BY <2>1, <2>4, <2>5
  <2> HIDE DEF A
  <2>8. QED
    BY <1>5, <2>6, <2>7
<1>10. ASSUME NEW r \in filling PROVE reaching # {} /\ r <= e[m][1]
  <2>1. r \in Nat /\ WeightOf(e, A(r)) >= threshold /\ A(r) \subseteq 1..n
    BY <1>3, <1>5
  <2>2. WeightOf(e, A(r)) \in Nat
    BY <1>6, <2>1
  <2>3. n # 0
    <3>1. PICK i \in 1..n : r = rw[i][1]
      BY <1>5
    <3>2. QED
      BY <1>3, <3>1
  <2>4. n \in reaching
    <3>1. n \in 1..n
      BY <1>3, <2>3
    <3>2. WeightOf(e, A(r)) <= WeightOf(e, 1..n) /\ WeightOf(e, 1..n) \in Nat
      BY <1>6, <2>1
    <3>3. QED
      BY <1>4, <2>1, <2>2, <3>1, <3>2
  <2>5. m \in reaching /\ (\A i \in reaching : m <= i) /\ m \in 1..n
    BY <1>4, <1>8, <2>4
  <2>6. ASSUME e[m][1] < r PROVE FALSE
    <3>1. \A k \in 1..n : m <= k => ~(e[k][1] >= r)
      BY <1>1, <1>3, <2>1, <2>5, <2>6
    <3>2. A(r) \subseteq 1..(m - 1)
      <4>1. \A k \in 1..n : ~(m <= k) => k \in 1..(m - 1)
        BY <1>3, <2>5
      <4>2. QED
        BY <3>1, <4>1
    <3>3. 1..(m - 1) \subseteq 1..n
      BY <1>3, <2>5
    <3>4. WeightOf(e, A(r)) <= WeightOf(e, 1..(m - 1)) /\ WeightOf(e, 1..(m - 1)) \in Nat
      BY <1>6, <3>2, <3>3
    <3>5. WeightOf(e, 1..(m - 1)) >= threshold
      BY <2>1, <2>2, <3>4
    <3>6. CASE m = 1
      <4>1. 1..(m - 1) = {}
        BY <3>6
      <4>2. WeightOf(e, 1..(m - 1)) = 0
        BY <1>7, <4>1
      <4>3. QED
        BY <3>5, <4>2
    <3>7. CASE m # 1
      <4>1. m - 1 \in 1..n /\ ~(m <= m - 1)
        BY <1>3, <2>5, <3>7
      <4>2. m - 1 \in reaching
        BY <1>4, <3>5, <4>1
      <4>3. QED
        BY <2>5, <4>1, <4>2
    <3>8. QED
      BY <3>6, <3>7
  <2>7. e[m][1] \in Nat
    BY <1>3, <2>5
  <2>8. QED
    BY <2>1, <2>4, <2>6, <2>7
<1>11. reaching = {} <=> filling = {}
  BY <1>9, <1>10
<1>12. ASSUME reaching # {}
       PROVE  /\ Max(filling) = e[m][1] /\ Max(filling) \in filling
              /\ \A r \in filling : Max(filling) >= r
  <2>1. m \in reaching /\ m \in 1..n
    BY <1>4, <1>8, <1>12
  <2>2. e[m][1] \in filling /\ e[m][1] \in Nat
    BY <1>3, <1>9, <2>1
  <2>3. \A r \in filling : r \in Nat /\ r <= e[m][1]
    BY <1>3, <1>5, <1>10
  <2>4. \A x \in filling : (\A y \in filling : x >= y) => x = e[m][1]
    BY <2>2, <2>3
  <2>5. \E x \in filling : \A y \in filling : x >= y
    BY <2>2, <2>3
  <2>6. Max(filling) \in filling /\ \A y \in filling : Max(filling) >= y
    BY <2>5 DEF Max
  <2> HIDE DEF filling
  <2>7. QED
    BY <2>4, <2>6
<1>13. reaching \subseteq 1..n
  BY <1>4
<1>14. QED
  BY <1>8, <1>11, <1>12, <1>13 DEF n, e, m, reaching, filling

LEMMA Thresholds ==
  ASSUME NEW depth \in Nat \ {0}
  PROVE  /\ depth * TierBlockWeight \in Nat \ {0}
         /\ \A deeper \in Nat : depth <= deeper =>
                depth * TierBlockWeight <= deeper * TierBlockWeight
<1>1. TierBlockWeight \in Nat /\ 1 <= TierBlockWeight
  BY TiersAssumption DEF TierBlockWeight
<1>2. 1 * TierBlockWeight <= depth * TierBlockWeight
  BY <1>1, ScaleUp
<1>3. depth * TierBlockWeight \in Nat /\ 1 * TierBlockWeight = TierBlockWeight
  BY <1>1
<1>4. \A deeper \in Nat : depth <= deeper =>
          depth * TierBlockWeight <= deeper * TierBlockWeight
  BY <1>1, ScaleUp
<1>5. QED
  BY <1>1, <1>2, <1>3, <1>4

\* A tier is the reference's at the budget of the code, whatever the order of the
\* snapshot.
LEMMA TierAtBudget ==
  ASSUME NEW rw \in Entries, NEW fl \in Nat, NEW depth \in Nat \ {0}
  PROVE  TierAtDepth(SortedDesc(rw), depth, fl) = ReferenceTier(rw, depth * TierBlockWeight, fl)
<1> DEFINE threshold == depth * TierBlockWeight
           e == SortedDesc(rw)
           filling == Filling(rw, threshold)
<1>1. threshold \in Nat \ {0}
  BY Thresholds
<1>2. ReferenceTier(rw, threshold, fl) = IF filling = {} THEN fl ELSE AtLeast(fl, Max(filling))
  BY DEF ReferenceTier, Filling
<1>3. TierAtDepth(e, depth, fl) =
          IF Reaching(e, threshold) = {} THEN fl ELSE AtLeast(fl, e[Min(Reaching(e, threshold))][1])
  BY DEF TierAtDepth
<1> HIDE DEF threshold, filling
<1>4. /\ Reaching(e, threshold) = {} <=> filling = {}
      /\ Reaching(e, threshold) # {} => Max(filling) = e[Min(Reaching(e, threshold))][1]
  BY <1>1, FirstReaching DEF filling
<1>5. QED
  BY <1>2, <1>3, <1>4 DEF threshold

\* A larger budget is filled by fewer rates, none of them higher.
LEMMA LargerBudget ==
  ASSUME NEW rw \in Entries, NEW fl \in Nat,
         NEW small \in Nat \ {0}, NEW large \in Nat, small <= large
  PROVE  ReferenceTier(rw, small, fl) >= ReferenceTier(rw, large, fl)
<1> DEFINE F(budget) == Filling(rw, budget)
           R(budget) == ReferenceTier(rw, budget, fl)
<1>1. \A budget : R(budget) = IF F(budget) = {} THEN fl ELSE AtLeast(fl, Max(F(budget)))
  BY DEF ReferenceTier, Filling
<1>2. Len(rw) \in Nat /\ \A i \in 1..Len(rw) : rw[i][1] \in Nat
  BY EntryFacts
<1>3. \A r : WeightAtOrAbove(rw, r) \in Nat
  BY Weighing DEF WeightAtOrAbove
<1>4. F(large) \subseteq F(small) /\ F(small) \subseteq Nat
  BY <1>2, <1>3 DEF Filling
<1>5. large \in Nat \ {0}
  OBVIOUS
<1>6. \A budget \in Nat \ {0} : F(budget) # {} =>
          Max(F(budget)) \in F(budget) /\ \A r \in F(budget) : Max(F(budget)) >= r
  BY FirstReaching
<1>7. R(small) \in Nat /\ R(small) >= fl
  <2>1. F(small) # {} => Max(F(small)) \in Nat
    BY <1>4, <1>6
  <2> HIDE DEF F, R
  <2>2. QED
    BY <1>1, <2>1 DEF AtLeast
<1>8. CASE F(large) = {}
  BY <1>1, <1>7, <1>8
<1>9. CASE F(large) # {}
  <2>1. /\ F(small) # {} /\ Max(F(small)) \in Nat /\ Max(F(large)) \in Nat
        /\ Max(F(small)) >= Max(F(large))
    BY <1>4, <1>5, <1>6, <1>9
  <2> HIDE DEF F, R
  <2>2. R(small) = AtLeast(fl, Max(F(small))) /\ R(large) = AtLeast(fl, Max(F(large)))
    BY <1>1, <1>9, <2>1
  <2>3. R(small) >= R(large)
    BY <2>1, <2>2 DEF AtLeast
  <2>4. QED
    BY <2>3 DEF R
<1>10. QED
  BY <1>8, <1>9

\* A tier is exact in the sense of MCFeeTiers.
LEMMA TierExact ==
  ASSUME rate_weights \in Entries, floor \in Nat, NEW depth \in Nat \ {0}
  PROVE  TierIsExact(TierAtDepth(SortedDesc(rate_weights), depth, floor), depth)
<1> DEFINE tier == TierAtDepth(SortedDesc(rate_weights), depth, floor)
<1>1. tier = ReferenceTier(rate_weights, depth * TierBlockWeight, floor)
  BY TierAtBudget
<1>2. depth * TierBlockWeight \in Nat \ {0} /\ depth * MaxBlockWeight \in Nat
      /\ depth * TierBlockWeight <= depth * MaxBlockWeight
  <2>1. TierBlockWeight \in Nat /\ MaxBlockWeight \in Nat /\ TierBlockWeight <= MaxBlockWeight
    BY TiersAssumption DEF TierBlockWeight
  <2>2. TierBlockWeight * depth <= MaxBlockWeight * depth
    BY <2>1, ScaleUp
  <2>3. depth * TierBlockWeight \in Nat \ {0}
    BY Thresholds
  <2>4. QED
    BY <2>1, <2>2, <2>3
<1>3. tier >= ReferenceTier(rate_weights, depth * MaxBlockWeight, floor)
  BY <1>1, <1>2, LargerBudget
<1>4. QED
  BY <1>1, <1>3 DEF TierIsExact, TierBlockWeight

\* A deeper target is reached at a later entry, which pays no more.
LEMMA TierMonotone ==
  ASSUME NEW rw \in Entries, NEW fl \in Nat, NEW depth \in Nat \ {0}, NEW deeper \in Nat,
         depth <= deeper
  PROVE  LET e == SortedDesc(rw)
         IN  /\ TierAtDepth(e, depth, fl) >= TierAtDepth(e, deeper, fl)
             /\ TierAtDepth(e, deeper, fl) >= fl
<1> DEFINE e == SortedDesc(rw)
           n == Len(rw)
           near == Reaching(e, depth * TierBlockWeight)
           far == Reaching(e, deeper * TierBlockWeight)
           a == TierAtDepth(e, depth, fl)
           b == TierAtDepth(e, deeper, fl)
<1>1. /\ e \in Entries /\ Len(e) = n
      /\ \A i, j \in 1..n : i <= j => e[i][1] >= e[j][1]
      /\ n \in Nat /\ \A i \in 1..n : e[i][1] \in Nat
  BY SortedEntries, EntryFacts
<1>2. /\ depth * TierBlockWeight \in Nat \ {0} /\ deeper * TierBlockWeight \in Nat \ {0}
      /\ depth * TierBlockWeight <= deeper * TierBlockWeight
  <2>1. deeper \in Nat \ {0}
    OBVIOUS
  <2>2. QED
    BY <2>1, Thresholds
<1>3. /\ near \subseteq 1..n /\ far \subseteq 1..n
      /\ near # {} => Min(near) \in near /\ \A i \in near : Min(near) <= i
      /\ far # {} => Min(far) \in far
  BY <1>2, FirstReaching
<1>4. far \subseteq near
  <2>1. \A i \in 1..n : WeightOf(e, 1..i) \in Nat
    <3>1. \A i \in 1..n : 1..i \subseteq 1..n
      BY <1>1
    <3>2. QED
      BY <1>1, <3>1, Weighing
  <2> DEFINE s == depth * TierBlockWeight
             t == deeper * TierBlockWeight
  <2>2. \A i \in 1..n : /\ i \in near <=> WeightOf(e, 1..i) >= s
                        /\ i \in far <=> WeightOf(e, 1..i) >= t
    BY <1>1 DEF Reaching, Cumulative
  <2>3. s \in Nat /\ t \in Nat /\ s <= t
    BY <1>2
  <2> HIDE DEF s, t, near, far
  <2>4. QED
    BY <1>3, <2>1, <2>2, <2>3
<1>5. /\ a = IF near = {} THEN fl ELSE AtLeast(fl, e[Min(near)][1])
      /\ b = IF far = {} THEN fl ELSE AtLeast(fl, e[Min(far)][1])
  BY DEF TierAtDepth
<1> HIDE DEF e, n, near, far, a, b
<1>6. CASE far = {}
  <2>1. near # {} => e[Min(near)][1] \in Nat
    BY <1>1, <1>3
  <2>2. b = fl /\ (a = fl \/ (near # {} /\ a = AtLeast(fl, e[Min(near)][1])))
    BY <1>5, <1>6
  <2>3. a >= b /\ b >= fl
    BY <2>1, <2>2 DEF AtLeast
  <2>4. QED
    BY <2>3 DEF a, b, e
<1>7. CASE far # {}
  <2>1. /\ near # {} /\ Min(near) \in 1..n /\ Min(far) \in 1..n /\ Min(near) <= Min(far)
    BY <1>3, <1>4, <1>7
  <2> DEFINE x == e[Min(near)][1]
             y == e[Min(far)][1]
  <2>2. x \in Nat /\ y \in Nat /\ x >= y
    BY <1>1, <2>1
  <2>3. a = AtLeast(fl, x) /\ b = AtLeast(fl, y)
    BY <1>5, <1>7, <2>1
  <2> HIDE DEF x, y
  <2>4. a >= b /\ b >= fl
    BY <2>2, <2>3 DEF AtLeast
  <2>5. QED
    BY <2>4 DEF a, b, e
<1>8. QED
  BY <1>6, <1>7

-----------------------------------------------------------------------------
\* The histograms that the specification enumerates.

HistogramType == rate_weights \in Entries /\ floor \in Nat

LEMMA AlwaysHistogram == Spec => []HistogramType
<1>1. Init => HistogramType
  BY EmptySeq, HistogramAssumption DEF Init, HistogramType, Entries
<1>2. HistogramType /\ [Next]_vars => HistogramType'
  <2> SUFFICES ASSUME HistogramType, [Next]_vars PROVE HistogramType'
    OBVIOUS
  <2>1. CASE Next
    <3>1. PICK r \in Rates, w \in Weights : rate_weights' = Append(rate_weights, <<r, w>>)
      BY <2>1 DEF Next
    <3>2. <<r, w>> \in Nat \X Nat
      BY HistogramAssumption
    <3>3. rate_weights' \in Entries
      BY <3>1, <3>2, AppendProperties DEF HistogramType, Entries
    <3>4. QED
      BY <2>1, <3>3 DEF Next, HistogramType
  <2>2. CASE UNCHANGED vars
    BY <2>2 DEF vars, HistogramType
  <2>3. QED
    BY <2>1, <2>2
<1>3. QED
  BY <1>1, <1>2, PTL DEF Spec

LEMMA DepthsPositive ==
  /\ FastestDepth \in Nat \ {0} /\ HalfHourDepth \in Nat \ {0}
  /\ HourDepth \in Nat \ {0} /\ EconomyDepth \in Nat \ {0}
  /\ FastestDepth <= HalfHourDepth /\ HalfHourDepth <= HourDepth /\ HourDepth <= EconomyDepth
BY TiersAssumption

\* Each tier is the rate that outbids all but the top blocks of the mempool, at the
\* weight that the projection packs into a block, and at least what it would be at
\* the full weight limit; for every list of rates and weights in any order
\* (recommended_tiers, TIER_BLOCK_WEIGHT).
THEOREM TiersExact == Spec => []TiersMatchReference
<1>1. HistogramType => TiersMatchReference
  BY TierExact, DepthsPositive
     DEF HistogramType, TiersMatchReference, Tiers, RecommendedTiers
<1>2. QED
  BY <1>1, AlwaysHistogram, PTL

\* A later target never costs more, and none is below the relay floor: what the
\* comment of tier_at_depth claims by construction.
THEOREM TiersOrdered == Spec => []TiersMonotone
<1>1. HistogramType => TiersMonotone
  BY TierMonotone, DepthsPositive
     DEF HistogramType, TiersMonotone, Tiers, RecommendedTiers
<1>2. QED
  BY <1>1, AlwaysHistogram, PTL
=============================================================================

----------------------------- MODULE GbtProofs -----------------------------
\* The block projection, for every mempool and every limit: its heap always knows
\* the present scores, its blocks are in order and within the weight limit, what is
\* placed is the best that there is and pays at least its own score, only what does
\* not fit the last, bounded block is left out, and every iteration makes progress.
EXTENDS Gbt, FiniteFacts, SequenceTheorems, TLAPS

-----------------------------------------------------------------------------
\* The heap.

\* BagRemove takes nothing but the element removed.
LEMMA RemoveKeeps ==
  ASSUME NEW b, NEW e, NEW x \in BagToSet(b), x # e
  PROVE  x \in BagToSet(BagRemove(b, e))
BY DEF BagRemove, BagToSet

\* BagAdd keeps every element and the new one.
LEMMA AddKeeps ==
  ASSUME NEW b, NEW e
  PROVE  BagToSet(BagAdd(b, e)) = BagToSet(b) \cup {e}
BY DEF BagAdd, BagToSet

\* The union of two bags has the elements of both.
LEMMA UnionKeeps ==
  ASSUME NEW b, NEW c
  PROVE  BagToSet(b (+) c) = BagToSet(b) \cup BagToSet(c)
BY DEF BagToSet, (+)

\* Everything held back returns to the heap with its present score.
LEMMA RequeuedCurrent ==
  ASSUME NEW over, NEW usd, NEW u \in BagToSet(over)
  PROVE  HeapItem(u, usd) \in BagToSet(Requeued(over, usd))
BY DEF Requeued, BagToSet

\* Reached(u): u is held back, or has an item with its present score.
Reached(u, over, h, usd) == u \in BagToSet(over) \/ HeapItem(u, usd) \in BagToSet(h)

\* The end of an iteration keeps all of these, whether it closes the block or not.
LEMMA FinalizeKeeps ==
  ASSUME NEW h, NEW cur, NEW wgt, NEW over, NEW fails, NEW usd,
         Finalize(h, cur, wgt, over, fails, usd),
         NEW u, Reached(u, over, h, usd)
  PROVE  Reached(u, overflow', heap', usd)
<1>1. CASE heap' = h (+) Requeued(over, usd)
  <2>1. BagToSet(heap') = BagToSet(h) \cup BagToSet(Requeued(over, usd))
    BY <1>1, UnionKeeps
  <2>2. HeapItem(u, usd) \in BagToSet(heap')
    BY <2>1, RequeuedCurrent DEF Reached
  <2>3. QED
    BY <2>2 DEF Reached
<1>2. CASE heap' = h /\ overflow' = over
  BY <1>2 DEF Reached
<1>3. QED
  BY <1>1, <1>2 DEF Finalize

\* A package that a transaction does not descend from leaves its score alone.
LEMMA ScoreUnmoved ==
  ASSUME NEW u, NEW usd, NEW pkg, ancestors[u] \cap pkg = {}
  PROVE  HeapItem(u, usd \cup pkg) = HeapItem(u, usd)
<1>1. Package(u, usd \cup pkg) = Package(u, usd)
  BY DEF Package
<1>2. QED
  BY <1>1 DEF HeapItem, ScoreOf, PackageRate

\* A package that it descends from has it refreshed.
LEMMA RefreshedCurrent ==
  ASSUME NEW pkg, NEW usd, NEW u \in Uid \ usd, ancestors[u] \cap pkg # {}
  PROVE  HeapItem(u, usd) \in BagToSet(Refreshed(pkg, usd))
BY DEF Refreshed, SetToBag, BagToSet

LEMMA InitReached == Init => HeapCurrent
<1> SUFFICES ASSUME Init, NEW u \in Uid \ used
             PROVE  HeapItem(u, used) \in BagToSet(heap)
  BY DEF HeapCurrent
<1>1. used = {} /\ heap = SetToBag({HeapItem(v, {}) : v \in Uid})
  BY DEF Init
<1>2. QED
  BY <1>1 DEF SetToBag, BagToSet

\* One step per kind of iteration.  What the popped item itself stood for is
\* placed already, pushed back corrected, held back, or placed now.
LEMMA StepReached == HeapCurrent /\ [Next]_vars => HeapCurrent'
<1> SUFFICES ASSUME HeapCurrent, [Next]_vars, pc' = "pop",
                    NEW u \in Uid, u \notin used'
             PROVE  u \in BagToSet(overflow') \/ HeapItem(u, used)' \in BagToSet(heap')
  BY DEF HeapCurrent, BagToSet
<1>1. UNCHANGED audits
  BY DEF Next, PopUsed, PopStale, PopHold, PopInclude, Finish, vars
<1>2. HeapItem(u, used)' = HeapItem(u, used')
  BY <1>1 DEF HeapItem, ScoreOf, PackageRate, Package, audits
<1> SUFFICES Reached(u, overflow', heap', used')
  BY <1>2 DEF Reached
<1>3. ASSUME pc = "pop", u \notin used
      PROVE  Reached(u, overflow, heap, used)
  BY <1>3 DEF HeapCurrent, Reached
<1>4. CASE PopUsed
  <2>1. PICK item \in BagToSet(heap) :
            /\ Pop(item) /\ item.uid \in used /\ heap' = Rest(item)
            /\ UNCHANGED <<used, overflow>>
    BY <1>4 DEF PopUsed
  <2>2. Reached(u, overflow, heap, used)
    BY <1>3, <2>1 DEF Pop
  <2>3. HeapItem(u, used) # item
    BY <2>1 DEF HeapItem
  <2>4. QED
    BY <2>1, <2>2, <2>3, RemoveKeeps DEF Reached, Rest
<1>5. CASE PopStale
  <2>1. PICK item \in BagToSet(heap) :
            /\ Pop(item)
            /\ heap' = BagAdd(Rest(item), HeapItem(item.uid, used))
            /\ UNCHANGED <<used, overflow>>
    BY <1>5 DEF PopStale
  <2>2. Reached(u, overflow, heap, used)
    BY <1>3, <2>1 DEF Pop
  <2>3. BagToSet(heap') = BagToSet(Rest(item)) \cup {HeapItem(item.uid, used)}
    BY <2>1, AddKeeps
  <2>4. CASE u = item.uid
    BY <2>1, <2>3, <2>4 DEF Reached
  <2>5. CASE u # item.uid
    <3>1. HeapItem(u, used) # item
      BY <2>5 DEF HeapItem
    <3>2. QED
      BY <2>1, <2>2, <2>3, <3>1, RemoveKeeps DEF Reached, Rest
  <2>6. QED
    BY <2>4, <2>5
<1>6. CASE PopHold
  <2>1. PICK item \in BagToSet(heap) :
            /\ Pop(item)
            /\ Finalize(Rest(item), cur_block, block_weight, BagAdd(overflow, item.uid),
                        failures + 1, used)
            /\ used' = used
    BY <1>6 DEF PopHold
  <2>2. Reached(u, overflow, heap, used)
    BY <1>3, <2>1 DEF Pop
  <2>3. BagToSet(BagAdd(overflow, item.uid)) = BagToSet(overflow) \cup {item.uid}
    BY AddKeeps
  <2>4. Reached(u, BagAdd(overflow, item.uid), Rest(item), used)
    <3>1. CASE u = item.uid
      BY <2>3, <3>1 DEF Reached
    <3>2. CASE u # item.uid
      <4>1. HeapItem(u, used) # item
        BY <3>2 DEF HeapItem
      <4>2. QED
        BY <2>2, <2>3, <4>1, RemoveKeeps DEF Reached, Rest
    <3>3. QED
      BY <3>1, <3>2
  <2>5. QED
    BY <2>1, <2>4, FinalizeKeeps
<1>7. CASE PopInclude
  <2>1. PICK item \in BagToSet(heap) :
            LET pkg == Package(item.uid, used)
                usd == used \cup pkg
            IN  /\ Pop(item)
                /\ used' = usd
                /\ Finalize(Rest(item) (+) Refreshed(pkg, usd),
                            cur_block \o PackageSeq(item.uid),
                            block_weight + SumOver(weight, pkg), overflow, 0, usd)
    BY <1>7 DEF PopInclude
  <2> DEFINE pkg == Package(item.uid, used)
             h == Rest(item) (+) Refreshed(pkg, used')
  <2>2. /\ Pop(item) /\ used' = used \cup pkg
        /\ Finalize(h, cur_block \o PackageSeq(item.uid),
                    block_weight + SumOver(weight, pkg), overflow, 0, used')
    BY <2>1
  <2>3. Reached(u, overflow, heap, used)
    BY <1>3, <2>2 DEF Pop
  <2>4. BagToSet(h) = BagToSet(Rest(item)) \cup BagToSet(Refreshed(pkg, used'))
    BY UnionKeeps
  <2>5. Reached(u, overflow, h, used')
    <3>1. CASE ancestors[u] \cap pkg # {}
      <4>1. HeapItem(u, used') \in BagToSet(Refreshed(pkg, used'))
        BY <3>1, RefreshedCurrent
      <4>2. QED
        BY <2>4, <4>1 DEF Reached
    <3>2. CASE ancestors[u] \cap pkg = {}
      <4>1. HeapItem(u, used') = HeapItem(u, used)
        BY <2>2, <3>2, ScoreUnmoved
      <4>2. u # item.uid
        BY <2>2 DEF Package
      <4>3. HeapItem(u, used) # item
        BY <4>2 DEF HeapItem
      <4>4. QED
        BY <2>3, <2>4, <4>1, <4>3, RemoveKeeps DEF Reached, Rest
    <3>3. QED
      BY <3>1, <3>2
  <2>6. QED
    BY <2>2, <2>5, FinalizeKeeps
<1>8. CASE Finish
  BY <1>8 DEF Finish
<1>9. CASE UNCHANGED vars
  BY <1>3, <1>9 DEF vars, Reached
<1>10. QED
  BY <1>4, <1>5, <1>6, <1>7, <1>8, <1>9 DEF Next

\* While the loop runs, the heap has an item with the present score of every
\* transaction that it has neither placed nor held back (gbt.rs, the lazy refresh of
\* the pop loop).  What is held back may still be lost: see LeftOutLast.
THEOREM HeapTracksScores == Spec => []HeapCurrent
BY InitReached, StepReached, PTL DEF Spec

-----------------------------------------------------------------------------
\* Packages and their order.

LEMMA UidFinite == IsFiniteSet(Uid) /\ \A S \in SUBSET Uid : IsFiniteSet(S) /\ Cardinality(S) \in Nat
<1>1. 0 \in Int /\ N - 1 \in Int
  BY GbtAssumption
<1>2. \A S \in SUBSET (0..(N - 1)) : IsFiniteSet(S) /\ Cardinality(S) \in Nat
  BY <1>1, IntervalFinite
<1>3. QED
  BY <1>2 DEF Uid

LEMMA AncestorFacts ==
  ASSUME ancestors \in AncestorMaps, NEW u \in Uid
  PROVE  /\ ancestors[u] \subseteq Uid /\ u \notin ancestors[u]
         /\ \A a \in ancestors[u] : ancestors[a] \subseteq ancestors[u]
BY DEF AncestorMaps

LEMMA PackageWithin ==
  ASSUME ancestors \in AncestorMaps, NEW u \in Uid, NEW usd
  PROVE  Package(u, usd) \subseteq Uid /\ IsFiniteSet(Package(u, usd))
<1>1. Package(u, usd) \subseteq Uid
  BY AncestorFacts DEF Package
<1>2. QED
  BY <1>1, UidFinite

RootsFirstPairs == {p \in Uid \X Uid : RootsFirst(p[1], p[2])}

LEMMA RootsFirstOrders ==
  ASSUME ancestors \in AncestorMaps, NEW S \in SUBSET Uid
  PROVE  Orders(RootsFirstPairs, S)
<1> DEFINE d(u) == Cardinality(ancestors[u])
<1>1. \A u \in Uid : d(u) \in Nat /\ u \in Int
  BY AncestorFacts, UidFinite DEF Uid
<1>2. \A a, b \in Uid : <<a, b>> \in RootsFirstPairs <=> d(a) < d(b) \/ (d(a) = d(b) /\ a < b)
  BY DEF RootsFirstPairs, RootsFirst
<1> HIDE DEF d
<1>3. \A x \in S : <<x, x>> \notin RootsFirstPairs
  BY <1>1, <1>2
<1>4. \A x, y, z \in S : <<x, y>> \in RootsFirstPairs /\ <<y, z>> \in RootsFirstPairs
                         => <<x, z>> \in RootsFirstPairs
  BY <1>1, <1>2
<1>5. ASSUME NEW x \in S, NEW y \in S
      PROVE  x = y \/ <<x, y>> \in RootsFirstPairs \/ <<y, x>> \in RootsFirstPairs
  <2>1. x \in Int /\ y \in Int /\ d(x) \in Nat /\ d(y) \in Nat
    BY <1>1
  <2>2. \/ x = y
        \/ d(x) < d(y) \/ (d(x) = d(y) /\ x < y)
        \/ d(y) < d(x) \/ (d(y) = d(x) /\ y < x)
    BY <2>1
  <2>3. QED
    BY <1>2, <2>2
<1>6. QED
  BY <1>3, <1>4, <1>5 DEF Orders

\* What sort_by leaves: every member once, and none before one it sorts after.
LEMMA SortedFacts ==
  ASSUME ancestors \in AncestorMaps, NEW S \in SUBSET Uid
  PROVE  LET n == Cardinality(S)
             s == Sorted(S)
         IN  /\ n \in Nat /\ s \in [1..n -> S]
             /\ \A i, j \in 1..n : s[i] = s[j] => i = j
             /\ \A x \in S : \E i \in 1..n : s[i] = x
             /\ \A i, j \in 1..n : i < j => RootsFirst(s[i], s[j])
<1> DEFINE n == Cardinality(S)
           s == Sorted(S)
           R == RootsFirstPairs
<1>1. IsFiniteSet(S) /\ n \in Nat /\ Orders(R, S)
  BY UidFinite, RootsFirstOrders
<1>2. \A t \in [1..n -> S] : InOrder(t, n, R) <=> \A i, j \in 1..n : i < j => RootsFirst(t[i], t[j])
  BY DEF InOrder, RootsFirstPairs
<1>3. \E t \in [1..n -> S] : InOrder(t, n, R)
  BY <1>1, SortedExists
<1>4. s \in [1..n -> S] /\ \A i, j \in 1..n : i < j => RootsFirst(s[i], s[j])
  BY <1>2, <1>3 DEF Sorted
<1>5. InOrder(s, n, R)
  BY <1>2, <1>4
<1> HIDE DEF s, R
<1>6. /\ \A i, j \in 1..n : s[i] = s[j] => i = j
      /\ \A x \in S : \E i \in 1..n : s[i] = x
  BY <1>1, <1>4, <1>5, SortedOnto
<1>7. QED
  BY <1>1, <1>4, <1>6 DEF s

\* A package enters a block without repetition, each member after all of its
\* ancestors that are not in a block yet, and uid at the end.
LEMMA PackageSeqFacts ==
  ASSUME ancestors \in AncestorMaps, NEW uid \in Uid, uid \notin used
  PROVE  LET p == PackageSeq(uid)
         IN  /\ p \in Seq(Uid) /\ p # <<>> /\ Last(p) = uid
             /\ \A x : x \in Package(uid, used) <=> \E i \in 1..Len(p) : p[i] = x
             /\ \A i, j \in 1..Len(p) : p[i] = p[j] => i = j
             /\ \A i \in 1..Len(p) : \A a \in ancestors[p[i]] :
                    a \in used \/ \E j \in 1..(i - 1) : p[j] = a
<1> DEFINE S == ancestors[uid] \ used
           n == Cardinality(S)
           s == Sorted(S)
           p == PackageSeq(uid)
<1>1. S \subseteq Uid /\ uid \notin S /\ Package(uid, used) = {uid} \cup S
  BY AncestorFacts DEF Package
<1>2. /\ n \in Nat /\ s \in [1..n -> S]
      /\ \A i, j \in 1..n : s[i] = s[j] => i = j
      /\ \A x \in S : \E i \in 1..n : s[i] = x
      /\ \A i, j \in 1..n : i < j => RootsFirst(s[i], s[j])
  BY <1>1, SortedFacts
<1>3. p = Append(s, uid)
  BY DEF PackageSeq
<1> HIDE DEF n, s, p
<1>4. s \in Seq(Uid)
  <2>1. s \in [1..n -> Uid]
    BY <1>1, <1>2
  <2>2. QED
    BY <1>2, <2>1, SeqDef
<1>5. Len(s) = n
  <2>1. Len(s) \in Nat /\ DOMAIN s = 1..Len(s)
    BY <1>4, LenProperties
  <2>2. 1..Len(s) = 1..n
    BY <1>2, <2>1
  <2>3. QED
    BY <1>2, <2>1, <2>2
<1>6. /\ p \in Seq(Uid) /\ Len(p) = n + 1 /\ p[n + 1] = uid
      /\ \A i \in 1..n : p[i] = s[i]
  BY <1>3, <1>4, <1>5, AppendProperties
<1>7. p # <<>> /\ Last(p) = uid
  BY <1>2, <1>6, EmptySeq DEF Last
<1>8. \A i \in 1..(n + 1) : i = n + 1 \/ i \in 1..n
  BY <1>2
<1>9. \A i \in 1..n : i \in 1..(n + 1) /\ i # n + 1
  BY <1>2
<1>10. n + 1 \in 1..(n + 1)
  BY <1>2
<1>11. \A x : x \in Package(uid, used) <=> \E i \in 1..(n + 1) : p[i] = x
  BY <1>1, <1>2, <1>6, <1>8, <1>9, <1>10
<1>12. \A i, j \in 1..(n + 1) : p[i] = p[j] => i = j
  BY <1>1, <1>2, <1>6, <1>8
<1>13. ASSUME NEW i \in 1..(n + 1), NEW a \in ancestors[p[i]], a \notin used
       PROVE  \E j \in 1..(i - 1) : p[j] = a
  <2>1. p[i] \in Uid /\ (p[i] = uid \/ p[i] \in S)
    BY <1>1, <1>2, <1>6, <1>8
  <2>2. a \in S /\ a # p[i]
    BY <1>13, <2>1, AncestorFacts
  <2>3. PICK j \in 1..n : s[j] = a /\ p[j] = a
    BY <1>2, <1>6, <2>2
  <2>4. CASE i = n + 1
    BY <1>2, <2>3, <2>4
  <2>5. CASE i # n + 1
    <3>1. i \in 1..n /\ p[i] = s[i] /\ j # i
      BY <1>6, <1>8, <2>2, <2>3, <2>5
    \* Sorted the other way round, a would have as many ancestors as p[i], but
    \* it has fewer: its own are among those of p[i], and it is not.
    <3>2. ASSUME i < j PROVE FALSE
      <4>1. RootsFirst(p[i], a)
        BY <1>2, <2>3, <3>1, <3>2
      <4>2. ancestors[a] \subseteq ancestors[p[i]] /\ a \notin ancestors[a] /\ a \in Uid
        BY <1>1, <1>13, <2>1, <2>2, AncestorFacts
      <4>3. IsFiniteSet(ancestors[p[i]]) /\ ancestors[a] # ancestors[p[i]]
        BY <1>13, <2>1, <4>2, AncestorFacts, UidFinite
      <4>4. /\ Cardinality(ancestors[a]) \in Nat /\ Cardinality(ancestors[p[i]]) \in Nat
            /\ Cardinality(ancestors[a]) < Cardinality(ancestors[p[i]])
        BY <4>2, <4>3, FewerMembers
      <4>5. QED
        BY <4>1, <4>4 DEF RootsFirst
    <3>3. j < i
      BY <1>2, <3>1, <3>2
    <3>4. QED
      BY <1>2, <2>3, <3>1, <3>3
  <2>6. QED
    BY <2>4, <2>5
<1>14. QED
  BY <1>6, <1>7, <1>11, <1>12, <1>13 DEF p

-----------------------------------------------------------------------------
\* The types.

Scores == Nat \X (Nat \ {0})

Items == [uid : Uid, score : Scores]

\* A bag of finitely many members of S.
IsBagOver(b, S) ==
    /\ BagToSet(b) \subseteq S /\ IsFiniteSet(BagToSet(b))
    /\ b \in [BagToSet(b) -> Nat \ {0}]

LEMMA BagTypes ==
  ASSUME NEW S, NEW b, IsBagOver(b, S)
  PROVE  /\ \A x : IsBagOver(BagRemove(b, x), S)
         /\ \A x \in S : IsBagOver(BagAdd(b, x), S)
         /\ \A c : IsBagOver(c, S) => IsBagOver(b (+) c, S)
<1> DEFINE D == BagToSet(b)
<1>1. D \subseteq S /\ IsFiniteSet(D) /\ b \in [D -> Nat \ {0}]
  BY DEF IsBagOver
<1>2. ASSUME NEW x PROVE IsBagOver(BagRemove(b, x), S)
  <2>1. IsFiniteSet(D \ {x})
    BY <1>1, FiniteTogether
  <2>2. \A n \in Nat \ {0} : n # 1 => n - 1 \in Nat \ {0}
    OBVIOUS
  <2>3. QED
    BY <1>1, <2>1, <2>2 DEF IsBagOver, BagRemove, BagToSet
<1>3. ASSUME NEW x \in S PROVE IsBagOver(BagAdd(b, x), S)
  <2>1. IsFiniteSet(D \cup {x})
    BY <1>1, FiniteTogether
  <2>2. \A n \in Nat \ {0} : n + 1 \in Nat \ {0}
    OBVIOUS
  <2>3. QED
    BY <1>1, <2>1, <2>2 DEF IsBagOver, BagAdd, BagToSet
<1>4. ASSUME NEW c, IsBagOver(c, S) PROVE IsBagOver(b (+) c, S)
  <2>1. IsFiniteSet(D \cup BagToSet(c))
    BY <1>1, <1>4, FiniteTogether DEF IsBagOver
  <2>2. \A m, n \in Nat \ {0} : m + n \in Nat \ {0} /\ m + 0 = m /\ 0 + m = m
    OBVIOUS
  <2>3. QED
    BY <1>1, <1>4, <2>1, <2>2 DEF IsBagOver, (+), BagToSet
<1>5. QED
  BY <1>2, <1>3, <1>4

LEMMA NewBagTypes ==
  ASSUME NEW S, NEW T \in SUBSET S, IsFiniteSet(T)
  PROVE  IsBagOver(SetToBag(T), S) /\ IsBagOver(EmptyBag, S)
<1>1. IsFiniteSet({})
  BY FiniteTogether
<1>2. QED
  BY <1>1 DEF IsBagOver, SetToBag, EmptyBag, BagToSet

LEMMA Sums ==
  ASSUME NEW f \in [Uid -> Nat], NEW S \in SUBSET Uid
  PROVE  SumOver(f, S) \in Nat /\ SumOver(f, S) = Total(f, S)
<1>1. SumOver(f, S) = Total(f, S)
  BY DEF SumOver, Total
<1>2. Total(f, S) \in Nat
  BY UidFinite, TotalNat
<1>3. QED
  BY <1>1, <1>2

LEMMA RateType ==
  ASSUME NEW f \in Nat, NEW w \in Nat
  PROVE  Rate(f, w) \in Scores
BY DEF Rate, Scores

AuditsType ==
    fee \in [Uid -> Nat] /\ weight \in [Uid -> Nat] /\ ancestors \in AncestorMaps

LEMMA ScoreType ==
  ASSUME AuditsType, NEW u \in Uid, NEW usd
  PROVE  /\ PackageRate(u, usd) \in Scores /\ ScoreOf(u, usd) \in Scores
         /\ HeapItem(u, usd) \in Items
<1>1. Package(u, usd) \in SUBSET Uid
  BY PackageWithin DEF AuditsType
<1>2. /\ SumOver(fee, Package(u, usd)) \in Nat /\ SumOver(weight, Package(u, usd)) \in Nat
      /\ fee[u] \in Nat /\ weight[u] \in Nat
  BY <1>1, Sums DEF AuditsType
<1>3. PackageRate(u, usd) \in Scores /\ Rate(fee[u], weight[u]) \in Scores
  BY <1>2, RateType DEF PackageRate
<1>4. ScoreOf(u, usd) \in Scores
  BY <1>3 DEF ScoreOf
<1>5. QED
  BY <1>3, <1>4 DEF HeapItem, Items

GbtType ==
    /\ AuditsType
    /\ used \subseteq Uid
    /\ blocks \in Seq(Seq(Uid)) /\ cur_block \in Seq(Uid)
    /\ IsBagOver(heap, Items) /\ IsBagOver(overflow, Uid)

LEMMA ItemsOf ==
  ASSUME AuditsType, NEW S \in SUBSET Uid, NEW usd
  PROVE  /\ {HeapItem(u, usd) : u \in S} \subseteq Items
         /\ IsFiniteSet({HeapItem(u, usd) : u \in S})
<1>1. {HeapItem(u, usd) : u \in S} \subseteq Items
  BY ScoreType
<1> DEFINE f == [u \in S |-> HeapItem(u, usd)]
<1>2. {HeapItem(u, usd) : u \in S} = {f[u] : u \in S}
  OBVIOUS
<1> HIDE DEF f
<1>3. IsFiniteSet({f[u] : u \in S})
  BY UidFinite, FiniteTogether
<1>4. QED
  BY <1>1, <1>2, <1>3

LEMMA RequeuedType ==
  ASSUME AuditsType, NEW over, IsBagOver(over, Uid), NEW usd
  PROVE  IsBagOver(Requeued(over, usd), Items)
<1>1. {HeapItem(u, usd) : u \in BagToSet(over)} \subseteq Items
  BY ItemsOf DEF IsBagOver
<1>2. IsFiniteSet({HeapItem(u, usd) : u \in BagToSet(over)})
  BY ItemsOf DEF IsBagOver
<1>3. \A u \in BagToSet(over) : HeapItem(u, usd).uid = u /\ over[u] \in Nat \ {0}
  BY DEF HeapItem, IsBagOver
<1>4. BagToSet(Requeued(over, usd)) = {HeapItem(u, usd) : u \in BagToSet(over)}
  BY DEF Requeued, BagToSet
<1>5. \A i \in BagToSet(Requeued(over, usd)) : Requeued(over, usd)[i] \in Nat \ {0}
  BY <1>3, <1>4 DEF Requeued
<1>6. Requeued(over, usd) \in [BagToSet(Requeued(over, usd)) -> Nat \ {0}]
  BY <1>4, <1>5 DEF Requeued, BagToSet
<1>7. QED
  BY <1>1, <1>2, <1>4, <1>6 DEF IsBagOver

LEMMA RefreshedType ==
  ASSUME AuditsType, NEW pkg, NEW usd
  PROVE  IsBagOver(Refreshed(pkg, usd), Items)
<1> DEFINE S == {d \in Uid \ usd : ancestors[d] \cap pkg # {}}
<1>1. S \in SUBSET Uid
  OBVIOUS
<1>2. {HeapItem(d, usd) : d \in S} \subseteq Items /\ IsFiniteSet({HeapItem(d, usd) : d \in S})
  BY <1>1, ItemsOf
<1>3. Refreshed(pkg, usd) = SetToBag({HeapItem(d, usd) : d \in S})
  BY DEF Refreshed
<1> HIDE DEF S
<1>4. QED
  BY <1>2, <1>3, NewBagTypes

LEMMA FinalizeType ==
  ASSUME AuditsType, blocks \in Seq(Seq(Uid)), NEW usd,
         NEW h, IsBagOver(h, Items), NEW cur \in Seq(Uid), NEW wgt,
         NEW over, IsBagOver(over, Uid), NEW fails,
         Finalize(h, cur, wgt, over, fails, usd)
  PROVE  /\ blocks' \in Seq(Seq(Uid)) /\ cur_block' \in Seq(Uid)
         /\ IsBagOver(heap', Items) /\ IsBagOver(overflow', Uid)
<1>1. CASE /\ blocks' = Append(blocks, cur) /\ cur_block' = <<>>
           /\ heap' = h (+) Requeued(over, usd) /\ overflow' = EmptyBag
  <2>1. Append(blocks, cur) \in Seq(Seq(Uid)) /\ <<>> \in Seq(Uid)
    BY AppendProperties
  <2>2. IsBagOver(h (+) Requeued(over, usd), Items)
    BY RequeuedType, BagTypes
  <2>3. IsBagOver(EmptyBag, Uid)
    BY NewBagTypes, UidFinite
  <2>4. QED
    BY <1>1, <2>1, <2>2, <2>3
<1>2. CASE blocks' = blocks /\ cur_block' = cur /\ heap' = h /\ overflow' = over
  BY <1>2
<1>3. QED
  BY <1>1, <1>2 DEF Finalize

LEMMA InitType == Init => GbtType
<1> SUFFICES ASSUME Init PROVE GbtType
  OBVIOUS
<1>1. AuditsType
  BY GbtAssumption DEF Init, AuditsType
<1>2. {HeapItem(u, {}) : u \in Uid} \subseteq Items /\ IsFiniteSet({HeapItem(u, {}) : u \in Uid})
  BY <1>1, ItemsOf
<1>3. IsBagOver(heap, Items)
  BY <1>2, NewBagTypes DEF Init
<1>4. IsBagOver(overflow, Uid)
  BY UidFinite, NewBagTypes DEF Init
<1>5. blocks \in Seq(Seq(Uid)) /\ cur_block \in Seq(Uid)
  BY EmptySeq DEF Init
<1>6. QED
  BY <1>1, <1>3, <1>4, <1>5 DEF Init, GbtType

LEMMA StepType == GbtType /\ [Next]_vars => GbtType'
<1> SUFFICES ASSUME GbtType, [Next]_vars PROVE GbtType'
  OBVIOUS
<1> USE DEF GbtType
<1>1. UNCHANGED audits
  BY DEF Next, PopUsed, PopStale, PopHold, PopInclude, Finish, vars
<1>2. AuditsType' /\ AuditsType
  BY <1>1 DEF AuditsType, AncestorMaps, audits
<1>3. \A item \in BagToSet(heap) : item.uid \in Uid /\ item \in Items /\ IsBagOver(Rest(item), Items)
  BY BagTypes DEF IsBagOver, Items, Rest
<1>4. CASE PopUsed
  BY <1>2, <1>3, <1>4 DEF PopUsed
<1>5. CASE PopStale
  <2>1. PICK item \in BagToSet(heap) :
            /\ heap' = BagAdd(Rest(item), HeapItem(item.uid, used))
            /\ UNCHANGED <<used, blocks, cur_block, overflow>>
    BY <1>5 DEF PopStale
  <2>2. IsBagOver(heap', Items)
    BY <1>2, <1>3, <2>1, ScoreType, BagTypes
  <2>3. QED
    BY <1>2, <2>1, <2>2
<1>6. CASE PopHold
  <2>1. PICK item \in BagToSet(heap) :
            /\ Finalize(Rest(item), cur_block, block_weight, BagAdd(overflow, item.uid),
                        failures + 1, used)
            /\ used' = used
    BY <1>6 DEF PopHold
  <2>2. IsBagOver(BagAdd(overflow, item.uid), Uid)
    BY <1>3, BagTypes
  <2>3. QED
    BY <1>2, <1>3, <2>1, <2>2, FinalizeType
<1>7. CASE PopInclude
  <2>1. PICK item \in BagToSet(heap) :
            LET pkg == Package(item.uid, used)
                usd == used \cup pkg
            IN  /\ item.uid \notin used
                /\ used' = usd
                /\ Finalize(Rest(item) (+) Refreshed(pkg, usd),
                            cur_block \o PackageSeq(item.uid),
                            block_weight + SumOver(weight, pkg), overflow, 0, usd)
    BY <1>7 DEF PopInclude
  <2> DEFINE pkg == Package(item.uid, used)
             h == Rest(item) (+) Refreshed(pkg, used')
             cur == cur_block \o PackageSeq(item.uid)
  <2>2. used' \subseteq Uid
    BY <1>2, <1>3, <2>1, PackageWithin DEF AuditsType
  <2>3. IsBagOver(h, Items)
    BY <1>2, <1>3, RefreshedType, BagTypes
  <2>4. PackageSeq(item.uid) \in Seq(Uid)
    BY <1>2, <1>3, <2>1, PackageSeqFacts DEF AuditsType
  <2>5. cur \in Seq(Uid)
    BY <2>4, ConcatProperties
  <2>6. Finalize(h, cur, block_weight + SumOver(weight, pkg), overflow, 0, used')
    BY <2>1
  <2> HIDE DEF h, cur
  <2>7. QED
    BY <1>2, <2>2, <2>3, <2>5, <2>6, FinalizeType
<1>8. CASE Finish
  <2>1. blocks' \in Seq(Seq(Uid)) /\ <<>> \in Seq(Uid)
    BY <1>8, AppendProperties DEF Finish
  <2>2. QED
    BY <1>2, <1>8, <2>1 DEF Finish
<1>9. CASE UNCHANGED vars
  BY <1>2, <1>9 DEF vars
<1>10. QED
  BY <1>4, <1>5, <1>6, <1>7, <1>8, <1>9 DEF Next

LEMMA AlwaysType == Spec => []GbtType
BY InitType, StepType, PTL DEF Spec

-----------------------------------------------------------------------------
\* The order of the blocks.

Placed(B) == UNION {ToSet(B[k]) : k \in 1..Len(B)}

EarlierIn(B, i, j) ==
    {B[i][k] : k \in 1..(j - 1)} \cup UNION {ToSet(B[k]) : k \in 1..(i - 1)}

\* TopologicalOrder of any blocks B.
Ordered(B) ==
    \A i \in 1..Len(B) : \A j \in 1..Len(B[i]) :
        B[i][j] \notin EarlierIn(B, i, j) /\ ancestors[B[i][j]] \subseteq EarlierIn(B, i, j)

\* ... and of a block c that follows B.
OrderedAfter(B, c) ==
    \A j \in 1..Len(c) :
        LET before == Placed(B) \cup {c[k] : k \in 1..(j - 1)}
        IN  c[j] \notin before /\ ancestors[c[j]] \subseteq before

LEMMA AppendPlaced ==
  ASSUME NEW B \in Seq(Seq(Uid)), NEW c \in Seq(Uid)
  PROVE  Placed(Append(B, c)) = Placed(B) \cup ToSet(c)
<1> DEFINE n == Len(B)
<1>1. /\ n \in Nat /\ Len(Append(B, c)) = n + 1 /\ Append(B, c)[n + 1] = c
      /\ \A k \in 1..n : Append(B, c)[k] = B[k]
  BY LenProperties, AppendProperties
<1>2. \A k : k \in 1..(n + 1) <=> k \in 1..n \/ k = n + 1
  BY <1>1
<1> HIDE DEF n
<1>3. Placed(Append(B, c)) = UNION {ToSet(Append(B, c)[k]) : k \in 1..(n + 1)}
  BY <1>1 DEF Placed
<1>4. Placed(B) = UNION {ToSet(B[k]) : k \in 1..n}
  BY DEF Placed, n
<1>5. QED
  BY <1>1, <1>2, <1>3, <1>4

LEMMA AppendOrdered ==
  ASSUME NEW B \in Seq(Seq(Uid)), NEW c \in Seq(Uid)
  PROVE  Ordered(Append(B, c)) <=> Ordered(B) /\ OrderedAfter(B, c)
<1> DEFINE n == Len(B)
           A == Append(B, c)
<1>1. n \in Nat /\ Len(A) = n + 1 /\ A[n + 1] = c /\ \A k \in 1..n : A[k] = B[k]
  BY LenProperties, AppendProperties
<1>2. Placed(B) = UNION {ToSet(B[k]) : k \in 1..n}
  BY DEF Placed
<1> HIDE DEF n, A
<1>3. \A k : k \in 1..(n + 1) <=> k \in 1..n \/ k = n + 1
  BY <1>1
<1>4. ASSUME NEW i \in 1..n, NEW j PROVE EarlierIn(A, i, j) = EarlierIn(B, i, j)
  <2>1. \A k \in 1..(i - 1) : A[k] = B[k]
    BY <1>1
  <2>2. {ToSet(A[k]) : k \in 1..(i - 1)} = {ToSet(B[k]) : k \in 1..(i - 1)}
    BY <2>1
  <2>3. A[i] = B[i]
    BY <1>1
  <2>4. QED
    BY <2>2, <2>3 DEF EarlierIn
<1>5. ASSUME NEW j PROVE EarlierIn(A, n + 1, j) = Placed(B) \cup {c[k] : k \in 1..(j - 1)}
  <2>1. 1..((n + 1) - 1) = 1..n
    BY <1>1
  <2>2. {ToSet(A[k]) : k \in 1..((n + 1) - 1)} = {ToSet(B[k]) : k \in 1..n}
    BY <1>1, <2>1
  <2> DEFINE X == UNION {ToSet(A[k]) : k \in 1..((n + 1) - 1)}
             Y == {A[n + 1][k] : k \in 1..(j - 1)}
  <2>3. X = Placed(B)
    BY <1>2, <2>2
  <2>4. EarlierIn(A, n + 1, j) = X \cup Y
    BY DEF EarlierIn
  <2>5. Y = {c[k] : k \in 1..(j - 1)}
    BY <1>1
  <2> HIDE DEF X, Y
  <2>6. QED
    BY <2>3, <2>4, <2>5
<1> DEFINE Good(i) == \A j \in 1..Len(A[i]) :
                          A[i][j] \notin EarlierIn(A, i, j) /\ ancestors[A[i][j]] \subseteq EarlierIn(A, i, j)
<1>6. Ordered(B) <=> \A i \in 1..n : Good(i)
  <2>1. Ordered(B) <=> \A i \in 1..n : \A j \in 1..Len(B[i]) :
            B[i][j] \notin EarlierIn(B, i, j) /\ ancestors[B[i][j]] \subseteq EarlierIn(B, i, j)
    BY DEF Ordered, n
  <2>2. ASSUME NEW i \in 1..n
        PROVE  Good(i) <=> \A j \in 1..Len(B[i]) :
            B[i][j] \notin EarlierIn(B, i, j) /\ ancestors[B[i][j]] \subseteq EarlierIn(B, i, j)
    <3>1. A[i] = B[i] /\ \A j : EarlierIn(A, i, j) = EarlierIn(B, i, j)
      BY <1>1, <1>4
    <3>2. QED
      BY <3>1
  <2> HIDE DEF Good
  <2>3. QED
    BY <2>1, <2>2
<1>7. OrderedAfter(B, c) <=> Good(n + 1)
  <2>1. Good(n + 1) <=> \A j \in 1..Len(c) :
            c[j] \notin EarlierIn(A, n + 1, j) /\ ancestors[c[j]] \subseteq EarlierIn(A, n + 1, j)
    BY <1>1
  <2> DEFINE before(j) == Placed(B) \cup {c[k] : k \in 1..(j - 1)}
  <2>2. OrderedAfter(B, c) <=> \A j \in 1..Len(c) :
            c[j] \notin before(j) /\ ancestors[c[j]] \subseteq before(j)
    BY DEF OrderedAfter
  <2>3. \A j : EarlierIn(A, n + 1, j) = before(j)
    BY <1>5
  <2> HIDE DEF before, Good
  <2>4. QED
    BY <2>1, <2>2, <2>3
<1>8. Ordered(A) <=> \A i \in 1..(n + 1) : Good(i)
  BY <1>1 DEF Ordered
<1> HIDE DEF Good
<1>9. QED
  BY <1>3, <1>6, <1>7, <1>8 DEF A

\* A package goes after everything that its members wait for.
LEMMA PackageOrdered ==
  ASSUME AuditsType, NEW B \in Seq(Seq(Uid)), NEW c \in Seq(Uid), OrderedAfter(B, c),
         used = Placed(B) \cup ToSet(c), NEW uid \in Uid, uid \notin used
  PROVE  /\ OrderedAfter(B, c \o PackageSeq(uid))
         /\ ToSet(c \o PackageSeq(uid)) = ToSet(c) \cup Package(uid, used)
<1> DEFINE p == PackageSeq(uid)
           m == Len(c)
           n == Len(p)
           s == c \o p
<1>1. /\ p \in Seq(Uid)
      /\ \A x : x \in Package(uid, used) <=> \E i \in 1..n : p[i] = x
      /\ \A i, j \in 1..n : p[i] = p[j] => i = j
      /\ \A i \in 1..n : \A a \in ancestors[p[i]] : a \in used \/ \E j \in 1..(i - 1) : p[j] = a
  BY PackageSeqFacts DEF AuditsType
<1> HIDE DEF p
<1>2. m \in Nat /\ n \in Nat /\ DOMAIN c = 1..m
  BY <1>1, LenProperties
<1>3. /\ s \in Seq(Uid) /\ Len(s) = m + n
      /\ \A i \in 1..(m + n) : s[i] = IF i <= m THEN c[i] ELSE p[i - m]
  BY <1>1, ConcatProperties
<1>4. DOMAIN s = 1..(m + n)
  BY <1>3, LenProperties
<1>5. ToSet(c) = {c[i] : i \in 1..m} /\ ToSet(s) = {s[i] : i \in 1..(m + n)}
  BY <1>2, <1>4 DEF ToSet
<1> HIDE DEF m, n, s
<1>6. \A i \in 1..m : i \in 1..(m + n) /\ s[i] = c[i]
  BY <1>2, <1>3
<1>7. \A i \in 1..n : m + i \in 1..(m + n) /\ s[m + i] = p[i]
  <2>1. ASSUME NEW i \in 1..n PROVE m + i \in 1..(m + n) /\ ~(m + i <= m) /\ (m + i) - m = i
    BY <1>2
  <2>2. QED
    BY <1>3, <2>1
<1>8. \A i \in 1..(m + n) : i \in 1..m \/ (i - m \in 1..n /\ m + (i - m) = i)
  BY <1>2
<1>9. ToSet(s) = ToSet(c) \cup Package(uid, used)
  <2>1. ASSUME NEW i \in 1..(m + n) PROVE s[i] \in ToSet(c) \cup Package(uid, used)
    <3>1. CASE i \in 1..m
      BY <1>5, <1>6, <3>1
    <3>2. CASE i - m \in 1..n /\ m + (i - m) = i
      <4>1. s[i] = p[i - m]
        BY <1>7, <3>2
      <4>2. QED
        BY <1>1, <3>2, <4>1
    <3>3. QED
      BY <1>8, <3>1, <3>2
  <2>2. ToSet(c) \subseteq ToSet(s)
    BY <1>5, <1>6
  <2>3. Package(uid, used) \subseteq ToSet(s)
    BY <1>1, <1>5, <1>7
  <2>4. QED
    BY <1>5, <2>1, <2>2, <2>3
<1>10. \A x \in Package(uid, used) : x \notin used
  BY DEF Package
<1>11. ASSUME NEW j \in 1..(m + n)
       PROVE  LET before == Placed(B) \cup {s[k] : k \in 1..(j - 1)}
              IN  s[j] \notin before /\ ancestors[s[j]] \subseteq before
  <2>1. CASE j \in 1..m
    <3>1. \A k \in 1..(j - 1) : s[k] = c[k]
      BY <1>2, <1>6, <2>1
    <3>2. {s[k] : k \in 1..(j - 1)} = {c[k] : k \in 1..(j - 1)}
      BY <3>1
    <3>3. s[j] = c[j]
      BY <1>6, <2>1
    <3>4. QED
      BY <2>1, <3>2, <3>3 DEF OrderedAfter, m
  <2>2. CASE j - m \in 1..n /\ m + (j - m) = j
    <3> DEFINE i == j - m
    <3>1. i \in 1..n /\ s[j] = p[i]
      BY <1>7, <2>2
    <3>2. \A k \in 1..(j - 1) : k \in 1..m \/ (k - m \in 1..(i - 1) /\ m + (k - m) = k)
      BY <1>2, <2>2
    <3>3. \A k \in 1..m : k \in 1..(j - 1)
      BY <1>2, <2>2
    <3>4. \A k \in 1..(i - 1) : m + k \in 1..(j - 1) /\ k \in 1..n /\ k # i
      BY <1>2, <2>2
    <3> HIDE DEF i
    <3>5. {s[k] : k \in 1..(j - 1)} = ToSet(c) \cup {p[k] : k \in 1..(i - 1)}
      <4>1. {s[k] : k \in 1..(j - 1)} \subseteq ToSet(c) \cup {p[k] : k \in 1..(i - 1)}
        <5>1. ASSUME NEW k \in 1..(j - 1)
              PROVE  s[k] \in ToSet(c) \cup {p[l] : l \in 1..(i - 1)}
          <6>1. CASE k \in 1..m
            BY <1>5, <1>6, <6>1
          <6>2. CASE k - m \in 1..(i - 1) /\ m + (k - m) = k
            <7>1. s[k] = p[k - m]
              BY <1>7, <3>4, <6>2
            <7>2. QED
              BY <6>2, <7>1
          <6>3. QED
            BY <3>2, <6>1, <6>2
        <5>2. QED
          BY <5>1
      <4>2. ToSet(c) \subseteq {s[k] : k \in 1..(j - 1)}
        BY <1>5, <1>6, <3>3
      <4>3. \A k \in 1..(i - 1) : p[k] = s[m + k]
        BY <1>7, <3>4
      <4>4. {p[k] : k \in 1..(i - 1)} \subseteq {s[k] : k \in 1..(j - 1)}
        BY <3>4, <4>3
      <4>5. QED
        BY <4>1, <4>2, <4>4
    <3>6. Placed(B) \cup {s[k] : k \in 1..(j - 1)} = used \cup {p[k] : k \in 1..(i - 1)}
      BY <3>5
    <3>7. p[i] \notin used
      BY <1>1, <1>10, <3>1
    <3>8. p[i] \notin {p[k] : k \in 1..(i - 1)}
      BY <1>1, <3>1, <3>4
    <3>9. ancestors[p[i]] \subseteq used \cup {p[k] : k \in 1..(i - 1)}
      BY <1>1, <3>1
    <3>10. QED
      BY <3>1, <3>6, <3>7, <3>8, <3>9
  <2>3. QED
    BY <1>8, <2>1, <2>2
<1>12. OrderedAfter(B, s)
  BY <1>3, <1>11 DEF OrderedAfter
<1>13. QED
  BY <1>9, <1>12 DEF s, p

\* The inductive invariant of TopologicalOrder.
BlocksOrdered ==
    /\ Ordered(blocks) /\ OrderedAfter(blocks, cur_block)
    /\ used = Placed(blocks) \cup ToSet(cur_block)

LEMMA FinalizeOrdered ==
  ASSUME blocks \in Seq(Seq(Uid)), NEW cur \in Seq(Uid), Ordered(blocks),
         OrderedAfter(blocks, cur), UNCHANGED ancestors,
         NEW h, NEW wgt, NEW over, NEW fails, NEW usd, Finalize(h, cur, wgt, over, fails, usd)
  PROVE  /\ Ordered(blocks') /\ OrderedAfter(blocks', cur_block')
         /\ Placed(blocks') \cup ToSet(cur_block') = Placed(blocks) \cup ToSet(cur)
<1>1. CASE blocks' = Append(blocks, cur) /\ cur_block' = <<>>
  <2>1. Ordered(blocks')
    BY <1>1, AppendOrdered
  <2>2. OrderedAfter(blocks', <<>>) /\ ToSet(<<>>) = {}
    BY DEF OrderedAfter, ToSet
  <2>3. Placed(blocks') = Placed(blocks) \cup ToSet(cur)
    BY <1>1, AppendPlaced
  <2>4. QED
    BY <1>1, <2>1, <2>2, <2>3
<1>2. CASE blocks' = blocks /\ cur_block' = cur
  BY <1>2
<1>3. QED
  BY <1>1, <1>2 DEF Finalize

LEMMA InitOrdered == Init => BlocksOrdered
BY DEF Init, BlocksOrdered, Ordered, OrderedAfter, Placed, ToSet

LEMMA StepOrdered == GbtType /\ BlocksOrdered /\ [Next]_vars => BlocksOrdered'
<1> SUFFICES ASSUME GbtType, BlocksOrdered, [Next]_vars PROVE BlocksOrdered'
  OBVIOUS
<1>1. UNCHANGED ancestors
  BY DEF Next, PopUsed, PopStale, PopHold, PopInclude, Finish, vars, audits
<1>2. SUFFICES /\ Ordered(blocks') /\ OrderedAfter(blocks', cur_block')
               /\ used' = Placed(blocks') \cup ToSet(cur_block')
  <2>1. Ordered(blocks)' <=> Ordered(blocks')
    BY <1>1 DEF Ordered, EarlierIn, ToSet
  <2>2. OrderedAfter(blocks, cur_block)' <=> OrderedAfter(blocks', cur_block')
    BY <1>1 DEF OrderedAfter, Placed, ToSet
  <2>3. (Placed(blocks) \cup ToSet(cur_block))' = Placed(blocks') \cup ToSet(cur_block')
    BY DEF Placed, ToSet
  <2>4. QED
    BY <1>2, <2>1, <2>2, <2>3 DEF BlocksOrdered
<1>3. CASE UNCHANGED <<used, blocks, cur_block>>
  BY <1>3 DEF BlocksOrdered
<1>4. CASE PopHold
  <2>1. PICK item \in BagToSet(heap) :
            /\ Finalize(Rest(item), cur_block, block_weight, BagAdd(overflow, item.uid),
                        failures + 1, used)
            /\ used' = used
    BY <1>4 DEF PopHold
  <2>2. QED
    BY <1>1, <2>1, FinalizeOrdered DEF BlocksOrdered, GbtType
<1>5. CASE PopInclude
  <2>1. PICK item \in BagToSet(heap) :
            LET pkg == Package(item.uid, used)
                usd == used \cup pkg
            IN  /\ item.uid \notin used
                /\ used' = usd
                /\ Finalize(Rest(item) (+) Refreshed(pkg, usd),
                            cur_block \o PackageSeq(item.uid),
                            block_weight + SumOver(weight, pkg), overflow, 0, usd)
    BY <1>5 DEF PopInclude
  <2> DEFINE uid == item.uid
             cur == cur_block \o PackageSeq(uid)
  <2>2. uid \in Uid /\ uid \notin used
    BY <2>1 DEF GbtType, IsBagOver, Items
  <2>3. cur \in Seq(Uid)
    BY <2>2, PackageSeqFacts, ConcatProperties DEF GbtType, AuditsType
  <2>4. OrderedAfter(blocks, cur) /\ ToSet(cur) = ToSet(cur_block) \cup Package(uid, used)
    BY <2>2, PackageOrdered DEF GbtType, BlocksOrdered
  <2>5. \E h, wgt, over, fails, usd : Finalize(h, cur, wgt, over, fails, usd)
    BY <2>1
  <2> HIDE DEF cur
  <2>6. /\ Ordered(blocks') /\ OrderedAfter(blocks', cur_block')
        /\ Placed(blocks') \cup ToSet(cur_block') = Placed(blocks) \cup ToSet(cur)
    BY <1>1, <2>3, <2>4, <2>5, FinalizeOrdered DEF GbtType, BlocksOrdered
  <2>7. QED
    BY <2>1, <2>4, <2>6 DEF BlocksOrdered
<1>6. CASE Finish
  <2>1. CASE cur_block = <<>>
    BY <1>6, <2>1 DEF Finish, BlocksOrdered
  <2>2. CASE cur_block # <<>>
    <3>1. blocks' = Append(blocks, cur_block) /\ cur_block' = <<>> /\ used' = used
      BY <1>6, <2>2 DEF Finish
    <3>2. Ordered(blocks') /\ Placed(blocks') = Placed(blocks) \cup ToSet(cur_block)
      BY <3>1, AppendOrdered, AppendPlaced DEF GbtType, BlocksOrdered
    <3>3. OrderedAfter(blocks', <<>>) /\ ToSet(<<>>) = {}
      BY DEF OrderedAfter, ToSet
    <3>4. QED
      BY <3>1, <3>2, <3>3 DEF BlocksOrdered
  <2>3. QED
    BY <2>1, <2>2
<1>7. QED
  BY <1>3, <1>4, <1>5, <1>6 DEF Next, PopUsed, PopStale, vars

LEMMA OrderedThenTopological ==
  ASSUME GbtType, BlocksOrdered
  PROVE  TopologicalOrder
<1>1. Ordered(AllBlocks)
  BY AppendOrdered DEF AllBlocks, GbtType, BlocksOrdered
<1>2. QED
  BY <1>1 DEF Ordered, EarlierIn, TopologicalOrder, Earlier

\* For any dependencies and any fees, the blocks can be mined one after the other:
\* no transaction comes twice, and none before an ancestor (gbt.rs, the pop loop
\* and the order in which a package is appended).
THEOREM BlocksMinable == Spec => []TopologicalOrder
<1>1. Init => BlocksOrdered
  BY InitOrdered
<1>2. GbtType /\ BlocksOrdered /\ [Next]_vars => BlocksOrdered'
  BY StepOrdered
<1>3. GbtType /\ BlocksOrdered => TopologicalOrder
  BY OrderedThenTopological
<1>4. QED
  BY <1>1, <1>2, <1>3, AlwaysType, PTL DEF Spec

-----------------------------------------------------------------------------
\* The weight of the blocks.

\* What BlockWeightBound asks of a block.
Within(b, rates) ==
    \/ Reserved + SumOver(weight, ToSet(b)) <= MaxBlockWeight
    \/ \A u \in ToSet(b) :
           rates[u] = Rate(SumOver(fee, ToSet(b)), SumOver(weight, ToSet(b)))

BlocksWithin(B, rates) == \A i \in 1..Len(B) : i <= MaxBlocks - 1 => Within(B[i], rates)

\* The inductive invariant of BlockWeightBound: the running weight is the one of
\* the block under construction.
Weighed ==
    /\ pc = "pop" => block_weight = Reserved + SumOver(weight, ToSet(cur_block))
    /\ BlocksWithin(blocks, effective_rates)
    /\ Bounded => Within(cur_block, effective_rates)

LEMMA NoneWithin ==
  ASSUME NEW rates
  PROVE  ToSet(<<>>) = {} /\ Within(<<>>, rates)
BY DEF Within, ToSet

LEMMA SumOfNone == AuditsType => SumOver(weight, {}) = 0
<1>1. IsFiniteSet({})
  BY UidFinite
<1>2. Total(weight, {}) = 0
  BY <1>1, TotalStep
<1>3. QED
  BY <1>2, Sums DEF AuditsType

LEMMA AppendWithin ==
  ASSUME NEW B \in Seq(Seq(Uid)), NEW c \in Seq(Uid), NEW rates, BlocksWithin(B, rates),
         Len(B) < MaxBlocks - 1 => Within(c, rates)
  PROVE  BlocksWithin(Append(B, c), rates)
<1> DEFINE n == Len(B)
           A == Append(B, c)
<1>1. n \in Nat /\ Len(A) = n + 1 /\ A[n + 1] = c /\ \A k \in 1..n : A[k] = B[k]
  BY LenProperties, AppendProperties
<1> HIDE DEF n, A
<1>2. \A i \in 1..(n + 1) : i \in 1..n \/ i = n + 1
  BY <1>1
<1>3. n + 1 <= MaxBlocks - 1 => n < MaxBlocks - 1
  BY <1>1, GbtAssumption
<1>4. \A i \in 1..n : i <= MaxBlocks - 1 => Within(A[i], rates)
  BY <1>1 DEF BlocksWithin, n
<1>5. n + 1 <= MaxBlocks - 1 => Within(A[n + 1], rates)
  BY <1>1, <1>3 DEF n
<1>6. \A i \in 1..(n + 1) : i <= MaxBlocks - 1 => Within(A[i], rates)
  BY <1>2, <1>4, <1>5
<1>7. QED
  BY <1>1, <1>6 DEF BlocksWithin, A

LEMMA FinalizeWeighed ==
  ASSUME AuditsType, blocks \in Seq(Seq(Uid)), NEW cur \in Seq(Uid), NEW rates,
         BlocksWithin(blocks, rates), Bounded => Within(cur, rates),
         NEW wgt, wgt = Reserved + SumOver(weight, ToSet(cur)),
         NEW h, NEW over, NEW fails, NEW usd, Finalize(h, cur, wgt, over, fails, usd)
  PROVE  /\ block_weight' = Reserved + SumOver(weight, ToSet(cur_block'))
         /\ BlocksWithin(blocks', rates)
         /\ Len(blocks') < MaxBlocks - 1 => Within(cur_block', rates)
<1>1. CASE blocks' = Append(blocks, cur) /\ cur_block' = <<>> /\ block_weight' = Reserved
  <2>1. BlocksWithin(blocks', rates)
    BY <1>1, AppendWithin DEF Bounded
  <2>2. block_weight' = Reserved + SumOver(weight, ToSet(cur_block'))
    <3>1. SumOver(weight, ToSet(<<>>)) = 0
      BY SumOfNone, NoneWithin
    <3>2. Reserved + 0 = Reserved
      BY GbtAssumption
    <3>3. QED
      BY <1>1, <3>1, <3>2
  <2>3. QED
    BY <1>1, <2>1, <2>2, NoneWithin
<1>2. CASE blocks' = blocks /\ cur_block' = cur /\ block_weight' = wgt
  BY <1>2 DEF Bounded
<1>3. QED
  BY <1>1, <1>2 DEF Finalize

LEMMA InitWeighed == Init => Weighed
<1> SUFFICES ASSUME Init PROVE Weighed
  OBVIOUS
<1>1. blocks = <<>> /\ cur_block = <<>> /\ block_weight = Reserved
  BY DEF Init
<1>2. AuditsType
  BY InitType DEF GbtType
<1>3. block_weight = Reserved + SumOver(weight, ToSet(cur_block))
  BY <1>1, <1>2, SumOfNone, NoneWithin, GbtAssumption
<1>4. BlocksWithin(blocks, effective_rates)
  BY <1>1 DEF BlocksWithin
<1>5. QED
  BY <1>1, <1>3, <1>4, NoneWithin DEF Weighed

\* The block that a package is added to.
LEMMA IncludeWithin ==
  ASSUME GbtType, BlocksOrdered, Weighed, pc = "pop", NEW uid \in Uid, uid \notin used, Fits(uid),
         NEW cur, cur = cur_block \o PackageSeq(uid),
         NEW pkg, pkg = Package(uid, used),
         NEW rates, \A u \in pkg : rates[u] = ClusterRate(uid)
  PROVE  /\ block_weight + SumOver(weight, pkg) = Reserved + SumOver(weight, ToSet(cur))
         /\ Bounded => Within(cur, rates)
<1> DEFINE S == ToSet(cur_block)
<1>1. /\ AuditsType /\ fee \in [Uid -> Nat] /\ weight \in [Uid -> Nat]
      /\ ancestors \in AncestorMaps
  BY DEF GbtType, AuditsType
<1>2. ToSet(cur) = S \cup pkg /\ S \subseteq used /\ used \subseteq Uid
  BY PackageOrdered DEF GbtType, BlocksOrdered
<1>3. pkg \in SUBSET Uid /\ S \in SUBSET Uid /\ S \cap pkg = {}
  <2>1. pkg \subseteq Uid
    BY <1>1, PackageWithin
  <2>2. pkg \cap used = {}
    BY DEF Package
  <2>3. QED
    BY <1>2, <2>1, <2>2
<1>4. SumOver(weight, S \cup pkg) = SumOver(weight, S) + SumOver(weight, pkg)
  <2>1. IsFiniteSet(S) /\ IsFiniteSet(pkg) /\ S \cup pkg \in SUBSET Uid
    BY <1>3, UidFinite
  <2>2. \A u \in S \cup pkg : weight[u] \in Nat
    BY <1>1, <2>1
  <2>3. Total(weight, S \cup pkg) = Total(weight, S) + Total(weight, pkg)
    BY <1>3, <2>1, <2>2, TotalUnion
  <2>4. QED
    BY <1>1, <1>3, <2>1, <2>3, Sums
<1>5. /\ SumOver(weight, S) \in Nat /\ SumOver(weight, pkg) \in Nat /\ Reserved \in Nat
      /\ block_weight = Reserved + SumOver(weight, S)
  BY <1>1, <1>3, Sums, GbtAssumption DEF Weighed
<1>6. block_weight + SumOver(weight, pkg) = Reserved + SumOver(weight, ToSet(cur))
  BY <1>2, <1>4, <1>5
<1>7. ASSUME Bounded PROVE Within(cur, rates)
  <2>1. CASE cur_block = <<>>
    <3>1. ToSet(cur) = pkg
      BY <1>2, <2>1, NoneWithin
    <3>2. ClusterRate(uid) = Rate(SumOver(fee, pkg), SumOver(weight, pkg))
      BY DEF ClusterRate, PackageRate
    <3>3. QED
      BY <3>1, <3>2 DEF Within
  <2>2. CASE block_weight + SumOver(weight, pkg) <= MaxBlockWeight
    BY <1>6, <2>2 DEF Within
  <2>3. QED
    BY <1>7, <2>1, <2>2 DEF Fits
<1>8. QED
  BY <1>6, <1>7

\* Rates once given are not changed.
LEMMA WithinKept ==
  ASSUME NEW rates, NEW rates2, NEW S, \A u \in S : rates2[u] = rates[u],
         NEW b, ToSet(b) \subseteq S, Within(b, rates)
  PROVE  Within(b, rates2)
BY DEF Within

LEMMA StepWeighed ==
  GbtType /\ BlocksOrdered /\ Weighed /\ [Next]_vars => Weighed'
<1> SUFFICES ASSUME GbtType, BlocksOrdered, Weighed, [Next]_vars PROVE Weighed'
  OBVIOUS
<1>1. fee' = fee /\ weight' = weight /\ AuditsType
  BY DEF Next, PopUsed, PopStale, PopHold, PopInclude, Finish, vars, audits, GbtType
<1>2. SUFFICES /\ pc' = "pop" => block_weight' = Reserved + SumOver(weight, ToSet(cur_block'))
               /\ BlocksWithin(blocks', effective_rates')
               /\ Len(blocks') < MaxBlocks - 1 => Within(cur_block', effective_rates')
  <2>1. BlocksWithin(blocks, effective_rates)' <=> BlocksWithin(blocks', effective_rates')
    BY <1>1 DEF BlocksWithin, Within, ToSet
  <2>2. Within(cur_block, effective_rates)' <=> Within(cur_block', effective_rates')
    BY <1>1 DEF Within, ToSet
  <2>3. SumOver(weight, ToSet(cur_block))' = SumOver(weight, ToSet(cur_block'))
    BY <1>1 DEF ToSet
  <2>4. QED
    BY <1>2, <2>1, <2>2, <2>3 DEF Weighed, Bounded
<1>3. CASE UNCHANGED <<blocks, cur_block, block_weight, effective_rates, pc>>
  BY <1>3 DEF Weighed, Bounded
<1>4. CASE PopHold
  <2>1. PICK item \in BagToSet(heap) :
            /\ Pop(item)
            /\ Finalize(Rest(item), cur_block, block_weight, BagAdd(overflow, item.uid),
                        failures + 1, used)
            /\ effective_rates' = effective_rates
    BY <1>4 DEF PopHold
  <2>2. block_weight = Reserved + SumOver(weight, ToSet(cur_block))
    BY <2>1 DEF Weighed, Pop
  <2>3. QED
    BY <1>1, <2>1, <2>2, FinalizeWeighed DEF Weighed, GbtType
<1>5. CASE PopInclude
  <2>1. PICK item \in BagToSet(heap) :
            LET uid == item.uid
                pkg == Package(uid, used)
                usd == used \cup pkg
            IN  /\ Pop(item)
                /\ uid \notin used
                /\ Fits(uid)
                /\ effective_rates' =
                      [u \in usd |-> IF u \in pkg THEN ClusterRate(uid) ELSE effective_rates[u]]
                /\ Finalize(Rest(item) (+) Refreshed(pkg, usd), cur_block \o PackageSeq(uid),
                            block_weight + SumOver(weight, pkg), overflow, 0, usd)
    BY <1>5 DEF PopInclude
  <2> DEFINE uid == item.uid
             pkg == Package(uid, used)
             cur == cur_block \o PackageSeq(uid)
             wgt == block_weight + SumOver(weight, pkg)
  <2>2. uid \in Uid /\ uid \notin used /\ Fits(uid) /\ pc = "pop"
    BY <2>1 DEF GbtType, IsBagOver, Items, Pop
  <2>3. /\ \A u \in pkg : effective_rates'[u] = ClusterRate(uid)
        /\ \A u \in used : effective_rates'[u] = effective_rates[u]
    <3>1. \A u \in used : u \notin pkg
      BY <2>2 DEF Package
    <3>2. QED
      BY <2>1, <3>1
  <2>4. cur \in Seq(Uid)
    BY <2>2, PackageSeqFacts, ConcatProperties DEF GbtType, AuditsType
  <2>5. \E h, over, fails, usd : Finalize(h, cur, wgt, over, fails, usd)
    BY <2>1
  <2>6. /\ wgt = Reserved + SumOver(weight, ToSet(cur))
        /\ Bounded => Within(cur, effective_rates')
    BY <2>2, <2>3, IncludeWithin
  <2>7. BlocksWithin(blocks, effective_rates')
    <3>1. \A i \in 1..Len(blocks) : ToSet(blocks[i]) \subseteq used
      BY DEF BlocksOrdered, Placed
    <3> HIDE DEF pkg, cur, wgt
    <3>2. QED
      BY <2>3, <3>1, WithinKept DEF Weighed, BlocksWithin
  <2> HIDE DEF cur, wgt, pkg
  <2>8. QED
    BY <1>1, <2>4, <2>5, <2>6, <2>7, FinalizeWeighed DEF GbtType
<1>6. CASE Finish
  <2>1. /\ blocks' = IF cur_block = <<>> THEN blocks ELSE Append(blocks, cur_block)
        /\ cur_block' = <<>> /\ pc' # "pop" /\ effective_rates' = effective_rates
    BY <1>6 DEF Finish
  <2>2. BlocksWithin(blocks', effective_rates)
    BY <2>1, AppendWithin DEF Weighed, Bounded, GbtType
  <2>3. QED
    BY <2>1, <2>2, NoneWithin
<1>7. QED
  BY <1>3, <1>4, <1>5, <1>6 DEF Next, PopUsed, PopStale, vars

LEMMA WeighedThenBound ==
  ASSUME GbtType, Weighed
  PROVE  BlockWeightBound
<1>1. Len(blocks) \in Nat /\ MaxBlocks \in Nat
  BY LenProperties, GbtAssumption DEF GbtType
<1>2. \A i \in 1..Len(blocks) \cap 1..(MaxBlocks - 1) : Within(blocks[i], effective_rates)
  BY <1>1 DEF Weighed, BlocksWithin
<1>3. QED
  BY <1>2 DEF BlockWeightBound, Within, Weighed

\* However packages, overflow, requeues and the failure limit combine, a bounded
\* block is within the limit unless it is one package that no block could hold
\* (gbt.rs, the fit test and `cur_block.is_empty()`).
THEOREM BlocksFit == Spec => []BlockWeightBound
<1>1. Init => BlocksOrdered /\ Weighed
  BY InitOrdered, InitWeighed
<1>2. GbtType /\ BlocksOrdered /\ Weighed /\ [Next]_vars => BlocksOrdered' /\ Weighed'
  BY StepOrdered, StepWeighed
<1>3. GbtType /\ Weighed => BlockWeightBound
  BY WeighedThenBound
<1>4. QED
  BY <1>1, <1>2, <1>3, AlwaysType, PTL DEF Spec

-----------------------------------------------------------------------------
\* Scores are compared as fractions.

\* r is at most s, and s at most t.
LEMMA AtMostTrans ==
  ASSUME NEW r \in Scores, NEW s \in Scores, NEW t \in Scores, ~Less(s, r), ~Less(t, s)
  PROVE  ~Less(t, r)
<1> DEFINE a == r[1]  b == r[2]  c == s[1]  d == s[2]  e == t[1]  f == t[2]
<1>1. a \in Nat /\ b \in Nat \ {0} /\ c \in Nat /\ d \in Nat \ {0} /\ e \in Nat /\ f \in Nat \ {0}
  BY DEF Scores
<1>2. ~(c * b < a * d) /\ ~(e * d < c * f)
  BY DEF Less
<1> HIDE DEF a, b, c, d, e, f
<1>3. /\ a * d \in Nat /\ c * b \in Nat /\ c * f \in Nat /\ e * d \in Nat
      /\ a * f \in Nat /\ e * b \in Nat
  BY <1>1
<1>4. (a * d) * f <= (c * b) * f
  BY <1>1, <1>2, <1>3, ScaleUp
<1>5. (c * f) * b <= (e * d) * b
  BY <1>1, <1>2, <1>3, ScaleUp
<1>6. (a * d) * f = d * (a * f) /\ (c * b) * f = (c * f) * b /\ (e * d) * b = d * (e * b)
  BY <1>1
<1>7. d * (a * f) <= d * (e * b)
  <2>1. (c * f) * b \in Nat /\ d * (a * f) \in Nat /\ d * (e * b) \in Nat
    BY <1>1, <1>3
  <2>2. QED
    BY <1>4, <1>5, <1>6, <2>1
<1>8. a * f <= e * b
  BY <1>1, <1>3, <1>7, Cancel
<1>9. QED
  BY <1>3, <1>8 DEF Less, a, b, e, f

LEMMA SameAtMost ==
  ASSUME NEW r \in Scores, NEW s \in Scores, Same(r, s)
  PROVE  ~Less(r, s) /\ ~Less(s, r) /\ ~Less(r, r)
<1>1. r[1] \in Nat /\ r[2] \in Nat /\ s[1] \in Nat /\ s[2] \in Nat
  BY DEF Scores
<1>2. /\ r[1] * s[2] \in Nat /\ s[1] * r[2] \in Nat /\ r[1] * r[2] \in Nat
      /\ r[1] * s[2] = s[1] * r[2]
  BY <1>1 DEF Same
<1>3. QED
  BY <1>2 DEF Less

\* The score is the smaller of two rates.
LEMMA ScoreAtMost ==
  ASSUME AuditsType, NEW u \in Uid, NEW usd
  PROVE  ~Less(PackageRate(u, usd), ScoreOf(u, usd))
<1>1. PackageRate(u, usd) \in Scores
  BY ScoreType
<1>2. ~Less(PackageRate(u, usd), PackageRate(u, usd))
  BY <1>1, SameAtMost DEF Same
<1>3. QED
  BY <1>2 DEF ScoreOf

-----------------------------------------------------------------------------
\* The choice of the loop.

\* Whatever is not held back scores at most what the item popped says, if that
\* is not stale.
LEMMA PoppedBest ==
  ASSUME GbtType, HeapCurrent, NEW item \in BagToSet(heap), Pop(item), ~Stale(item),
         NEW v \in Uid \ used, v \notin BagToSet(overflow)
  PROVE  ~Less(ScoreOf(item.uid, used), ScoreOf(v, used))
<1>1. HeapItem(v, used) \in BagToSet(heap)
  BY DEF HeapCurrent, Pop
<1>2. ~Less(item.score, ScoreOf(v, used))
  BY <1>1 DEF Pop, Before, HeapItem
<1>3. Same(item.score, ScoreOf(item.uid, used))
  BY DEF Stale
<1>4. item.uid \in Uid /\ item.score \in Scores
  BY DEF GbtType, IsBagOver, Items
<1>5. ScoreOf(item.uid, used) \in Scores /\ ScoreOf(v, used) \in Scores
  BY <1>4, ScoreType DEF GbtType
<1>6. ~Less(ScoreOf(item.uid, used), item.score)
  BY <1>3, <1>4, <1>5, SameAtMost
<1>7. QED
  BY <1>2, <1>4, <1>5, <1>6, AtMostTrans

\* The item of an iteration that includes a package, which goes to the end.
LEMMA Included ==
  ASSUME GbtType, PopInclude
  PROVE  \E item \in BagToSet(heap) :
             /\ Pop(item) /\ item.uid \in Uid /\ item.uid \notin used
             /\ ~Stale(item) /\ Fits(item.uid)
             /\ used' = used \cup Package(item.uid, used)
             /\ effective_rates' =
                   [u \in used' |-> IF u \in Package(item.uid, used) THEN ClusterRate(item.uid)
                                                                      ELSE effective_rates[u]]
             /\ LatestPlaced' = item.uid
<1>1. PICK item \in BagToSet(heap) :
          LET uid == item.uid
              pkg == Package(uid, used)
              usd == used \cup pkg
          IN  /\ Pop(item) /\ uid \notin used /\ ~Stale(item) /\ Fits(uid)
              /\ used' = usd
              /\ effective_rates' =
                    [u \in usd |-> IF u \in pkg THEN ClusterRate(uid) ELSE effective_rates[u]]
              /\ Finalize(Rest(item) (+) Refreshed(pkg, usd), cur_block \o PackageSeq(uid),
                          block_weight + SumOver(weight, pkg), overflow, 0, usd)
  BY DEF PopInclude
<1> DEFINE p == PackageSeq(item.uid)
           cur == cur_block \o p
<1>2. item.uid \in Uid /\ item.uid \notin used
  BY <1>1 DEF GbtType, IsBagOver, Items
<1>3. p \in Seq(Uid) /\ p # <<>> /\ Last(p) = item.uid /\ cur_block \in Seq(Uid)
  BY <1>2, PackageSeqFacts DEF GbtType, AuditsType
<1>4. \/ blocks' = Append(blocks, cur) /\ cur_block' = <<>>
      \/ blocks' = blocks /\ cur_block' = cur
  BY <1>1 DEF Finalize
<1> HIDE DEF p
<1>5. Last(cur) = item.uid /\ cur # <<>> /\ cur \in Seq(Uid)
  <2>1. /\ cur \in Seq(Uid) /\ Len(cur) = Len(cur_block) + Len(p)
        /\ \A i \in 1..(Len(cur_block) + Len(p)) :
               cur[i] = IF i <= Len(cur_block) THEN cur_block[i] ELSE p[i - Len(cur_block)]
    BY <1>3, ConcatProperties
  <2>2. Len(p) \in Nat \ {0} /\ Len(cur_block) \in Nat
    BY <1>3, EmptySeq, LenProperties
  <2> DEFINE m == Len(cur_block)
             n == Len(p)
  <2> HIDE DEF m, n, cur
  <2>3. m + n \in 1..(m + n) /\ ~(m + n <= m) /\ (m + n) - m = n
    BY <2>2 DEF m, n
  <2>4. cur[m + n] = p[n]
    BY <2>1, <2>3 DEF m, n
  <2>5. Len(cur) = m + n /\ m + n # 0
    BY <2>1, <2>2 DEF m, n
  <2>6. cur # <<>>
    BY <2>5, EmptySeq
  <2>7. QED
    BY <1>3, <2>1, <2>4, <2>5, <2>6 DEF Last, n
<1> HIDE DEF cur
<1>6. AllBlocks' = Append(blocks, cur)
  BY <1>4, <1>5 DEF AllBlocks
<1>7. Last(Append(blocks, cur)) = cur
  BY <1>5, AppendProperties DEF Last, GbtType
<1>8. LatestPlaced' = item.uid
  BY <1>5, <1>6, <1>7 DEF LatestPlaced, Last
<1>9. QED
  BY <1>1, <1>2, <1>8

LEMMA OnlyIncludePlaces ==
  ASSUME [Next]_vars, used' # used
  PROVE  PopInclude
BY DEF Next, PopUsed, PopStale, PopHold, Finish, vars

LEMMA StepBest ==
  ASSUME GbtType, HeapCurrent, [Next]_vars, used' # used, NEW v \in Uid \ used,
         v \notin BagToSet(overflow)
  PROVE  ~Less(ScoreOf(LatestPlaced', used), ScoreOf(v, used))
<1>1. PICK item \in BagToSet(heap) : Pop(item) /\ ~Stale(item) /\ LatestPlaced' = item.uid
  BY OnlyIncludePlaces, Included
<1>2. QED
  BY <1>1, PoppedBest

\* Although items are refreshed lazily and old ones are never removed, what the
\* loop places is always the best transaction that is not held back (gbt.rs, the
\* test of a popped score and refresh_descendants).
THEOREM GreedyChoice == Spec => GreedyBest
<1>1. GbtType /\ HeapCurrent /\ [Next]_vars =>
          [used' # used =>
              \A v \in Uid \ used :
                  \/ v \in BagToSet(overflow)
                  \/ ~Less(ScoreOf(LatestPlaced', used), ScoreOf(v, used))]_vars
  BY StepBest
<1>2. QED
  BY <1>1, AlwaysType, HeapTracksScores, PTL DEF Spec, GreedyBest

-----------------------------------------------------------------------------
\* What is held back.

\* Nothing held back fits the block under construction, however many of its
\* ancestors have been placed since.
HeldBack ==
    pc = "pop" =>
        /\ BagToSet(overflow) # {} => Bounded /\ cur_block # <<>>
        /\ \A o \in BagToSet(overflow) \ used :
               ~(block_weight + SumOver(weight, Package(o, used)) <= MaxBlockWeight)

\* A package that contains another one weighs at least as much.
LEMMA Heavier ==
  ASSUME AuditsType, NEW S \in SUBSET Uid, NEW T \in SUBSET S
  PROVE  SumOver(weight, T) <= SumOver(weight, S)
<1>1. IsFiniteSet(S) /\ \A u \in S : weight[u] \in Nat
  BY UidFinite DEF AuditsType
<1>2. Total(weight, T) <= Total(weight, S)
  BY <1>1, TotalSubset
<1>3. QED
  BY <1>2, Sums DEF AuditsType

LEMMA SumsUnion ==
  ASSUME AuditsType, NEW S \in SUBSET Uid, NEW T \in SUBSET Uid, S \cap T = {}
  PROVE  SumOver(weight, S \cup T) = SumOver(weight, S) + SumOver(weight, T)
<1>1. IsFiniteSet(S) /\ IsFiniteSet(T) /\ \A u \in S \cup T : weight[u] \in Nat
  BY UidFinite DEF AuditsType
<1>2. Total(weight, S \cup T) = Total(weight, S) + Total(weight, T)
  BY <1>1, TotalUnion
<1>3. QED
  BY <1>2, Sums DEF AuditsType

\* What a package loses to another one, the block gains.
LEMMA StillTooHeavy ==
  ASSUME AuditsType, used \subseteq Uid, NEW w \in Nat, NEW o \in Uid, NEW uid \in Uid,
         ~(w + SumOver(weight, Package(o, used)) <= MaxBlockWeight)
  PROVE  LET pkg == Package(uid, used)
         IN  ~((w + SumOver(weight, pkg))
                  + SumOver(weight, Package(o, used \cup pkg)) <= MaxBlockWeight)
<1> DEFINE pkg == Package(uid, used)
           P == Package(o, used)
           Q == Package(o, used \cup pkg) \ pkg
<1>1. pkg \in SUBSET Uid /\ P \in SUBSET Uid /\ Q \in SUBSET Uid
      /\ Package(o, used \cup pkg) \in SUBSET Uid
  BY PackageWithin DEF AuditsType
<1>2. P \subseteq pkg \cup Q /\ pkg \cap Q = {} /\ pkg \cup Q \in SUBSET Uid
  BY <1>1 DEF Package
<1>3. Q \subseteq Package(o, used \cup pkg)
  OBVIOUS
<1> HIDE DEF pkg, P, Q
<1>4. SumOver(weight, P) <= SumOver(weight, pkg \cup Q)
  BY <1>2, Heavier
<1>5. SumOver(weight, pkg \cup Q) = SumOver(weight, pkg) + SumOver(weight, Q)
  BY <1>1, <1>2, SumsUnion
<1>6. SumOver(weight, Q) <= SumOver(weight, Package(o, used \cup pkg))
  BY <1>1, <1>3, Heavier
<1>7. /\ SumOver(weight, P) \in Nat /\ SumOver(weight, pkg) \in Nat /\ SumOver(weight, Q) \in Nat
      /\ SumOver(weight, Package(o, used \cup pkg)) \in Nat /\ MaxBlockWeight \in Nat
  BY <1>1, Sums, GbtAssumption DEF AuditsType
<1>8. ~(w + SumOver(weight, P) <= MaxBlockWeight)
  BY DEF P
<1>9. ~((w + SumOver(weight, pkg)) + SumOver(weight, Package(o, used \cup pkg)) <= MaxBlockWeight)
  BY <1>4, <1>5, <1>6, <1>7, <1>8
<1>10. QED
  BY <1>9 DEF pkg

LEMMA WeightType ==
  ASSUME GbtType, BlocksOrdered, Weighed, pc = "pop"
  PROVE  block_weight \in Nat
<1>1. ToSet(cur_block) \in SUBSET Uid
  BY DEF BlocksOrdered, GbtType
<1>2. SumOver(weight, ToSet(cur_block)) \in Nat
  BY <1>1, Sums DEF GbtType, AuditsType
<1>3. QED
  BY <1>2, GbtAssumption DEF Weighed

LEMMA FinalizeHeld ==
  ASSUME NEW cur, NEW wgt, NEW over, NEW usd, NEW h, NEW fails,
         BagToSet(over) # {} => Bounded /\ cur # <<>>,
         \A o \in BagToSet(over) \ usd :
             ~(wgt + SumOver(weight, Package(o, usd)) <= MaxBlockWeight),
         Finalize(h, cur, wgt, over, fails, usd)
  PROVE  /\ BagToSet(overflow') # {} => Len(blocks') < MaxBlocks - 1 /\ cur_block' # <<>>
         /\ \A o \in BagToSet(overflow') \ usd :
                ~(block_weight' + SumOver(weight, Package(o, usd)) <= MaxBlockWeight)
<1>1. CASE overflow' = EmptyBag
  <2>1. BagToSet(EmptyBag) = {}
    BY DEF EmptyBag, SetToBag, BagToSet
  <2>2. QED
    BY <1>1, <2>1
<1>2. CASE overflow' = over /\ blocks' = blocks /\ cur_block' = cur /\ block_weight' = wgt
  BY <1>2 DEF Bounded
<1>3. QED
  BY <1>1, <1>2 DEF Finalize

LEMMA StepHeld ==
  GbtType /\ BlocksOrdered /\ Weighed /\ HeldBack /\ [Next]_vars => HeldBack'
<1> SUFFICES ASSUME GbtType, BlocksOrdered, Weighed, HeldBack, [Next]_vars, pc' = "pop"
             PROVE  HeldBack'
  BY DEF HeldBack
<1>1. fee' = fee /\ weight' = weight /\ ancestors' = ancestors /\ pc = "pop" /\ AuditsType
  BY DEF Next, PopUsed, PopStale, PopHold, PopInclude, Finish, Pop, vars, audits, GbtType
<1>2. SUFFICES /\ BagToSet(overflow') # {} => Len(blocks') < MaxBlocks - 1 /\ cur_block' # <<>>
               /\ \A o \in BagToSet(overflow') \ used' :
                      ~(block_weight' + SumOver(weight, Package(o, used')) <= MaxBlockWeight)
  <2>1. \A o : (SumOver(weight, Package(o, used)))' = SumOver(weight, Package(o, used'))
    BY <1>1 DEF Package
  <2>2. QED
    BY <1>2, <2>1 DEF HeldBack, Bounded, BagToSet
<1>3. CASE UNCHANGED <<overflow, blocks, cur_block, block_weight, used>>
  BY <1>1, <1>3 DEF HeldBack, Bounded
<1>4. CASE PopHold
  <2>1. PICK item \in BagToSet(heap) :
            /\ ~Fits(item.uid)
            /\ Finalize(Rest(item), cur_block, block_weight, BagAdd(overflow, item.uid),
                        failures + 1, used)
            /\ used' = used
    BY <1>4 DEF PopHold
  <2>2. BagToSet(BagAdd(overflow, item.uid)) = BagToSet(overflow) \cup {item.uid}
    BY AddKeeps
  <2>3. Bounded /\ cur_block # <<>>
        /\ ~(block_weight + SumOver(weight, Package(item.uid, used)) <= MaxBlockWeight)
    BY <2>1 DEF Fits
  <2> DEFINE over == BagAdd(overflow, item.uid)
  <2>4. \A o \in BagToSet(over) \ used :
            ~(block_weight + SumOver(weight, Package(o, used)) <= MaxBlockWeight)
    BY <1>1, <2>2, <2>3 DEF HeldBack
  <2> HIDE DEF over
  <2>5. \E h, fails : Finalize(h, cur_block, block_weight, over, fails, used)
    BY <2>1 DEF over
  <2>6. QED
    BY <2>1, <2>3, <2>4, <2>5, FinalizeHeld
<1>5. CASE PopInclude
  <2>1. PICK item \in BagToSet(heap) :
            LET uid == item.uid
                pkg == Package(uid, used)
                usd == used \cup pkg
            IN  /\ uid \notin used
                /\ used' = usd
                /\ Finalize(Rest(item) (+) Refreshed(pkg, usd), cur_block \o PackageSeq(uid),
                            block_weight + SumOver(weight, pkg), overflow, 0, usd)
    BY <1>5 DEF PopInclude
  <2> DEFINE uid == item.uid
             pkg == Package(uid, used)
             cur == cur_block \o PackageSeq(uid)
             wgt == block_weight + SumOver(weight, pkg)
  <2>2. uid \in Uid /\ uid \notin used /\ used' = used \cup pkg
    BY <2>1 DEF GbtType, IsBagOver, Items
  <2>3. BagToSet(overflow) # {} => Bounded /\ cur # <<>>
    <3>1. PackageSeq(uid) \in Seq(Uid) /\ PackageSeq(uid) # <<>> /\ cur_block \in Seq(Uid)
      BY <2>2, PackageSeqFacts DEF GbtType, AuditsType
    <3>2. cur # <<>>
      BY <3>1, ConcatEqualIffEmpty
    <3>3. QED
      BY <1>1, <3>2 DEF HeldBack
  <2>4. ASSUME NEW o \in BagToSet(overflow) \ used'
        PROVE  ~(wgt + SumOver(weight, Package(o, used')) <= MaxBlockWeight)
    <3>1. ~(block_weight + SumOver(weight, Package(o, used)) <= MaxBlockWeight) /\ o \in Uid
      BY <1>1, <2>2 DEF HeldBack, GbtType, IsBagOver
    <3>2. block_weight \in Nat
      BY <1>1, WeightType
    <3>3. QED
      BY <2>2, <3>1, <3>2, StillTooHeavy DEF GbtType
  <2>5. \E h, fails : Finalize(h, cur, wgt, overflow, fails, used')
    BY <2>1
  <2> HIDE DEF cur, wgt
  <2>6. QED
    BY <2>3, <2>4, <2>5, FinalizeHeld
<1>6. CASE Finish
  BY <1>6 DEF Finish
<1>7. QED
  BY <1>3, <1>4, <1>5, <1>6 DEF Next, PopUsed, PopStale, vars

LEMMA InitHeld == Init => HeldBack
BY DEF Init, HeldBack, EmptyBag, SetToBag, BagToSet

\* A package that fits has no member that is held back; so each of them scores
\* at most what the package pays.
LEMMA StepLifts ==
  ASSUME GbtType, HeapCurrent, BlocksOrdered, Weighed, HeldBack, [Next]_vars,
         NEW u \in used' \ used
  PROVE  ~Less(effective_rates'[u], ScoreOf(u, used))
<1>1. PICK item \in BagToSet(heap) :
          /\ Pop(item) /\ item.uid \in Uid /\ item.uid \notin used
          /\ ~Stale(item) /\ Fits(item.uid)
          /\ used' = used \cup Package(item.uid, used)
          /\ effective_rates' =
                [v \in used' |-> IF v \in Package(item.uid, used) THEN ClusterRate(item.uid)
                                                                  ELSE effective_rates[v]]
  BY OnlyIncludePlaces, Included
<1> DEFINE uid == item.uid
<1>2. u \in Package(uid, used) /\ effective_rates'[u] = PackageRate(uid, used)
  BY <1>1 DEF ClusterRate
<1>3. ~Less(PackageRate(uid, used), ScoreOf(uid, used)) /\ AuditsType
  BY <1>1, ScoreAtMost DEF GbtType
<1>4. CASE u = uid
  BY <1>2, <1>3, <1>4
<1>5. CASE u # uid
  <2>1. u \in ancestors[uid] /\ u \in Uid \ used /\ Package(u, used) \subseteq Package(uid, used)
    BY <1>1, <1>2, <1>3, <1>5, AncestorFacts DEF Package, AuditsType
  <2>2. ASSUME u \in BagToSet(overflow) PROVE FALSE
    <3>1. /\ Bounded /\ cur_block # <<>>
          /\ ~(block_weight + SumOver(weight, Package(u, used)) <= MaxBlockWeight)
      BY <1>1, <2>1, <2>2 DEF HeldBack, Pop
    <3>2. block_weight + SumOver(weight, Package(uid, used)) <= MaxBlockWeight
      BY <1>1, <3>1 DEF Fits
    <3>3. SumOver(weight, Package(u, used)) <= SumOver(weight, Package(uid, used))
      BY <1>1, <1>3, <2>1, PackageWithin, Heavier DEF AuditsType
    <3>4. /\ block_weight \in Nat /\ MaxBlockWeight \in Nat
          /\ SumOver(weight, Package(u, used)) \in Nat
          /\ SumOver(weight, Package(uid, used)) \in Nat
      BY <1>1, <1>3, <2>1, WeightType, PackageWithin, Sums, GbtAssumption DEF AuditsType, Pop
    <3>5. QED
      BY <3>1, <3>2, <3>3, <3>4
  <2>3. ~Less(ScoreOf(uid, used), ScoreOf(u, used))
    BY <1>1, <2>1, <2>2, PoppedBest
  <2>4. /\ ScoreOf(u, used) \in Scores /\ ScoreOf(uid, used) \in Scores
        /\ PackageRate(uid, used) \in Scores
    BY <1>1, <1>3, <2>1, ScoreType
  <2>5. QED
    BY <1>2, <1>3, <2>3, <2>4, AtMostTrans
<1>6. QED
  BY <1>4, <1>5

\* The rate that every member of a package gets is never below its own score:
\* the package is only taken where all of its members could have been taken
\* (gbt.rs, cluster_rate).
THEOREM LiftsOnly == Spec => LiftNeverLowers
<1>1. Init => BlocksOrdered /\ Weighed /\ HeldBack
  BY InitOrdered, InitWeighed, InitHeld
<1>2. GbtType /\ BlocksOrdered /\ Weighed /\ HeldBack /\ [Next]_vars
          => BlocksOrdered' /\ Weighed' /\ HeldBack'
  BY StepOrdered, StepWeighed, StepHeld
<1>3. GbtType /\ HeapCurrent /\ BlocksOrdered /\ Weighed /\ HeldBack /\ [Next]_vars =>
          [\A u \in used' \ used : ~Less(effective_rates'[u], ScoreOf(u, used))]_vars
  BY StepLifts
<1>4. QED
  BY <1>1, <1>2, <1>3, AlwaysType, HeapTracksScores, PTL DEF Spec, LiftNeverLowers

-----------------------------------------------------------------------------
\* What the loop leaves out.

LEMMA InitLeftOut == Init => LeftOutOnlyWhenFull
BY DEF Init, LeftOutOnlyWhenFull

\* Once the heap is drained, only what is held back has no place; and that was
\* held back from the block under construction, which becomes the last one.
LEMMA FinishLeftOut ==
  ASSUME GbtType, HeapCurrent, BlocksOrdered, Weighed, HeldBack, Finish,
         NEW u \in Uid \ used
  PROVE  /\ Len(blocks') \in 1..(MaxBlocks - 1)
         /\ Reserved + SumOver(weight, ToSet(Last(blocks')) \cup Package(u, used))
                > MaxBlockWeight
<1> DEFINE B == ToSet(cur_block)
           P == Package(u, used)
<1>1. pc = "pop" /\ heap = EmptyBag /\ AuditsType
  BY DEF Finish, GbtType
<1>2. BagToSet(heap) = {}
  BY <1>1 DEF EmptyBag, SetToBag, BagToSet
<1>3. u \in BagToSet(overflow)
  BY <1>1, <1>2 DEF HeapCurrent
<1>4. /\ Bounded /\ cur_block # <<>>
      /\ ~(block_weight + SumOver(weight, P) <= MaxBlockWeight)
  BY <1>1, <1>3 DEF HeldBack
<1>5. blocks' = Append(blocks, cur_block) /\ Len(blocks) \in Nat /\ Len(blocks') = Len(blocks) + 1
  BY <1>4, AppendProperties, LenProperties DEF Finish, GbtType
<1>6. Len(blocks') \in 1..(MaxBlocks - 1)
  BY <1>4, <1>5, GbtAssumption DEF Bounded
<1>7. Last(blocks') = cur_block
  BY <1>5, AppendProperties DEF Last, GbtType
<1>8. B \in SUBSET Uid /\ P \in SUBSET Uid /\ B \cap P = {}
  BY <1>1, PackageWithin DEF BlocksOrdered, GbtType, AuditsType, Package
<1>9. block_weight = Reserved + SumOver(weight, B)
  BY <1>1 DEF Weighed
<1> HIDE DEF B, P
<1>10. SumOver(weight, B \cup P) = SumOver(weight, B) + SumOver(weight, P)
  BY <1>1, <1>8, SumsUnion
<1>11. SumOver(weight, B) \in Nat /\ SumOver(weight, P) \in Nat
       /\ Reserved \in Nat /\ MaxBlockWeight \in Nat
  BY <1>1, <1>8, Sums, GbtAssumption DEF AuditsType
<1>12. Reserved + SumOver(weight, B \cup P) > MaxBlockWeight
  BY <1>4, <1>9, <1>10, <1>11
<1>13. QED
  BY <1>6, <1>7, <1>12 DEF B, P

LEMMA StepLeftOut ==
  GbtType /\ HeapCurrent /\ BlocksOrdered /\ Weighed /\ HeldBack
      /\ LeftOutOnlyWhenFull /\ [Next]_vars => LeftOutOnlyWhenFull'
<1> SUFFICES ASSUME GbtType, HeapCurrent, BlocksOrdered, Weighed, HeldBack,
                    LeftOutOnlyWhenFull, [Next]_vars
             PROVE  LeftOutOnlyWhenFull'
  OBVIOUS
<1>1. CASE UNCHANGED vars
  BY <1>1 DEF vars, audits, LeftOutOnlyWhenFull, Package
<1>2. CASE pc = "pop" /\ pc' = pc
  BY <1>2 DEF LeftOutOnlyWhenFull
<1>3. CASE Finish
  <2>1. weight' = weight /\ ancestors' = ancestors /\ used' = used
    BY <1>3 DEF Finish, audits
  <2>2. \A u \in Uid \ used :
            /\ Len(blocks') \in 1..(MaxBlocks - 1)
            /\ Reserved + SumOver(weight, ToSet(Last(blocks')) \cup Package(u, used))
                   > MaxBlockWeight
    BY <1>3, FinishLeftOut
  <2>3. QED
    BY <2>1, <2>2 DEF LeftOutOnlyWhenFull, Package
<1>4. QED
  BY <1>1, <1>2, <1>3 DEF Next, PopUsed, PopStale, PopHold, PopInclude, Pop

\* A transaction gets no block only when a bounded block was the last one and has
\* no room for its package: nothing is lost once the unbounded block is reached
\* (gbt.rs, the exit of the pop loop with a non-empty overflow).
THEOREM LeftOutLast == Spec => []LeftOutOnlyWhenFull
<1>1. Init => BlocksOrdered /\ Weighed /\ HeldBack /\ LeftOutOnlyWhenFull
  BY InitOrdered, InitWeighed, InitHeld, InitLeftOut
<1>2. GbtType /\ HeapCurrent /\ BlocksOrdered /\ Weighed /\ HeldBack
          /\ LeftOutOnlyWhenFull /\ [Next]_vars
          => BlocksOrdered' /\ Weighed' /\ HeldBack' /\ LeftOutOnlyWhenFull'
  BY StepOrdered, StepWeighed, StepHeld, StepLeftOut
<1>3. QED
  BY <1>1, <1>2, AlwaysType, HeapTracksScores, PTL DEF Spec

-----------------------------------------------------------------------------
\* Termination.

\* How many items of T are in bag b.
Count(b, T) == Total(b, BagToSet(b) \cap T)

LEMMA CountType ==
  ASSUME NEW S, NEW b, IsBagOver(b, S), NEW T
  PROVE  /\ Count(b, T) \in Nat /\ IsFiniteSet(BagToSet(b) \cap T)
         /\ \A x \in BagToSet(b) \cap T : b[x] \in Nat /\ b[x] # 0
<1>1. IsFiniteSet(BagToSet(b) \cap T)
  BY FiniteTogether DEF IsBagOver
<1>2. \A x \in BagToSet(b) \cap T : b[x] \in Nat /\ b[x] # 0
  BY DEF IsBagOver
<1>3. Total(b, BagToSet(b) \cap T) \in Nat
  BY <1>1, <1>2, TotalNat
<1>4. QED
  BY <1>1, <1>2, <1>3 DEF Count

LEMMA CountRemove ==
  ASSUME NEW S, NEW b, IsBagOver(b, S), NEW T, NEW e \in BagToSet(b)
  PROVE  /\ e \notin T => Count(BagRemove(b, e), T) = Count(b, T)
         /\ e \in T => Count(b, T) = Count(BagRemove(b, e), T) + 1
<1> DEFINE c == BagRemove(b, e)
           B == BagToSet(b) \cap T
           C == BagToSet(c) \cap T
<1>1. /\ IsFiniteSet(B) /\ \A x \in B : b[x] \in Nat /\ b[x] # 0
      /\ IsFiniteSet(C) /\ \A x \in C : c[x] \in Nat
  BY CountType, BagTypes
<1>2. b[e] \in Nat \ {0}
  BY DEF IsBagOver
<1>3. /\ \A x \in BagToSet(b) : x # e => x \in BagToSet(c) /\ c[x] = b[x]
      /\ \A x \in BagToSet(c) : x \in BagToSet(b)
      /\ b[e] = 1 => e \notin BagToSet(c)
      /\ b[e] # 1 => e \in BagToSet(c) /\ c[e] = b[e] - 1
  BY DEF BagRemove, BagToSet
<1>4. Count(b, T) = Total(b, B) /\ Count(c, T) = Total(c, C)
  BY DEF Count
<1> HIDE DEF c
<1>5. B \ {e} = C \ {e}
  BY <1>3
<1>6. IsFiniteSet(B \ {e})
  BY <1>1, FiniteTogether
<1>7. \A x \in B \ {e} : b[x] \in Nat /\ c[x] = b[x]
  BY <1>1, <1>3
<1> HIDE DEF B, C
<1>8. Total(c, B \ {e}) = Total(b, B \ {e}) /\ Total(b, B \ {e}) \in Nat
  BY <1>6, <1>7, TotalSame, TotalNat
<1>9. CASE e \notin T
  <2>1. B \ {e} = B /\ C \ {e} = C
    BY <1>9 DEF B, C
  <2>2. QED
    BY <1>4, <1>5, <1>8, <1>9, <2>1 DEF c
<1>10. CASE e \in T
  <2>1. e \in B
    BY <1>10 DEF B
  <2>2. Total(b, B) = b[e] + Total(b, B \ {e})
    BY <1>1, <2>1, TotalRemove
  <2>3. CASE b[e] = 1
    <3>1. C \ {e} = C
      BY <1>3, <2>3 DEF C
    <3>2. Total(c, C) = Total(b, B \ {e})
      BY <1>5, <1>8, <3>1
    <3>3. QED
      BY <1>4, <1>8, <1>10, <2>2, <2>3, <3>2 DEF c
  <2>4. CASE b[e] # 1
    <3>1. e \in C /\ c[e] = b[e] - 1
      BY <1>3, <1>10, <2>4 DEF C
    <3>2. Total(c, C) = c[e] + Total(c, C \ {e})
      BY <1>1, <3>1, TotalRemove
    <3>3. Total(c, C) = (b[e] - 1) + Total(b, B \ {e})
      BY <1>5, <1>8, <3>1, <3>2
    <3>4. Total(b, B) = Total(c, C) + 1
      BY <1>2, <1>8, <2>2, <3>3
    <3>5. QED
      BY <1>4, <1>10, <3>4 DEF c
  <2>5. QED
    BY <2>3, <2>4
<1>11. QED
  BY <1>9, <1>10

LEMMA CountAdd ==
  ASSUME NEW S, NEW b, IsBagOver(b, S), NEW T, NEW e, e \notin T
  PROVE  Count(BagAdd(b, e), T) = Count(b, T)
<1> DEFINE c == BagAdd(b, e)
<1>1. BagToSet(c) \cap T = BagToSet(b) \cap T
  BY AddKeeps
<1>2. \A x \in BagToSet(b) \cap T : c[x] = b[x]
  BY DEF BagAdd, BagToSet
<1> HIDE DEF c
<1>3. Total(c, BagToSet(b) \cap T) = Total(b, BagToSet(b) \cap T)
  BY <1>2, CountType, TotalSame
<1>4. QED
  BY <1>1, <1>3 DEF Count, c

StaleOnes == {item \in Items : item.uid \notin used /\ Stale(item)}

LEMMA Measures ==
  ASSUME GbtType
  PROVE  HeapSize = Count(heap, Items) /\ StaleItems = Count(heap, StaleOnes)
<1>1. BagToSet(heap) \subseteq Items
  BY DEF GbtType, IsBagOver
<1>2. BagToSet(heap) \cap Items = BagToSet(heap)
  BY <1>1
<1>3. {item \in BagToSet(heap) : item.uid \notin used /\ Stale(item)} = BagToSet(heap) \cap StaleOnes
  BY <1>1 DEF StaleOnes
<1>4. QED
  BY <1>2, <1>3 DEF HeapSize, StaleItems, SumOver, Count, Total

LEMMA MeasuresAfter ==
  ASSUME GbtType', UNCHANGED <<audits, used>>
  PROVE  HeapSize' = Count(heap', Items) /\ StaleItems' = Count(heap', StaleOnes)
<1>1. BagToSet(heap') \subseteq Items
  BY DEF GbtType, IsBagOver, BagToSet
<1>2. \A item : Stale(item)' <=> Stale(item)
  BY DEF audits, Stale, ScoreOf, PackageRate, Package
<1>3. HeapSize' = SumOver(heap', BagToSet(heap'))
  BY DEF HeapSize, BagToSet
<1>4. StaleItems' = SumOver(heap', {item \in BagToSet(heap') : item.uid \notin used' /\ Stale(item)'})
  BY DEF StaleItems, BagToSet
<1>5. BagToSet(heap') \cap Items = BagToSet(heap')
  BY <1>1
<1>6. {item \in BagToSet(heap') : item.uid \notin used' /\ Stale(item)'} = BagToSet(heap') \cap StaleOnes
  BY <1>1, <1>2 DEF StaleOnes
<1>7. QED
  BY <1>3, <1>4, <1>5, <1>6 DEF SumOver, Count, Total

\* Only blocks that may still follow are closed.
BlocksBounded == pc = "pop" => Len(blocks) <= MaxBlocks

LEMMA StepBlocks ==
  ASSUME GbtType, BlocksBounded, [Next]_vars
  PROVE  /\ BlocksBounded'
         /\ Len(blocks) \in Nat
         /\ vars' # vars => Len(blocks') \in Len(blocks)..(MaxBlocks + 1)
<1>1. Len(blocks) \in Nat /\ MaxBlocks \in Nat
  BY LenProperties, GbtAssumption DEF GbtType
<1>2. \A c \in Seq(Uid) : Len(Append(blocks, c)) = Len(blocks) + 1
  BY AppendProperties DEF GbtType
<1>3. ASSUME NEW h, NEW cur \in Seq(Uid), NEW wgt, NEW over, NEW fails, NEW usd,
             Finalize(h, cur, wgt, over, fails, usd), pc = "pop", pc' = pc
      PROVE  Len(blocks') <= MaxBlocks /\ Len(blocks') >= Len(blocks)
  <2>1. CASE blocks' = blocks
    BY <1>1, <1>3, <2>1 DEF BlocksBounded
  <2>2. CASE Bounded /\ blocks' = Append(blocks, cur)
    BY <1>1, <1>2, <2>2 DEF Bounded
  <2>3. QED
    BY <1>3, <2>1, <2>2 DEF Finalize
<1>4. CASE UNCHANGED blocks /\ pc' = pc
  <2>1. vars' # vars => pc = "pop"
    BY DEF Next, PopUsed, PopStale, PopHold, PopInclude, Finish, Pop
  <2>2. vars' # vars => Len(blocks) <= MaxBlocks
    BY <2>1 DEF BlocksBounded
  <2>3. BlocksBounded'
    BY <1>4 DEF BlocksBounded
  <2> HIDE DEF vars
  <2>4. QED
    BY <1>1, <1>4, <2>2, <2>3
<1>5. CASE PopHold
  <2>1. pc = "pop" /\ pc' = pc /\ cur_block \in Seq(Uid)
        /\ \E h, wgt, over, fails, usd : Finalize(h, cur_block, wgt, over, fails, usd)
    BY <1>5 DEF PopHold, Pop, GbtType
  <2>2. Len(blocks') <= MaxBlocks /\ Len(blocks') >= Len(blocks)
    BY <1>3, <2>1
  <2>3. Len(blocks') \in Nat
    BY <1>5, StepType, LenProperties DEF GbtType
  <2>4. QED
    BY <1>1, <2>1, <2>2, <2>3 DEF BlocksBounded
<1>6. CASE PopInclude
  <2>1. PICK item \in BagToSet(heap) :
            /\ pc = "pop" /\ pc' = pc /\ item.uid \in Uid /\ item.uid \notin used
            /\ \E h, wgt, over, fails, usd :
                   Finalize(h, cur_block \o PackageSeq(item.uid), wgt, over, fails, usd)
    BY <1>6 DEF PopInclude, Pop, GbtType, IsBagOver, Items
  <2>2. cur_block \o PackageSeq(item.uid) \in Seq(Uid)
    BY <2>1, PackageSeqFacts, ConcatProperties DEF GbtType, AuditsType
  <2>3. Len(blocks') <= MaxBlocks /\ Len(blocks') >= Len(blocks)
    BY <1>3, <2>1, <2>2
  <2>4. Len(blocks') \in Nat
    BY <1>6, StepType, LenProperties DEF GbtType
  <2>5. QED
    BY <1>1, <2>1, <2>3, <2>4 DEF BlocksBounded
<1>7. CASE Finish
  <2>1. /\ pc = "pop" /\ pc' = "done"
        /\ blocks' = blocks \/ blocks' = Append(blocks, cur_block)
    BY <1>7 DEF Finish
  <2>2. Len(blocks') = Len(blocks) \/ Len(blocks') = Len(blocks) + 1
    BY <1>2, <2>1 DEF GbtType
  <2>3. QED
    BY <1>1, <2>1, <2>2 DEF BlocksBounded
<1>8. QED
  BY <1>4, <1>5, <1>6, <1>7 DEF Next, PopUsed, PopStale, vars

\* What a pop of each kind does to the number of items and of stale items.
LEMMA StepMeasures ==
  ASSUME GbtType, Next, pc' = "pop", used' = used, blocks' = blocks
  PROVE  \/ StaleItems' < StaleItems
         \/ StaleItems' = StaleItems /\ HeapSize' < HeapSize
<1>1. UNCHANGED <<audits, used>>
  BY DEF Next, PopUsed, PopStale, PopHold, PopInclude, Finish
<1>2. GbtType'
  BY StepType
<1>3. /\ HeapSize = Count(heap, Items) /\ StaleItems = Count(heap, StaleOnes)
      /\ HeapSize' = Count(heap', Items) /\ StaleItems' = Count(heap', StaleOnes)
  BY <1>1, <1>2, Measures, MeasuresAfter
<1>4. IsBagOver(heap, Items) /\ BagToSet(heap) \subseteq Items
  BY DEF GbtType, IsBagOver
<1>5. \A T : Count(heap, T) \in Nat /\ Count(heap', T) \in Nat
  BY <1>2, CountType DEF GbtType
<1>6. ASSUME NEW item \in BagToSet(heap), heap' = Rest(item), item \notin StaleOnes
      PROVE  StaleItems' = StaleItems /\ HeapSize' < HeapSize
  <2>1. Count(heap', StaleOnes) = Count(heap, StaleOnes)
    BY <1>4, <1>6, CountRemove DEF Rest
  <2>2. Count(heap, Items) = Count(heap', Items) + 1
    BY <1>4, <1>6, CountRemove DEF Rest
  <2>3. QED
    BY <1>3, <1>5, <2>1, <2>2
<1>7. CASE PopUsed
  <2>1. PICK item \in BagToSet(heap) : item.uid \in used /\ heap' = Rest(item)
    BY <1>7 DEF PopUsed
  <2>2. item \notin StaleOnes
    BY <2>1 DEF StaleOnes
  <2>3. QED
    BY <1>6, <2>1, <2>2
<1>8. CASE PopStale
  <2>1. PICK item \in BagToSet(heap) :
            /\ item.uid \notin used /\ Stale(item)
            /\ heap' = BagAdd(Rest(item), HeapItem(item.uid, used))
    BY <1>8 DEF PopStale
  <2>2. item \in StaleOnes
    BY <1>4, <2>1 DEF StaleOnes
  <2>3. HeapItem(item.uid, used) \notin StaleOnes
    BY DEF StaleOnes, Stale, HeapItem, Same
  <2>4. Count(heap, StaleOnes) = Count(Rest(item), StaleOnes) + 1
    BY <1>4, <2>2, CountRemove DEF Rest
  <2>5. IsBagOver(Rest(item), Items)
    BY <1>4, BagTypes DEF Rest
  <2>6. Count(heap', StaleOnes) = Count(Rest(item), StaleOnes)
    BY <2>1, <2>3, <2>5, CountAdd
  <2>7. QED
    BY <1>3, <1>5, <2>4, <2>6
<1>9. CASE PopHold
  <2>1. PICK item \in BagToSet(heap) :
            /\ ~Stale(item)
            /\ Finalize(Rest(item), cur_block, block_weight, BagAdd(overflow, item.uid),
                        failures + 1, used)
    BY <1>9 DEF PopHold
  <2>2. Append(blocks, cur_block) # blocks
    <3>1. Len(Append(blocks, cur_block)) = Len(blocks) + 1 /\ Len(blocks) \in Nat
      BY AppendProperties, LenProperties DEF GbtType
    <3>2. QED
      BY <3>1
  <2>3. heap' = Rest(item)
    BY <2>1, <2>2 DEF Finalize
  <2>4. item \notin StaleOnes
    BY <2>1 DEF StaleOnes
  <2>5. QED
    BY <1>6, <2>3, <2>4
<1>10. CASE PopInclude
  <2>1. \E uid : uid \notin used /\ used' = used \cup Package(uid, used)
    BY <1>10, Included
  <2>2. QED
    BY <2>1 DEF Package
<1>11. CASE Finish
  BY <1>11 DEF Finish
<1>12. QED
  BY <1>7, <1>8, <1>9, <1>10, <1>11 DEF Next

\* Every iteration makes progress: it places a transaction, or closes one of
\* finitely many blocks, or leaves fewer stale items, or else fewer items
\* (gbt.rs, what the comment of refresh_descendants claims of termination).
THEOREM LoopProgresses == Spec => Terminates
<1>1. Init => BlocksBounded
  BY GbtAssumption DEF Init, BlocksBounded
<1>2. GbtType /\ BlocksBounded /\ [Next]_vars => BlocksBounded'
  BY StepBlocks
<1>3. GbtType /\ BlocksBounded /\ [Next]_vars =>
          [/\ used \subseteq used'
           /\ Len(blocks') \in Len(blocks)..(MaxBlocks + 1)
           /\ pc' = "pop" /\ used' = used /\ blocks' = blocks =>
                 \/ StaleItems' < StaleItems
                 \/ /\ StaleItems' = StaleItems
                    /\ HeapSize' < HeapSize]_vars
  <2> SUFFICES ASSUME GbtType, BlocksBounded, [Next]_vars, vars' # vars
               PROVE  /\ used \subseteq used'
                      /\ Len(blocks') \in Len(blocks)..(MaxBlocks + 1)
                      /\ pc' = "pop" /\ used' = used /\ blocks' = blocks =>
                            \/ StaleItems' < StaleItems
                            \/ /\ StaleItems' = StaleItems
                               /\ HeapSize' < HeapSize
    OBVIOUS
  <2>1. used \subseteq used'
    BY OnlyIncludePlaces, Included
  <2>2. Len(blocks') \in Len(blocks)..(MaxBlocks + 1)
    BY StepBlocks
  <2>3. QED
    BY <2>1, <2>2, StepMeasures
<1>4. QED
  BY <1>1, <1>2, <1>3, AlwaysType, PTL DEF Spec, Terminates

=============================================================================

--------------------------------- MODULE Gbt ---------------------------------
(***************************************************************************)
(* The block projection of gbt.rs (project_with): transactions are popped  *)
(* from a max-heap by ancestor-package fee rate and packed into blocks.    *)
(* One action is one iteration of the pop loop.                            *)
(*                                                                         *)
(* Fee rates are kept as fractions <<numerator, denominator>> and compared *)
(* exactly; the code compares doubles, with a tolerance of 1e-9 where it   *)
(* tests whether a score is stale.  A heap and the overflow list are bags: *)
(* both may hold a transaction several times.  `order` never decreases     *)
(* with `uid` (the snapshot is sorted by txid), so ties go to the smaller  *)
(* uid.  Dependencies are acyclic, as Bitcoin's are.                       *)
(***************************************************************************)
EXTENDS Integers, FiniteSets, Sequences, SequencesExt, FiniteSetsExt, Bags, BagsExt

CONSTANTS
    N,                \* number of transactions; uids are dense
    Fees,             \* the fees tried
    Weights,          \* the weights tried
    MaxBlocks,        \* max_blocks
    MaxBlockWeight,   \* max_block_weight
    Reserved,         \* reserved
    FailureLimit      \* FAILURE_LIMIT

ASSUME GbtAssumption ==
    /\ N \in Nat
    /\ Fees \subseteq Nat /\ Weights \subseteq Nat
    /\ MaxBlocks \in Nat /\ MaxBlockWeight \in Nat /\ Reserved \in Nat /\ FailureLimit \in Nat

Uid == 0..(N - 1)

VARIABLES
    fee, weight, ancestors,   \* the audits, fixed once built
    used,                     \* uids already in a block
    heap,                     \* bag of heap items
    blocks, cur_block, block_weight,
    overflow,                 \* bag of uids held back from the current block
    failures,
    effective_rates,          \* rate of the package each used uid went in with
    pc                        \* "pop" in the loop, "done" after it

audits == <<fee, weight, ancestors>>
vars == <<audits, used, heap, blocks, cur_block, block_weight, overflow, failures,
          effective_rates, pc>>

-----------------------------------------------------------------------------
\* Fee rates, scores and packages.

\* rate: sat/vB from sats and weight units, 0 for weight 0.
Rate(f, w) == IF w = 0 THEN <<0, 1>> ELSE <<4 * f, w>>

Less(r, s) == r[1] * s[2] < s[1] * r[2]
Same(r, s) == r[1] * s[2] = s[1] * r[2]

SumOver(f, S) == MapThenSumSet(LAMBDA u : f[u], S)

\* uid together with its ancestors that are not in a block yet.
Package(uid, usd) == {uid} \cup (ancestors[uid] \ usd)

PackageRate(uid, usd) ==
    Rate(SumOver(fee, Package(uid, usd)), SumOver(weight, Package(uid, usd)))

\* Mutant: the sums are taken before uid is added to the package.
ClusterRate_BeforePush(uid) ==
    Rate(SumOver(fee, ancestors[uid] \ used), SumOver(weight, ancestors[uid] \ used))

\* The effective rate that all members of a package get.
ClusterRate(uid) == PackageRate(uid, used)

\* score_of: the smaller of the own rate and the package rate.
ScoreOf(uid, usd) ==
    LET own == Rate(fee[uid], weight[uid])
        pkg == PackageRate(uid, usd)
    IN  IF Less(pkg, own) THEN pkg ELSE own

HeapItem(uid, usd) == [uid |-> uid, score |-> ScoreOf(uid, usd)]

\* The order of the heap: higher score first, then smaller uid.
Before(i, j) ==
    \/ Less(j.score, i.score)
    \/ Same(i.score, j.score) /\ i.uid < j.uid

\* Mutant: the members of a package are appended in uid order.
PackageSeq_Unsorted(uid) == SetToSortSeq(Package(uid, used), <)

\* The order within a package: fewer ancestors first, then the smaller uid.
RootsFirst(a, b) ==
    LET depth(u) == Cardinality(ancestors[u])
    IN  depth(a) < depth(b) \/ (depth(a) = depth(b) /\ a < b)

Sorted(S) ==
    CHOOSE s \in [1..Cardinality(S) -> S] :
        \A i, j \in 1..Cardinality(S) : i < j => RootsFirst(s[i], s[j])

\* The package in the order in which it enters a block, uid last.
PackageSeq(uid) == Append(Sorted(ancestors[uid] \ used), uid)

\* Mutant: descendants of a package keep the heap items they have.
Refreshed_Never(pkg, usd) == EmptyBag

\* refresh_descendants: a new item for every descendant that is not used yet.
Refreshed(pkg, usd) ==
    SetToBag({HeapItem(d, usd) : d \in {d \in Uid \ usd : ancestors[d] \cap pkg # {}}})

-----------------------------------------------------------------------------
\* What build_ancestors leaves for acyclic dependencies (Packages): the ancestors
\* of an ancestor are ancestors, and no transaction is its own.
AncestorMaps ==
    {a \in [Uid -> SUBSET Uid] :
        \A u \in Uid : u \notin a[u] /\ \A p \in a[u] : a[p] \subseteq a[u]}

Init ==
    /\ fee \in [Uid -> Fees]
    /\ weight \in [Uid -> Weights]
    /\ ancestors \in AncestorMaps
    /\ used = {}
    /\ heap = SetToBag({HeapItem(u, {}) : u \in Uid})
    /\ blocks = <<>> /\ cur_block = <<>>
    /\ block_weight = Reserved
    /\ overflow = EmptyBag
    /\ failures = 0
    /\ effective_rates = <<>>
    /\ pc = "pop"

-----------------------------------------------------------------------------
\* The pop loop.

\* heap.pop() returns item ...
Pop(item) ==
    /\ pc = "pop"
    /\ \A other \in BagToSet(heap) : ~Before(other, item)

\* ... and leaves the rest.
Rest(item) == BagRemove(heap, item)

Bounded == Len(blocks) < MaxBlocks - 1

\* Mutant: what was held back is not returned to the heap.
Requeued_Dropped(over, usd) == EmptyBag

\* The overflow list as heap items again, each as often as it was held back.
Requeued(over, usd) ==
    [item \in {HeapItem(o, usd) : o \in BagToSet(over)} |-> over[item.uid]]

\* The end of an iteration that did not `continue`: close the block when it is
\* effectively full or the heap is empty, and give the overflow another try.
Finalize(h, cur, wgt, over, fails, usd) ==
    IF Bounded /\ (fails > FailureLimit \/ h = EmptyBag) /\ cur # <<>>
    THEN /\ blocks' = Append(blocks, cur)
         /\ cur_block' = <<>>
         /\ block_weight' = Reserved
         /\ failures' = 0
         /\ heap' = h (+) Requeued(over, usd)
         /\ overflow' = EmptyBag
    ELSE /\ blocks' = blocks
         /\ cur_block' = cur
         /\ block_weight' = wgt
         /\ failures' = fails
         /\ heap' = h
         /\ overflow' = over

\* The uid went into a block with an earlier package: continue.
PopUsed ==
    \E item \in BagToSet(heap) :
        /\ Pop(item)
        /\ item.uid \in used
        /\ heap' = Rest(item)
        /\ UNCHANGED <<audits, used, blocks, cur_block, block_weight, overflow, failures,
                       effective_rates, pc>>

\* The score changed since the item was pushed.
Stale(item) == ~Same(item.score, ScoreOf(item.uid, used))

\* Mutant: the corrected item is pushed, but the stale one is not removed.
PopStale_Peeks ==
    \E item \in BagToSet(heap) :
        /\ Pop(item)
        /\ item.uid \notin used
        /\ Stale(item)
        /\ heap' = BagAdd(heap, HeapItem(item.uid, used))
        /\ UNCHANGED <<audits, used, blocks, cur_block, block_weight, overflow, failures,
                       effective_rates, pc>>

\* Lazy refresh: push the corrected item and continue.
PopStale ==
    \E item \in BagToSet(heap) :
        /\ Pop(item)
        /\ item.uid \notin used
        /\ Stale(item)
        /\ heap' = BagAdd(Rest(item), HeapItem(item.uid, used))
        /\ UNCHANGED <<audits, used, blocks, cur_block, block_weight, overflow, failures,
                       effective_rates, pc>>

\* Mutant: the limit does not count what the block already holds.
Fits_Alone(uid) ==
    Reserved + SumOver(weight, Package(uid, used)) <= MaxBlockWeight

\* Room for the package; an empty block takes a package of any size.
Fits(uid) ==
    \/ ~Bounded
    \/ cur_block = <<>>
    \/ block_weight + SumOver(weight, Package(uid, used)) <= MaxBlockWeight

PopHold ==
    \E item \in BagToSet(heap) :
        /\ Pop(item)
        /\ item.uid \notin used
        /\ ~Stale(item)
        /\ ~Fits(item.uid)
        /\ Finalize(Rest(item), cur_block, block_weight, BagAdd(overflow, item.uid),
                    failures + 1, used)
        /\ UNCHANGED <<audits, used, effective_rates, pc>>

PopInclude ==
    \E item \in BagToSet(heap) :
        LET uid == item.uid
            pkg == Package(uid, used)
            usd == used \cup pkg
        IN  /\ Pop(item)
            /\ uid \notin used
            /\ ~Stale(item)
            /\ Fits(uid)
            /\ used' = usd
            /\ effective_rates' =
                  [u \in usd |-> IF u \in pkg THEN ClusterRate(uid) ELSE effective_rates[u]]
            /\ Finalize(Rest(item) (+) Refreshed(pkg, usd), cur_block \o PackageSeq(uid),
                        block_weight + SumOver(weight, pkg), overflow, 0, usd)
            /\ UNCHANGED <<audits, pc>>

\* The heap is drained: the block under construction is the last one.
Finish ==
    /\ pc = "pop"
    /\ heap = EmptyBag
    /\ blocks' = IF cur_block = <<>> THEN blocks ELSE Append(blocks, cur_block)
    /\ cur_block' = <<>>
    /\ pc' = "done"
    /\ UNCHANGED <<audits, used, heap, block_weight, overflow, failures, effective_rates>>

Next == PopUsed \/ PopStale \/ PopHold \/ PopInclude \/ Finish

Spec == Init /\ [][Next]_vars

-----------------------------------------------------------------------------
\* The blocks, with the one under construction.
AllBlocks == IF cur_block = <<>> THEN blocks ELSE Append(blocks, cur_block)

\* All uids placed before position j of block i.
Earlier(i, j) ==
    {AllBlocks[i][k] : k \in 1..(j - 1)} \cup UNION {ToSet(AllBlocks[k]) : k \in 1..(i - 1)}

\* No transaction is placed twice, and none before an ancestor: each projected
\* block could be mined on top of the blocks before it.
TopologicalOrder ==
    \A i \in 1..Len(AllBlocks) : \A j \in 1..Len(AllBlocks[i]) :
        LET u == AllBlocks[i][j]
        IN  u \notin Earlier(i, j) /\ ancestors[u] \subseteq Earlier(i, j)

\* A bounded block exceeds the weight limit only if it is one single package
\* that no block could hold, so that its rate is the rate of all its members;
\* the overflow, the requeue and the failure limit never combine to overfill one.
BlockWeightBound ==
    \A b \in {blocks[i] : i \in 1..Len(blocks) \cap 1..(MaxBlocks - 1)}
                \cup (IF Bounded THEN {cur_block} ELSE {}) :
        LET total == SumOver(weight, ToSet(b))
        IN  \/ Reserved + total <= MaxBlockWeight
            \/ \A u \in ToSet(b) : effective_rates[u] = Rate(SumOver(fee, ToSet(b)), total)

\* While the loop runs, the heap knows the present score of every transaction that
\* is neither placed nor held back: an item with that score is in it, whatever stale
\* ones are too.  This is why a pop may trust the order of the heap although
\* refresh_descendants removes nothing from it.  It says nothing of what is held
\* back: that returns to the heap only when a block is closed.
HeapCurrent ==
    pc = "pop" => \A u \in Uid \ (used \cup BagToSet(overflow)) :
                      HeapItem(u, used) \in BagToSet(heap)

\* The exit of the loop with a non-empty overflow.  When a heap drains through used
\* items the loop ends without closing the block, and what was held back is lost
\* (AllIncluded); but only that: a transaction without a place is left when a bounded
\* block was the last one and its package does not fit into what is in it.  So with
\* the unbounded block reached, nothing is missing.
LeftOutOnlyWhenFull ==
    pc = "done" => \A u \in Uid \ used :
        /\ Len(blocks) \in 1..(MaxBlocks - 1)
        /\ Reserved + SumOver(weight, ToSet(Last(blocks)) \cup Package(u, used))
               > MaxBlockWeight

\* The transaction whose package was placed last.
LatestPlaced == Last(Last(AllBlocks))

\* The package placed is the best there is: despite stale items and scores that
\* move both ways, no transaction that is not held back has a better score.
GreedyBest ==
    [][used' # used =>
          \A v \in Uid \ used :
              \/ v \in BagToSet(overflow)
              \/ ~Less(ScoreOf(LatestPlaced', used), ScoreOf(v, used))]_vars

\* The effective rate of a package is never below the score of a member: to be
\* paid for by a descendant lifts a transaction and never lowers it.
LiftNeverLowers ==
    [][\A u \in used' \ used : ~Less(effective_rates'[u], ScoreOf(u, used))]_vars

\* The numbers of items, and of items that a pop would push back.
HeapSize == SumOver(heap, BagToSet(heap))

StaleItems == SumOver(heap, {item \in BagToSet(heap) : item.uid \notin used /\ Stale(item)})

\* The loop terminates although it pushes items back (refresh_descendants claims
\* it does).  Every iteration places a transaction, or else closes one of the
\* finitely many blocks, or else leaves fewer stale items, or else fewer items.
Terminates ==
    [][/\ used \subseteq used'
       /\ Len(blocks') \in Len(blocks)..(MaxBlocks + 1)
       /\ pc' = "pop" /\ used' = used /\ blocks' = blocks =>
             \/ StaleItems' < StaleItems
             \/ /\ StaleItems' = StaleItems
                /\ HeapSize' < HeapSize]_vars

\* gbt.rs: what does not fit is held back rather than lost, and the last block
\* is "everything else"; so every transaction has an effective rate.
AllIncluded == pc = "done" => used = Uid
=============================================================================

------------------------------ MODULE MockNode ------------------------------
(***************************************************************************)
(* The simulated node of sim/mock_node.rs: a mempool of linear packages    *)
(* (a transaction has at most one parent and one child in it), kept with   *)
(* the ancestor and descendant totals that the real node reports.          *)
(*                                                                         *)
(* A method takes `&mut self` and the caller holds the lock (or the only   *)
(* reference), so it is one step; here it is an operator from a node to    *)
(* the node after it, or to the set of nodes that it may leave, where the  *)
(* random numbers or the order of a HashMap decide.  Weights are 4 times   *)
(* the virtual sizes, as the generator makes them; a random txid is one    *)
(* that is not in use.                                                     *)
(***************************************************************************)
EXTENDS Integers, FiniteSets, FiniteSetsExt

CONSTANTS
    Txid,               \* transaction ids, numbers: ties go to the smaller one
    NoTx,
    Vsizes,             \* the virtual sizes drawn
    Rates,              \* the fee rates drawn, cfg.fee
    MaxRate,            \* cfg.fee.max_sat_vb
    MayAttach,          \* the outcomes of the draw against cfg.cpfp_fraction
    MaxChain,           \* cfg.max_chain
    ArrivalsPerTick, EvictionsPerTick,
    BlockWeight         \* BLOCK_WEIGHT

ASSUME MockNodeAssumption ==
    /\ Txid \subseteq Nat /\ IsFiniteSet(Txid) /\ NoTx \notin Txid
    /\ Vsizes \subseteq Nat \ {0}
    /\ Rates \subseteq Nat /\ MaxRate \in Nat
    /\ MayAttach \subseteq BOOLEAN /\ MayAttach # {}
    /\ MaxChain \in Nat \ {0}
    /\ ArrivalsPerTick \in Nat /\ EvictionsPerTick \in Nat
    /\ BlockWeight \in Nat

\* The parts of a MempoolEntry that the simulation computes with; `depends` has
\* at most one member here.
Entry == [vsize : Nat, base : Nat, depends : Txid \cup {NoTx},
          ancestorsize : Nat, ancestor : Nat, descendantsize : Nat, descendant : Nat]

\* The function with t mapped to e; the function without the keys in S.
With(f, t, e) == [x \in DOMAIN f \cup {t} |-> IF x = t THEN e ELSE f[x]]
Without(f, S) == [x \in DOMAIN f \ S |-> f[x]]

-----------------------------------------------------------------------------
\* gen_standalone_entry.
Standalone(vsize, rate) ==
    [vsize |-> vsize, base |-> rate * vsize, depends |-> NoTx,
     ancestorsize |-> vsize, ancestor |-> rate * vsize,
     descendantsize |-> vsize, descendant |-> rate * vsize]

\* Where following next from t leads to, t included: what a loop visits that
\* goes from an id to the id it is mapped to.
Along(next, t) ==
    LET all == {t} \cup {next[x] : x \in DOMAIN next}
        closed(S) == \A x \in S \cap DOMAIN next : next[x] \in S
    IN  {y \in all : \A S \in SUBSET all : t \in S /\ closed(S) => y \in S}

\* The links that are followed upwards.
Parents(txs) ==
    [t \in {t \in DOMAIN txs : txs[t].depends \in DOMAIN txs} |-> txs[t].depends]

AncestorsOf(txs, t) == Along(Parents(txs), t) \ {t}

\* The chains below the members of S, by the children index.
Below(children, S) == UNION {Along(children, t) : t \in S}

\* The end of the chain through t.
LeafBelow(children, t) == CHOOSE x \in Along(children, t) : x \notin DOMAIN children

\* adjust_descendant_totals, with negative amounts for a removal; the code's
\* saturating subtraction stops at 0.
AdjustDescendants(txs, from, vsize, base) ==
    LET chain == {from} \cup AncestorsOf(txs, from)
        adjusted(x, by) == IF x + by < 0 THEN 0 ELSE x + by
    IN  [t \in DOMAIN txs |->
            IF t \in chain
            THEN [txs[t] EXCEPT !.descendantsize = adjusted(@, vsize),
                                !.descendant = adjusted(@, base)]
            ELSE txs[t]]

-----------------------------------------------------------------------------
\* Arrivals.

\* pick_parent draws a few of the eligible ones, with repetition, and keeps the
\* cheapest: any of them may be kept.
Eligible(n) ==
    IF MaxChain < 2 THEN {}
    ELSE {t \in DOMAIN n.txs \ DOMAIN n.children :
            Cardinality(AncestorsOf(n.txs, t)) + 1 < MaxChain}

ChildEntry(own, parent, above) ==
    [own EXCEPT !.depends = parent,
                !.ancestorsize = @ + above.ancestorsize,
                !.ancestor = @ + above.ancestor]

AttachChild(n, parent, t, vsize) ==
    LET own == Standalone(vsize, MaxRate)
        entry == ChildEntry(own, parent, n.txs[parent])
    IN  [n EXCEPT !.txs = AdjustDescendants(With(n.txs, t, entry), parent, own.vsize, own.base),
                  !.children = With(n.children, parent, t)]

\* add_arrival.
Arrival(n) ==
    UNION {IF attach /\ Eligible(n) # {}
           THEN {AttachChild(n, p, t, v) : p \in Eligible(n), v \in Vsizes}
           ELSE {[n EXCEPT !.txs = With(n.txs, t, Standalone(v, r))] : v \in Vsizes, r \in Rates}
           : attach \in MayAttach, t \in Txid \ DOMAIN n.txs}

-----------------------------------------------------------------------------
\* Removals.

RemoveLeaf(n, leaf) ==
    IF leaf \in DOMAIN n.children \/ leaf \notin DOMAIN n.txs THEN n
    ELSE LET e == n.txs[leaf]
             rest == Without(n.txs, {leaf})
         IN  IF e.depends = NoTx THEN [n EXCEPT !.txs = rest]
             ELSE [n EXCEPT !.txs = AdjustDescendants(rest, e.depends, -e.vsize, -e.base),
                            !.children = Without(n.children, {e.depends})]

\* Mutant: the key found first is removed wherever it is in its chain.
Eviction_Anywhere(n) ==
    IF DOMAIN n.txs = {} THEN {n}
    ELSE {[n EXCEPT !.txs = Without(n.txs, {t})] : t \in DOMAIN n.txs}

\* The key that the HashMap yields first, then down to the leaf of its chain.
Eviction(n) ==
    IF DOMAIN n.txs = {} THEN {n}
    ELSE {RemoveLeaf(n, LeafBelow(n.children, t)) : t \in DOMAIN n.txs}

\* The nodes after `times` rounds of `step` from the nodes of S.
Repeated(step(_), times, S) ==
    LET after[k \in 0..times] == IF k = 0 THEN S ELSE UNION {step(n) : n \in after[k - 1]}
    IN  after[times]

\* advance: one churn tick.
Advanced(n) ==
    Repeated(Arrival, ArrivalsPerTick,
             Repeated(Eviction, EvictionsPerTick, {[n EXCEPT !.reloading = FALSE]}))

Reloaded(n) == [n EXCEPT !.reloading = TRUE]

\* mass_drop with the fraction num / den.
MassDropped(n, num, den) ==
    Repeated(Eviction, (Cardinality(DOMAIN n.txs) * num) \div den, {n})

-----------------------------------------------------------------------------
\* Mining.

EffectiveRate(e) ==
    LET own == e.base \div e.vsize
        pkg == e.ancestor \div e.ancestorsize
    IN  IF pkg < own THEN pkg ELSE own

\* Highest effective rate first, then the smaller txid.
RanksBefore(txs, a, b) ==
    \/ EffectiveRate(txs[a]) > EffectiveRate(txs[b])
    \/ EffectiveRate(txs[a]) = EffectiveRate(txs[b]) /\ a < b

Ranked(txs) ==
    LET places == 1..Cardinality(DOMAIN txs)
    IN  CHOOSE s \in [places -> DOMAIN txs] :
            \A i, j \in places : i < j => RanksBefore(txs, s[i], s[j])

SumOver(f, S) == MapThenSumSet(LAMBDA t : f[t], S)

Sizes(txs) == [t \in DOMAIN txs |-> txs[t].vsize]
Fees(txs) == [t \in DOMAIN txs |-> txs[t].base]

WeightOf(txs, S) == 4 * SumOver(Sizes(txs), S)

\* Mutant: a transaction goes in without its ancestors.
PackageOf_Alone(txs, t, confirmed) == {t}

\* t and its ancestors that are not in the block yet.
PackageOf(txs, t, confirmed) == ({t} \cup AncestorsOf(txs, t)) \ confirmed

\* t's package is taken if it fits, else passed over.
Extended(txs, block, t) ==
    LET more == block \cup PackageOf(txs, t, block)
    IN  IF t \in block \/ WeightOf(txs, more) > BlockWeight THEN block ELSE more

\* What goes into a block.
Confirmed(txs) ==
    LET ranked == Ranked(txs)
        last == Cardinality(DOMAIN txs)
        upto[i \in 0..last] == IF i = 0 THEN {} ELSE Extended(txs, upto[i - 1], ranked[i])
    IN  upto[last]

\* A survivor whose parent left, and one with p as its repaired parent.
AsRoot(e) == [e EXCEPT !.depends = NoTx, !.ancestorsize = e.vsize, !.ancestor = e.base]
Carried(e, p) == [e EXCEPT !.ancestorsize = e.vsize + p.ancestorsize,
                           !.ancestor = e.base + p.ancestor]

\* Mutant: the totals below a new root are left as they are.
ConfirmSet_RootsOnly(n, set) ==
    LET reroot == {t \in DOMAIN n.txs \ set : n.txs[t].depends \in set}
    IN  [n EXCEPT
            !.txs = [t \in DOMAIN n.txs \ set |->
                        IF t \in reroot THEN AsRoot(n.txs[t]) ELSE n.txs[t]],
            !.children = Without(n.children, set)]

\* confirm_set: the survivors whose parent left become roots, and the ancestor
\* totals below them are computed anew, each from those of its parent.
ConfirmSet(n, set) ==
    LET reroot == {t \in DOMAIN n.txs \ set : n.txs[t].depends \in set}
        children == Without(n.children, set)
        parentOf(t) == CHOOSE p \in DOMAIN children : children[p] = t
        repaired[t \in DOMAIN n.txs \ set] ==
            IF t \in reroot THEN AsRoot(n.txs[t])
            ELSE IF t \in Below(children, reroot) THEN Carried(n.txs[t], repaired[parentOf(t)])
            ELSE n.txs[t]
    IN  [n EXCEPT !.txs = repaired, !.children = children]

\* mine_block.
Mined(n) == [ConfirmSet(n, Confirmed(n.txs)) EXCEPT !.tip_height = @ + 1]

-----------------------------------------------------------------------------
\* MockNode::new: `size` arrivals in an empty mempool.
NewNodes(size) ==
    Repeated(Arrival, size,
             {[txs |-> <<>>, children |-> <<>>, tip_height |-> 0, reloading |-> FALSE]})

-----------------------------------------------------------------------------
\* Properties of a node, for the specifications that contain one.

\* No orphan: a parent is in the mempool, and the children index is the inverse
\* of `depends`, through any order of arrivals, evictions, drops and blocks.
LinksWhole(n) ==
    /\ \A t \in DOMAIN n.txs : LET p == n.txs[t].depends IN
          p # NoTx => p \in DOMAIN n.txs /\ p \in DOMAIN n.children /\ n.children[p] = t
    /\ \A p \in DOMAIN n.children : LET t == n.children[p] IN
          p \in DOMAIN n.txs /\ t \in DOMAIN n.txs /\ n.txs[t].depends = p

\* The totals reported are the sums over the mempool as it is.
TotalsTrue(n) ==
    \A t \in DOMAIN n.txs :
        LET e == n.txs[t]
            up == {t} \cup AncestorsOf(n.txs, t)
            down == {d \in DOMAIN n.txs : t \in {d} \cup AncestorsOf(n.txs, d)}
        IN  /\ e.ancestorsize = SumOver(Sizes(n.txs), up)
            /\ e.ancestor = SumOver(Fees(n.txs), up)
            /\ e.descendantsize = SumOver(Sizes(n.txs), down)
            /\ e.descendant = SumOver(Fees(n.txs), down)

ChainsBounded(n) == \A t \in DOMAIN n.txs : Cardinality(AncestorsOf(n.txs, t)) < MaxChain
=============================================================================

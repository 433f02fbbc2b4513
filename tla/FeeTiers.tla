------------------------------ MODULE FeeTiers ------------------------------
(***************************************************************************)
(* The fee tiers of fees.rs: recommended_tiers reads them off a weight     *)
(* histogram of the effective rates of a projection.  A rate is a number   *)
(* (only its order matters here) and an entry is a pair <<rate, weight>>.  *)
(***************************************************************************)
EXTENDS Integers, Sequences, FiniteSets, FiniteSetsExt

CONSTANTS
    MaxBlockWeight,        \* MAX_BLOCK_WEIGHT
    BlockReservedWeight,   \* BLOCK_RESERVED_WEIGHT
    FastestDepth, HalfHourDepth, HourDepth, EconomyDepth

ASSUME TiersAssumption ==
    /\ MaxBlockWeight \in Nat
    /\ BlockReservedWeight \in Nat
    /\ BlockReservedWeight < MaxBlockWeight
    /\ FastestDepth \in Nat \ {0}
    /\ FastestDepth < HalfHourDepth
    /\ HalfHourDepth \in Nat
    /\ HalfHourDepth < HourDepth
    /\ HourDepth \in Nat
    /\ HourDepth < EconomyDepth
    /\ EconomyDepth \in Nat

\* Mutant: a block counts with the full consensus limit.
TierBlockWeight_Whole == MaxBlockWeight

\* TIER_BLOCK_WEIGHT: what the projection packs into a block.
TierBlockWeight == MaxBlockWeight - BlockReservedWeight

AtLeast(floor, rate) == IF rate < floor THEN floor ELSE rate

\* Mutant: the entries keep the order of the snapshot.
SortedDesc_Unsorted(rate_weights) == rate_weights

\* sort_by, highest rate first; it is stable, so equal rates keep their order.
\* The entries are found by their places in the snapshot.
Precedes(rate_weights, i, j) ==
    \/ rate_weights[i][1] > rate_weights[j][1]
    \/ rate_weights[i][1] = rate_weights[j][1] /\ i < j

Places(rate_weights) ==
    LET places == 1..Len(rate_weights)
    IN  CHOOSE p \in [places -> places] :
            \A i, j \in places : i < j => Precedes(rate_weights, p[i], p[j])

SortedDesc(rate_weights) ==
    LET p == Places(rate_weights)
    IN  [i \in 1..Len(rate_weights) |-> rate_weights[p[i]]]

\* The weight of the entries S.
WeightOf(entries, S) ==
    LET weight == [i \in 1..Len(entries) |-> entries[i][2]]
    IN  MapThenSumSet(LAMBDA i : weight[i], S)

\* `cum` after entry i.
Cumulative(entries, i) == WeightOf(entries, 1..i)

\* The entries at which the cumulative weight has reached the threshold.
Reaching(entries, threshold) ==
    {i \in 1..Len(entries) : Cumulative(entries, i) >= threshold}

\* Mutant: a rate below the relay floor is returned as it is.
TierAtDepth_NoFloor(entries, depth, floor) ==
    LET reaching == Reaching(entries, depth * TierBlockWeight)
    IN  IF reaching = {} THEN floor ELSE entries[Min(reaching)][1]

\* tier_at_depth: the loop returns at the first entry that reaches it.
TierAtDepth(entries, depth, floor) ==
    LET reaching == Reaching(entries, depth * TierBlockWeight)
    IN  IF reaching = {} THEN floor ELSE AtLeast(floor, entries[Min(reaching)][1])

RecommendedTiers(rate_weights, floor) ==
    LET entries == SortedDesc(rate_weights)
    IN  [next_block      |-> TierAtDepth(entries, FastestDepth, floor),
         within_3_blocks |-> TierAtDepth(entries, HalfHourDepth, floor),
         within_6_blocks |-> TierAtDepth(entries, HourDepth, floor),
         horizon         |-> TierAtDepth(entries, EconomyDepth, floor),
         relay_floor     |-> floor]

-----------------------------------------------------------------------------
\* The reference: without any order, the highest rate such that the entries
\* that pay at least that much weigh as much as `budget`, or the floor.

WeightAtOrAbove(rate_weights, rate) ==
    WeightOf(rate_weights, {i \in 1..Len(rate_weights) : rate_weights[i][1] >= rate})

ReferenceTier(rate_weights, budget, floor) ==
    LET filling == {r \in {rate_weights[i][1] : i \in 1..Len(rate_weights)} :
                        WeightAtOrAbove(rate_weights, r) >= budget}
    IN  IF filling = {} THEN floor ELSE AtLeast(floor, Max(filling))
=============================================================================

----------------------------- MODULE MCFeeTiers -----------------------------
\* recommended_tiers on every small list of effective rates and weights.
EXTENDS FeeTiers

CONSTANTS
    Rates, Weights,   \* of the entries
    Floors,           \* the relay floors
    MaxEntries        \* bound on the number of entries

ASSUME HistogramAssumption ==
    /\ Rates \subseteq Nat /\ Weights \subseteq Nat /\ Floors \subseteq Nat
    /\ MaxEntries \in Nat

VARIABLES rate_weights, floor

vars == <<rate_weights, floor>>

Init == rate_weights = <<>> /\ floor \in Floors

\* The snapshot is in txid order, which says nothing about rates.
Next ==
    /\ Len(rate_weights) < MaxEntries
    /\ \E r \in Rates, w \in Weights : rate_weights' = Append(rate_weights, <<r, w>>)
    /\ UNCHANGED floor

Spec == Init /\ [][Next]_vars

Tiers == RecommendedTiers(rate_weights, floor)

\* A tier is the rate that outbids all but the top `depth` blocks of the mempool,
\* with what the projection packs into a block: the weight limit less the reserve
\* (fees.rs:33-37).  The documented budget is the full limit; read at that, a tier
\* would be as high at most, and lower for a mempool that ends in between.
TierIsExact(tier, depth) ==
    /\ tier = ReferenceTier(rate_weights, depth * (MaxBlockWeight - BlockReservedWeight), floor)
    /\ tier >= ReferenceTier(rate_weights, depth * MaxBlockWeight, floor)

\* So for all four tiers, whatever the order of the snapshot, ties and partial blocks.
TiersMatchReference ==
    /\ TierIsExact(Tiers.next_block, FastestDepth)
    /\ TierIsExact(Tiers.within_3_blocks, HalfHourDepth)
    /\ TierIsExact(Tiers.within_6_blocks, HourDepth)
    /\ TierIsExact(Tiers.horizon, EconomyDepth)

\* A later target never costs more, and none is below the relay floor.
TiersMonotone ==
    /\ Tiers.next_block >= Tiers.within_3_blocks
    /\ Tiers.within_3_blocks >= Tiers.within_6_blocks
    /\ Tiers.within_6_blocks >= Tiers.horizon
    /\ Tiers.horizon >= Tiers.relay_floor
=============================================================================

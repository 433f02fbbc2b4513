---------------------------- MODULE SyncDecision ----------------------------
(***************************************************************************)
(* The pure decisions of the sync loop (sync/decision.rs) and the set      *)
(* difference it acts on (mempool.rs, compute_diff).  Counts are `usize`:  *)
(* UsizeMax is the largest one, so that the saturating product of the      *)
(* mass-drop test is modelled by what it does and not as an ideal product. *)
(***************************************************************************)
EXTENDS Integers, FiniteSets

CONSTANTS
    MassDropMinCacheSize,   \* MASS_DROP_MIN_CACHE_SIZE: smaller caches are never checked
    MassDropInverse,        \* MASS_DROP_INVERSE: a drop leaves less than 1/this of the cache
    UsizeMax                \* usize::MAX

ASSUME DecisionAssumption ==
    /\ MassDropMinCacheSize \in Nat
    /\ MassDropInverse \in Nat \ {0}
    /\ UsizeMax \in Nat

-----------------------------------------------------------------------------
\* Mutant: the plain product, which wraps around in a release build.
SaturatingMul_Wraps(a, b) == (a * b) % (UsizeMax + 1)

\* usize::saturating_mul.
SaturatingMul(a, b) == IF a * b > UsizeMax THEN UsizeMax ELSE a * b

\* is_mass_drop: the cache is large enough to check and the node lists less
\* than 1/MassDropInverse of what is cached.
IsMassDrop(cache_len, node_txid_count) ==
    /\ cache_len >= MassDropMinCacheSize
    /\ SaturatingMul(node_txid_count, MassDropInverse) < cache_len

\* resync_cooling_down, on the time elapsed since the last bulk resync.
ResyncCoolingDown(elapsed, cooldown) == elapsed < cooldown

\* decide_desync: "none" is the code's None.  The reason carried by the other
\* two answers is only logged.
DecideDesync(loaded, cache_len, node_txid_count, cooling_down) ==
    CASE loaded /\ ~IsMassDrop(cache_len, node_txid_count) -> "none"
      [] ~(loaded /\ ~IsMassDrop(cache_len, node_txid_count)) /\ cooling_down -> "WaitCooldown"
      [] OTHER -> "BulkResync"

\* Mutant: a bail of the fetch does not count as backlog.
IsBacklog_IgnoresIncomplete(new_count, max_per_tick, fetch_errors, incomplete) ==
    \/ new_count > max_per_tick
    \/ fetch_errors > 0

\* is_backlog: the tick did not bring the cache up to the node's listing.
\* new_count is the number of new txids before the per-tick cap.
IsBacklog(new_count, max_per_tick, fetch_errors, incomplete) ==
    \/ new_count > max_per_tick
    \/ fetch_errors > 0
    \/ incomplete

\* compute_diff.
DiffNew(cache_keys, node_txids) == node_txids \ cache_keys
DiffGone(cache_keys, node_txids) == cache_keys \ node_txids

-----------------------------------------------------------------------------
\* The mass-drop test agrees with the test on the ideal product.
MassDropExact(cache_len, node_txid_count) ==
    IsMassDrop(cache_len, node_txid_count) <=>
        /\ cache_len >= MassDropMinCacheSize
        /\ node_txid_count * MassDropInverse < cache_len
=============================================================================

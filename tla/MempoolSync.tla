----------------------------- MODULE MempoolSync -----------------------------
(***************************************************************************)
(* The sync task of Satya (sync/mod.rs): the only writer of the shared     *)
(* MempoolState, which it keeps equal to the mempool of a Bitcoin node     *)
(* over an unreliable RPC connection, together with the freshness flags    *)
(* and the cached fee estimate that the HTTP handlers read.                *)
(*                                                                         *)
(* Each action runs from one `.await` (or one release of the state lock)   *)
(* to the next.  Between any two of them the node may change, time may     *)
(* pass and an HTTP handler may read the shared state, so what a handler   *)
(* can observe is exactly what a state of this specification holds.        *)
(*                                                                         *)
(* An Instant is kept as the time elapsed since it, saturated at the only  *)
(* threshold it is ever compared with.  A fee estimate is the snapshot it  *)
(* is computed from: compute_estimate is a function of that snapshot.      *)
(***************************************************************************)
EXTENDS SyncDecision

CONSTANTS
    Txid,                     \* transaction ids
    MaxMinFee,                \* the node's min fee ranges over 0..MaxMinFee
    MaxNewFetchPerTick,       \* MAX_NEW_FETCH_PER_TICK
    ResyncCooldown,           \* RESYNC_COOLDOWN
    FeeRecomputeMinInterval,  \* SyncConfig.fee_recompute_min_interval
    ReportsLoaded,            \* whether this node reports `loaded` at all
    NoEstimate,               \* fee_estimate = None
    MaxTip,                   \* bound: height of the node's chain
    MaxChurn,                 \* bound: changes of the node's mempool
    MaxFaults                 \* bound: failed RPC calls and failed recomputes

MinFee == 0..MaxMinFee
Estimate == [txs : SUBSET Txid, min_fee : MinFee]
NoTip == -1                   \* tip_height().await.ok() = None
Calls == {"info", "txids", "entry", "tip", "bulk"}   \* "bulk": any call of bulk_resync

ASSUME SyncAssumption ==
    /\ IsFiniteSet(Txid)
    /\ Cardinality(Txid) <= UsizeMax
    /\ MaxMinFee \in Nat
    /\ MaxNewFetchPerTick \in Nat \ {0}
    /\ ResyncCooldown \in Nat
    /\ FeeRecomputeMinInterval \in Nat
    /\ ReportsLoaded \in BOOLEAN
    /\ NoEstimate \notin Estimate
    /\ MaxTip \in Nat
    /\ MaxChurn \in Nat
    /\ MaxFaults \in Nat

VARIABLES
    \* The node and the network, external to Satya.
    nodeTxs,          \* its mempool
    nodeLoaded,       \* whether it has finished loading its mempool
    nodeTip,          \* height of its chain
    nodeMinFee,       \* its mempool min fee
    churn,            \* changes so far, at most MaxChurn
    faults,           \* failures so far, at most MaxFaults
    \* MempoolState, behind the lock.
    txs,              \* keys of the cache
    mempool_min_fee,
    tip_height,
    caught_up,
    last_sync_ok,     \* whether it is Some
    fee_estimate,
    \* Control of the task, and what it keeps across ticks.
    pc,
    steady,           \* in the steady-state loop, past the cold start
    bulk_age,         \* last_bulk_resync.elapsed()
    fee_age,          \* last_fee_recompute.elapsed()
    \* Locals of one tick.
    loaded,           \* what the node's mempool_info said
    min_fee,
    listed,           \* txids of the latest listing, plain or verbose
    new,              \* diff.new
    pending,          \* candidates whose fetch has not resolved
    fetched,
    fetch_errors,
    tip,
    snapshot,         \* what the fee recompute under way works on
    \* History, read by no action.
    held,             \* listed by the latest listing and in the node ever since
    failed,           \* the calls that failed in the current tick
    download_age,     \* time since the cold load landed or a full download began
    fee_current       \* caught_up has held ever since fee_estimate was computed

node    == <<nodeTxs, nodeLoaded, nodeTip, nodeMinFee, churn>>
data    == <<txs, mempool_min_fee, tip_height>>
flags   == <<caught_up, last_sync_ok, fee_current>>
fee     == <<fee_estimate, snapshot>>
timers  == <<bulk_age, fee_age, download_age>>
calls   == <<faults, failed>>
replies == <<loaded, min_fee, tip>>
listing == <<listed, held>>
fetch   == <<new, pending, fetched, fetch_errors>>

vars == <<node, data, flags, fee, timers, calls, replies, listing, fetch, pc, steady>>

BulkSteps == {"bulk_verbose", "bulk_info", "bulk_tip", "bulk_write", "bulk_apply"}
FetchSteps == {"fetch", "tick_tip", "tick_apply"}
RecomputeSteps == {"recompute", "recompute_forced", "recompute_store"}
Steps == {"wait_loaded", "idle", "tick_info", "tick_txids", "tick_decide"}
            \cup BulkSteps \cup FetchSteps \cup RecomputeSteps

\* MempoolState::new and the locals of run; the node is in any state.
Init ==
    /\ nodeTxs \in SUBSET Txid
    /\ nodeLoaded \in BOOLEAN
    /\ nodeTip = 1
    /\ nodeMinFee \in MinFee
    /\ churn = 0 /\ faults = 0
    /\ txs = {} /\ mempool_min_fee = 0 /\ tip_height = 0
    /\ caught_up = FALSE /\ last_sync_ok = FALSE
    /\ fee_estimate = NoEstimate /\ snapshot = NoEstimate
    /\ pc = "wait_loaded" /\ steady = FALSE
    /\ bulk_age = ResyncCooldown
    /\ fee_age = FeeRecomputeMinInterval
    /\ loaded = FALSE /\ min_fee = 0 /\ tip = NoTip
    /\ new = {} /\ pending = {} /\ fetched = {} /\ fetch_errors = 0
    /\ listed = {} /\ held = {} /\ failed = {}
    /\ download_age = ResyncCooldown /\ fee_current = FALSE

-----------------------------------------------------------------------------
\* Common parts of the actions.

Goto(from, to) == pc = from /\ pc' = to

\* A call that fails.  reconnect_on_error then rebuilds the client, which has
\* no state here: a client that stays broken is a longer run of failures.
Fails(call) ==
    /\ faults < MaxFaults
    /\ faults' = faults + 1
    /\ failed' = failed \cup {call}

\* set_synced_locked; the value it remembers to log each edge once is left out.
SetSynced(synced) ==
    /\ caught_up' = synced
    /\ fee_current' = (fee_current /\ synced)

\* The answer to getmempoolinfo.  A node that omits `loaded` counts as loaded.
InfoReply ==
    /\ loaded' = (nodeLoaded \/ ~ReportsLoaded)
    /\ min_fee' = nodeMinFee

\* The answer to getrawmempool, of either form.
ListingReply ==
    /\ listed' = nodeTxs
    /\ held' = nodeTxs

ResetLocals ==
    /\ loaded' = FALSE /\ min_fee' = 0 /\ tip' = NoTip
    /\ new' = {} /\ pending' = {} /\ fetched' = {} /\ fetch_errors' = 0

\* Return to the loop of `run`; the locals of the tick go out of scope.
EndTick ==
    /\ pc' = "idle"
    /\ steady' = TRUE
    /\ ResetLocals

-----------------------------------------------------------------------------
\* Cold start: wait_until_mempool_loaded.  A reply that says "not loaded" and
\* the sleep before the next try change nothing.

WaitLoaded ==
    /\ Goto("wait_loaded", "bulk_verbose")
    /\ nodeLoaded \/ ~ReportsLoaded
    /\ UNCHANGED <<node, data, flags, fee, timers, calls, replies, listing, fetch, steady>>

WaitLoadedFails ==
    /\ Goto("wait_loaded", "wait_loaded")
    /\ Fails("info")
    /\ UNCHANGED <<node, data, flags, fee, timers, replies, listing, fetch, steady>>

-----------------------------------------------------------------------------
\* bulk_resync and its two callers, initial_bulk_load and the BulkResync arm
\* of steady_tick.

BulkVerbose ==
    /\ Goto("bulk_verbose", "bulk_info")
    /\ ListingReply
    /\ failed' = IF steady THEN failed ELSE {}
    /\ UNCHANGED <<node, data, flags, fee, timers, faults, replies, fetch, steady>>

\* Only the min fee of the reply is used: `loaded` is not looked at again.
BulkInfo ==
    /\ Goto("bulk_info", "bulk_tip")
    /\ min_fee' = nodeMinFee
    /\ UNCHANGED <<node, data, flags, fee, timers, calls, loaded, tip, listing, fetch, steady>>

BulkTip ==
    /\ Goto("bulk_tip", "bulk_write")
    /\ tip' = nodeTip
    /\ UNCHANGED <<node, data, flags, fee, timers, calls, loaded, min_fee, listing, fetch, steady>>

\* Mutant: a failed resync leaves caught_up as it was.
BulkFailed_KeepsFlag ==
    /\ pc' = IF steady THEN "idle" ELSE "bulk_verbose"
    /\ UNCHANGED flags

\* bulk_resync returned None: a steady tick ends with the state marked stale,
\* the cold start sleeps and tries again.
BulkFailed ==
    IF steady
    THEN pc' = "idle" /\ SetSynced(FALSE) /\ UNCHANGED last_sync_ok
    ELSE pc' = "bulk_verbose" /\ UNCHANGED flags

BulkCallFails ==
    /\ pc \in {"bulk_verbose", "bulk_info", "bulk_tip"}
    /\ Fails("bulk")
    /\ BulkFailed
    /\ ResetLocals
    /\ UNCHANGED <<node, data, fee, timers, listing, steady>>

\* The data is replaced under one acquisition of the write lock ...
BulkWrite ==
    /\ Goto("bulk_write", "bulk_apply")
    /\ txs' = listed
    /\ mempool_min_fee' = min_fee
    /\ tip_height' = tip
    /\ UNCHANGED <<node, flags, fee, timers, calls, replies, listing, fetch, steady>>

\* ... and the flags under another (apply_bulk_success).  The cold start stamps
\* last_bulk_resync here, after the load has landed.
BulkApply ==
    /\ Goto("bulk_apply", "recompute_forced")
    /\ SetSynced(TRUE)
    /\ last_sync_ok' = TRUE
    /\ bulk_age' = IF steady THEN bulk_age ELSE 0
    /\ download_age' = IF steady THEN download_age ELSE 0
    /\ UNCHANGED <<node, data, fee, fee_age, calls, replies, listing, fetch, steady>>

-----------------------------------------------------------------------------
\* maybe_recompute_fees: throttle, snapshot under the read lock, computation
\* on the blocking pool, store under the write lock.

\* Mutant: a skipped recompute restarts the interval as well.
RecomputeThrottled_Restarts ==
    /\ pc = "recompute"
    /\ fee_age < FeeRecomputeMinInterval
    /\ fee_age' = 0
    /\ EndTick
    /\ UNCHANGED <<node, data, flags, fee, bulk_age, download_age, calls, listing>>

RecomputeThrottled ==
    /\ pc = "recompute"
    /\ fee_age < FeeRecomputeMinInterval
    /\ EndTick
    /\ UNCHANGED <<node, data, flags, fee, timers, calls, listing>>

RecomputeSnapshot ==
    /\ \/ pc = "recompute_forced"
       \/ pc = "recompute" /\ ~(fee_age < FeeRecomputeMinInterval)
    /\ pc' = "recompute_store"
    /\ snapshot' = [txs |-> txs, min_fee |-> mempool_min_fee]
    /\ UNCHANGED <<node, data, flags, fee_estimate, timers, calls, replies, listing, fetch, steady>>

RecomputeStore ==
    /\ pc = "recompute_store"
    /\ fee_estimate' = snapshot
    /\ snapshot' = NoEstimate
    /\ fee_age' = 0
    /\ fee_current' = caught_up
    /\ EndTick
    /\ UNCHANGED <<node, data, caught_up, last_sync_ok, bulk_age, download_age, calls, listing>>

\* The blocking task failed: the old estimate stays and the timer restarts.
RecomputeFails ==
    /\ pc = "recompute_store"
    /\ faults < MaxFaults
    /\ faults' = faults + 1
    /\ snapshot' = NoEstimate
    /\ fee_age' = 0
    /\ EndTick
    /\ UNCHANGED <<node, data, flags, fee_estimate, bulk_age, download_age, failed, listing>>

-----------------------------------------------------------------------------
\* steady_tick.

\* The select! of `run`: the poll interval elapsed, or a block event came first.
StartTick ==
    /\ Goto("idle", "tick_info")
    /\ failed' = {}
    /\ UNCHANGED <<node, data, flags, fee, timers, faults, replies, listing, fetch, steady>>

TickInfo ==
    /\ Goto("tick_info", "tick_txids")
    /\ InfoReply
    /\ UNCHANGED <<node, data, flags, fee, timers, calls, tip, listing, fetch, steady>>

TickTxids ==
    /\ Goto("tick_txids", "tick_decide")
    /\ ListingReply
    /\ UNCHANGED <<node, data, flags, fee, timers, calls, replies, fetch, steady>>

\* Either of the two calls fails: mark the state stale and give up the tick.
TickCallFails ==
    /\ \/ pc = "tick_info" /\ Fails("info")
       \/ pc = "tick_txids" /\ Fails("txids")
    /\ SetSynced(FALSE)
    /\ EndTick
    /\ UNCHANGED <<node, data, last_sync_ok, fee, timers, listing>>

Decision ==
    DecideDesync(loaded, Cardinality(txs), Cardinality(listed),
                 ResyncCoolingDown(bulk_age, ResyncCooldown))

\* Mutant: the arm forgets to mark the state stale.
TickWaitCooldown_KeepsFlag ==
    /\ pc = "tick_decide"
    /\ Decision = "WaitCooldown"
    /\ EndTick
    /\ UNCHANGED <<node, data, flags, fee, timers, calls, listing>>

TickWaitCooldown ==
    /\ pc = "tick_decide"
    /\ Decision = "WaitCooldown"
    /\ SetSynced(FALSE)
    /\ EndTick
    /\ UNCHANGED <<node, data, last_sync_ok, fee, timers, calls, listing>>

\* Mutant: only a successful bulk resync would start the cooldown.
StampBulk_Skipped == bulk_age' = bulk_age

\* last_bulk_resync is stamped before the download, whether or not it succeeds.
StampBulk == bulk_age' = 0

\* Mutant: the resync starts from an emptied cache.
TickBulkResync_Clears ==
    /\ Goto("tick_decide", "bulk_verbose")
    /\ Decision = "BulkResync"
    /\ StampBulk
    /\ download_age' = 0
    /\ txs' = {}
    /\ UNCHANGED <<node, mempool_min_fee, tip_height, flags, fee, fee_age, calls, replies,
                   listing, fetch, steady>>

TickBulkResync ==
    /\ Goto("tick_decide", "bulk_verbose")
    /\ Decision = "BulkResync"
    /\ StampBulk
    /\ download_age' = 0
    /\ UNCHANGED <<node, data, flags, fee, fee_age, calls, replies, listing, fetch, steady>>

\* The number of txids a tick tries to fetch.
Attempted(news) ==
    IF Cardinality(news) > MaxNewFetchPerTick THEN MaxNewFetchPerTick ELSE Cardinality(news)

\* `take(max_per_tick)` of a list in hash order: any subset of that size.
Candidates(news) == {C \in SUBSET news : Cardinality(C) = Attempted(news)}

\* In sync: diff against the listing, drop the departed txids under the lock
\* and begin to fetch the new ones.
TickDiff ==
    /\ Goto("tick_decide", "fetch")
    /\ Decision = "none"
    /\ new' = DiffNew(txs, listed)
    /\ txs' = txs \ DiffGone(txs, listed)
    /\ pending' \in Candidates(DiffNew(txs, listed))
    /\ UNCHANGED <<node, mempool_min_fee, tip_height, flags, fee, timers, calls, replies,
                   listing, fetched, fetch_errors, steady>>

\* fetch_new_entries: up to `concurrency` getmempoolentry calls in flight,
\* consumed in the order in which they resolve.  Candidates are in hash order
\* already, so any pending one may be next.
FetchEntry(t) ==
    /\ Goto("fetch", "fetch")
    /\ t \in pending
    /\ pending' = pending \ {t}
    /\ UNCHANGED <<node, data, flags, fee, timers, replies, listing, new, steady>>

FetchOk(t) ==
    /\ FetchEntry(t)
    /\ t \in nodeTxs
    /\ fetched' = fetched \cup {t}
    /\ UNCHANGED <<calls, fetch_errors>>

\* Gone between the listing and the fetch: the node answers -5, Ok(None).
FetchVanished(t) ==
    /\ FetchEntry(t)
    /\ t \notin nodeTxs
    /\ UNCHANGED <<calls, fetched, fetch_errors>>

FetchFails(t) ==
    /\ FetchEntry(t)
    /\ Fails("entry")
    /\ fetch_errors' = fetch_errors + 1
    /\ UNCHANGED fetched

\* Mutant: the budget is checked before a result is consumed.
MayBail_BeforeResult == pending # {}

\* The time budget is checked after each result, never before the first one.
MayBail == pending # {} /\ Cardinality(pending) < Attempted(new)

\* Every candidate resolved, or the tick ran past its budget: what was in
\* flight is dropped and stays pending, which is `incomplete`.
FetchEnds ==
    /\ Goto("fetch", "tick_tip")
    /\ pending = {} \/ MayBail
    /\ UNCHANGED <<node, data, flags, fee, timers, calls, replies, listing, fetch, steady>>

TickTip ==
    /\ Goto("tick_tip", "tick_apply")
    /\ tip' = nodeTip
    /\ UNCHANGED <<node, data, flags, fee, timers, calls, loaded, min_fee, listing, fetch, steady>>

\* tip_height().await.ok(): the failure is dropped and the tick goes on.
TickTipFails ==
    /\ Goto("tick_tip", "tick_apply")
    /\ Fails("tip")
    /\ UNCHANGED <<node, data, flags, fee, timers, replies, listing, fetch, steady>>

Backlog ==
    IsBacklog(Cardinality(new), MaxNewFetchPerTick, fetch_errors, pending # {})

\* Mutant: a missing reply overwrites the height.
TipSeen_Overwrites(old, reply) == reply

TipSeen(old, reply) == IF reply = NoTip THEN old ELSE reply

\* Mutant: the estimate is recomputed on a backlog as well.
AfterApply_Always == pc' = "recompute"

\* The estimate is left alone while the cache is known to be incomplete.
AfterApply == pc' = IF Backlog THEN "idle" ELSE "recompute"

\* Inserts, min fee, tip and flags, under one acquisition of the write lock.
TickApply ==
    /\ pc = "tick_apply"
    /\ txs' = txs \cup fetched
    /\ mempool_min_fee' = min_fee
    /\ tip_height' = TipSeen(tip_height, tip)
    /\ SetSynced(~Backlog)
    /\ last_sync_ok' = (last_sync_ok \/ ~Backlog)
    /\ AfterApply
    /\ ResetLocals
    /\ UNCHANGED <<node, fee, timers, calls, listing, steady>>

-----------------------------------------------------------------------------
\* The node and the clock.

NodeChanges(S) ==
    /\ churn < MaxChurn
    /\ churn' = churn + 1
    /\ nodeTxs' = S
    /\ held' = held \cap S
    /\ UNCHANGED <<data, flags, fee, timers, calls, replies, listed, fetch, pc, steady>>

NodeArrive(t) ==
    /\ t \notin nodeTxs
    /\ NodeChanges(nodeTxs \cup {t})
    /\ UNCHANGED <<nodeLoaded, nodeTip, nodeMinFee>>

\* Eviction or replacement; the min fee may follow.
NodeEvict(t) ==
    /\ t \in nodeTxs
    /\ NodeChanges(nodeTxs \ {t})
    /\ nodeMinFee' \in MinFee
    /\ UNCHANGED <<nodeLoaded, nodeTip>>

NodeMine(S) ==
    /\ nodeTip < MaxTip
    /\ NodeChanges(nodeTxs \ S)
    /\ nodeTip' = nodeTip + 1
    /\ UNCHANGED <<nodeLoaded, nodeMinFee>>

\* A restarted node begins with an empty mempool and loads the saved one.
NodeRestart ==
    /\ NodeChanges({})
    /\ nodeLoaded' = FALSE
    /\ UNCHANGED <<nodeTip, nodeMinFee>>

NodeLoads ==
    /\ ~nodeLoaded
    /\ nodeLoaded' = TRUE
    /\ UNCHANGED <<nodeTxs, nodeTip, nodeMinFee, churn, data, flags, fee, timers, calls,
                   replies, listing, fetch, pc, steady>>

Older(age, limit) == IF age < limit THEN age + 1 ELSE age

Elapse ==
    /\ bulk_age' = Older(bulk_age, ResyncCooldown)
    /\ download_age' = Older(download_age, ResyncCooldown)
    /\ fee_age' = Older(fee_age, FeeRecomputeMinInterval)
    /\ timers' # timers
    /\ UNCHANGED <<node, data, flags, fee, calls, replies, listing, fetch, pc, steady>>

-----------------------------------------------------------------------------
Bulk == BulkVerbose \/ BulkInfo \/ BulkTip \/ BulkCallFails \/ BulkWrite \/ BulkApply

Recompute == RecomputeThrottled \/ RecomputeSnapshot \/ RecomputeStore \/ RecomputeFails

Fetch ==
    \/ \E t \in Txid : FetchOk(t) \/ FetchVanished(t) \/ FetchFails(t)
    \/ FetchEnds

Tick ==
    \/ StartTick \/ TickInfo \/ TickTxids \/ TickCallFails
    \/ TickWaitCooldown \/ TickBulkResync \/ TickDiff
    \/ TickTip \/ TickTipFails \/ TickApply

SyncTask == WaitLoaded \/ WaitLoadedFails \/ Bulk \/ Recompute \/ Tick \/ Fetch

Node ==
    \/ \E t \in Txid : NodeArrive(t) \/ NodeEvict(t)
    \/ \E S \in SUBSET nodeTxs : NodeMine(S)
    \/ NodeRestart
    \/ NodeLoads

Next == SyncTask \/ Node \/ Elapse

Spec == Init /\ [][Next]_vars

\* Tokio runs a task that can run, a call resolves or hits the client's
\* timeout, time passes, and a node finishes loading.  Nothing is assumed about
\* which way a step of the task goes: it may bail out of every fetch.
FairSpec ==
    /\ Spec
    /\ WF_vars(SyncTask)
    /\ WF_vars(Elapse)
    /\ WF_vars(NodeLoads)

\* GET /fees answers with the estimate, and with 503 otherwise.
FeesServed == fee_estimate # NoEstimate /\ caught_up

-----------------------------------------------------------------------------
\* Safety.

NodeType ==
    /\ nodeTxs \in SUBSET Txid
    /\ nodeLoaded \in BOOLEAN
    /\ nodeTip \in Nat
    /\ nodeMinFee \in MinFee
    /\ churn \in 0..MaxChurn
    /\ faults \in 0..MaxFaults

StateType ==
    /\ txs \in SUBSET Txid
    /\ mempool_min_fee \in MinFee
    /\ tip_height \in Nat
    /\ caught_up \in BOOLEAN
    /\ last_sync_ok \in BOOLEAN
    /\ fee_estimate \in Estimate \cup {NoEstimate}

TaskType ==
    /\ pc \in Steps
    /\ steady \in BOOLEAN
    /\ bulk_age \in 0..ResyncCooldown
    /\ fee_age \in 0..FeeRecomputeMinInterval
    /\ snapshot \in Estimate \cup {NoEstimate}
    /\ listed \in SUBSET Txid

LocalsType ==
    /\ loaded \in BOOLEAN
    /\ min_fee \in MinFee
    /\ tip \in Nat \cup {NoTip}
    /\ new \in SUBSET Txid
    /\ pending \in SUBSET Txid
    /\ fetched \in SUBSET Txid
    /\ fetch_errors \in Nat

HistoryType ==
    /\ held \in SUBSET Txid
    /\ failed \in SUBSET Calls
    /\ download_age \in 0..ResyncCooldown
    /\ fee_current \in BOOLEAN

\* Every variable keeps its type; in particular tip_height is a height even
\* when the call for it failed.
TypeOK == NodeType /\ StateType /\ TaskType /\ LocalsType /\ HistoryType

\* The steps at which no reconciliation is under way: the latest listing is
\* the one that the flags speak of.
Settled == pc \in {"idle", "tick_info", "tick_txids"} \cup RecomputeSteps

\* The honesty invariant behind `caught_up` (is_backlog, apply_bulk_success):
\* when it is claimed, everything the node has held since the latest listing
\* is cached, whatever arrived, left, vanished, failed or was dropped by the
\* cap or the budget meanwhile, and nothing is cached that was not listed.
CaughtUpHonest ==
    caught_up /\ Settled => /\ held \subseteq txs
                            /\ txs \subseteq listed

\* A tick in which a call failed (the tip height apart) ends with caught_up
\* false, however the earlier ticks went.
OutageReported == pc = "idle" /\ caught_up => failed \subseteq {"tip"}

\* maybe_recompute_fees only stores estimates of a mempool that is vouched for:
\* the estimate stored counts everything the node has held since the listing,
\* nothing else, and the min fee of the same tick, although the computation
\* runs on another thread after the lock is released.
EstimateFromVouchedCache ==
    [][fee_estimate' # fee_estimate =>
          /\ caught_up
          /\ held \subseteq fee_estimate'.txs
          /\ fee_estimate'.txs \subseteq listed
          /\ fee_estimate'.min_fee = mempool_min_fee]_vars

\* A transaction leaves the cache only if the node dropped it: neither the diff
\* nor a bulk resync ever removes one that the node still holds.
EvictionsJustified == [][(txs \ txs') \cap held' = {}]_vars

\* The cooldown: a steady tick begins a full download only ResyncCooldown after
\* the cold load landed or an earlier download began, even a failed one.
DownloadsSpaced ==
    [][steady /\ pc # "bulk_verbose" /\ pc' = "bulk_verbose"
          => download_age = ResyncCooldown]_vars

\* The mass-drop test that guards the eviction of a whole cache is exact on the
\* counts it gets: saturation of the product never turns a listing that is large
\* enough into a drop, nor a drop into none.
MassDropDecided == MassDropExact(Cardinality(txs), Cardinality(listed))

-----------------------------------------------------------------------------
\* The abstract specification: the readers' view of the shared state.  A round
\* is what happens between a listing and the next state with settled flags.
Readers == INSTANCE FreshCache WITH
    source <- nodeTxs,
    cache <- txs,
    claim <- caught_up,
    estimate <- IF fee_estimate = NoEstimate THEN NoEstimate ELSE fee_estimate.txs,
    listing <- listed,
    kept <- held,
    round <- IF Settled THEN "closed" ELSE "open"

\* The task, with its awaits, retries, caps and two lock acquisitions, does to
\* the shared state only what FreshCache allows: each round lists, evicts, loads
\* and closes in order, and every path that gives a round up ends the claim.
ImplementsFreshCache == Readers!Spec

-----------------------------------------------------------------------------
\* Liveness, once the bounded failures and changes of the node are used up.

\* The cache becomes and stays equal to the node, and says so, even if every
\* fetch runs out of its budget and the new txids exceed the cap.
Converges ==
    <>[](/\ caught_up
         /\ txs = nodeTxs
         /\ tip_height = nodeTip
         /\ mempool_min_fee = nodeMinFee)

\* The throttle delays the estimate but does not starve it: it becomes and
\* stays the estimate of the node's mempool.
FeesConverge == <>[](fee_estimate = [txs |-> nodeTxs, min_fee |-> nodeMinFee])

-----------------------------------------------------------------------------
\* What documents and comments say and the code does not do.

\* README: no stale number is served as if it were live.  An estimate that
\* /fees serves was computed after the latest time the state was stale.
FeesFromCurrentSync == FeesServed => fee_current
=============================================================================

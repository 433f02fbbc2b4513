-------------------------- MODULE MempoolSyncProofs --------------------------
(***************************************************************************)
(* Proofs, for every value of the constants, of the safety properties of   *)
(* the sync task.                                                          *)
(***************************************************************************)
EXTENDS MempoolSync, FiniteSetTheorems, TLAPS

-----------------------------------------------------------------------------
\* The inductive invariant.

\* What has been held since the latest listing was listed and is still there.
HeldInv == held \subseteq listed /\ held \subseteq nodeTxs

\* While a tick fetches: the listing is the cache and the new txids, and if the
\* tick can still end without a backlog then every new txid that the node has
\* held is either fetched or still pending.
FetchInv ==
    /\ pc \in FetchSteps =>
          /\ listed = txs \cup new
          /\ pending \subseteq new
          /\ fetched \subseteq new
          /\ Cardinality(new) <= MaxNewFetchPerTick /\ fetch_errors = 0
                => held \subseteq txs \cup pending \cup fetched
    /\ pc \notin FetchSteps => fetched = {}

\* A bulk resync has a height to write, and has written the whole listing when
\* it comes to the flags.
BulkInv ==
    /\ pc = "bulk_write" => tip # NoTip
    /\ pc = "bulk_apply" => txs = listed

\* An estimate is only ever computed while caught_up holds, and its snapshot is
\* still the cache when it is stored.
RecomputeInv ==
    /\ pc \in RecomputeSteps => caught_up
    /\ pc = "recompute_store" => snapshot = [txs |-> txs, min_fee |-> mempool_min_fee]

\* Which calls may have failed at each step of a tick that goes on.
FailedInv ==
    /\ pc \in {"tick_info", "tick_txids", "tick_decide"} => failed = {}
    /\ pc = "bulk_verbose" /\ steady => failed = {}
    /\ pc \in {"bulk_info", "bulk_tip", "bulk_write", "bulk_apply"} => failed = {}
    /\ pc \in FetchSteps => /\ failed \subseteq {"tip", "entry"}
                            /\ "entry" \in failed => fetch_errors > 0
    /\ pc \in RecomputeSteps => failed \subseteq {"tip"}
    /\ OutageReported

\* The timer of the cooldown is the time since a download began.
TimerInv ==
    /\ download_age = bulk_age
    /\ pc = "wait_loaded" => ~steady

IInv ==
    /\ TypeOK
    /\ HeldInv
    /\ FetchInv
    /\ BulkInv
    /\ RecomputeInv
    /\ FailedInv
    /\ TimerInv
    /\ CaughtUpHonest
-----------------------------------------------------------------------------
\* Lemmas about the parts of the actions.

\* Locals that go out of scope at the end of a tick keep their types.
LEMMA ResetLocalsType == ResetLocals => LocalsType'
<1> SUFFICES ASSUME ResetLocals PROVE LocalsType'
  OBVIOUS
<1>1. loaded' \in BOOLEAN /\ fetch_errors' \in Nat
  BY DEF ResetLocals
<1>2. min_fee' \in MinFee
  BY SyncAssumption DEF ResetLocals, MinFee
<1>3. tip' \in Nat \cup {NoTip}
  BY DEF ResetLocals
<1>4. new' \in SUBSET Txid /\ pending' \in SUBSET Txid /\ fetched' \in SUBSET Txid
  BY DEF ResetLocals
<1>5. QED
  BY <1>1, <1>2, <1>3, <1>4 DEF LocalsType

\* `take(cap)` drops nothing when the new txids do not exceed the cap.
LEMMA CandidatesOf ==
  ASSUME NEW N \in SUBSET Txid, NEW C \in Candidates(N)
  PROVE  /\ C \subseteq N
         /\ Cardinality(N) <= MaxNewFetchPerTick => C = N
<1>1. IsFiniteSet(N)
  BY SyncAssumption, FS_Subset
<1>2. C \in SUBSET N /\ Cardinality(C) = Attempted(N)
  BY DEF Candidates
<1>3. Cardinality(N) \in Nat
  BY <1>1, FS_CardinalityType
<1>4. ASSUME Cardinality(N) <= MaxNewFetchPerTick PROVE C = N
  <2>1. Cardinality(C) = Cardinality(N)
    BY <1>2, <1>3, <1>4, SyncAssumption DEF Attempted
  <2>2. QED
    BY <1>1, <1>2, <2>1, FS_Subset
<1>5. QED
  BY <1>2, <1>4

\* A tick without backlog fetched all there was, without an error.
LEMMA NoBacklog ==
  ASSUME new \in SUBSET Txid, ~Backlog
  PROVE  /\ Cardinality(new) <= MaxNewFetchPerTick
         /\ pending = {}
         /\ ~(fetch_errors > 0)
<1>1. Cardinality(new) \in Nat
  BY SyncAssumption, FS_Subset, FS_CardinalityType
<1>2. QED
  BY <1>1, SyncAssumption DEF Backlog, IsBacklog

-----------------------------------------------------------------------------
\* The invariant holds initially and every step preserves it.

\* MempoolState::new and a task that has not begun satisfy the invariant.
LEMMA InitIInv == Init => IInv
<1> SUFFICES ASSUME Init PROVE IInv
  OBVIOUS
<1>1. NodeType
  BY SyncAssumption DEF Init, NodeType
<1>2. StateType
  <2>1. txs \in SUBSET Txid
    BY DEF Init
  <2>2. mempool_min_fee \in MinFee /\ tip_height \in Nat
    BY SyncAssumption DEF Init, MinFee
  <2>3. QED
    BY <2>1, <2>2 DEF Init, StateType
<1>3. TaskType
  <2>1. listed \in SUBSET Txid
    BY DEF Init
  <2>2. bulk_age \in 0..ResyncCooldown /\ fee_age \in 0..FeeRecomputeMinInterval
    BY SyncAssumption DEF Init
  <2>3. QED
    BY <2>1, <2>2 DEF Init, TaskType, Steps
<1>4. LocalsType
  <2>1. loaded \in BOOLEAN /\ fetch_errors \in Nat /\ tip \in Nat \cup {NoTip}
    BY DEF Init
  <2>2. min_fee \in MinFee
    BY SyncAssumption DEF Init, MinFee
  <2>3. new \in SUBSET Txid /\ pending \in SUBSET Txid /\ fetched \in SUBSET Txid
    BY DEF Init
  <2>4. QED
    BY <2>1, <2>2, <2>3 DEF LocalsType
<1>5. HistoryType
  <2>1. held \in SUBSET Txid /\ failed \in SUBSET Calls
    BY DEF Init
  <2>2. download_age \in 0..ResyncCooldown
    BY SyncAssumption DEF Init
  <2>3. QED
    BY <2>1, <2>2 DEF Init, HistoryType
<1>6. HeldInv /\ FetchInv /\ BulkInv /\ RecomputeInv /\ FailedInv /\ TimerInv /\ CaughtUpHonest
   BY DEF Init, HeldInv, FetchInv, BulkInv, RecomputeInv, FailedInv, OutageReported,
           TimerInv,
         CaughtUpHonest, FetchSteps, RecomputeSteps
<1>7. QED
  BY <1>1, <1>2, <1>3, <1>4, <1>5, <1>6 DEF IInv, TypeOK

\* A stuttering step preserves the invariant.
LEMMA StutterStep == IInv /\ UNCHANGED vars => IInv'
   BY DEF IInv, TypeOK, NodeType, StateType, TaskType, LocalsType, HistoryType, HeldInv,
           FetchInv, BulkInv, RecomputeInv, FailedInv, TimerInv, CaughtUpHonest,
           OutageReported,
         Settled, vars, node, data, flags, fee, timers, calls, replies, listing, fetch

\* The cold start and the bulk resync.
LEMMA BulkStep == IInv /\ (WaitLoaded \/ WaitLoadedFails \/ Bulk) => IInv'
<1> SUFFICES ASSUME IInv, WaitLoaded \/ WaitLoadedFails \/ Bulk PROVE IInv'
  OBVIOUS
<1> USE SyncAssumption DEF IInv, TypeOK, NodeType, StateType, TaskType, LocalsType,
         HistoryType, HeldInv, FetchInv, BulkInv, RecomputeInv, FailedInv, TimerInv,
         CaughtUpHonest, OutageReported, Settled, Steps, BulkSteps, FetchSteps,
         RecomputeSteps, vars, node, data, flags, fee, timers, calls, replies, listing,
         fetch, Goto, Fails, Calls
<1>1. CASE WaitLoaded
  BY <1>1 DEF WaitLoaded
<1>2. CASE WaitLoadedFails
  BY <1>2 DEF WaitLoadedFails
<1>3. CASE BulkVerbose
  BY <1>3 DEF BulkVerbose, ListingReply
<1>4. CASE BulkInfo
  BY <1>4 DEF BulkInfo, InfoReply
<1>5. CASE BulkTip
  BY <1>5 DEF BulkTip, NoTip
<1>6. CASE BulkCallFails
  <2>1. LocalsType'
    BY <1>6, ResetLocalsType DEF BulkCallFails
  <2>2. NodeType' /\ StateType' /\ TaskType'
    <3>1. NodeType'
      BY <1>6 DEF BulkCallFails
    <3>2. StateType'
      BY <1>6 DEF BulkCallFails, BulkFailed, SetSynced
    <3>3. TaskType'
      BY <1>6 DEF BulkCallFails, BulkFailed
    <3>4. QED
      BY <3>1, <3>2, <3>3
  <2>3. HistoryType'
    BY <1>6 DEF BulkCallFails, BulkFailed, SetSynced
  <2>4. FailedInv' /\ CaughtUpHonest'
    BY <1>6 DEF BulkCallFails, BulkFailed, SetSynced
  <2>5. HeldInv' /\ FetchInv' /\ BulkInv' /\ RecomputeInv' /\ TimerInv'
    BY <1>6 DEF BulkCallFails, BulkFailed, SetSynced, ResetLocals
  <2>6. QED
    BY <2>1, <2>2, <2>3, <2>4, <2>5 DEF IInv, TypeOK
<1>7. CASE BulkWrite
  BY <1>7 DEF BulkWrite, NoTip
<1>8. CASE BulkApply
  BY <1>8 DEF BulkApply, SetSynced
<1>9. QED
  BY <1>1, <1>2, <1>3, <1>4, <1>5, <1>6, <1>7, <1>8 DEF Bulk

\* The fee recompute.
LEMMA RecomputeStep == IInv /\ Recompute => IInv'
<1> SUFFICES ASSUME IInv, Recompute PROVE IInv'
  OBVIOUS
<1> USE SyncAssumption DEF IInv, TypeOK, NodeType, StateType, TaskType, LocalsType,
         HistoryType, HeldInv, FetchInv, BulkInv, RecomputeInv, FailedInv, TimerInv,
         CaughtUpHonest, OutageReported, Settled, Steps, BulkSteps, FetchSteps,
         RecomputeSteps, vars, node, data, flags, fee, timers, calls, replies, listing,
         fetch
<1>1. CASE RecomputeThrottled
  <2>1. LocalsType' /\ fetched' = {}
    BY <1>1, ResetLocalsType DEF RecomputeThrottled, EndTick, ResetLocals
  <2>2. QED
    BY <1>1, <2>1 DEF RecomputeThrottled, EndTick
<1>2. CASE RecomputeSnapshot
  BY <1>2 DEF RecomputeSnapshot, Estimate
<1>3. CASE RecomputeStore
  <2>1. LocalsType' /\ fetched' = {}
    BY <1>3, ResetLocalsType DEF RecomputeStore, EndTick, ResetLocals
  <2>2. QED
    BY <1>3, <2>1 DEF RecomputeStore, EndTick
<1>4. CASE RecomputeFails
  <2>1. LocalsType' /\ fetched' = {}
    BY <1>4, ResetLocalsType DEF RecomputeFails, EndTick, ResetLocals
  <2>2. QED
    BY <1>4, <2>1 DEF RecomputeFails, EndTick
<1>5. QED
  BY <1>1, <1>2, <1>3, <1>4 DEF Recompute

\* The steady tick, the fetch apart.
LEMMA TickStep == IInv /\ Tick => IInv'
<1> SUFFICES ASSUME IInv, Tick PROVE IInv'
  OBVIOUS
<1> USE SyncAssumption DEF IInv, TypeOK, NodeType, StateType, TaskType, LocalsType,
         HistoryType, HeldInv, FetchInv, BulkInv, RecomputeInv, FailedInv, TimerInv,
         CaughtUpHonest, OutageReported, Settled, Steps, BulkSteps, FetchSteps,
         RecomputeSteps, vars, node, data, flags, fee, timers, calls, replies, listing,
         fetch, Goto, Fails, Calls
<1>1. CASE StartTick
  BY <1>1 DEF StartTick
<1>2. CASE TickInfo
  BY <1>2 DEF TickInfo, InfoReply
<1>3. CASE TickTxids
  BY <1>3 DEF TickTxids, ListingReply
<1>4. CASE TickCallFails
  <2>1. LocalsType'
    BY <1>4, ResetLocalsType DEF TickCallFails, EndTick
  <2>2. NodeType' /\ StateType' /\ TaskType' /\ fetched' = {}
    <3>1. NodeType'
      BY <1>4 DEF TickCallFails
    <3>2. StateType' /\ TaskType'
      BY <1>4 DEF TickCallFails, EndTick, SetSynced
    <3>3. fetched' = {}
      BY <1>4 DEF TickCallFails, EndTick, ResetLocals
    <3>4. QED
      BY <3>1, <3>2, <3>3
  <2>3. HistoryType'
    BY <1>4 DEF TickCallFails, EndTick, SetSynced
  <2>4. QED
    BY <1>4, <2>1, <2>2, <2>3 DEF TickCallFails, EndTick, SetSynced
<1>5. CASE TickWaitCooldown
  <2>1. LocalsType' /\ fetched' = {}
    BY <1>5, ResetLocalsType DEF TickWaitCooldown, EndTick, ResetLocals
  <2>2. QED
    BY <1>5, <2>1 DEF TickWaitCooldown, EndTick, SetSynced
<1>6. CASE TickBulkResync
  BY <1>6 DEF TickBulkResync, StampBulk
<1>7. CASE TickDiff
  <2>1. new' \in SUBSET Txid /\ pending' \in Candidates(new')
    BY <1>7 DEF TickDiff, DiffNew
  <2>2. /\ pending' \subseteq new'
        /\ Cardinality(new') <= MaxNewFetchPerTick => pending' = new'
    BY <2>1, CandidatesOf
  <2>3. listed' = txs' \cup new' /\ txs' \in SUBSET Txid
    BY <1>7 DEF TickDiff, DiffNew, DiffGone
  <2>4. TypeOK'
    BY <1>7, <2>1, <2>2, <2>3 DEF TickDiff
  <2>5. FetchInv'
    BY <1>7, <2>2, <2>3 DEF TickDiff
  <2>6. HeldInv' /\ BulkInv' /\ RecomputeInv' /\ FailedInv' /\ TimerInv' /\ CaughtUpHonest'
    BY <1>7 DEF TickDiff
  <2>7. QED
    BY <2>4, <2>5, <2>6
<1>8. CASE TickTip
  BY <1>8 DEF TickTip
<1>9. CASE TickTipFails
  BY <1>9 DEF TickTipFails
<1>10. CASE TickApply
  <2>1. LocalsType'
    BY <1>10, ResetLocalsType DEF TickApply
  <2>2. NodeType' /\ StateType' /\ TaskType' /\ HistoryType'
    BY <1>10 DEF TickApply, TipSeen, AfterApply, SetSynced, NoTip
  <2>3. FailedInv' /\ CaughtUpHonest'
    <3>1. CASE Backlog
      BY <1>10, <3>1 DEF TickApply, AfterApply, SetSynced
    <3>2. CASE ~Backlog
      BY <1>10, <3>2, NoBacklog DEF TickApply, AfterApply, SetSynced
    <3>3. QED
      BY <3>1, <3>2
  <2>4. HeldInv' /\ FetchInv' /\ BulkInv' /\ RecomputeInv' /\ TimerInv'
    BY <1>10 DEF TickApply, AfterApply, SetSynced, ResetLocals
  <2>5. QED
    BY <2>1, <2>2, <2>3, <2>4 DEF IInv, TypeOK
<1>11. QED
  BY <1>1, <1>2, <1>3, <1>4, <1>5, <1>6, <1>7, <1>8, <1>9, <1>10 DEF Tick

\* The fetch of the new entries.
LEMMA FetchStep == IInv /\ Fetch => IInv'
<1> SUFFICES ASSUME IInv, Fetch PROVE IInv'
  OBVIOUS
<1> USE SyncAssumption DEF IInv, TypeOK, NodeType, StateType, TaskType, LocalsType,
         HistoryType, HeldInv, FetchInv, BulkInv, RecomputeInv, FailedInv, TimerInv,
         CaughtUpHonest, OutageReported, Settled, Steps, BulkSteps, FetchSteps,
         RecomputeSteps, vars, node, data, flags, fee, timers, calls, replies, listing,
         fetch, Goto, Fails, Calls, FetchEntry
<1>1. ASSUME NEW t \in Txid, FetchOk(t) PROVE IInv'
  BY <1>1 DEF FetchOk
<1>2. ASSUME NEW t \in Txid, FetchVanished(t) PROVE IInv'
  BY <1>2 DEF FetchVanished
<1>3. ASSUME NEW t \in Txid, FetchFails(t) PROVE IInv'
  BY <1>3 DEF FetchFails
<1>4. CASE FetchEnds
  BY <1>4 DEF FetchEnds
<1>5. QED
  BY <1>1, <1>2, <1>3, <1>4 DEF Fetch

\* The node and the clock.
LEMMA EnvironmentStep == IInv /\ (Node \/ Elapse) => IInv'
<1> SUFFICES ASSUME IInv, Node \/ Elapse PROVE IInv'
  OBVIOUS
<1> USE SyncAssumption DEF IInv, TypeOK, NodeType, StateType, TaskType, LocalsType,
         HistoryType, HeldInv, FetchInv, BulkInv, RecomputeInv, FailedInv, TimerInv,
         CaughtUpHonest, OutageReported, Settled, Steps, BulkSteps, FetchSteps,
         RecomputeSteps, vars, node, data, flags, fee, timers, calls, replies, listing,
         fetch, NodeChanges
<1>1. ASSUME NEW t \in Txid, NodeArrive(t) PROVE IInv'
  BY <1>1 DEF NodeArrive
<1>2. ASSUME NEW t \in Txid, NodeEvict(t) PROVE IInv'
  BY <1>2 DEF NodeEvict
<1>3. ASSUME NEW S \in SUBSET nodeTxs, NodeMine(S) PROVE IInv'
  BY <1>3 DEF NodeMine
<1>4. CASE NodeRestart
  <2>1. nodeTxs' \in SUBSET Txid /\ held' = {}
    BY <1>4 DEF NodeRestart
  <2>2. churn' \in 0..MaxChurn /\ faults' \in 0..MaxFaults
    BY <1>4 DEF NodeRestart
  <2>3. nodeLoaded' \in BOOLEAN
    BY <1>4 DEF NodeRestart
  <2>4. nodeTip' \in Nat /\ nodeMinFee' \in MinFee
    BY <1>4 DEF NodeRestart
  <2>5. NodeType'
    BY <2>1, <2>2, <2>3, <2>4
  <2>6. HistoryType'
    BY <1>4, <2>1 DEF NodeRestart
  <2>7. QED
    BY <1>4, <2>1, <2>5, <2>6 DEF NodeRestart
<1>5. CASE NodeLoads
  BY <1>5 DEF NodeLoads
<1>6. CASE Elapse
  BY <1>6 DEF Elapse, Older
<1>7. QED
  BY <1>1, <1>2, <1>3, <1>4, <1>5, <1>6 DEF Node

\* The invariant holds throughout.
LEMMA Invariance == Spec => []IInv
<1>1. IInv /\ [Next]_vars => IInv'
   BY StutterStep, BulkStep, RecomputeStep, TickStep, FetchStep, EnvironmentStep DEF Next,
           SyncTask
<1>2. QED
  BY <1>1, InitIInv, PTL DEF Spec

-----------------------------------------------------------------------------
\* The theorems.

\* Every reachable state of the sync task, the shared state and the node is
\* well typed; a failed tip_height call never leaves a missing height behind.
THEOREM TypeCorrect == Spec => []TypeOK
  BY Invariance, PTL DEF IInv

\* Whatever the node, the network, the cap and the budget do, caught_up is only
\* claimed for a cache that holds everything the node has held since the
\* latest listing and nothing that was not listed (is_backlog and bulk_resync).
THEOREM Honesty == Spec => []CaughtUpHonest
  BY Invariance, PTL DEF IInv

\* A tick in which mempool_info, raw_mempool_txids, a mempool_entry or a call
\* of bulk_resync failed ends with caught_up false.
THEOREM Outages == Spec => []OutageReported
  BY Invariance, PTL DEF IInv, FailedInv

\* is_mass_drop with its saturating product decides the exact comparison for
\* all counts that a usize can hold.
THEOREM MassDropIsExact ==
  \A cache_len, node_txid_count \in 0..UsizeMax : MassDropExact(cache_len, node_txid_count)
<1> SUFFICES ASSUME NEW c \in 0..UsizeMax, NEW n \in 0..UsizeMax
             PROVE  MassDropExact(c, n)
  OBVIOUS
<1> DEFINE p == n * MassDropInverse
<1>1. p \in Nat /\ c \in Nat /\ c <= UsizeMax
  BY DecisionAssumption
<1>2. SaturatingMul(n, MassDropInverse) < c <=> p < c
  <2> HIDE DEF p
  <2>1. SaturatingMul(n, MassDropInverse) = IF p > UsizeMax THEN UsizeMax ELSE p
    BY DEF SaturatingMul, p
  <2>2. QED
    BY <1>1, <2>1, DecisionAssumption
<1>3. QED
  BY <1>2 DEF MassDropExact, IsMassDrop

\* Both counts of the mass-drop test fit a usize, so that its saturating product
\* decides the exact comparison in every tick (is_mass_drop).
THEOREM MassDrops == Spec => []MassDropDecided
<1>1. IInv => MassDropDecided
  <2> SUFFICES ASSUME txs \in SUBSET Txid, listed \in SUBSET Txid
               PROVE  MassDropDecided
    BY DEF IInv, TypeOK, StateType, TaskType
  <2>1. \A S \in SUBSET Txid : Cardinality(S) \in 0..UsizeMax
    BY SyncAssumption, DecisionAssumption, FS_Subset, FS_CardinalityType
  <2>2. QED
    BY <2>1, MassDropIsExact DEF MassDropDecided
<1>2. QED
  BY <1>1, Invariance, PTL

\* Which steps change the cache, the estimate, and enter a bulk resync.
LEMMA TxsFrame ==
  [Next]_vars => UNCHANGED txs \/ BulkWrite \/ TickDiff \/ TickApply
<1> USE DEF vars, node, data, flags, fee, timers, calls, replies, listing, fetch
<1>1. Recompute \/ WaitLoaded \/ WaitLoadedFails => UNCHANGED txs
  BY DEF Recompute, RecomputeThrottled, RecomputeSnapshot, RecomputeStore, RecomputeFails,
         WaitLoaded, WaitLoadedFails
<1>2. Bulk => UNCHANGED txs \/ BulkWrite
  BY DEF Bulk, BulkVerbose, BulkInfo, BulkTip, BulkCallFails, BulkApply
<1>3. Fetch => UNCHANGED txs
  BY DEF Fetch, FetchOk, FetchVanished, FetchFails, FetchEntry, FetchEnds
<1>4. Tick => UNCHANGED txs \/ TickDiff \/ TickApply
  BY DEF Tick, StartTick, TickInfo, TickTxids, TickCallFails, TickWaitCooldown,
         TickBulkResync, TickTip, TickTipFails
<1>5. Node \/ Elapse => UNCHANGED txs
  BY DEF Node, NodeArrive, NodeEvict, NodeMine, NodeRestart, NodeLoads, NodeChanges, Elapse
<1>6. QED
  BY <1>1, <1>2, <1>3, <1>4, <1>5 DEF Next, SyncTask

\* Only the end of a recompute writes the estimate.
LEMMA EstimateFrame == [Next]_vars => UNCHANGED fee_estimate \/ RecomputeStore
<1> USE DEF vars, node, data, flags, fee, timers, calls, replies, listing, fetch
<1>1. Recompute \/ WaitLoaded \/ WaitLoadedFails => UNCHANGED fee_estimate \/ RecomputeStore
  BY DEF Recompute, RecomputeThrottled, RecomputeSnapshot, RecomputeFails,
         WaitLoaded, WaitLoadedFails
<1>2. Bulk => UNCHANGED fee_estimate
  BY DEF Bulk, BulkVerbose, BulkInfo, BulkTip, BulkCallFails, BulkWrite, BulkApply
<1>3. Fetch => UNCHANGED fee_estimate
  BY DEF Fetch, FetchOk, FetchVanished, FetchFails, FetchEntry, FetchEnds
<1>4. Tick => UNCHANGED fee_estimate
  BY DEF Tick, StartTick, TickInfo, TickTxids, TickCallFails, TickWaitCooldown,
         TickBulkResync, TickDiff, TickTip, TickTipFails, TickApply
<1>5. Node \/ Elapse => UNCHANGED fee_estimate
  BY DEF Node, NodeArrive, NodeEvict, NodeMine, NodeRestart, NodeLoads, NodeChanges, Elapse
<1>6. QED
  BY <1>1, <1>2, <1>3, <1>4, <1>5 DEF Next, SyncTask

\* Only the BulkResync arm of a tick begins a download once the loop is steady.
LEMMA DownloadFrame ==
  [Next]_vars => \/ pc' # "bulk_verbose" \/ pc = "bulk_verbose"
                 \/ WaitLoaded \/ BulkCallFails \/ TickBulkResync
<1> USE DEF vars, node, data, flags, fee, timers, calls, replies, listing, fetch, Goto,
         EndTick
<1>1. Recompute \/ WaitLoadedFails => pc' # "bulk_verbose"
  BY DEF Recompute, RecomputeThrottled, RecomputeSnapshot, RecomputeStore, RecomputeFails,
         WaitLoadedFails
<1>2. Bulk => pc' # "bulk_verbose" \/ BulkCallFails
  BY DEF Bulk, BulkVerbose, BulkInfo, BulkTip, BulkWrite, BulkApply
<1>3. Fetch => pc' # "bulk_verbose"
  BY DEF Fetch, FetchOk, FetchVanished, FetchFails, FetchEntry, FetchEnds
<1>4. Tick => pc' # "bulk_verbose" \/ TickBulkResync
  BY DEF Tick, StartTick, TickInfo, TickTxids, TickCallFails, TickWaitCooldown,
         TickDiff, TickTip, TickTipFails, TickApply, AfterApply
<1>5. Node \/ Elapse => pc' = pc
  BY DEF Node, NodeArrive, NodeEvict, NodeMine, NodeRestart, NodeLoads, NodeChanges, Elapse
<1>6. QED
  BY <1>1, <1>2, <1>3, <1>4, <1>5 DEF Next, SyncTask

\* No step of the diff or of a bulk resync drops a transaction that the node
\* has held since it was listed.
THEOREM Evictions == Spec => EvictionsJustified
<1>1. IInv /\ IInv' /\ [Next]_vars => [(txs \ txs') \cap held' = {}]_vars
  <2> SUFFICES ASSUME IInv, IInv', [Next]_vars PROVE (txs \ txs') \cap held' = {}
    OBVIOUS
  <2>1. CASE UNCHANGED txs
    BY <2>1
  <2>2. CASE BulkWrite
    BY <2>2 DEF BulkWrite, IInv, HeldInv, listing
  <2>3. CASE TickDiff
    BY <2>3 DEF TickDiff, DiffGone, IInv, HeldInv, listing
  <2>4. CASE TickApply
    BY <2>4 DEF TickApply
  <2>5. QED
    BY <2>1, <2>2, <2>3, <2>4, TxsFrame
<1>2. QED
  BY <1>1, Invariance, PTL DEF Spec, EvictionsJustified

\* An estimate is stored only while caught_up, and is the estimate of the cache
\* and the min fee of that moment (maybe_recompute_fees after the snapshot).
THEOREM Estimates == Spec => EstimateFromVouchedCache
<1> DEFINE Vouched == fee_estimate' # fee_estimate =>
                        /\ caught_up
                        /\ held \subseteq fee_estimate'.txs
                        /\ fee_estimate'.txs \subseteq listed
                        /\ fee_estimate'.min_fee = mempool_min_fee
<1>1. IInv /\ [Next]_vars => [Vouched]_vars
  <2> SUFFICES ASSUME IInv, RecomputeStore PROVE Vouched
    BY EstimateFrame
  <2>1. caught_up /\ fee_estimate' = [txs |-> txs, min_fee |-> mempool_min_fee]
    BY DEF RecomputeStore, IInv, RecomputeInv, RecomputeSteps
  <2>2. held \subseteq txs /\ txs \subseteq listed
    BY <2>1 DEF RecomputeStore, IInv, CaughtUpHonest, Settled, RecomputeSteps
  <2>3. QED
    BY <2>1, <2>2
<1>2. QED
  BY <1>1, Invariance, PTL DEF Spec, EstimateFromVouchedCache

\* Steady-state downloads of the whole mempool begin a cooldown apart, failed
\* ones included (last_bulk_resync is stamped before the download).
THEOREM Downloads == Spec => DownloadsSpaced
<1> DEFINE Spaced == steady /\ pc # "bulk_verbose" /\ pc' = "bulk_verbose"
                        => download_age = ResyncCooldown
<1>1. IInv /\ [Next]_vars => [Spaced]_vars
  <2> SUFFICES ASSUME IInv, steady, WaitLoaded \/ BulkCallFails \/ TickBulkResync,
                      pc' = "bulk_verbose"
               PROVE  download_age = ResyncCooldown
    BY DownloadFrame
  <2>1. CASE WaitLoaded
    BY <2>1 DEF WaitLoaded, Goto, IInv, TimerInv
  <2>2. CASE BulkCallFails
    BY <2>2 DEF BulkCallFails, BulkFailed
  <2>3. CASE TickBulkResync
    <3>1. ~(bulk_age < ResyncCooldown)
      BY <2>3 DEF TickBulkResync, Decision, DecideDesync, ResyncCoolingDown
    <3>2. QED
      BY <3>1, SyncAssumption DEF IInv, TypeOK, TaskType, TimerInv
  <2>4. QED
    BY <2>1, <2>2, <2>3
<1>2. QED
  BY <1>1, Invariance, PTL DEF Spec, DownloadsSpaced
-----------------------------------------------------------------------------
\* The refinement.

\* Within a step of the task that neither lists nor settles, readers see nothing.
LEMMA ReadersUnmoved ==
  ASSUME UNCHANGED <<nodeTxs, txs, caught_up, fee_estimate, listed, held>>, Settled' = Settled
  PROVE  UNCHANGED Readers!vars
  BY DEF Readers!vars

\* The bulk resync and the recompute, in the readers' view.
LEMMA BulkRefines == IInv /\ (Bulk \/ Recompute) => [Readers!Next]_(Readers!vars)
<1> SUFFICES ASSUME IInv, Bulk \/ Recompute PROVE [Readers!Next]_(Readers!vars)
  OBVIOUS
<1> USE DEF node, data, flags, fee, timers, calls, replies, listing, fetch, Goto, Settled,
         RecomputeSteps, Readers!vars, Readers!Next
<1>1. CASE BulkVerbose
  BY <1>1 DEF BulkVerbose, ListingReply, Readers!List
<1>2. CASE BulkInfo \/ BulkTip
  BY <1>2, ReadersUnmoved DEF BulkInfo, BulkTip
<1>3. CASE BulkCallFails
  <2>1. CASE steady
    BY <1>3, <2>1 DEF BulkCallFails, BulkFailed, SetSynced, Readers!GiveUp
  <2>2. CASE ~steady
    BY <1>3, <2>2, ReadersUnmoved DEF BulkCallFails, BulkFailed
  <2>3. QED
    BY <2>1, <2>2
<1>4. CASE BulkWrite
  BY <1>4 DEF BulkWrite, Readers!Load
<1>5. CASE BulkApply
  BY <1>5 DEF BulkApply, SetSynced, IInv, BulkInv, HeldInv, Readers!Close
<1>6. CASE RecomputeThrottled \/ RecomputeSnapshot \/ RecomputeFails
  BY <1>6, ReadersUnmoved DEF RecomputeThrottled, RecomputeSnapshot, RecomputeFails, EndTick
<1>7. CASE RecomputeStore
  <2>1. caught_up /\ fee_estimate' = [txs |-> txs, min_fee |-> mempool_min_fee]
    BY <1>7 DEF RecomputeStore, IInv, RecomputeInv
  <2>2. fee_estimate' # NoEstimate
    BY <2>1, SyncAssumption DEF IInv, TypeOK, StateType, Estimate
  <2>3. QED
    BY <1>7, <2>1, <2>2 DEF RecomputeStore, EndTick, Readers!Reckon
<1>8. QED
  BY <1>1, <1>2, <1>3, <1>4, <1>5, <1>6, <1>7 DEF Bulk, Recompute

\* The steady tick, in the readers' view.
LEMMA TickRefines == IInv /\ (Tick \/ Fetch) => [Readers!Next]_(Readers!vars)
<1> SUFFICES ASSUME IInv, Tick \/ Fetch PROVE [Readers!Next]_(Readers!vars)
  OBVIOUS
<1> USE DEF node, data, flags, fee, timers, calls, replies, listing, fetch, Goto, Settled,
         RecomputeSteps, Readers!vars, Readers!Next
<1>1. CASE StartTick \/ TickInfo \/ TickBulkResync \/ TickTip \/ TickTipFails
   BY <1>1, ReadersUnmoved DEF StartTick, TickInfo, TickBulkResync, TickTip, TickTipFails
<1>2. CASE TickTxids
  BY <1>2 DEF TickTxids, ListingReply, Readers!List
<1>3. CASE TickCallFails
  BY <1>3 DEF TickCallFails, EndTick, SetSynced, Readers!GiveUp
<1>4. CASE TickWaitCooldown
  BY <1>4 DEF TickWaitCooldown, EndTick, SetSynced, Readers!GiveUp
<1>5. CASE TickDiff
  BY <1>5 DEF TickDiff, DiffGone, Readers!Evict
<1>6. CASE TickApply
  <2>1. txs \subseteq txs' /\ txs' \subseteq txs \cup listed
    BY <1>6 DEF TickApply, IInv, FetchInv, FetchSteps
  <2>2. caught_up' \in BOOLEAN /\ (caught_up' => held \subseteq txs' /\ txs' \subseteq listed)
    <3>1. CASE Backlog
      BY <1>6, <3>1 DEF TickApply, SetSynced
    <3>2. CASE ~Backlog
      BY <1>6, <3>2, NoBacklog DEF TickApply, SetSynced, IInv, FetchInv, FetchSteps, TypeOK,
         LocalsType
    <3>3. QED
      BY <3>1, <3>2
  <2>3. pc = "tick_apply" /\ pc' \in {"idle", "recompute"}
    BY <1>6 DEF TickApply, AfterApply
  <2>4. QED
    BY <1>6, <2>1, <2>2, <2>3 DEF TickApply, Readers!Close
<1>7. CASE Fetch
  BY <1>7, ReadersUnmoved DEF Fetch, FetchOk, FetchVanished, FetchFails, FetchEntry, FetchEnds
<1>8. QED
  BY <1>1, <1>2, <1>3, <1>4, <1>5, <1>6, <1>7 DEF Tick

\* The cold start's wait, the node and the clock, in the readers' view.
LEMMA EnvironmentRefines ==
  IInv' /\ (WaitLoaded \/ WaitLoadedFails \/ Node \/ Elapse) => [Readers!Next]_(Readers!vars)
<1> USE DEF node, data, flags, fee, timers, calls, replies, listing, fetch, Goto, Settled,
         RecomputeSteps, Readers!vars, Readers!Next
<1>1. WaitLoaded \/ WaitLoadedFails \/ Elapse \/ NodeLoads => UNCHANGED Readers!vars
  BY ReadersUnmoved DEF WaitLoaded, WaitLoadedFails, Elapse, NodeLoads
<1>2. ASSUME IInv', NEW S, NodeChanges(S) PROVE Readers!SourceChanges
  BY <1>2 DEF NodeChanges, IInv, TypeOK, NodeType, Readers!SourceChanges
<1>3. IInv' /\ Node => NodeLoads \/ Readers!SourceChanges
  BY <1>2 DEF Node, NodeArrive, NodeEvict, NodeMine, NodeRestart
<1>4. QED
  BY <1>1, <1>3

\* The sync task implements the abstract specification of what readers see:
\* whatever it does about caps, budgets, failures and cooldowns, the shared
\* state only moves as FreshCache lets it.
THEOREM Refinement == Spec => ImplementsFreshCache
<1>1. Init => Readers!Init
  BY DEF Init, Readers!Init, Settled, RecomputeSteps
<1>2. UNCHANGED vars => UNCHANGED Readers!vars
  BY DEF vars, node, data, flags, fee, listing, Readers!vars, Settled
<1>3. IInv /\ IInv' /\ [Next]_vars => [Readers!Next]_(Readers!vars)
  BY <1>2, BulkRefines, TickRefines, EnvironmentRefines DEF Next, SyncTask
<1>4. QED
  BY <1>1, <1>3, Invariance, PTL DEF Spec, ImplementsFreshCache, Readers!Spec

\* In the abstract specification a claim made between rounds is true ...
LEMMA AbstractClaims == Readers!Spec => []Readers!ClaimTrue
<1>1. Readers!Init => Readers!ClaimTrue
  BY DEF Readers!Init, Readers!ClaimTrue
<1>2. Readers!ClaimTrue /\ [Readers!Next]_(Readers!vars) => Readers!ClaimTrue'
  <2> SUFFICES ASSUME Readers!ClaimTrue, [Readers!Next]_(Readers!vars)
               PROVE  Readers!ClaimTrue'
    OBVIOUS
  <2> USE DEF Readers!ClaimTrue
  <2>1. CASE Readers!SourceChanges
    BY <2>1 DEF Readers!SourceChanges
  <2>2. CASE Readers!List \/ Readers!Evict \/ Readers!Load
    BY <2>2 DEF Readers!List, Readers!Evict, Readers!Load
  <2>3. CASE Readers!Close
    BY <2>3 DEF Readers!Close
  <2>4. CASE Readers!GiveUp
    BY <2>4 DEF Readers!GiveUp
  <2>5. CASE Readers!Reckon
    BY <2>5 DEF Readers!Reckon
  <2>6. CASE UNCHANGED Readers!vars
    BY <2>6 DEF Readers!vars
  <2>7. QED
    BY <2>1, <2>2, <2>3, <2>4, <2>5, <2>6 DEF Readers!Next
<1>3. QED
  BY <1>1, <1>2, PTL DEF Readers!Spec

\* ... and so it is of the sync task: whoever reads the shared state between
\* rounds and sees caught_up sees all of the node's mempool that was kept since
\* the listing, and no other thing (the readers of MempoolState).
THEOREM ClaimsAreTrue == Spec => []Readers!ClaimTrue
BY Refinement, AbstractClaims, PTL DEF ImplementsFreshCache
=============================================================================

# A TLA+ model of Satya

Satya is a single Tokio process that keeps an in-memory copy of a Bitcoin node's
mempool, says over HTTP whether that copy can be trusted (`/health`) and derives
fee estimates from it (`/fees`). This directory models its sync loop, the pure
decisions behind it, the dependencies it caches, the block projection and fee
tiers, the RPC client across node restarts, the ZMQ block listener, and the
simulated node and network that the repository is tested against. TLC checks the
models on small instances. TLAPS proves every safety property that a passing run
checks, for every value of the constants, and with them the refinement of an abstract
cache by the sync loop; only liveness is left to TLC. Section 4 has the proofs.

Paths below are relative to the repository; line numbers are in `PROJECT.json`.

## 1. The system

| Component | State | Operations | Interacts through |
|---|---|---|---|
| sync loop, `src/sync/mod.rs` | `last_bulk_resync`, `last_fee_recompute`, `caught_up_prev` | cold start, steady tick, bulk resync, batch fetch, fee recompute | only writer of the shared state; calls the RPC client; woken by a channel |
| decision core, `src/sync/decision.rs` | none | mass drop, cooldown, desync action, backlog | called by the sync loop |
| mempool state, `src/mempool.rs` | `txs`, min fee, tip, `caught_up`, `last_sync_ok`, `fee_estimate` behind an `RwLock` | `compute_diff`, lock helpers | written by sync, read by HTTP |
| block projection, `src/gbt.rs` | heap, overflow list, blocks, effective rates, for the time of one call | `project_with` | called by the fee recompute on the blocking pool |
| fee tiers, `src/fees.rs` | none | `recommended_tiers`, `snapshot_to_gbt`, `compute_estimate` | called by the fee recompute |
| HTTP API, `src/http.rs` | none | `GET /health`, `GET /fees` | one read lock per request |
| RPC client, `src/rpc.rs` | connection pool, credential | typed calls, `reconnect` | the node, the cookie file |
| ZMQ listener, `src/zmq.rs` | backoff | connect, receive, back off | the node's publisher; `try_send` on a channel of capacity 1 |
| startup, `src/main.rs` | attempt counter | bounded probe, spawn, supervise | wires everything |
| configuration, `src/config.rs` | none | parse and validate | constants of the modules |
| simulation, `src/sim/` | mock node, limiter, churn timer | arrivals, evictions, blocks, drops; admit, drop or refuse a call | wraps the RPC trait in tests, or serves it over HTTP |

What is hard about it: the node's mempool changes between any two calls of a
tick; calls fail, time out or are dropped by a budget; the state is published in
several critical sections that a handler may read between; the estimate is
computed on another thread from a snapshot, and from dependencies that were true
when each transaction was fetched; nodes restart with an empty, reloading mempool
and a new cookie; block events arrive at any time; and the projection works on a
heap whose keys go stale. `PROJECT.json` lists these
hazards with their lines and the properties aimed at each.

What makes each part correct, in a sentence: the sync loop never claims
`caught_up` for a cache that misses something the node has held since it was
listed, never evicts what the node still holds, reports outages, spaces full
downloads and converges; the decisions are exact at their boundaries; the
projection is topologically ordered, respects the weight limit, is greedy, and leaves
a transaction without a block only if the last block was a bounded one without room
for it (which is more than its comments admit, section 3); the packages it works with
are the node's; the search for ancestors ends on any graph; the tiers equal an
order-free definition; the client picks up a rotated cookie and keeps one that is
accepted; a block event is
never lost to the debouncing; the simulated node reports totals that are true of
its mempool, and its limiter lets no more through than a fixed window may.

## 2. The modules

| Module | Models | Notes |
|---|---|---|
| `SyncDecision` | `decision.rs`, `compute_diff` | operators; `usize` has a largest value, so the product saturates |
| `FreshCache` | nothing | what the readers of the shared state are promised, the abstract specification |
| `MempoolSync` | `sync/mod.rs`, the shared state, the condition of `/fees` | extends `SyncDecision`, implements `FreshCache`; the node and the clock are external |
| `Packages` | `depends` from `mempool.rs` through `snapshot_to_gbt` to `build_ancestors` | the node is external; one action per call and return of the search |
| `Gbt` | `gbt.rs` | one action per iteration of the pop loop |
| `FeeTiers` | the tiers of `fees.rs` | operators and a reference definition |
| `BlockListener` | `zmq.rs`, the wake channel of `main.rs`, the `select!` of `run` | a tick is a start and an end |
| `RpcClient` | `rpc.rs`, the startup probe of `main.rs`, the order of calls in `sync/mod.rs` | what the answers mean is left to `MempoolSync` |
| `MockNode` | `sim/mock_node.rs` | operators from a node to the nodes it may become |
| `SimRpc` | `sim/network.rs`, the handler and the churn task of `sim/server.rs` | extends `MockNode` |
| `MCMempoolSync`, `MCFeeTiers`, `MCPackages`, `MCSimRpc` | - | symmetry set; enumeration of rate lists; constraints; network profiles |
| `MempoolSyncProofs`, `BlockListenerProofs`, `RpcClientProofs`, `PackagesProofs`, `GbtProofs`, `FeeTiersProofs`, `SimRpcProofs` | - | theorems and their proofs, section 4 |
| `FiniteFacts` | - | lemmas on numbers, finite sets, sums and sorting that those proofs share |

`Gbt`, `BlockListener` and `RpcClient` take only numbers and sets of numbers as
constants, so their `.cfg` files instantiate them directly.

Operators named `X_Something` with a comment that begins "Mutant" are variants of
`X` with a plausible bug. Nothing uses them; put in the place of `X`, each makes
TLC find the property listed with it in `PROJECT.json` violated.

### MempoolSync

*State.* The variables from `txs` to `fee_estimate` are `MempoolState`; `bulk_age`
and `fee_age` are the elapsed times of the two `Instant`s, saturated at the only
value they are compared with; `pc`, `steady` and the locals are the control of
the task. Four history variables serve the properties and no action reads them:
`held` (listed by the latest listing and in the node ever since), `failed` (calls
that failed in this tick), `download_age` and `fee_current`.

*Actions.* One action runs from one `.await`, or one release of the write lock,
to the next. The diff, the decision and the removals of a tick form one action
because nothing is awaited between them and the task is the only writer. A bulk
load has two writing actions, because the code takes the lock twice. As a handler
takes the read lock once, what it can see is what one state of the model holds.

*Data.* A transaction is its id. An estimate is the snapshot it was computed from,
because `compute_estimate` is a function of it. `take(cap)` of a hash-ordered
list is any subset of the right size. `concurrency` does not appear: results
come in the order in which they resolve, and any pending candidate may be next.
The drain of ready results on a budget bail is a longer run of results before the
bail. `caught_up_prev` and all logging are left out, `last_sync_ok` is whether it
is `Some`. A rebuild of the client has no state here: a client that stays broken
is a longer run of failures (see `RpcClient`).

*Environment.* The node gains, evicts and mines transactions, restarts with an
empty mempool that reports `loaded = false` until `NodeLoads`, and may fail any
call. `MaxChurn`, `MaxFaults` and `MaxTip` bound it.

### FreshCache, and how MempoolSync implements it

`FreshCache` has a source, a cache, a claim of freshness and an estimate. The cache
follows the source in rounds: a round begins with a listing, may evict what was not
listed or load the listing, and ends by making the claim anew, or by giving it up.
Between rounds a claim means that the cache lacks nothing the source has held since
the listing and holds nothing that was not listed; only such a cache is estimated.

`Readers` in `MempoolSync` is the mapping: the source is `nodeTxs`, the cache `txs`,
the claim `caught_up`, the estimate the transactions of `fee_estimate`, the listing
and what was kept of it `listed` and `held`; a round is open from a listing to the
critical section that sets the flag. So a tick is List, Evict, Close; a full
download is List, Load, Close; a tick that fails, a node that is loading and a
resync that is cooling down are GiveUp; a fetched entry and a failed call inside a
tick are stutters. That data and flag of a full download are published under two
locks is visible in the mapping: between the two the round is open, and the claim
that a reader sees is that of the round before.

### Packages

*State.* `cache` holds the `depends` that each cached transaction had when its
entry was fetched; nothing refreshes them later. `parents`, `stack`, `visiting` and
`memo` are the locals of one recompute: what `snapshot_to_gbt` resolved, the frames of
`build_ancestors` (the uid, the parents that its loop has still to visit, the set so
far), the uids whose `visiting` flag is set, and the memo. That the flags are set for
exactly the uids on the stack is nothing the model assumes: a call and a return set and
clear them as the code does, and `PackagesProofs` proves it. `returned` and `quiet` are history.

*Actions.* The sync loop is reduced to the steps that touch `depends`: listing and
diff, the fetch of one entry, the inserts, the two halves of a full download, the
snapshot. Which of them a tick takes is not decided here but in `MempoolSync`, so a
full download, a fetch that is cut short and a skipped recompute may happen at any
time. `build_ancestors` is one action per call and one per return; the loop over a
frame's parents may take them in any order. What the search is compared with,
`Closure`, is stated without a search: the least set that holds the parents of a
transaction and of its own members.

*Environment.* `spends` is the graph of all transactions, any acyclic one. A block
takes parents first, an eviction takes descendants along, a reorganisation returns
the latest transactions of the chain to the mempool. The `depends` of an entry are
the unconfirmed transactions it spends at that time. At most `MaxCorrupt` entries
carry a wrong `depends`, which may close a cycle.

### Gbt

Fee rates are exact fractions. The code compares doubles, with a tolerance of
1e-9 in the staleness test only, so rates closer than that are not distinguished
by this model. The heap and the overflow list are bags, because both may hold a
transaction several times. `order` is taken from the leading bytes of the txid
and uids are assigned in txid order, so `order` never decreases with `uid` and
ties go to the smaller uid. Dependencies are acyclic, and `ancestors` is any map in
which the ancestors of an ancestor are ancestors and none is its own. That
`build_ancestors` delivers such a map is `ProjectionReady` of `Packages`, which is
about the search itself. The sort of a package is the sequence its comparison puts
in order, and `HeapSize` and `StaleItems` are sums over the bag.

### FeeTiers

A rate is a number, since only the order of rates matters. `SortedDesc` sorts the
places of the entries, so that equal rates keep their order as in the code's stable
sort; the cumulative weight of a place is the sum of the weights up to it. The
reference definition knows no order: it takes the best rate such that the entries
that pay at least as much fill the depth. A block counts with what the projection
packs into one, the weight limit less the reserve, as the constant in the code says;
the reference takes the budget as a parameter, so that the documented one, the full
limit, can be compared too.

### RpcClient and BlockListener

`RpcClient` classifies replies (status and kind of body) as `Rpc::call` does and
walks through the calls of the probe, the cold start and the ticks in the order
of the code, with `reconnect_on_error` where the code has it: not after a failed
`getmempoolentry` and not after the tip height of a tick. A credential is the
number of the node start that created it. Only cookie authentication can go
stale and only it is modelled. A rebuild reads the cookie, then builds a connection
pool, and may fail at either; `buildable`, which changes at any time, says whether the
second would succeed. The pool itself is no variable, because one pool is as good as
another to every later call: what a rebuild that fails halfway could spoil is the
credential. `BlockListener` lets the publisher's messages be
lost at will and the listener's session break at any time.

### MockNode and SimRpc

A method of `MockNode` holds `&mut self`, so it is one step, and the module has one
operator per method, from a node to the set of nodes that the random draws and the
order of a `HashMap` may leave. The transactions keep the totals that the code
updates incrementally; the properties compare them with sums taken afresh. A loop
that follows `depends` up or `children` down is the set of what it visits (`Along`).
The
random txid is any that is not in use, and sizes, rates and the draw for a child
come from small sets.

`SimRpc` puts the node behind the gate (random drop, then the fixed-window limiter,
then the latency) and drives it either as the tests do, by any method in any order,
or as the server does, by churn ticks that mine, drop and reload on schedule. The
server shares the limiter but has neither the drop nor the body cap. A call is
admitted and answered in two steps, so the node may change in between. `admitted`
is history: for each age below a second, how many calls were let through since then.
So is `reply`, what the latest step answered, or nothing; two refusals in a row are two
steps with a refusal.

## 3. The runs

| Run | Checks | Bounds |
|---|---|---|
| `sync_safety` | `TypeOK`, `CaughtUpHonest`, `OutageReported`, `MassDropDecided`, `EstimateFromVouchedCache`, `EvictionsJustified`, `DownloadsSpaced`, `ImplementsFreshCache` | 3 txids, cap 2, cooldown 2, fee interval 1, 3 changes, 2 failures, counts of 2 bits |
| `sync_live` | `Converges`, `FeesConverge` | 3 txids, cap 2, cooldown 1, fee interval 2, 2 changes, 1 failure |
| `gbt` | `TopologicalOrder`, `BlockWeightBound`, `HeapCurrent`, `LeftOutOnlyWhenFull`, `GreedyBest`, `LiftNeverLowers`, `Terminates` | all acyclic graphs of 4 transactions, 2 fees, 2 weights, 3 blocks of weight 6 with 1 reserved |
| `fee_tiers` | `TiersMatchReference`, `TiersMonotone` | lists of up to 4 entries, 3 rates, 3 weights, 2 floors, a block of weight 3 with 1 reserved |
| `listener` | `TypeOK`, `WakePending`, `NoSpuriousTicks`, `FastRecovery`, `BlocksReflected`, `Reconnects` | 4 blocks, 4 failures, backoff 1 to 3 |
| `client` | `TypeOK`, `AcceptedStaysAccepted`, `ProbeEnds`, `CookiePickedUp` | 4 starts of the node, 3 attempts, 2 bad replies |
| `packages` | `TypeOK`, `ClosureExact`, `ProjectionReady`, `PackagesTrue`, `SearchEnds` | all acyclic graphs of 3 transactions, 1 reorganisation, 1 wrong `depends` |
| `sim_node` | `TypeOK`, `NoOrphans`, `TotalsTruthful`, `BlocksTakePackages`, `BurstBounded`, `RefusedOnlyWhenSpent` | 3 txids, chains of up to 3, 2 sizes, blocks of 2 small transactions, 4 changes of the node, 1 call in flight, limit 2, a second of 2 clock steps |

Why the bounds are enough for the cases of interest: three txids with a cap of two
let a tick exceed the cap, and let one transaction arrive, one vanish and one stay
within a tick; two failures let a resync fail after a tick failed; with
`MassDropMinCacheSize` and `MassDropInverse` both two, mass drops happen with these
few transactions; a cooldown of two separates "cooling down" from "over" by more
than one step of the clock. Four transactions admit the diamond, in which a shared
ancestor moves a score down; and they let a heap drain through used items with a
package held back, so that `LeftOutOnlyWhenFull` is about projections that do leave
something out. A block budget of two, three with the reserve, and weights of 1, 3 and 5
put cumulative weights on both of the budgets and between them. With counts of two bits the product of the mass-drop
test saturates on three transactions. A backoff from 1 to 3 reaches its ceiling by
an inexact doubling. Three transactions admit a chain and a fork of packages, an
entry fetched before its parent arrives again, a child cached while its parent is in
a block, and cycles of one, two and three transactions. In the simulation a chain of
three loses its upper one or two to a block, a package does not fit and a later
transaction does, and a block is followed by a drop and a reload; with two clock
steps to a second, calls meet both edges of a window. One call in flight is enough
because a call that waits for its latency has left the limiter and only reads the
node.

Two runs have a state constraint, which cuts off what cannot interact. `packages`
leaves the node as it was listed after a wrong `depends`: from there on only the search
is of interest, which reads the cache and never the node. `sim_node` combines calls
with mempools of at most one transaction and explores the larger ones without
calls, because limiter and node share no state and a reply depends on the node
only through one entry's presence and the size. Neither run checks liveness.

Symmetry over `Txid` is used in `sync_safety` only, where no property is a
liveness property and no definition chooses between transactions.

`Terminates` and `SearchEnds` are safety properties: every iteration of the pop loop,
and every step of the ancestor search, moves a lexicographic measure that is bounded.
So neither needs fairness.

Deadlock is not checked where the modelled computation ends: the enumeration of
rate lists, the projection, which returns, and the client, whose process may exit.

### Fairness

`MempoolSync!FairSpec` assumes weak fairness of the task as a whole (Tokio runs a
task that can run, and each call resolves or hits the client's timeout), of the
clock, and of the end of the node's loading. It assumes nothing about which way
the task goes: a behaviour in which every fetch bails on the budget after its
first result is fair, and `Converges` holds in it. `BlockListener!FairSpec` and
`RpcClient!FairSpec` are fair to the tasks only; the node may stay down, lose
messages and leave its cookie unreadable, building a connection pool may fail for ever,
and `CookiePickedUp` says what it needs of them as a premise.

### Disagreements between the code and what is said of it

Each of these runs checks a sentence of the documentation, or a comment, and TLC
shows a behaviour of the code that contradicts it (`findings` has the quotations).

| Run | What the code does |
|---|---|
| `stale_fees` | after an outage `/fees` serves the old estimate from the moment `caught_up` returns until the recompute |
| `gbt_all_included` | a held-back package is lost when the heap drains through already used items |
| `cookie_race` | an unreadable cookie at startup ends the process before the retry loop |
| `reorg_packages` | a child cached while its parent was in a block has no ancestor in the estimate after a reorganisation returns the parent |

More observations have no run of their own.

- A failed tip-height call does not prevent `caught_up = true`, although
  `README.md` says no failure in the tick may precede it; `OutageReported` states
  which failures do prevent it.
- `caught_up` stays true during a full download, which `README.md` describes as a
  time of `caught_up = false`; and the data and the flags of a download are
  published under two locks, so a full cache may be read with the flag still false,
  against the comment of `bulk_resync`. The open rounds of `FreshCache` are this.
- `README.md` gives the depth of a tier as N × 4,000,000 WU; the code takes
  N × 3,996,000, and the comment at `TIER_BLOCK_WEIGHT` says why: the coinbase reserve
  is not packed. For a mempool whose weight ends between the two, or crosses a rate
  there, the served tier differs from the documented one. `TiersMatchReference` says
  how: the tier is exact at the code's budget, and never cheaper than the documented
  reading would have it.
- The mass-drop test compares counts and not sets, so a cache that is mostly
  replaced within one poll interval is deleted by the diff. No property is about this:
  the diff is right, only slow.
- The cold start looks at `loaded` only at its first gate, so a node that restarts
  between the gate and the bulk seed is seeded from while it loads.
- `build_ancestors` is said to treat the back-edge of a cycle as absent, but it adds
  the parent to the set before it looks for the back-edge. So a transaction on a
  cycle can become its own ancestor, and the memo of one that was searched within
  the cycle lacks ancestors; `ClosureExact` says what remains true.
- The simulated node reports `loaded = false` from a reload to the next churn tick,
  and not "for one poll": a faster client sees it several times, a slower one may
  miss it.

## 4. The proofs

`MempoolSyncProofs` proves, for every finite set of transactions and all values of
the other constants allowed by `SyncAssumption`:

- `TypeCorrect`: `Spec => []TypeOK`
- `Honesty`: `Spec => []CaughtUpHonest`
- `Outages`: `Spec => []OutageReported`
- `MassDrops`: `Spec => []MassDropDecided`
- `Evictions`, `Estimates`, `Downloads`: `Spec` implies the action properties
  `EvictionsJustified`, `EstimateFromVouchedCache` and `DownloadsSpaced`.

All rest on one inductive invariant, `IInv`. `CaughtUpHonest` is not inductive:
when a tick raises `caught_up`, why is everything the node has held in the cache?
`FetchInv` answers: during the fetch the listing is the cache and the new txids
together, and, unless the cap was exceeded or a fetch failed, every new txid the
node has held is fetched or pending; so a tick with nothing pending and no
backlog has it all. The step from the cap to "every new txid is a candidate" is a
fact about cardinalities (`CandidatesOf`). `HeldInv` ties `held` to the listing
and the node, `BulkInv` carries the listing of a bulk load to the write of its
flags, `RecomputeInv` says that the snapshot is still the cache when the estimate
is stored, `FailedInv` tracks which failures a tick may have survived, and
`TimerInv` identifies the code's timer with the time since a download began.

`MassDropIsExact` proves that the mass-drop test with its saturating product
decides the exact comparison, for every word size and all counts; `MassDrops`
applies it to the two counts of a tick, which fit a `usize` because the
transactions do (`SyncAssumption`).

`Refinement` proves that `MempoolSync` implements `FreshCache`. Initial states map to
initial states, and under `IInv` each action maps to one action of `FreshCache` or
to a stutter: the eviction of a tick keeps what was listed, because the diff was
taken against the listing; the step that raises `caught_up` needs `FetchInv` again;
a recompute happens in a closed round, with the claim standing. `ClaimsAreTrue` says
what the readers gain: a claim seen between rounds is true of the listing. It is
proved of the abstract specification alone and carried over by `Refinement`.

`BlockListenerProofs` proves `WakePending`, `NoSpuriousTicks`, `TypeOK`
(`ListenerTypes`) and `FastRecovery` (`RecoveryIsFast`). The inductive invariants add
that the channel holds at most one message, that the messages under way are not
ahead of the tip, and that a sleeping listener waits for no longer than the backoff
allows.

`RpcClientProofs` proves `TypeOK` (`ClientTypes`) and `AcceptedStaysAccepted`
(`AcceptedUntilRestart`). The inductive invariant adds `NeverBack`: no credential is
newer than the latest start of the node, and a cookie that can be read is no older than
what the client has. So a rebuild of a client that is accepted either changes nothing,
because the cookie or the pool failed, or reads the accepted credential again.

`PackagesProofs` proves five properties, for every number of transactions and graphs
with and without cycles.

- `SearchTerminates`: `SearchEnds`. `FlagsTrue` is the heart of it: the `visiting` flags
  are set for exactly the transactions that have a frame, no transaction has two, and
  none of them has a memo yet. So a call that finds no flag and no memo adds a
  transaction to the stack, which is therefore never longer than the snapshot; a return
  memoises something new; and any other step takes one parent from the running frame.
  `SearchInv` adds the types of the search.
- `SearchComputesClosure`: `ClosureExact`. `ExactInv` says of each frame what it has
  so far: the parents it has visited, nothing but ancestors, and, where no cycle is
  within reach, all that lies behind the visited ones; and of the stack that each
  frame is an ancestor of the one below it and still to be visited there. So a
  parent that is found on the stack closes a cycle, and where there is none every
  parent that is taken has its memo.
- `PackagesTypeCorrect`: `TypeOK`, with the shape of the node's graph through
  arrivals, evictions, blocks and reorganisations.
- `PackagesAreTheNodes`: `PackagesTrue`. `DatedInv` says what a `depends` tells of the
  moment it was fetched: it is part of what the transaction spends, and what is
  missing is confirmed or was returned by a reorganisation.
- `PackagesFeedProjection`: `ProjectionReady`. By `DatedInv` the cached graph is part
  of the graph of what transactions spend, so it has no cycle and `ClosureExact`
  applies to all of it. This is what `Gbt` assumes of its input.

`GbtProofs` proves the seven properties of the projection. Nothing is assumed of fees,
weights or limits but that they are natural numbers.

- `HeapTracksScores`: `HeapCurrent` is inductive as it stands, because it asks for an
  item with the present score and not for any item: an iteration that changes scores
  changes those of descendants of the placed package only, and pushes new items for
  exactly these; the popped item is placed, pushed back corrected, or held back; and
  closing a block returns all that was held back with scores that are right by then.
  That a block will be closed is not said, and `gbt_all_included` shows that it may not.
- `LeftOutLast`: `LeftOutOnlyWhenFull`, which bounds that loss. When the heap is empty,
  `HeapCurrent` leaves only what is held back without a place, and `HeldBack` (below)
  says that it was held back from the block under construction, a bounded one that has
  no room for its package.
- `BlocksMinable`: `TopologicalOrder`. `BlocksOrdered` says it of the closed blocks
  and of the one under construction. A package brings all ancestors that are not
  placed, and an ancestor has fewer ancestors than its descendant, so the sort puts
  it first.
- `BlocksFit`: `BlockWeightBound`. `Weighed` ties the running weight to the sum over
  the block, which a package keeps because it shares nothing with the block.
- `GreedyChoice`: `GreedyBest`, from `HeapCurrent` and the order of the heap: the
  popped item is not worse than the present score of any other transaction, and its
  own score is not stale.
- `LiftsOnly`: `LiftNeverLowers`. `HeldBack` says that nothing held back fits the
  block, however many of its ancestors have been placed since. So a member of a
  package is not held back (it would fit, being lighter than the package that does),
  has a present score in the heap, and the popped score is no worse.
- `LoopProgresses`: `Terminates`, with the number of blocks bounded and the measures
  counted by sums over the heap.

`FeeTiersProofs` proves `TiersMatchReference` (`TiersExact`) and `TiersMonotone`
(`TiersOrdered`) for lists of any length. `FirstReaching` is the core: the entries
that pay at least the rate of a place are a prefix of the sorted histogram, which goes
beyond the place by ties only; so the first place that reaches the threshold has the
rate that the order-free definition finds. That a sort exists is proved as well.

`SimRpcProofs` proves the six properties of the simulation, for every budget, length
of a window, mempool and churn.

- `LimiterBounds` and `RefusalsAreTrue` rest on `LimiterInv`: what was let through
  since the window began is counted in it, and older calls are at most the budget of
  the window before.
- `SimulationTypeCorrect`, `NodeHasNoOrphans`, `NodeTotalsTruthful` and
  `NodeBlocksTakePackages` rest on `NodeInv`. The properties speak of sums along
  chains, which no single method keeps in view. `Sound` says instead that totals are
  right link by link: a transaction's totals are its own size and fee and, if it has
  a parent or a child, the totals of that one. And it says that the links make no
  circle (`Rooted`); together the two give the sums. Each method keeps `Sound`: an
  arrival and an eviction touch the end of a chain and adjust what is above it, and
  the saturating subtraction never saturates (`LeafCounted`); a block takes tops of
  chains, and the repair of the totals below it is solved from each new root
  downwards (`RepairSolved`). Rounds of arrivals and evictions, and the choice of a
  block, are induction over their number.

`FiniteFacts` holds what these proofs share. As the induction theorems of the library
cannot be used, induction goes through the least number that fails, and induction
over finite sets through their cardinality. A function that is defined by recursion
is shown to exist before its equation is used: the sums of the community modules
(`SumTableSolves`), a repeated step (`RepetitionSolves`), values carried down a chain
(`CarryingSolves`).

All proofs rest on the assumptions on constants that the modules name, and on
nothing else.

Only model-checked, because the proof of liveness needs fairness and `ENABLED`:
`Converges`, `FeesConverge`, `BlocksReflected`, `Reconnects`, `ProbeEnds` and
`CookiePickedUp`. The disagreements of section 3 are behaviours, which TLC finds.

## 5. Not modelled

Configuration parsing, which has no state. Decoding of payloads, and of the entry
conversion of `MempoolTx` all but `depends`. HTTP routing and serialisation, of the
service and of the simulation server, and the simulation's command line. Logging.
The exit of the process when the sync task panics, and lock poisoning. The join of
the effective rates in `compute_estimate`. What the pop loop makes of a transaction
that is its own ancestor. The drain of ready results and the concurrency limit of a
fetch batch, beyond the order of results.

## 6. Plan

Done so far: the sync loop and its abstract specification; the projection, the
tiers, the listener and the client; the cached dependencies and the ancestor search;
the simulated node and network; the proofs of all their safety properties. What comes
next, in this order, each with the proof of its safety properties:

1. The fetch batch with its concurrency limit, its budget clock and the drain of
   ready results, shown to implement the fetch steps of `MempoolSync`.
2. A composition of `MempoolSync`, `RpcClient` and `BlockListener` on one control
   state, and the supervision of the sync task.
3. `MockNode` in the place of the node that `MempoolSync` assumes.
4. `project_with` on the ancestor lists that `build_ancestors` returns for cycles.

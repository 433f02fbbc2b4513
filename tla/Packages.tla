------------------------------ MODULE Packages ------------------------------
(***************************************************************************)
(* Where the packages of the projection come from: each cached transaction *)
(* keeps the `depends` its mempool entry had when it was fetched           *)
(* (mempool.rs), snapshot_to_gbt resolves them among the cached            *)
(* transactions (fees.rs), and build_ancestors closes them with a memoised *)
(* depth-first search (gbt.rs), one call or return of which is one action. *)
(*                                                                         *)
(* Of the sync loop only the steps that touch `depends` are kept: what     *)
(* sends a tick to a full download, cuts its fetches short or makes it     *)
(* skip the recompute is in MempoolSync, and may happen at any time here.  *)
(* A txid serves as the uid too, since the snapshot is sorted by txid.     *)
(***************************************************************************)
EXTENDS Integers, FiniteSets, Sequences, SequencesExt, FiniteSetsExt, Functions

CONSTANTS
    N,            \* number of transactions
    MaxReorgs,    \* bound: reorganisations
    MaxCorrupt    \* bound: entries with a wrong `depends`

ASSUME PackagesAssumption == N \in Nat /\ MaxReorgs \in Nat /\ MaxCorrupt \in Nat

Txid == 0..(N - 1)

VARIABLES
    \* The node.
    spends,       \* the transactions whose outputs each one spends
    mempool,
    chain,        \* confirmed transactions
    reorgs,
    corrupt,      \* entries answered with a wrong `depends`
    \* The sync loop.
    pc,
    cache,        \* the `depends` of each cached txid
    pending,      \* listed, new and not fetched yet
    fetched,      \* the `depends` of each entry of this tick
    \* The search.
    parents,      \* what snapshot_to_gbt made of the cache
    stack,        \* the frames of build_ancestors, the running one last
    visiting,     \* the uids whose `visiting` flag is set
    memo,
    \* History, read by no action.
    returned,     \* transactions a reorganisation took out of a block
    quiet         \* the node has not changed since the latest listing

node   == <<spends, mempool, chain, reorgs, returned>>
sync   == <<cache, pending, fetched>>
search == <<parents, stack, visiting, memo>>
vars   == <<node, corrupt, quiet, pc, sync, search>>

\* All u can reach by one step of `edges` or more: the least set that holds the
\* neighbours of u and of its members.
Closed(edges, u, S) == edges[u] \subseteq S /\ \A p \in S : edges[p] \subseteq S

Closure(edges) ==
    [u \in DOMAIN edges |->
        {v \in DOMAIN edges : \A S \in SUBSET DOMAIN edges : Closed(edges, u, S) => v \in S}]

Acyclic(edges) == \A u \in DOMAIN edges : u \notin Closure(edges)[u]

Nothing == [t \in {} |-> {}]

\* The map g with the entries of f over it, and with one entry over it.
Over(f, g) == [t \in DOMAIN f \cup DOMAIN g |-> IF t \in DOMAIN f THEN f[t] ELSE g[t]]
With(g, t, set) == Over([u \in {t} |-> set], g)

Init ==
    /\ spends \in {s \in [Txid -> SUBSET Txid] : Acyclic(s)}
    /\ mempool = {} /\ chain = {} /\ reorgs = 0 /\ corrupt = 0
    /\ pc = "idle"
    /\ cache = Nothing /\ pending = {} /\ fetched = Nothing
    /\ parents = Nothing /\ stack = <<>> /\ visiting = {} /\ memo = Nothing
    /\ returned = {} /\ quiet = FALSE

-----------------------------------------------------------------------------
\* The node: a transaction needs its parents, blocks take parents first, an
\* eviction takes the descendants along, and a reorganisation returns the
\* latest transactions of the chain.

Known == mempool \cup chain

NodeMoves == quiet' = FALSE /\ UNCHANGED <<spends, corrupt, pc, sync, search>>

Arrive(t) ==
    /\ t \notin Known /\ spends[t] \subseteq Known
    /\ mempool' = mempool \cup {t}
    /\ NodeMoves
    /\ UNCHANGED <<chain, reorgs, returned>>

Confirm(t) ==
    /\ t \in mempool /\ spends[t] \subseteq chain
    /\ mempool' = mempool \ {t}
    /\ chain' = chain \cup {t}
    /\ NodeMoves
    /\ UNCHANGED <<reorgs, returned>>

Evict(t) ==
    /\ t \in mempool
    /\ mempool' = {u \in mempool \ {t} : t \notin Closure(spends)[u]}
    /\ NodeMoves
    /\ UNCHANGED <<chain, reorgs, returned>>

Reorg(S) ==
    /\ reorgs < MaxReorgs /\ S # {} /\ S \subseteq chain
    /\ \A t \in chain \ S : spends[t] \cap S = {}
    /\ reorgs' = reorgs + 1
    /\ chain' = chain \ S
    /\ mempool' = mempool \cup S
    /\ returned' = returned \cup S
    /\ NodeMoves

Node ==
    \/ \E t \in Txid : Arrive(t) \/ Confirm(t) \/ Evict(t)
    \/ \E S \in SUBSET chain : Reorg(S)

\* `depends` of a mempool entry: the unconfirmed transactions it spends.
Depends(t) == spends[t] \cap mempool

-----------------------------------------------------------------------------
\* The sync loop.

\* Mutant: everything listed counts as new.
New_Listed == mempool

New == mempool \ DOMAIN cache

\* The listing of a tick: drop what is gone, fetch what is new.
List ==
    /\ pc = "idle" /\ pc' = "fetch"
    /\ cache' = Restrict(cache, DOMAIN cache \cap mempool)
    /\ pending' = New
    /\ quiet' = TRUE
    /\ UNCHANGED <<node, corrupt, fetched, search>>

\* One entry is fetched, or is gone by now.
Fetch(t) ==
    /\ pc = "fetch" /\ t \in pending
    /\ pending' = pending \ {t}
    /\ fetched' = IF t \in mempool THEN With(fetched, t, Depends(t)) ELSE fetched
    /\ UNCHANGED <<node, corrupt, quiet, pc, cache, search>>

FetchCorrupt(t, answer) ==
    /\ corrupt < MaxCorrupt
    /\ pc = "fetch" /\ t \in pending
    /\ pending' = pending \ {t}
    /\ corrupt' = corrupt + 1
    /\ fetched' = With(fetched, t, answer)
    /\ UNCHANGED <<node, quiet, pc, cache, search>>

\* The inserts.  A backlog, here pending entries, skips the recompute, and so
\* may the throttle.
Apply ==
    /\ pc = "fetch"
    /\ pc' = "idle" \/ (pending = {} /\ pc' = "snapshot")
    /\ cache' = Over(fetched, cache)
    /\ pending' = {} /\ fetched' = Nothing
    /\ UNCHANGED <<node, corrupt, quiet, search>>

\* The verbose listing of a full download, and the swap of the whole cache.
Bulk ==
    /\ pc = "idle" /\ pc' = "bulk"
    /\ fetched' = [t \in mempool |-> Depends(t)]
    /\ quiet' = TRUE
    /\ UNCHANGED <<node, corrupt, cache, pending, search>>

BulkWrite ==
    /\ pc = "bulk" /\ pc' = "snapshot"
    /\ cache' = fetched
    /\ fetched' = Nothing
    /\ UNCHANGED <<node, corrupt, quiet, pending, search>>

-----------------------------------------------------------------------------
\* snapshot_to_gbt and build_ancestors.

\* Mutant: parents are resolved in the pass that numbers the transactions.
Resolved_OnePass(t) == {p \in cache[t] \cap DOMAIN cache : p < t}

\* Parents that are not in the snapshot are dropped.
Resolved(t) == cache[t] \cap DOMAIN cache

Snapshot ==
    /\ pc = "snapshot" /\ pc' = "search"
    /\ parents' = [t \in DOMAIN cache |-> Resolved(t)]
    /\ visiting' = {}
    /\ UNCHANGED <<node, corrupt, quiet, sync, stack, memo>>

Frame(u) == [uid |-> u, todo |-> parents[u], set |-> {}]

\* visiting[uid] = true and = false, at the two ends of a search.
Enter(u) == visiting' = visiting \cup {u}

\* Mutant: a search that ends clears the flags of its callers too.
Leave_ClearsAll(u) == visiting' = {}

Leave(u) == visiting' = visiting \ {u}

\* The loop of project_with over all uids; one that has a memo returns it, and
\* between two searches no flag is set.
CallRoot(u) ==
    /\ pc = "search" /\ stack = <<>> /\ u \in DOMAIN parents \ (DOMAIN memo \cup visiting)
    /\ \A v \in DOMAIN parents \ DOMAIN memo : u <= v
    /\ stack' = <<Frame(u)>>
    /\ Enter(u)
    /\ UNCHANGED <<node, corrupt, quiet, pc, sync, parents, memo>>

Running == Last(stack)

\* The frame takes the next parent, and the ancestors it already has.
Took(p, ancestors) ==
    [Running EXCEPT !.todo = @ \ {p}, !.set = @ \cup {p} \cup ancestors]

\* `depends` may list the parents in any order.  A parent with a memo yields it, one
\* whose flag is set yields nothing, and any other is searched.
CallParent(p) ==
    /\ pc = "search" /\ stack # <<>> /\ p \in Running.todo
    /\ \/ /\ p \in DOMAIN memo
          /\ stack' = Append(Front(stack), Took(p, memo[p]))
          /\ UNCHANGED visiting
       \/ /\ p \in visiting \ DOMAIN memo
          /\ stack' = Append(Front(stack), Took(p, {}))
          /\ UNCHANGED visiting
       \/ /\ p \notin visiting \cup DOMAIN memo
          /\ stack' = Append(stack, Frame(p))
          /\ Enter(p)
    /\ UNCHANGED <<node, corrupt, quiet, pc, sync, parents, memo>>

\* Mutant: a parent's own ancestors are not handed to its child.
Return_Alone ==
    /\ pc = "search" /\ stack # <<>> /\ Running.todo = {}
    /\ Leave(Running.uid)
    /\ memo' = With(memo, Running.uid, Running.set)
    /\ stack' = IF Len(stack) = 1 THEN <<>>
                ELSE LET caller == stack[Len(stack) - 1]
                     IN  Append(Front(Front(stack)),
                                [caller EXCEPT !.todo = @ \ {Running.uid},
                                               !.set = @ \cup {Running.uid}])
    /\ UNCHANGED <<node, corrupt, quiet, pc, sync, parents>>

\* A search ends: its result is memoised and joins the caller's set.
Return ==
    /\ pc = "search" /\ stack # <<>> /\ Running.todo = {}
    /\ Leave(Running.uid)
    /\ memo' = With(memo, Running.uid, Running.set)
    /\ stack' = IF Len(stack) = 1 THEN <<>>
                ELSE LET caller == stack[Len(stack) - 1]
                     IN  Append(Front(Front(stack)),
                                [caller EXCEPT !.todo = @ \ {Running.uid},
                                               !.set = @ \cup {Running.uid} \cup Running.set])
    /\ UNCHANGED <<node, corrupt, quiet, pc, sync, parents>>

Searched == pc = "search" /\ stack = <<>> /\ DOMAIN memo = DOMAIN parents

\* Every transaction has its ancestors: the projection goes on, the tick ends.
Estimated ==
    /\ Searched
    /\ pc' = "idle"
    /\ parents' = Nothing /\ memo' = Nothing
    /\ UNCHANGED <<node, corrupt, quiet, sync, stack, visiting>>

Sync == List \/ Apply \/ Bulk \/ BulkWrite \/ \E t \in Txid : Fetch(t)

CorruptReply == \E t \in Txid, answer \in SUBSET Txid : FetchCorrupt(t, answer)

Search == Snapshot \/ Return \/ Estimated \/ \E u \in Txid : CallRoot(u) \/ CallParent(u)

Next == Node \/ Sync \/ CorruptReply \/ Search

Spec == Init /\ [][Next]_vars

-----------------------------------------------------------------------------
\* What the estimate may rely on.

EdgeSets == [Txid -> SUBSET Txid]

\* Type invariant: the cache, the entries of the tick and the search only hold
\* known txids, a tick only fetches what is not cached, and no transaction is in
\* the mempool and in a block at once.
TypeOK ==
    /\ spends \in EdgeSets /\ Acyclic(spends)
    /\ mempool \cap chain = {} /\ Known \subseteq Txid
    /\ \A t \in Known : spends[t] \subseteq Known
    /\ \A t \in chain : spends[t] \subseteq chain
    /\ reorgs \in 0..MaxReorgs /\ corrupt \in 0..MaxCorrupt
    /\ pc \in {"idle", "fetch", "bulk", "snapshot", "search"}
    /\ \A map \in {cache, fetched, parents, memo} :
           DOMAIN map \subseteq Txid /\ \A t \in DOMAIN map : map[t] \subseteq Txid
    /\ pending \subseteq Txid \ DOMAIN fetched
    /\ pc = "fetch" => (pending \cup DOMAIN fetched) \cap DOMAIN cache = {}
    /\ DOMAIN memo \cup visiting \subseteq DOMAIN parents
    /\ pc # "search" => parents = Nothing /\ stack = <<>> /\ memo = Nothing

\* build_ancestors memoises exactly the ancestor closure, whatever order the
\* searches and their calls come in, as long as no cycle is within reach; with
\* one, from a node that reports a wrong `depends`, it still holds every parent
\* and nothing that is not an ancestor.
ClosureExact ==
    \A u \in DOMAIN memo :
        LET all == Closure(parents)[u]
        IN  /\ parents[u] \subseteq memo[u] /\ memo[u] \subseteq all
            /\ (\A a \in {u} \cup all : a \notin Closure(parents)[a]) => memo[u] = all

\* The search ends on every graph, cyclic or not ("instead of recursing forever"):
\* its recursion is no deeper than the snapshot is large, and each step memoises one
\* more transaction, or else goes deeper, or else leaves the running frame fewer
\* parents.  This takes the flags to be set and cleared at the right moments.
SearchEnds ==
    [][pc = "search" /\ pc' = "search" =>
          /\ Len(stack') <= Cardinality(DOMAIN parents)
          /\ \/ DOMAIN memo \subseteq DOMAIN memo' /\ DOMAIN memo' # DOMAIN memo
             \/ memo' = memo /\ Len(stack') > Len(stack)
             \/ /\ memo' = memo /\ stack # <<>> /\ Len(stack') = Len(stack)
                /\ Last(stack').todo \subseteq Running.todo /\ Last(stack').todo # Running.todo
      ]_<<stack, memo>>

Ancestors == Closure([t \in mempool |-> Depends(t)])

\* The packages of an estimate are the node's: of the transactions that are
\* still in its mempool, the search finds no ancestor the node does not have,
\* and all of them if they are cached and no reorganisation returned one from a
\* block.  Arrivals, blocks, evictions and second arrivals between the listing,
\* the fetches and the estimate change nothing, although the `depends` of a
\* cached transaction is never fetched again.
PackagesTrue ==
    Searched /\ corrupt = 0 =>
        \A u \in DOMAIN memo \cap mempool :
            /\ memo[u] \cap mempool \subseteq Ancestors[u]
            /\ Ancestors[u] \subseteq DOMAIN memo \ returned => Ancestors[u] \subseteq memo[u]

\* What the projection takes for granted of the ancestors it is given: those of
\* an ancestor are among them, all are in the snapshot, and none is its own.  The
\* cached `depends` come from many moments of the node; as long as each was right
\* when it was fetched, together they close no cycle.
ProjectionReady ==
    Searched /\ corrupt = 0 =>
        \A u \in DOMAIN memo :
            /\ u \notin memo[u] /\ memo[u] \subseteq DOMAIN memo
            /\ \A p \in memo[u] : memo[p] \subseteq memo[u]

\* README.md: the estimator works from the live cache, with "no stale package
\* data to carry forward": when the node stood still since the listing, the
\* packages are the node's.  Violated: a parent that a reorganisation returned
\* is missing from the `depends` of a child cached before.
NoStalePackages ==
    Searched /\ corrupt = 0 /\ quiet =>
        \A u \in DOMAIN memo : memo[u] = Ancestors[u]
=============================================================================

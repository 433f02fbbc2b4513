--------------------------- MODULE PackagesProofs ---------------------------
\* The packages of the estimate, for every number of transactions, of wrong
\* replies and of reorganisations: the depth-first search for ancestors on every
\* graph that the cached `depends` make, with cycles or without, and the graph
\* itself.
EXTENDS Packages, FiniteFacts, SequenceTheorems, TLAPS

-----------------------------------------------------------------------------
\* The stack.

LEMMA FrontShape ==
  ASSUME NEW F, NEW s \in Seq(F), Len(s) \in Nat \ {0}, \A i \in 1..Len(s) : s[i] \in F
  PROVE  /\ Front(s) \in Seq(F) /\ Len(Front(s)) = Len(s) - 1
         /\ \A i \in 1..(Len(s) - 1) : Front(s)[i] = s[i]
<1> DEFINE n == Len(s) - 1
           t == SubSeq(s, 1, n)
<1>1. n \in Int /\ 1 \in Int /\ \A i \in 1..n : s[i] \in F
  OBVIOUS
<1> HIDE DEF n
<1>2. /\ t \in Seq(F) /\ Len(t) = (IF 1 <= n THEN n - 1 + 1 ELSE 0)
      /\ \A i \in 1..(n - 1 + 1) : t[i] = s[1 + i - 1]
  BY <1>1, SubSeqProperties
<1>3. n \in Nat
  BY DEF n
<1>4. Len(t) = n /\ \A i \in 1..n : t[i] = s[i]
  BY <1>2, <1>3
<1>5. QED
  BY <1>2, <1>4 DEF Front, n

\* A frame that replaces the running one leaves the others where they are.
LEMMA ReplaceTop ==
  ASSUME NEW F, NEW s \in Seq(F), s # <<>>, NEW f \in F
  PROVE  LET t == Append(Front(s), f)
         IN  /\ t \in Seq(F) /\ Len(t) = Len(s) /\ t[Len(s)] = f
             /\ \A i \in 1..(Len(s) - 1) : t[i] = s[i]
<1>1. Len(s) \in Nat \ {0} /\ \A i \in 1..Len(s) : s[i] \in F
  BY EmptySeq, LenProperties, ElementOfSeq
<1>2. /\ Front(s) \in Seq(F) /\ Len(Front(s)) = Len(s) - 1
      /\ \A i \in 1..(Len(s) - 1) : Front(s)[i] = s[i]
  BY <1>1, FrontShape
<1>3. QED
  BY <1>1, <1>2, AppendProperties

\* A frame that returns is gone, and only its caller has changed.
LEMMA PopTop ==
  ASSUME NEW F, NEW s \in Seq(F), Len(s) > 1, NEW f \in F
  PROVE  LET t == Append(Front(Front(s)), f)
         IN  /\ t \in Seq(F) /\ Len(t) = Len(s) - 1 /\ t[Len(s) - 1] = f
             /\ \A i \in 1..(Len(s) - 2) : t[i] = s[i]
<1>1. Len(s) \in Nat /\ \A i \in 1..Len(s) : s[i] \in F
  BY LenProperties, ElementOfSeq
<1>2. /\ Front(s) \in Seq(F) /\ Len(Front(s)) = Len(s) - 1
      /\ \A i \in 1..(Len(s) - 1) : Front(s)[i] = s[i]
  BY <1>1, FrontShape
<1>3. Front(s) # <<>>
  BY <1>1, <1>2, EmptySeq
<1>4. QED
  BY <1>1, <1>2, <1>3, ReplaceTop

-----------------------------------------------------------------------------
\* Types.

\* A map from txids to sets of txids, and one that stays within its domain.
Maps == UNION {[D -> SUBSET Txid] : D \in SUBSET Txid}
Graphs == UNION {[D -> SUBSET D] : D \in SUBSET Txid}

Frames == [uid : Txid, todo : SUBSET DOMAIN parents, set : SUBSET Txid]

\* What the search needs of the node and of the sync loop.
CacheType == /\ mempool \subseteq Txid /\ chain \subseteq Txid
             /\ cache \in Maps /\ fetched \in Maps /\ pending \subseteq Txid

SearchType == parents \in Graphs /\ memo \in Maps /\ stack \in Seq(Frames)

\* The stack is empty unless a search is under way, so a new snapshot never
\* meets frames of an old one.
StackIdle == pc # "search" => stack = <<>>

\* No transaction has two frames, the flags are set for exactly those that have
\* one, and what has a frame has no memo yet.
OneFrameEach == \A i, j \in DOMAIN stack : stack[i].uid = stack[j].uid => i = j
Flagged == visiting = {stack[i].uid : i \in DOMAIN stack}
FlagsTrue == OneFrameEach /\ Flagged /\ visiting \cap DOMAIN memo = {}

\* The inductive invariant.
SearchInv == CacheType /\ SearchType /\ StackIdle /\ FlagsTrue

LEMMA MapsOver ==
  ASSUME NEW f \in Maps, NEW g \in Maps
  PROVE  Over(f, g) \in Maps
<1>1. DOMAIN f \subseteq Txid /\ \A t \in DOMAIN f : f[t] \subseteq Txid
  BY DEF Maps
<1>2. DOMAIN g \subseteq Txid /\ \A t \in DOMAIN g : g[t] \subseteq Txid
  BY DEF Maps
<1>3. Over(f, g) \in [DOMAIN f \cup DOMAIN g -> SUBSET Txid]
  BY <1>1, <1>2 DEF Over
<1>4. QED
  BY <1>1, <1>2, <1>3 DEF Maps

LEMMA MapsWith ==
  ASSUME NEW g \in Maps, NEW t \in Txid, NEW S \in SUBSET Txid
  PROVE  With(g, t, S) \in Maps
<1>1. [u \in {t} |-> S] \in [{t} -> SUBSET Txid]
  OBVIOUS
<1>2. [u \in {t} |-> S] \in Maps
  BY <1>1 DEF Maps
<1>3. QED
  BY <1>2, MapsOver DEF With

LEMMA NothingFits == Nothing \in Maps /\ Nothing \in Graphs
<1>1. Nothing \in [{} -> SUBSET Txid] /\ Nothing \in [{} -> SUBSET {}]
  BY DEF Nothing
<1>2. QED
  BY <1>1 DEF Maps, Graphs

LEMMA InitSearch == Init => SearchInv
<1> SUFFICES ASSUME Init PROVE SearchInv
  OBVIOUS
<1>1. CacheType
  BY NothingFits DEF Init, CacheType
<1>2. SearchType /\ StackIdle /\ FlagsTrue
  BY NothingFits, EmptySeq DEF Init, SearchType, StackIdle, FlagsTrue, OneFrameEach, Flagged
<1>3. QED
  BY <1>1, <1>2 DEF SearchInv

-----------------------------------------------------------------------------
\* Steps that leave the search alone.
LEMMA SearchFrame ==
  ASSUME SearchInv, UNCHANGED search, pc' = "search" => pc = "search",
         pc = "search" => pc' = "search" \/ stack = <<>>
  PROVE  SearchType' /\ StackIdle' /\ FlagsTrue'
BY DEF SearchInv, SearchType, StackIdle, FlagsTrue, OneFrameEach, Flagged, search, Frames

\* The node's steps.
LEMMA NodeKeeps == SearchInv /\ Node => SearchInv'
<1> SUFFICES ASSUME SearchInv, Node PROVE SearchInv'
  OBVIOUS
<1>1. UNCHANGED <<spends, corrupt, pc, sync, search>>
  BY DEF Node, Arrive, Confirm, Evict, Reorg, NodeMoves
<1>2. mempool' \subseteq Txid /\ chain' \subseteq Txid
  BY DEF SearchInv, CacheType, Node, Arrive, Confirm, Evict, Reorg
<1>3. CacheType'
  BY <1>1, <1>2 DEF SearchInv, CacheType, sync
<1>4. SearchType' /\ StackIdle' /\ FlagsTrue'
  BY <1>1, SearchFrame DEF SearchInv, StackIdle
<1>5. QED
  BY <1>3, <1>4 DEF SearchInv

\* The sync loop's, wrong replies included.
LEMMA DependsKnown ==
  ASSUME SearchInv, NEW t
  PROVE  Depends(t) \subseteq Txid
BY DEF SearchInv, CacheType, Depends

LEMMA SyncKeeps == SearchInv /\ (Sync \/ CorruptReply) => SearchInv'
<1> SUFFICES ASSUME SearchInv, Sync \/ CorruptReply PROVE SearchInv'
  OBVIOUS
<1>1. UNCHANGED search /\ pc # "search" /\ pc' # "search" /\ UNCHANGED node
  BY DEF Sync, CorruptReply, List, Fetch, Apply, Bulk, BulkWrite, FetchCorrupt
<1>2. SearchType' /\ StackIdle' /\ FlagsTrue'
  BY <1>1, SearchFrame
<1>3. mempool' \subseteq Txid /\ chain' \subseteq Txid
  BY <1>1 DEF SearchInv, CacheType, node
<1>4. cache' \in Maps /\ fetched' \in Maps /\ pending' \subseteq Txid
  <2>1. CASE List
    <3>1. cache' = Restrict(cache, DOMAIN cache \cap mempool)
      BY <2>1 DEF List
    <3>2. cache' \in [DOMAIN cache \cap mempool -> SUBSET Txid]
      BY <3>1 DEF Restrict, SearchInv, CacheType, Maps
    <3>3. QED
      BY <2>1, <3>2 DEF List, New, SearchInv, CacheType, Maps
  <2>2. ASSUME NEW t \in Txid, Fetch(t)
        PROVE  cache' \in Maps /\ fetched' \in Maps /\ pending' \subseteq Txid
    BY <2>2, DependsKnown, MapsWith DEF Fetch, SearchInv, CacheType
  <2>3. CASE Apply
    BY <2>3, MapsOver, NothingFits DEF Apply, SearchInv, CacheType
  <2>4. CASE Bulk
    <3>1. fetched' \in [mempool -> SUBSET Txid]
      BY <2>4, DependsKnown DEF Bulk
    <3>2. QED
      BY <2>4, <3>1 DEF Bulk, SearchInv, CacheType, Maps
  <2>5. CASE BulkWrite
    BY <2>5, NothingFits DEF BulkWrite, SearchInv, CacheType
  <2>6. ASSUME NEW t \in Txid, NEW answer \in SUBSET Txid, FetchCorrupt(t, answer)
        PROVE  cache' \in Maps /\ fetched' \in Maps /\ pending' \subseteq Txid
    BY <2>6, MapsWith DEF FetchCorrupt, SearchInv, CacheType
  <2>7. QED
    BY <2>1, <2>2, <2>3, <2>4, <2>5, <2>6 DEF Sync, CorruptReply
<1>5. QED
  BY <1>2, <1>3, <1>4 DEF SearchInv, CacheType

-----------------------------------------------------------------------------
\* The search's own steps.
LEMMA RunningFrame ==
  ASSUME SearchType, stack # <<>>
  PROVE  Running \in Frames /\ Len(stack) \in Nat \ {0} /\ Running = stack[Len(stack)]
BY EmptySeq, LenProperties, ElementOfSeq DEF SearchType, Running, Last

LEMMA NewFrame ==
  ASSUME SearchType, NEW u \in DOMAIN parents
  PROVE  Frame(u) \in Frames /\ Frame(u).uid = u
BY DEF SearchType, Graphs, Frame, Frames

LEMMA TookKeeps ==
  ASSUME SearchType, stack # <<>>, NEW p \in Txid, NEW S \in SUBSET Txid
  PROVE  Took(p, S) \in Frames /\ Took(p, S).uid = Running.uid
BY RunningFrame DEF Took, Frames

LEMMA CallParentKeeps ==
  ASSUME SearchInv, NEW p \in Txid, CallParent(p)
  PROVE  stack' \in Seq(Frames) /\ FlagsTrue'
<1>1. /\ SearchType /\ OneFrameEach /\ stack # <<>> /\ p \in Running.todo
      /\ stack \in Seq(Frames) /\ memo' = memo
      /\ visiting = {stack[i].uid : i \in DOMAIN stack} /\ visiting \cap DOMAIN memo = {}
  BY DEF SearchInv, CallParent, SearchType, FlagsTrue, Flagged
<1>2. Running \in Frames /\ Len(stack) \in Nat \ {0} /\ Running = stack[Len(stack)]
  BY <1>1, RunningFrame
<1>3. DOMAIN stack = 1..Len(stack)
  BY <1>1, LenProperties
<1>4. ASSUME NEW S \in SUBSET Txid, stack' = Append(Front(stack), Took(p, S)),
             visiting' = visiting
      PROVE  stack' \in Seq(Frames) /\ FlagsTrue'
  <2>1. Took(p, S) \in Frames /\ Took(p, S).uid = Running.uid
    BY <1>1, TookKeeps
  <2>2. /\ stack' \in Seq(Frames) /\ Len(stack') = Len(stack)
        /\ stack'[Len(stack)] = Took(p, S)
        /\ \A i \in 1..(Len(stack) - 1) : stack'[i] = stack[i]
    BY <1>1, <1>4, <2>1, ReplaceTop
  <2>3. DOMAIN stack' = 1..Len(stack)
    BY <2>2, LenProperties
  <2>4. \A i \in DOMAIN stack' : stack'[i].uid = stack[i].uid
    BY <1>2, <2>1, <2>2, <2>3
  <2>5. QED
    <3>1. OneFrameEach'
      BY <1>1, <1>3, <2>3, <2>4 DEF OneFrameEach
    <3>2. {stack'[i].uid : i \in DOMAIN stack'} = {stack[i].uid : i \in DOMAIN stack}
      BY <1>3, <2>3, <2>4
    <3>3. QED
      BY <1>1, <1>4, <2>2, <3>1, <3>2 DEF FlagsTrue, Flagged
<1>5. ASSUME p \notin visiting \cup DOMAIN memo, stack' = Append(stack, Frame(p)),
             visiting' = visiting \cup {p}
      PROVE  stack' \in Seq(Frames) /\ FlagsTrue'
  <2>1. p \in DOMAIN parents
    BY <1>1, <1>2 DEF Frames
  <2>2. Frame(p) \in Frames /\ Frame(p).uid = p
    BY <1>1, <2>1, NewFrame
  <2>3. /\ stack' \in Seq(Frames) /\ Len(stack') = Len(stack) + 1
        /\ \A i \in 1..Len(stack) : stack'[i] = stack[i]
        /\ stack'[Len(stack) + 1] = Frame(p)
    BY <1>1, <1>5, <2>2, AppendProperties
  <2>4. DOMAIN stack' = 1..(Len(stack) + 1)
    BY <2>3, LenProperties
  \* No frame below is for p: it was not being visited.
  <2>5. \A i \in 1..Len(stack) : stack'[i].uid # p
    BY <1>1, <1>3, <1>5, <2>3
  <2>6. \A i, j \in 1..Len(stack) : stack'[i].uid = stack'[j].uid => i = j
    BY <1>1, <1>3, <2>3 DEF OneFrameEach
  <2>7. stack'[Len(stack) + 1].uid = p
    BY <2>2, <2>3
  <2>8. OneFrameEach'
    BY <1>2, <2>3, <2>4, <2>5, <2>6, <2>7 DEF OneFrameEach
  <2>9. {stack'[i].uid : i \in DOMAIN stack'} = {stack[i].uid : i \in DOMAIN stack} \cup {p}
    <3>1. DOMAIN stack' = DOMAIN stack \cup {Len(stack) + 1}
      BY <1>2, <1>3, <2>4
    <3>2. \A i \in DOMAIN stack : stack'[i].uid = stack[i].uid
      BY <1>3, <2>3
    <3>3. QED
      BY <2>7, <3>1, <3>2
  <2>10. QED
    BY <1>1, <1>5, <2>3, <2>8, <2>9 DEF FlagsTrue, Flagged
<1>6. CASE p \in DOMAIN memo
  <2>1. memo[p] \in SUBSET Txid
    BY <1>1, <1>6 DEF SearchType, Maps
  <2>2. QED
    BY <1>4, <1>6, <2>1 DEF CallParent
<1>7. CASE p \notin DOMAIN memo /\ p \in visiting
  <2>1. {} \in SUBSET Txid
    OBVIOUS
  <2>2. QED
    BY <1>4, <1>7, <2>1 DEF CallParent
<1>8. CASE p \notin DOMAIN memo /\ p \notin visiting
  BY <1>5, <1>8 DEF CallParent, Enter
<1>9. QED
  BY <1>6, <1>7, <1>8

LEMMA ReturnKeeps ==
  ASSUME SearchInv, Return
  PROVE  stack' \in Seq(Frames) /\ memo' \in Maps /\ FlagsTrue'
<1>1. /\ SearchType /\ OneFrameEach /\ stack # <<>> /\ stack \in Seq(Frames) /\ memo \in Maps
      /\ visiting = {stack[i].uid : i \in DOMAIN stack} /\ visiting \cap DOMAIN memo = {}
  BY DEF SearchInv, Return, SearchType, FlagsTrue, Flagged
<1>2. Running \in Frames /\ Len(stack) \in Nat \ {0} /\ Running = stack[Len(stack)]
  BY <1>1, RunningFrame
<1>3. DOMAIN stack = 1..Len(stack)
  BY <1>1, LenProperties
<1>4. memo' \in Maps
  <2>1. Running.uid \in Txid /\ Running.set \in SUBSET Txid
    BY <1>2 DEF Frames
  <2>2. QED
    BY <1>1, <2>1, MapsWith DEF Return
<1> DEFINE uid == Running.uid
<1>8. visiting' = visiting \ {uid} /\ DOMAIN memo' = DOMAIN memo \cup {uid}
  BY DEF Return, Leave, With, Over
<1>9. visiting' \cap DOMAIN memo' = {}
  BY <1>1, <1>8
<1>5. CASE Len(stack) = 1
  <2>1. stack' = <<>>
    BY <1>5 DEF Return
  <2>2. visiting' = {}
    <3>1. \A i \in DOMAIN stack : i = Len(stack)
      BY <1>3, <1>5
    <3>2. visiting \subseteq {uid}
      BY <1>1, <1>2, <3>1
    <3>3. QED
      BY <1>8, <3>2
  <2>3. QED
    BY <1>4, <1>9, <2>1, <2>2, EmptySeq DEF FlagsTrue, OneFrameEach, Flagged
<1>6. CASE Len(stack) # 1
  <2> DEFINE n == Len(stack) - 1
             caller == stack[n]
             merged == [caller EXCEPT !.todo = @ \ {Running.uid},
                                      !.set = @ \cup {Running.uid} \cup Running.set]
  <2>1. n \in 1..Len(stack) /\ Len(stack) > 1 /\ n \in Nat
    <3>1. \A k \in Nat \ {0} : k # 1 => k - 1 \in 1..k /\ k > 1 /\ k - 1 \in Nat
      OBVIOUS
    <3>2. QED
      BY <1>2, <1>6, <3>1
  <2>2. caller \in Frames
    BY <1>1, <2>1, ElementOfSeq
  <2>3. merged \in Frames /\ merged.uid = caller.uid
    BY <1>2, <2>2 DEF Frames
  <2>4. stack' = Append(Front(Front(stack)), merged)
    BY <1>6 DEF Return
  <2> HIDE DEF merged
  <2>5. /\ stack' \in Seq(Frames) /\ Len(stack') = n /\ stack'[n] = merged
        /\ \A i \in 1..(n - 1) : stack'[i] = stack[i]
    BY <1>1, <1>2, <2>1, <2>3, <2>4, PopTop
  <2>6. DOMAIN stack' = 1..n
    BY <2>5, LenProperties
  <2>7. \A i \in DOMAIN stack' : i \in DOMAIN stack /\ stack'[i].uid = stack[i].uid
    BY <1>2, <1>3, <2>1, <2>3, <2>5, <2>6
  <2>8. OneFrameEach'
    BY <1>1, <2>7 DEF OneFrameEach
  <2>9. {stack'[i].uid : i \in DOMAIN stack'} = {stack[i].uid : i \in DOMAIN stack} \ {uid}
    <3>1. DOMAIN stack = 1..n \cup {Len(stack)} /\ Len(stack) \notin 1..n
      BY <1>2, <1>3, <2>1
    <3>2. \A i \in 1..n : stack[i].uid # uid
      BY <1>1, <1>2, <3>1 DEF OneFrameEach
    <3> HIDE DEF n
    <3>3. QED
      BY <1>2, <2>6, <2>7, <3>1, <3>2
  <2>10. QED
    BY <1>1, <1>4, <1>8, <1>9, <2>5, <2>8, <2>9 DEF FlagsTrue, Flagged
<1>7. QED
  BY <1>5, <1>6

LEMMA SearchKeeps == SearchInv /\ Search => SearchInv'
<1> SUFFICES ASSUME SearchInv, Search PROVE SearchInv'
  OBVIOUS
<1>1. UNCHANGED <<node, sync>>
  BY DEF Search, Snapshot, Return, Estimated, CallRoot, CallParent
<1>2. CacheType'
  BY <1>1 DEF SearchInv, CacheType, node, sync
<1>3. CASE Snapshot
  <2>1. stack = <<>> /\ stack' = <<>> /\ memo' = memo
    BY <1>3 DEF Snapshot, SearchInv, StackIdle
  <2>2. parents' \in [DOMAIN cache -> SUBSET DOMAIN cache]
    BY <1>3 DEF Snapshot, Resolved
  <2>3. parents' \in Graphs
    BY <2>2 DEF SearchInv, CacheType, Maps, Graphs
  <2>4. visiting' = {}
    BY <1>3 DEF Snapshot
  <2>5. QED
    BY <1>2, <2>1, <2>3, <2>4, EmptySeq
       DEF SearchInv, SearchType, StackIdle, FlagsTrue, OneFrameEach, Flagged
<1>4. ASSUME NEW u \in Txid, CallRoot(u) PROVE SearchInv'
  <2>1. Frame(u) \in Frames
    BY <1>4, NewFrame DEF CallRoot, SearchInv
  <2>2. stack' = <<Frame(u)>> /\ pc = "search" /\ UNCHANGED <<pc, parents, memo>>
    BY <1>4 DEF CallRoot
  <2>3. /\ stack = <<>> /\ u \notin DOMAIN memo /\ visiting' = visiting \cup {u}
        /\ Frame(u).uid = u
    BY <1>4 DEF CallRoot, Enter, Frame
  <2>4. visiting = {}
    BY <2>3, EmptySeq DEF SearchInv, FlagsTrue, Flagged
  <2>5. stack' \in Seq(Frames) /\ OneFrameEach'
    BY <2>1, <2>2 DEF OneFrameEach
  <2>6. {stack'[i].uid : i \in DOMAIN stack'} = {u}
    BY <2>2, <2>3
  <2>7. FlagsTrue'
    BY <2>2, <2>3, <2>4, <2>5, <2>6 DEF FlagsTrue, Flagged
  <2>8. QED
    BY <1>2, <2>2, <2>5, <2>7 DEF SearchInv, SearchType, StackIdle, Frames
<1>5. ASSUME NEW p \in Txid, CallParent(p) PROVE SearchInv'
  <2>1. stack' \in Seq(Frames) /\ FlagsTrue'
    BY <1>5, CallParentKeeps
  <2>2. pc = "search" /\ UNCHANGED <<pc, parents, memo>>
    BY <1>5 DEF CallParent
  <2>3. QED
    BY <1>2, <2>1, <2>2 DEF SearchInv, SearchType, StackIdle, Frames
<1>6. CASE Return
  <2>1. stack' \in Seq(Frames) /\ memo' \in Maps /\ FlagsTrue'
    BY <1>6, ReturnKeeps
  <2>2. pc = "search" /\ UNCHANGED <<pc, parents>>
    BY <1>6 DEF Return
  <2>3. QED
    BY <1>2, <2>1, <2>2 DEF SearchInv, SearchType, StackIdle, Frames
<1>7. CASE Estimated
  <2>1. /\ stack' = <<>> /\ parents' = Nothing /\ memo' = Nothing
        /\ stack = <<>> /\ visiting' = visiting
    BY <1>7 DEF Estimated, Searched
  <2>2. visiting = {}
    BY <2>1, EmptySeq DEF SearchInv, FlagsTrue, Flagged
  <2>3. DOMAIN Nothing = {}
    BY DEF Nothing
  <2>4. FlagsTrue'
    BY <2>1, <2>2, <2>3, EmptySeq DEF FlagsTrue, OneFrameEach, Flagged
  <2>5. QED
    BY <1>2, <2>1, <2>4, NothingFits, EmptySeq DEF SearchInv, SearchType, StackIdle
<1>8. QED
  BY <1>3, <1>4, <1>5, <1>6, <1>7 DEF Search

LEMMA StepSearch == SearchInv /\ [Next]_vars => SearchInv'
<1>1. SearchInv /\ UNCHANGED vars => SearchInv'
  BY DEF vars, node, sync, search, SearchInv, CacheType, SearchType, StackIdle, FlagsTrue,
         OneFrameEach, Flagged, Frames
<1>2. QED
  BY <1>1, NodeKeeps, SyncKeeps, SearchKeeps DEF Next

-----------------------------------------------------------------------------
\* Reachability, as the least closed set.

LEMMA ClosureFacts ==
  ASSUME NEW D, NEW e \in [D -> SUBSET D], NEW u \in D
  PROVE  /\ Closure(e)[u] \subseteq D
         /\ e[u] \subseteq Closure(e)[u]
         /\ \A p \in Closure(e)[u] : e[p] \subseteq Closure(e)[u]
BY DEF Closure, Closed

LEMMA ClosureLeast ==
  ASSUME NEW D, NEW e \in [D -> SUBSET D], NEW u \in D,
         NEW S, e[u] \subseteq S, \A p \in S \cap D : e[p] \subseteq S
  PROVE  Closure(e)[u] \subseteq S
<1>1. Closed(e, u, S \cap D)
  BY DEF Closed
<1>2. QED
  BY <1>1 DEF Closure

LEMMA ClosureNested ==
  ASSUME NEW D, NEW e \in [D -> SUBSET D], NEW u \in D,
         NEW p \in {u} \cup Closure(e)[u]
  PROVE  p \in D /\ Closure(e)[p] \subseteq Closure(e)[u]
<1>1. p \in D
  BY ClosureFacts
<1>2. \A q \in Closure(e)[u] : e[q] \subseteq Closure(e)[u]
  BY ClosureFacts
<1>3. e[p] \subseteq Closure(e)[u]
  BY <1>2, ClosureFacts
<1>4. QED
  BY <1>1, <1>2, <1>3, ClosureLeast

\* What u reaches, a neighbour of u is or reaches.
LEMMA ClosureUnfold ==
  ASSUME NEW D, NEW e \in [D -> SUBSET D], NEW u \in D
  PROVE  Closure(e)[u] \subseteq e[u] \cup UNION {Closure(e)[p] : p \in e[u]}
<1> DEFINE S == e[u] \cup UNION {Closure(e)[p] : p \in e[u]}
<1>1. ASSUME NEW q \in S \cap D PROVE e[q] \subseteq S
  <2>1. CASE q \in e[u]
    BY <2>1, ClosureFacts
  <2>2. ASSUME NEW p \in e[u], q \in Closure(e)[p] PROVE e[q] \subseteq S
    <3>1. p \in D
      OBVIOUS
    <3>2. e[q] \subseteq Closure(e)[p]
      BY <2>2, <3>1, ClosureFacts
    <3>3. QED
      BY <3>2
  <2>3. QED
    BY <2>1, <2>2
<1>2. e[u] \subseteq S
  OBVIOUS
<1> HIDE DEF S
<1>3. Closure(e)[u] \subseteq S
  BY <1>1, <1>2, ClosureLeast
<1>4. QED
  BY <1>3 DEF S

\* Fewer edges reach less.
LEMMA ClosureMonotone ==
  ASSUME NEW D, NEW e \in [D -> SUBSET D], NEW E, NEW g \in [E -> SUBSET E],
         E \subseteq D, \A x \in E : g[x] \subseteq e[x], NEW u \in E
  PROVE  Closure(g)[u] \subseteq Closure(e)[u]
<1>1. u \in D /\ g[u] \subseteq Closure(e)[u]
  BY ClosureFacts
<1>2. \A p \in Closure(e)[u] \cap E : g[p] \subseteq Closure(e)[u]
  <2>1. \A p \in Closure(e)[u] : e[p] \subseteq Closure(e)[u]
    BY <1>1, ClosureFacts
  <2>2. QED
    BY <2>1
<1>3. QED
  BY <1>1, <1>2, ClosureLeast

-----------------------------------------------------------------------------
\* What the search has found.

Reach(u) == Closure(parents)[u]

\* Neither u nor anything it reaches is on a cycle.
Clean(u) == \A a \in {u} \cup Reach(u) : a \notin Reach(a)

\* A frame holds the parents it has visited, and only what it reaches; with no
\* cycle in sight also all that those parents reach.
FrameExact(f) ==
    /\ f.uid \in DOMAIN parents
    /\ f.todo \subseteq parents[f.uid]
    /\ parents[f.uid] \subseteq f.todo \cup f.set
    /\ f.set \subseteq Reach(f.uid)
    /\ Clean(f.uid) => \A p \in parents[f.uid] \ f.todo : Reach(p) \subseteq f.set

StackExact == \A i \in DOMAIN stack : FrameExact(stack[i])

\* A frame reaches the frames above it, and waits for the next one.
CallsNested == \A i, j \in DOMAIN stack : i < j => stack[j].uid \in Reach(stack[i].uid)
CallsPending ==
    \A i \in DOMAIN stack : i + 1 \in DOMAIN stack => stack[i + 1].uid \in stack[i].todo

ExactInv == /\ StackExact /\ CallsNested /\ CallsPending
            /\ DOMAIN memo \subseteq DOMAIN parents /\ ClosureExact

LEMMA ReachFacts ==
  ASSUME parents \in Graphs, NEW u \in DOMAIN parents
  PROVE  /\ parents \in [DOMAIN parents -> SUBSET DOMAIN parents]
         /\ Reach(u) \subseteq DOMAIN parents
         /\ parents[u] \subseteq Reach(u)
         /\ \A p \in Reach(u) : parents[p] \subseteq Reach(u) /\ Reach(p) \subseteq Reach(u)
         /\ Reach(u) \subseteq parents[u] \cup UNION {Reach(p) : p \in parents[u]}
<1>1. parents \in [DOMAIN parents -> SUBSET DOMAIN parents]
  BY DEF Graphs
<1>2. /\ Closure(parents)[u] \subseteq DOMAIN parents
      /\ parents[u] \subseteq Closure(parents)[u]
      /\ \A p \in Closure(parents)[u] : parents[p] \subseteq Closure(parents)[u]
  BY <1>1, ClosureFacts
<1>3. \A p \in Closure(parents)[u] : Closure(parents)[p] \subseteq Closure(parents)[u]
  BY <1>1, ClosureNested
<1>4. Closure(parents)[u] \subseteq parents[u] \cup UNION {Closure(parents)[p] : p \in parents[u]}
  BY <1>1, ClosureUnfold
<1>5. QED
  BY <1>1, <1>2, <1>3, <1>4 DEF Reach

LEMMA CleanBelow ==
  ASSUME parents \in Graphs, NEW u \in DOMAIN parents, NEW p \in Reach(u), Clean(u)
  PROVE  Clean(p)
BY ReachFacts DEF Clean

\* A memo is exact in the terms of the frames.
LEMMA MemoExact ==
  ASSUME ClosureExact, NEW u \in DOMAIN memo
  PROVE  /\ parents[u] \subseteq memo[u] /\ memo[u] \subseteq Reach(u)
         /\ Clean(u) => memo[u] = Reach(u)
BY DEF ClosureExact, Clean, Reach

\* A frame that takes a parent and what is known of its ancestors stays exact.
LEMMA TakenExact ==
  ASSUME parents \in Graphs, NEW f \in Frames, FrameExact(f), NEW p \in f.todo,
         NEW S, S \subseteq Reach(p), Clean(f.uid) => Reach(p) \subseteq S,
         NEW g, g.uid = f.uid, g.todo = f.todo \ {p}, g.set = f.set \cup {p} \cup S
  PROVE  FrameExact(g)
<1>1. f.uid \in DOMAIN parents /\ p \in parents[f.uid]
  BY DEF FrameExact
<1>2. p \in Reach(f.uid) /\ Reach(p) \subseteq Reach(f.uid)
  BY <1>1, ReachFacts
<1>3. g.set \subseteq Reach(f.uid)
  BY <1>2 DEF FrameExact
<1>4. parents[f.uid] \subseteq g.todo \cup g.set
  BY DEF FrameExact
<1>5. ASSUME Clean(f.uid), NEW q \in parents[f.uid] \ g.todo
      PROVE  Reach(q) \subseteq g.set
  BY <1>5 DEF FrameExact
<1>6. QED
  BY <1>1, <1>3, <1>4, <1>5 DEF FrameExact

\* A frame with no parent left holds what a memo should.
LEMMA ReturnedExact ==
  ASSUME parents \in Graphs, NEW f, FrameExact(f), f.todo = {}
  PROVE  /\ parents[f.uid] \subseteq f.set /\ f.set \subseteq Reach(f.uid)
         /\ Clean(f.uid) => f.set = Reach(f.uid)
<1>1. parents[f.uid] \subseteq f.set /\ f.set \subseteq Reach(f.uid)
  BY DEF FrameExact
<1>2. ASSUME Clean(f.uid) PROVE Reach(f.uid) \subseteq f.set
  <2>1. \A p \in parents[f.uid] : Reach(p) \subseteq f.set
    BY <1>2 DEF FrameExact
  <2>2. Reach(f.uid) \subseteq parents[f.uid] \cup UNION {Reach(p) : p \in parents[f.uid]}
    BY ReachFacts DEF FrameExact
  <2>3. QED
    BY <1>1, <2>1, <2>2
<1>3. QED
  BY <1>1, <1>2

\* A parent that is being visited closes a cycle.
LEMMA VisitingCycle ==
  ASSUME SearchInv, ExactInv, stack # <<>>, NEW p \in Running.todo, p \in visiting
  PROVE  ~Clean(Running.uid)
<1>1. /\ parents \in Graphs /\ stack \in Seq(Frames)
      /\ Running = stack[Len(stack)] /\ Len(stack) \in Nat \ {0}
  BY RunningFrame DEF SearchInv, SearchType
<1>2. DOMAIN stack = 1..Len(stack)
  BY <1>1, LenProperties
<1>3. FrameExact(Running)
  BY <1>1, <1>2 DEF ExactInv, StackExact
<1>4. Running.uid \in DOMAIN parents /\ p \in parents[Running.uid]
  BY <1>3 DEF FrameExact
<1>5. p \in Reach(Running.uid) /\ p \in DOMAIN parents
  BY <1>1, <1>4, ReachFacts
<1>6. PICK j \in 1..Len(stack) : stack[j].uid = p
  BY <1>2 DEF SearchInv, FlagsTrue, Flagged
<1>7. p \in Reach(p)
  <2>1. CASE j = Len(stack)
    BY <1>1, <1>5, <1>6, <2>1
  <2>2. CASE j # Len(stack)
    <3>1. j < Len(stack) /\ j \in DOMAIN stack /\ Len(stack) \in DOMAIN stack
      <4>1. \A n \in Nat \ {0} : \A k \in 1..n : k # n => k < n /\ n \in 1..n
        OBVIOUS
      <4>2. j < Len(stack) /\ Len(stack) \in 1..Len(stack)
        BY <1>1, <2>2, <4>1
      <4>3. QED
        BY <1>2, <4>2
    <3>2. Running.uid \in Reach(p)
      BY <1>1, <1>6, <3>1 DEF ExactInv, CallsNested
    <3>3. parents[Running.uid] \subseteq Reach(p)
      <4>1. \A q \in Reach(p) : parents[q] \subseteq Reach(p)
        BY <1>1, <1>5, ReachFacts
      <4>2. QED
        BY <3>2, <4>1
    <3>4. QED
      BY <1>4, <3>3
  <2>3. QED
    BY <2>1, <2>2
<1>8. QED
  BY <1>5, <1>7 DEF Clean

\* While the graph stays, only the frames and the memos matter.
LEMMA SameGraph ==
  ASSUME parents' = parents
  PROVE  /\ (\A i \in DOMAIN stack' : FrameExact(stack'[i])) => StackExact'
         /\ (\A i, j \in DOMAIN stack' : i < j => stack'[j].uid \in Reach(stack'[i].uid))
            => CallsNested'
         /\ (\A u \in DOMAIN memo' : /\ parents[u] \subseteq memo'[u]
                                     /\ memo'[u] \subseteq Reach(u)
                                     /\ Clean(u) => memo'[u] = Reach(u))
            => ClosureExact'
BY DEF StackExact, FrameExact, CallsNested, ClosureExact, Clean, Reach

\* A step that leaves the frames below the last one alone, and the uid of that one.
LEMMA LastFrameChange ==
  ASSUME SearchInv, ExactInv, parents' = parents, NEW m \in 1..Len(stack),
         stack' \in Seq(Frames), Len(stack') = m,
         \A i \in 1..(m - 1) : stack'[i] = stack[i],
         stack'[m].uid = stack[m].uid, FrameExact(stack'[m])
  PROVE  StackExact' /\ CallsNested' /\ CallsPending'
<1>1. stack \in Seq(Frames) /\ Len(stack) \in Nat /\ DOMAIN stack = 1..Len(stack)
  BY LenProperties DEF SearchInv, SearchType
<1>2. DOMAIN stack' = 1..m
  BY LenProperties
<1>3. m \in Nat /\ \A i \in 1..m : i \in DOMAIN stack /\ (i # m => i \in 1..(m - 1))
  BY <1>1
<1>4. \A i \in DOMAIN stack' : stack'[i].uid = stack[i].uid /\ i \in DOMAIN stack
  BY <1>2, <1>3
<1>5. \A i \in DOMAIN stack' : FrameExact(stack'[i])
  BY <1>2, <1>3 DEF ExactInv, StackExact
<1>6. \A i, j \in DOMAIN stack' : i < j => stack'[j].uid \in Reach(stack'[i].uid)
  BY <1>4 DEF ExactInv, CallsNested
<1>7. CallsPending'
  <2>1. SUFFICES ASSUME NEW i \in DOMAIN stack', i + 1 \in DOMAIN stack'
                 PROVE  stack'[i + 1].uid \in stack'[i].todo
    BY DEF CallsPending
  <2>2. i \in 1..(m - 1)
    BY <1>2, <1>3, <2>1
  <2>3. stack[i + 1].uid \in stack[i].todo
    BY <1>4, <2>1 DEF ExactInv, CallsPending
  <2>4. QED
    BY <1>4, <2>1, <2>2, <2>3
<1>8. QED
  BY <1>5, <1>6, <1>7, SameGraph

LEMMA FreshFrame ==
  ASSUME NEW u \in DOMAIN parents
  PROVE  FrameExact(Frame(u))
BY DEF FrameExact, Frame

LEMMA CallRootExact ==
  ASSUME SearchInv, ExactInv, NEW u \in Txid, CallRoot(u)
  PROVE  ExactInv'
<1>1. u \in DOMAIN parents /\ stack' = <<Frame(u)>> /\ UNCHANGED <<parents, memo>>
  BY DEF CallRoot
<1>2. FrameExact(Frame(u))
  BY <1>1, FreshFrame
<1>3. DOMAIN stack' = {1} /\ stack'[1] = Frame(u)
  BY <1>1
<1>4. StackExact' /\ CallsNested'
  BY <1>1, <1>2, <1>3, SameGraph
<1>5. CallsPending'
  BY <1>3 DEF CallsPending
<1>6. ClosureExact' /\ (DOMAIN memo \subseteq DOMAIN parents)'
  BY <1>1 DEF ExactInv, ClosureExact
<1>7. QED
  BY <1>4, <1>5, <1>6 DEF ExactInv

LEMMA CallParentExact ==
  ASSUME SearchInv, ExactInv, NEW p \in Txid, CallParent(p)
  PROVE  ExactInv'
<1>1. /\ parents \in Graphs /\ stack \in Seq(Frames) /\ stack # <<>> /\ SearchType
      /\ Running = stack[Len(stack)] /\ Len(stack) \in Nat \ {0}
      /\ Running \in Frames /\ p \in Running.todo
  BY RunningFrame DEF SearchInv, SearchType, CallParent
<1>2. DOMAIN stack = 1..Len(stack) /\ Len(stack) \in 1..Len(stack)
  BY <1>1, LenProperties
<1>3. UNCHANGED <<parents, memo>>
  BY DEF CallParent
<1>4. ClosureExact' /\ (DOMAIN memo \subseteq DOMAIN parents)'
  BY <1>3 DEF ExactInv, ClosureExact
<1>5. FrameExact(Running)
  BY <1>1, <1>2 DEF ExactInv, StackExact
<1>6. /\ Running.uid \in DOMAIN parents /\ p \in parents[Running.uid]
      /\ p \in Reach(Running.uid) /\ p \in DOMAIN parents
  BY <1>1, <1>5, ReachFacts DEF FrameExact
\* The frame takes p.
<1>7. ASSUME NEW S \in SUBSET Txid, stack' = Append(Front(stack), Took(p, S)),
             S \subseteq Reach(p), Clean(Running.uid) => Reach(p) \subseteq S
      PROVE  ExactInv'
  <2>1. /\ Took(p, S) \in Frames /\ Took(p, S).uid = Running.uid
        /\ Took(p, S).todo = Running.todo \ {p} /\ Took(p, S).set = Running.set \cup {p} \cup S
    BY <1>1, TookKeeps DEF Took, Frames
  <2>2. FrameExact(Took(p, S))
    BY <1>1, <1>5, <1>7, <2>1, TakenExact
  <2>3. /\ stack' \in Seq(Frames) /\ Len(stack') = Len(stack)
        /\ stack'[Len(stack)] = Took(p, S)
        /\ \A i \in 1..(Len(stack) - 1) : stack'[i] = stack[i]
    BY <1>1, <1>7, <2>1, ReplaceTop
  <2>4. StackExact' /\ CallsNested' /\ CallsPending'
    BY <1>1, <1>2, <1>3, <2>1, <2>2, <2>3, LastFrameChange
  <2>5. QED
    BY <1>4, <2>4 DEF ExactInv
\* The search for p starts.
<1>8. ASSUME stack' = Append(stack, Frame(p))
      PROVE  ExactInv'
  <2> DEFINE n == Len(stack)
  <2>1. Frame(p) \in Frames /\ Frame(p).uid = p /\ FrameExact(Frame(p))
    BY <1>1, <1>6, NewFrame, FreshFrame
  <2>2. /\ stack' \in Seq(Frames) /\ Len(stack') = n + 1 /\ stack'[n + 1] = Frame(p)
        /\ \A i \in 1..n : stack'[i] = stack[i]
    BY <1>1, <1>8, <2>1, AppendProperties
  <2>3. DOMAIN stack' = 1..(n + 1) /\ n \in Nat
    BY <1>1, <2>2, LenProperties
  <2>4. \A i \in DOMAIN stack' : i = n + 1 \/ (i \in 1..n /\ i \in DOMAIN stack)
    BY <1>2, <2>3
  <2>5. \A i \in DOMAIN stack' : FrameExact(stack'[i])
    BY <2>1, <2>2, <2>4 DEF ExactInv, StackExact
  \* p is within reach of every frame: of the caller, which the others reach.
  <2>6. \A i \in 1..n : p \in Reach(stack[i].uid)
    <3>1. SUFFICES ASSUME NEW i \in 1..n PROVE p \in Reach(stack[i].uid)
      OBVIOUS
    <3>2. CASE i = n
      BY <1>1, <1>6, <3>2
    <3>3. CASE i # n
      <4>1. i < n /\ i \in DOMAIN stack /\ n \in DOMAIN stack
        <5>1. \A k \in Nat : \A h \in 1..k : h # k => h < k
          OBVIOUS
        <5>2. QED
          BY <1>2, <2>3, <3>1, <3>3, <5>1
      <4>2. Running.uid \in Reach(stack[i].uid) /\ stack[i].uid \in DOMAIN parents
        BY <1>1, <4>1 DEF ExactInv, CallsNested, StackExact, FrameExact
      <4>3. parents[Running.uid] \subseteq Reach(stack[i].uid)
        BY <1>1, <4>2, ReachFacts
      <4>4. QED
        BY <1>6, <4>3
    <3>4. QED
      BY <3>2, <3>3
  <2>7. \A i, j \in DOMAIN stack' : i < j => stack'[j].uid \in Reach(stack'[i].uid)
    <3>1. SUFFICES ASSUME NEW i \in DOMAIN stack', NEW j \in DOMAIN stack', i < j
                   PROVE  stack'[j].uid \in Reach(stack'[i].uid)
      OBVIOUS
    <3>2. i \in 1..n /\ i \in DOMAIN stack /\ stack'[i] = stack[i]
      BY <2>2, <2>3, <2>4, <3>1
    <3>3. CASE j = n + 1
      BY <2>1, <2>2, <2>6, <3>2, <3>3
    <3>4. CASE j # n + 1
      <4>1. j \in DOMAIN stack /\ stack'[j] = stack[j]
        BY <2>2, <2>4, <3>4
      <4>2. QED
        BY <3>1, <3>2, <4>1 DEF ExactInv, CallsNested
    <3>5. QED
      BY <3>3, <3>4
  <2>8. CallsPending'
    <3>1. SUFFICES ASSUME NEW i \in DOMAIN stack', i + 1 \in DOMAIN stack'
                   PROVE  stack'[i + 1].uid \in stack'[i].todo
      BY DEF CallsPending
    <3>2. i \in 1..n /\ stack'[i] = stack[i] /\ i \in DOMAIN stack
      BY <1>2, <2>2, <2>3, <3>1
    <3>3. CASE i = n
      BY <1>1, <2>1, <2>2, <3>2, <3>3
    <3>4. CASE i # n
      <4>1. i + 1 \in 1..n /\ i + 1 \in DOMAIN stack
        BY <1>2, <2>3, <3>1, <3>2, <3>4
      <4>2. QED
        BY <2>2, <3>2, <4>1 DEF ExactInv, CallsPending
    <3>5. QED
      BY <3>3, <3>4
  <2>9. QED
    BY <1>3, <1>4, <2>5, <2>7, <2>8, SameGraph DEF ExactInv
<1>9. CASE p \in DOMAIN memo
  <2>1. stack' = Append(Front(stack), Took(p, memo[p])) /\ memo[p] \in SUBSET Txid
    BY <1>1, <1>9 DEF CallParent, SearchType, Maps
  <2>2. memo[p] \subseteq Reach(p) /\ (Clean(p) => memo[p] = Reach(p))
    BY <1>9, MemoExact DEF ExactInv
  <2>3. Clean(Running.uid) => Clean(p)
    BY <1>1, <1>6, CleanBelow
  <2>4. QED
    BY <1>7, <2>1, <2>2, <2>3
<1>10. CASE p \notin DOMAIN memo /\ p \in visiting
  <2>1. ~Clean(Running.uid)
    BY <1>1, <1>10, VisitingCycle
  <2>2. QED
    BY <1>7, <1>10, <2>1 DEF CallParent
<1>11. CASE p \notin DOMAIN memo /\ p \notin visiting
  BY <1>8, <1>11 DEF CallParent
<1>12. QED
  BY <1>9, <1>10, <1>11

LEMMA ReturnExact ==
  ASSUME SearchInv, ExactInv, Return
  PROVE  ExactInv'
<1> DEFINE u == Running.uid
<1>1. /\ parents \in Graphs /\ memo \in Maps /\ stack \in Seq(Frames) /\ stack # <<>>
      /\ Running = stack[Len(stack)] /\ Len(stack) \in Nat \ {0}
      /\ Running \in Frames /\ Running.todo = {} /\ parents' = parents
  BY RunningFrame DEF SearchInv, SearchType, Return
<1>2. DOMAIN stack = 1..Len(stack) /\ Len(stack) \in 1..Len(stack)
  BY <1>1, LenProperties
<1>3. FrameExact(Running) /\ u \in DOMAIN parents
  BY <1>1, <1>2 DEF ExactInv, StackExact, FrameExact
<1>4. /\ parents[u] \subseteq Running.set /\ Running.set \subseteq Reach(u)
      /\ Clean(u) => Running.set = Reach(u)
  BY <1>1, <1>3, ReturnedExact
<1>5. /\ DOMAIN memo' = DOMAIN memo \cup {u}
      /\ \A v \in DOMAIN memo' : memo'[v] = IF v = u THEN Running.set ELSE memo[v]
  BY DEF Return, With, Over
<1>6. (DOMAIN memo \subseteq DOMAIN parents)'
  BY <1>1, <1>3, <1>5 DEF ExactInv
<1>7. ClosureExact'
  <2>1. ASSUME NEW v \in DOMAIN memo'
        PROVE  /\ parents[v] \subseteq memo'[v] /\ memo'[v] \subseteq Reach(v)
               /\ Clean(v) => memo'[v] = Reach(v)
    <3>1. CASE v = u
      BY <1>4, <1>5, <3>1
    <3>2. CASE v # u
      <4>1. v \in DOMAIN memo /\ memo'[v] = memo[v]
        BY <1>5, <3>2
      <4>2. QED
        BY <4>1, MemoExact DEF ExactInv
    <3>3. QED
      BY <3>1, <3>2
  <2>2. QED
    BY <1>1, <2>1, SameGraph
<1>8. CASE Len(stack) = 1
  <2>1. stack' = <<>>
    BY <1>8 DEF Return
  <2>2. StackExact' /\ CallsNested' /\ CallsPending'
    BY <2>1 DEF StackExact, CallsNested, CallsPending
  <2>3. QED
    BY <1>6, <1>7, <2>2 DEF ExactInv
<1>9. CASE Len(stack) # 1
  <2> DEFINE n == Len(stack) - 1
             caller == stack[n]
             merged == [caller EXCEPT !.todo = @ \ {Running.uid},
                                      !.set = @ \cup {Running.uid} \cup Running.set]
  <2>1. n \in 1..Len(stack) /\ Len(stack) > 1 /\ n \in Nat /\ n + 1 = Len(stack)
    <3>1. \A k \in Nat \ {0} : k # 1 => k - 1 \in 1..k /\ k > 1 /\ k - 1 \in Nat /\ k - 1 + 1 = k
      OBVIOUS
    <3>2. QED
      BY <1>1, <1>9, <3>1
  <2>2. caller \in Frames
    BY <1>1, <2>1, ElementOfSeq
  <2>3. /\ merged \in Frames /\ merged.uid = caller.uid /\ merged.todo = caller.todo \ {u}
        /\ merged.set = caller.set \cup {u} \cup Running.set
    BY <1>1, <2>2 DEF Frames
  <2>4. stack' = Append(Front(Front(stack)), merged)
    BY <1>9 DEF Return
  <2>5. FrameExact(caller) /\ u \in caller.todo
    BY <1>1, <1>2, <2>1 DEF ExactInv, StackExact, CallsPending
  \* The caller takes what the callee found, as if it had been memoised.
  <2>6. caller.uid \in DOMAIN parents /\ u \in Reach(caller.uid)
    BY <1>1, <2>5, ReachFacts DEF FrameExact
  <2>7. Clean(caller.uid) => Running.set = Reach(u)
    BY <1>1, <1>4, <2>6, CleanBelow
  <2> HIDE DEF merged, caller, u
  <2>8. FrameExact(merged)
    BY <1>1, <1>4, <2>2, <2>3, <2>5, <2>7, TakenExact
  <2>9. /\ stack' \in Seq(Frames) /\ Len(stack') = n /\ stack'[n] = merged
        /\ \A i \in 1..(n - 1) : stack'[i] = stack[i]
    <3>1. \A i : i \in 1..(n - 1) => i \in 1..(Len(stack) - 2)
      BY <1>1
    <3>2. stack \in Seq(Frames) /\ Len(stack) > 1 /\ merged \in Frames
      BY <1>1, <2>1, <2>3
    <3>3. QED
      BY <2>4, <3>1, <3>2, PopTop
  <2>10. stack'[n].uid = stack[n].uid
    BY <2>3, <2>9 DEF caller
  <2>11. StackExact' /\ CallsNested' /\ CallsPending'
    BY <1>1, <2>1, <2>8, <2>9, <2>10, LastFrameChange
  <2>12. QED
    BY <1>6, <1>7, <2>11 DEF ExactInv
<1>10. QED
  BY <1>8, <1>9

\* Outside a search there is nothing to be exact about.
PhasesApart == pc # "search" => parents = Nothing /\ memo = Nothing

ExactlySearched == SearchInv /\ PhasesApart /\ ExactInv

LEMMA NoMemo ==
  ASSUME stack = <<>>, memo = Nothing
  PROVE  ExactInv
BY DEF ExactInv, StackExact, CallsNested, CallsPending, ClosureExact, Nothing

LEMMA StepExact == ExactlySearched /\ [Next]_vars => ExactlySearched'
<1> SUFFICES ASSUME ExactlySearched, [Next]_vars PROVE ExactlySearched'
  OBVIOUS
<1>1. SearchInv'
  BY StepSearch DEF ExactlySearched
<1>2. ASSUME UNCHANGED search, pc' = pc \/ (pc # "search" /\ pc' # "search")
      PROVE  PhasesApart' /\ ExactInv'
  BY <1>2 DEF ExactlySearched, PhasesApart, search, ExactInv, StackExact, FrameExact,
     CallsNested, CallsPending, ClosureExact, Clean, Reach
<1>3. CASE Node \/ Sync \/ CorruptReply \/ UNCHANGED vars
  <2>1. UNCHANGED search /\ (pc' = pc \/ (pc # "search" /\ pc' # "search"))
    BY <1>3 DEF Node, Arrive, Confirm, Evict, Reorg, NodeMoves, Sync, List, Apply, Bulk,
       BulkWrite, Fetch, CorruptReply, FetchCorrupt, vars
  <2>2. QED
    BY <1>1, <1>2, <2>1 DEF ExactlySearched
<1>4. CASE Snapshot
  <2>1. pc' = "search" /\ stack' = <<>> /\ memo' = Nothing
    BY <1>4 DEF Snapshot, ExactlySearched, SearchInv, StackIdle, PhasesApart
  <2>2. ExactInv'
    BY <2>1 DEF ExactInv, StackExact, CallsNested, CallsPending, ClosureExact, Nothing
  <2>3. QED
    BY <1>1, <2>1, <2>2 DEF ExactlySearched, PhasesApart
<1>5. CASE Estimated
  <2>1. pc' = "idle" /\ stack' = <<>> /\ parents' = Nothing /\ memo' = Nothing
    BY <1>5 DEF Estimated, Searched
  <2>2. ExactInv'
    BY <2>1 DEF ExactInv, StackExact, CallsNested, CallsPending, ClosureExact, Nothing
  <2>3. QED
    BY <1>1, <2>1, <2>2 DEF ExactlySearched, PhasesApart
<1>6. ASSUME NEW u \in Txid, CallRoot(u) \/ CallParent(u)
      PROVE  ExactlySearched'
  <2>1. ExactInv'
    BY <1>6, CallRootExact, CallParentExact DEF ExactlySearched
  <2>2. pc' = "search"
    BY <1>6 DEF CallRoot, CallParent, ExactlySearched
  <2>3. QED
    BY <1>1, <2>1, <2>2 DEF ExactlySearched, PhasesApart
<1>7. CASE Return
  <2>1. ExactInv' /\ pc' = "search"
    BY <1>7, ReturnExact DEF ExactlySearched, Return
  <2>2. QED
    BY <1>1, <2>1 DEF ExactlySearched, PhasesApart
<1>8. QED
  BY <1>3, <1>4, <1>5, <1>6, <1>7 DEF Next, Search

LEMMA InitExact == Init => ExactlySearched
<1> SUFFICES ASSUME Init PROVE ExactlySearched
  OBVIOUS
<1>1. stack = <<>> /\ memo = Nothing /\ parents = Nothing
  BY DEF Init
<1>2. QED
  BY <1>1, InitSearch, NoMemo DEF ExactlySearched, PhasesApart

\* The memoised search computes the ancestor closure: every memo is the set of
\* what its transaction reaches in the cached graph, in whatever order the
\* searches and their calls come, unless a cycle is within reach; then it still
\* holds every parent and nothing else than ancestors.
THEOREM SearchComputesClosure == Spec => []ClosureExact
<1>1. ExactlySearched => ClosureExact
  BY DEF ExactlySearched, ExactInv
<1>2. QED
  BY <1>1, InitExact, StepExact, PTL DEF Spec

-----------------------------------------------------------------------------
\* The search ends.

\* Frames of different transactions, all of one finite set, are no more than it
\* has members.
LEMMA DistinctFrames ==
  ASSUME NEW F, NEW s \in Seq(F), NEW D, IsFiniteSet(D),
         \A i \in DOMAIN s : s[i].uid \in D,
         \A i, j \in DOMAIN s : s[i].uid = s[j].uid => i = j
  PROVE  Len(s) <= Cardinality(D)
<1> DEFINE f == [i \in 1..Len(s) |-> s[i].uid]
<1>1. Len(s) \in Nat /\ DOMAIN s = 1..Len(s)
  BY LenProperties
<1>2. f \in Injection(1..Len(s), D)
  BY <1>1 DEF Injection, IsInjective
<1>3. Cardinality(1..Len(s)) = Len(s)
  BY <1>1, FirstNumbers
<1> HIDE DEF f
<1>4. Cardinality(1..Len(s)) <= Cardinality(D)
  BY <1>2, FS_Injection
<1>5. QED
  BY <1>3, <1>4

\* No step lets the recursion go deeper than the snapshot is large.
LEMMA DepthBounded ==
  ASSUME ExactlySearched', parents' = parents
  PROVE  Len(stack') <= Cardinality(DOMAIN parents)
<1>1. DOMAIN parents \subseteq Txid /\ stack' \in Seq(Frames')
  BY DEF ExactlySearched, SearchInv, SearchType, Graphs
<1>2. IsFiniteSet(DOMAIN parents)
  <2>1. DOMAIN parents \in SUBSET (0..(N - 1)) /\ 0 \in Int /\ N - 1 \in Int
    BY <1>1, PackagesAssumption DEF Txid
  <2>2. QED
    BY <2>1, IntervalFinite
<1>3. \A i \in DOMAIN stack' : stack'[i].uid \in DOMAIN parents
  BY DEF ExactlySearched, ExactInv, StackExact, FrameExact
<1>4. \A i, j \in DOMAIN stack' : stack'[i].uid = stack'[j].uid => i = j
  BY DEF ExactlySearched, SearchInv, FlagsTrue, OneFrameEach
<1>5. QED
  BY <1>1, <1>2, <1>3, <1>4, DistinctFrames

\* What a step of the search may do: memoise, go deeper, or take a parent.
Memoises == DOMAIN memo \subseteq DOMAIN memo' /\ DOMAIN memo' # DOMAIN memo
Deepens == memo' = memo /\ Len(stack') > Len(stack)
Takes == /\ memo' = memo /\ stack # <<>> /\ Len(stack') = Len(stack)
         /\ Last(stack').todo \subseteq Running.todo /\ Last(stack').todo # Running.todo

LEMMA RootDeepens ==
  ASSUME NEW u, CallRoot(u)
  PROVE  Deepens
BY DEF CallRoot, Deepens

LEMMA ParentProgress ==
  ASSUME SearchInv, ExactInv, NEW p \in Txid, CallParent(p)
  PROVE  Deepens \/ Takes
<1>1. /\ SearchType /\ stack # <<>> /\ stack \in Seq(Frames) /\ p \in Running.todo
      /\ memo' = memo
  BY DEF SearchInv, SearchType, CallParent
<1>2. Running \in Frames /\ Len(stack) \in Nat \ {0}
  BY <1>1, RunningFrame
<1>3. ASSUME NEW S \in SUBSET Txid, stack' = Append(Front(stack), Took(p, S))
      PROVE  Takes
  <2>1. Took(p, S) \in Frames /\ Took(p, S).todo = Running.todo \ {p}
    BY <1>1, <1>2, TookKeeps DEF Took, Frames
  <2>2. /\ stack' \in Seq(Frames) /\ Len(stack') = Len(stack)
        /\ stack'[Len(stack)] = Took(p, S)
    BY <1>1, <1>3, <2>1, ReplaceTop
  <2>3. Last(stack').todo = Running.todo \ {p}
    BY <2>1, <2>2 DEF Last
  <2>4. QED
    BY <1>1, <2>2, <2>3 DEF Takes
<1>4. ASSUME stack' = Append(stack, Frame(p))
      PROVE  Deepens
  <2>1. p \in DOMAIN parents
    BY <1>1, <1>2 DEF Frames
  <2>2. Len(stack') = Len(stack) + 1
    BY <1>1, <1>4, <2>1, NewFrame, AppendProperties
  <2>3. QED
    BY <1>1, <1>2, <2>2 DEF Deepens
<1>5. CASE p \in DOMAIN memo
  <2>1. memo[p] \in SUBSET Txid
    BY <1>1, <1>5 DEF SearchType, Maps
  <2>2. QED
    BY <1>3, <1>5, <2>1 DEF CallParent
<1>6. CASE p \notin DOMAIN memo /\ p \in visiting
  <2>1. {} \in SUBSET Txid
    OBVIOUS
  <2>2. QED
    BY <1>3, <1>6, <2>1 DEF CallParent
<1>7. CASE p \notin DOMAIN memo /\ p \notin visiting
  BY <1>4, <1>7 DEF CallParent
<1>8. QED
  BY <1>5, <1>6, <1>7

\* What returns has its flag set, and so had no memo.
LEMMA ReturnMemoises ==
  ASSUME SearchInv, Return
  PROVE  Memoises
<1>1. SearchType /\ stack # <<>> /\ stack \in Seq(Frames)
  BY DEF SearchInv, SearchType, Return
<1>2. Running = stack[Len(stack)] /\ Len(stack) \in DOMAIN stack
  BY <1>1, RunningFrame, LenProperties
<1>3. Running.uid \notin DOMAIN memo
  BY <1>2 DEF SearchInv, FlagsTrue, Flagged
<1>4. DOMAIN memo' = DOMAIN memo \cup {Running.uid}
  BY DEF Return, With, Over
<1>5. QED
  BY <1>3, <1>4 DEF Memoises

LEMMA SearchStepEnds ==
  ASSUME ExactlySearched, [Next]_vars, pc = "search", pc' = "search",
         ~ UNCHANGED <<stack, memo>>
  PROVE  parents' = parents /\ (Memoises \/ Deepens \/ Takes)
<1>1. SearchInv /\ ExactInv
  BY DEF ExactlySearched
<1>2. ~(Node \/ Sync \/ CorruptReply \/ UNCHANGED vars)
  BY DEF Node, Arrive, Confirm, Evict, Reorg, NodeMoves, Sync, List, Apply, Bulk,
     BulkWrite, Fetch, CorruptReply, FetchCorrupt, vars, search
<1>3. ~Snapshot /\ ~Estimated
  BY DEF Snapshot, Estimated
<1>4. Return \/ \E u \in Txid : CallRoot(u) \/ CallParent(u)
  BY <1>2, <1>3 DEF Next, Search
<1>5. parents' = parents
  BY <1>4 DEF Return, CallRoot, CallParent
<1>6. QED
  BY <1>1, <1>4, <1>5, RootDeepens, ParentProgress, ReturnMemoises

\* The search ends on every graph the cache can hold, with cycles or without: a
\* measure that the snapshot bounds moves with every step.  It rests on the
\* `visiting` flags: no transaction gets a second frame, and what returns had no
\* memo.
THEOREM SearchTerminates == Spec => SearchEnds
<1> DEFINE Step == pc = "search" /\ pc' = "search" =>
                     /\ Len(stack') <= Cardinality(DOMAIN parents)
                     /\ Memoises \/ Deepens \/ Takes
<1>1. ExactlySearched /\ ExactlySearched' /\ [Next]_vars => [Step]_<<stack, memo>>
  BY SearchStepEnds, DepthBounded
<1>2. [Step]_<<stack, memo>> =>
        [pc = "search" /\ pc' = "search" =>
          /\ Len(stack') <= Cardinality(DOMAIN parents)
          /\ \/ DOMAIN memo \subseteq DOMAIN memo' /\ DOMAIN memo' # DOMAIN memo
             \/ memo' = memo /\ Len(stack') > Len(stack)
             \/ /\ memo' = memo /\ stack # <<>> /\ Len(stack') = Len(stack)
                /\ Last(stack').todo \subseteq Running.todo /\ Last(stack').todo # Running.todo
        ]_<<stack, memo>>
  BY DEF Memoises, Deepens, Takes
<1> HIDE DEF Step
<1>3. QED
  BY <1>1, <1>2, InitExact, StepExact, PTL DEF Spec, SearchEnds

-----------------------------------------------------------------------------
\* The node and the tick.

\* The node's own order: no spend is cyclic, a known transaction's parents are
\* known, a confirmed one's are confirmed.
NodeType ==
    /\ spends \in EdgeSets /\ Acyclic(spends)
    /\ mempool \cap chain = {} /\ Known \subseteq Txid
    /\ \A t \in Known : spends[t] \subseteq Known
    /\ \A t \in chain : spends[t] \subseteq chain
    /\ reorgs \in 0..MaxReorgs /\ corrupt \in 0..MaxCorrupt

\* What a tick has in hand belongs to its phase.
TickType ==
    /\ pc \in {"idle", "fetch", "bulk", "snapshot", "search"}
    /\ pending \subseteq Txid \ DOMAIN fetched
    /\ pc = "fetch" => (pending \cup DOMAIN fetched) \cap DOMAIN cache = {}
    /\ pc # "fetch" => pending = {}
    /\ pc \notin {"fetch", "bulk"} => fetched = Nothing

LEMMA EvictClosed ==
  ASSUME NodeType, NEW t \in Txid, Evict(t), NEW u \in mempool'
  PROVE  spends[u] \subseteq mempool' \cup chain
<1>1. u \in mempool /\ u \in Txid /\ t \notin Closure(spends)[u] /\ spends \in [Txid -> SUBSET Txid]
  BY DEF Evict, NodeType, EdgeSets, Known
<1>2. spends[u] \subseteq Closure(spends)[u]
  BY <1>1, ClosureFacts
<1>3. ASSUME NEW p \in spends[u], p \in mempool PROVE p \in mempool'
  <2>1. Closure(spends)[p] \subseteq Closure(spends)[u]
    BY <1>1, <1>2, <1>3, ClosureNested
  <2>2. QED
    BY <1>1, <1>2, <1>3, <2>1 DEF Evict
<1>4. QED
  BY <1>1, <1>3 DEF NodeType, Known

LEMMA StepNode == NodeType /\ [Next]_vars => NodeType'
<1> SUFFICES ASSUME NodeType, [Next]_vars PROVE NodeType'
  OBVIOUS
<1> USE DEF NodeType, Known, EdgeSets
<1>1. CASE Sync \/ Search \/ UNCHANGED vars
  <2>1. UNCHANGED <<node, corrupt>>
    BY <1>1 DEF Sync, List, Apply, Bulk, BulkWrite, Fetch, Search, Snapshot, Return, Estimated,
       CallRoot, CallParent, vars
  <2>2. QED
    BY <2>1 DEF node, Acyclic
<1>2. CASE CorruptReply
  <2>1. UNCHANGED node /\ corrupt' = corrupt + 1 /\ corrupt < MaxCorrupt
    BY <1>2 DEF CorruptReply, FetchCorrupt
  <2>2. corrupt' \in 0..MaxCorrupt
    BY <2>1, PackagesAssumption
  <2>3. QED
    BY <2>1, <2>2 DEF node, Acyclic
<1>3. ASSUME NEW t \in Txid, Arrive(t) PROVE NodeType'
  BY <1>3 DEF Arrive, NodeMoves, Acyclic
<1>4. ASSUME NEW t \in Txid, Confirm(t) PROVE NodeType'
  BY <1>4 DEF Confirm, NodeMoves, Acyclic
<1>5. ASSUME NEW t \in Txid, Evict(t) PROVE NodeType'
  <2>1. UNCHANGED <<spends, chain, reorgs, corrupt>> /\ mempool' \subseteq mempool
    BY <1>5 DEF Evict, NodeMoves
  <2>2. \A u \in mempool' : spends[u] \subseteq mempool' \cup chain
    BY <1>5, EvictClosed
  <2>3. QED
    BY <2>1, <2>2 DEF Acyclic
<1>6. ASSUME NEW S \in SUBSET chain, Reorg(S) PROVE NodeType'
  <2>1. UNCHANGED <<spends, corrupt>> /\ chain' = chain \ S /\ mempool' = mempool \cup S
    BY <1>6 DEF Reorg, NodeMoves
  <2>2. \A u \in chain \ S : spends[u] \subseteq chain \ S
    BY <1>6 DEF Reorg
  <2>3. reorgs' \in 0..MaxReorgs
    BY <1>6, PackagesAssumption DEF Reorg
  <2>4. QED
    BY <2>1, <2>2, <2>3 DEF Acyclic
<1>7. QED
  BY <1>1, <1>2, <1>3, <1>4, <1>5, <1>6 DEF Next, Node

LEMMA StepTick == SearchInv /\ TickType /\ [Next]_vars => TickType'
<1> SUFFICES ASSUME SearchInv, TickType, [Next]_vars PROVE TickType'
  OBVIOUS
<1> USE DEF TickType
<1>1. CASE Node \/ UNCHANGED vars
  <2>1. UNCHANGED <<pc, sync>>
    BY <1>1 DEF Node, Arrive, Confirm, Evict, Reorg, NodeMoves, vars
  <2>2. QED
    BY <2>1 DEF sync
<1>2. CASE Search
  <2>1. UNCHANGED sync /\ pc \in {"snapshot", "search"} /\ pc' \in {"search", "idle"}
    BY <1>2 DEF Search, Snapshot, Return, Estimated, Searched, CallRoot, CallParent
  <2>2. QED
    BY <2>1 DEF sync
<1>3. CASE List
  <2>1. DOMAIN cache' = DOMAIN cache \cap mempool
    BY <1>3 DEF List, Restrict
  <2>2. pending' \cap DOMAIN cache = {} /\ pending' \subseteq Txid
    BY <1>3 DEF List, New, SearchInv, CacheType
  <2>3. fetched' = Nothing /\ pc' = "fetch"
    BY <1>3 DEF List
  <2>4. QED
    BY <2>1, <2>2, <2>3 DEF Nothing
<1>4. ASSUME NEW t \in Txid, Fetch(t) PROVE TickType'
  <2>1. /\ pc = "fetch" /\ UNCHANGED <<pc, cache>>
        /\ t \in pending /\ pending' = pending \ {t}
        /\ DOMAIN fetched' \subseteq DOMAIN fetched \cup {t}
    BY <1>4 DEF Fetch, With, Over
  <2>2. QED
    BY <2>1
<1>5. ASSUME NEW t \in Txid, NEW answer \in SUBSET Txid, FetchCorrupt(t, answer) PROVE TickType'
  <2>1. /\ pc = "fetch" /\ UNCHANGED <<pc, cache>>
        /\ t \in pending /\ pending' = pending \ {t}
        /\ DOMAIN fetched' \subseteq DOMAIN fetched \cup {t}
    BY <1>5 DEF FetchCorrupt, With, Over
  <2>2. QED
    BY <2>1
<1>6. CASE Apply
  BY <1>6 DEF Apply
<1>7. CASE Bulk
  BY <1>7 DEF Bulk
<1>8. CASE BulkWrite
  BY <1>8 DEF BulkWrite
<1>9. QED
  BY <1>1, <1>2, <1>3, <1>4, <1>5, <1>6, <1>7, <1>8 DEF Next, Sync, CorruptReply

PackagesInv == ExactlySearched /\ NodeType /\ TickType

LEMMA InitPackages == Init => PackagesInv
<1> SUFFICES ASSUME Init PROVE PackagesInv
  OBVIOUS
<1>1. NodeType
  BY PackagesAssumption DEF Init, NodeType, EdgeSets, Known
<1>2. TickType
  BY DEF Init, TickType
<1>3. QED
  BY <1>1, <1>2, InitExact DEF PackagesInv

LEMMA StepPackages == PackagesInv /\ [Next]_vars => PackagesInv'
BY StepExact, StepNode, StepTick DEF PackagesInv, ExactlySearched

LEMMA PackagesTyped == PackagesInv => TypeOK
<1> SUFFICES ASSUME PackagesInv PROVE TypeOK
  OBVIOUS
<1>1. \A map \in Maps : DOMAIN map \subseteq Txid /\ \A t \in DOMAIN map : map[t] \subseteq Txid
  BY DEF Maps
<1>2. parents \in Maps
  BY DEF PackagesInv, ExactlySearched, SearchInv, SearchType, Maps, Graphs
<1>3. cache \in Maps /\ fetched \in Maps /\ memo \in Maps
  BY DEF PackagesInv, ExactlySearched, SearchInv, SearchType, CacheType
<1>4. \A map \in {cache, fetched, parents, memo} :
          DOMAIN map \subseteq Txid /\ \A t \in DOMAIN map : map[t] \subseteq Txid
  BY <1>1, <1>2, <1>3
<1>5. DOMAIN memo \cup visiting \subseteq DOMAIN parents
  <2>1. DOMAIN memo \subseteq DOMAIN parents
    BY DEF PackagesInv, ExactlySearched, ExactInv
  <2>2. visiting = {stack[i].uid : i \in DOMAIN stack}
    BY DEF PackagesInv, ExactlySearched, SearchInv, FlagsTrue, Flagged
  <2>3. \A i \in DOMAIN stack : stack[i].uid \in DOMAIN parents
    BY DEF PackagesInv, ExactlySearched, ExactInv, StackExact, FrameExact
  <2>4. QED
    BY <2>1, <2>2, <2>3
<1>6. pc # "search" => parents = Nothing /\ stack = <<>> /\ memo = Nothing
  BY DEF PackagesInv, ExactlySearched, SearchInv, StackIdle, PhasesApart
<1>7. QED
  BY <1>4, <1>5, <1>6 DEF TypeOK, PackagesInv, NodeType, TickType

\* The maps of the sync loop and of the search only hold known txids, and the
\* node stays one: no transaction is unconfirmed and confirmed at once, and none
\* is known without its parents.
THEOREM PackagesTypeCorrect == Spec => []TypeOK
BY InitPackages, StepPackages, PackagesTyped, PTL DEF Spec

-----------------------------------------------------------------------------
\* Whose packages they are.

\* `depends` as an entry had it: a parent that is missing was confirmed when the
\* entry was fetched, and is so still unless a reorganisation returned it.
Dated(map) ==
    \A t \in DOMAIN map : /\ map[t] \subseteq spends[t]
                          /\ spends[t] \subseteq map[t] \cup chain \cup returned

\* The search works on what is cached.
GraphOfCache ==
    pc = "search" =>
        /\ DOMAIN parents = DOMAIN cache
        /\ \A t \in DOMAIN parents : parents[t] = cache[t] \cap DOMAIN cache

DatedInv == (corrupt = 0 => Dated(cache) /\ Dated(fetched)) /\ GraphOfCache

LEMMA DependsDated ==
  ASSUME NodeType, NEW t \in mempool
  PROVE  Depends(t) \subseteq spends[t] /\ spends[t] \subseteq Depends(t) \cup chain
BY DEF NodeType, Known, Depends

LEMMA StepDated == PackagesInv /\ DatedInv /\ [Next]_vars => DatedInv'
<1> SUFFICES ASSUME PackagesInv, DatedInv, [Next]_vars PROVE DatedInv'
  OBVIOUS
<1>1. NodeType /\ TickType
  BY DEF PackagesInv
<1>2. CASE Node \/ UNCHANGED vars
  <2>1. /\ UNCHANGED <<spends, corrupt, cache, fetched, pc, parents>>
        /\ chain \cup returned \subseteq chain' \cup returned'
    BY <1>2 DEF Node, Arrive, Confirm, Evict, Reorg, NodeMoves, vars, node, sync, search
  <2>2. QED
    BY <2>1 DEF DatedInv, Dated, GraphOfCache
<1>3. CASE Search
  <2>1. UNCHANGED <<spends, chain, returned, corrupt, cache, fetched>>
    BY <1>3 DEF Search, Snapshot, Return, Estimated, CallRoot, CallParent, node, sync
  <2>2. GraphOfCache'
    <3>1. CASE Snapshot
      BY <2>1, <3>1 DEF Snapshot, Resolved, GraphOfCache
    <3>2. CASE Estimated
      BY <3>2 DEF Estimated, GraphOfCache
    <3>3. CASE Return \/ \E u \in Txid : CallRoot(u) \/ CallParent(u)
      <4>1. UNCHANGED <<pc, parents>>
        BY <3>3 DEF Return, CallRoot, CallParent
      <4>2. QED
        BY <2>1, <4>1 DEF DatedInv, GraphOfCache
    <3>4. QED
      BY <1>3, <3>1, <3>2, <3>3 DEF Search
  <2>3. QED
    BY <2>1, <2>2 DEF DatedInv, Dated
<1>4. CASE CorruptReply
  <2>1. corrupt' # 0 /\ pc' # "search"
    BY <1>1, <1>4 DEF CorruptReply, FetchCorrupt, NodeType
  <2>2. QED
    BY <2>1 DEF DatedInv, GraphOfCache
<1>5. CASE Sync
  <2>1. UNCHANGED <<spends, chain, returned, corrupt>> /\ pc' # "search"
    BY <1>5 DEF Sync, List, Apply, Bulk, BulkWrite, Fetch, node
  <2>2. GraphOfCache'
    BY <2>1 DEF GraphOfCache
  <2>3. SUFFICES ASSUME corrupt = 0 PROVE Dated(cache)' /\ Dated(fetched)'
    BY <2>1, <2>2 DEF DatedInv
  <2>4. Dated(cache) /\ Dated(fetched)
    BY <2>3 DEF DatedInv
  <2>5. CASE List
    BY <2>1, <2>4, <2>5 DEF List, Restrict, Dated
  <2>6. ASSUME NEW t \in Txid, Fetch(t) PROVE Dated(cache)' /\ Dated(fetched)'
    <3>1. cache' = cache
      BY <2>6 DEF Fetch
    <3>2. CASE t \in mempool
      <4>1. fetched' = With(fetched, t, Depends(t))
        BY <2>6, <3>2 DEF Fetch
      <4>2. QED
        BY <1>1, <2>1, <2>4, <3>1, <3>2, <4>1, DependsDated DEF With, Over, Dated
    <3>3. CASE t \notin mempool
      BY <2>1, <2>4, <2>6, <3>1, <3>3 DEF Fetch, Dated
    <3>4. QED
      BY <3>2, <3>3
  <2>7. CASE Apply
    <3>1. cache' = Over(fetched, cache) /\ fetched' = Nothing
      BY <2>7 DEF Apply
    <3>2. QED
      BY <2>1, <2>4, <3>1 DEF Over, Nothing, Dated
  <2>8. CASE Bulk
    <3>1. fetched' = [t \in mempool |-> Depends(t)] /\ cache' = cache
      BY <2>8 DEF Bulk
    <3>2. QED
      BY <1>1, <2>1, <2>4, <3>1, DependsDated DEF Dated
  <2>9. CASE BulkWrite
    BY <2>1, <2>4, <2>9 DEF BulkWrite, Nothing, Dated
  <2>10. QED
    BY <1>5, <2>5, <2>6, <2>7, <2>8, <2>9 DEF Sync
<1>6. QED
  BY <1>2, <1>3, <1>4, <1>5 DEF Next

\* The node's graph.
Unconfirmed == [t \in mempool |-> Depends(t)]

LEMMA UnconfirmedGraph ==
  /\ Unconfirmed \in [mempool -> SUBSET mempool]
  /\ \A u \in mempool : Ancestors[u] = Closure(Unconfirmed)[u]
  /\ \A u \in mempool : Unconfirmed[u] = spends[u] \cap mempool
BY DEF Unconfirmed, Depends, Ancestors

LEMMA AncestorFacts ==
  ASSUME NEW u \in mempool
  PROVE  /\ spends[u] \cap mempool \subseteq Ancestors[u] /\ Ancestors[u] \subseteq mempool
         /\ \A a \in Ancestors[u] : spends[a] \cap mempool \subseteq Ancestors[u]
<1>1. /\ Closure(Unconfirmed)[u] \subseteq mempool
      /\ Unconfirmed[u] \subseteq Closure(Unconfirmed)[u]
      /\ \A p \in Closure(Unconfirmed)[u] : Unconfirmed[p] \subseteq Closure(Unconfirmed)[u]
  BY UnconfirmedGraph, ClosureFacts
<1>2. QED
  BY <1>1, UnconfirmedGraph

\* An edge of the cached graph is a spend, and spends make no cycle.
LEMMA CachedGraphAcyclic ==
  ASSUME PackagesInv, DatedInv, Searched, corrupt = 0, NEW u \in DOMAIN memo
  PROVE  Clean(u)
<1>1. /\ NodeType /\ parents \in Graphs /\ DOMAIN parents \subseteq Txid
      /\ DOMAIN memo = DOMAIN parents /\ u \in DOMAIN parents
  BY DEF PackagesInv, ExactlySearched, SearchInv, SearchType, Searched, Graphs
<1>2. parents \in [DOMAIN parents -> SUBSET DOMAIN parents]
  BY <1>1 DEF Graphs
<1>3. \A t \in DOMAIN parents : parents[t] \subseteq spends[t]
  BY DEF DatedInv, Dated, GraphOfCache, Searched
<1>4. spends \in [Txid -> SUBSET Txid] /\ Acyclic(spends)
  BY <1>1 DEF NodeType, EdgeSets
<1>5. ASSUME NEW a \in {u} \cup Reach(u) PROVE a \notin Reach(a)
  <2>1. a \in DOMAIN parents /\ a \in Txid
    BY <1>1, ReachFacts
  <2>2. Closure(parents)[a] \subseteq Closure(spends)[a]
    BY <1>1, <1>2, <1>3, <1>4, <2>1, ClosureMonotone
  <2>3. a \notin Closure(spends)[a]
    BY <1>4, <2>1 DEF Acyclic
  <2>4. QED
    BY <2>2, <2>3 DEF Reach
<1>6. QED
  BY <1>5 DEF Clean

LEMMA PackagesAreTrue == PackagesInv /\ DatedInv => PackagesTrue
<1> SUFFICES ASSUME PackagesInv, DatedInv, Searched, corrupt = 0,
                    NEW u \in DOMAIN memo \cap mempool
             PROVE  /\ memo[u] \cap mempool \subseteq Ancestors[u]
                    /\ Ancestors[u] \subseteq DOMAIN memo \ returned => Ancestors[u] \subseteq memo[u]
  BY DEF PackagesTrue
<1>1. /\ NodeType /\ parents \in Graphs /\ DOMAIN parents \subseteq Txid
      /\ DOMAIN memo = DOMAIN parents /\ u \in DOMAIN parents
  BY DEF PackagesInv, ExactlySearched, SearchInv, SearchType, Searched, Graphs
<1>2. parents \in [DOMAIN parents -> SUBSET DOMAIN parents]
  BY <1>1 DEF Graphs
\* An edge of the cached graph is a spend; a spend that is missing from it leads
\* to a confirmed, a returned or an unknown transaction.
<1>3. \A t \in DOMAIN parents :
          /\ parents[t] \subseteq spends[t]
          /\ spends[t] \cap DOMAIN parents \subseteq parents[t] \cup chain \cup returned
  BY DEF DatedInv, Dated, GraphOfCache, Searched
<1>4. spends \in [Txid -> SUBSET Txid] /\ mempool \cap chain = {} /\ Acyclic(spends)
  BY <1>1 DEF NodeType, EdgeSets
<1>5. /\ memo[u] \subseteq Reach(u)
      /\ Clean(u) => memo[u] = Reach(u)
  BY MemoExact DEF PackagesInv, ExactlySearched, ExactInv
\* What is found is confirmed, or an ancestor at the node.
<1>6. Reach(u) \subseteq chain \cup Ancestors[u]
  <2>1. \A q \in {u} \cup Ancestors[u] : spends[q] \subseteq chain \cup Ancestors[u]
    BY <1>1, AncestorFacts DEF NodeType, Known
  <2>2. \A q \in chain : spends[q] \subseteq chain
    BY <1>1 DEF NodeType
  <2>3. parents[u] \subseteq chain \cup Ancestors[u]
    BY <1>1, <1>3, <2>1
  <2>4. \A q \in (chain \cup Ancestors[u]) \cap DOMAIN parents :
            parents[q] \subseteq chain \cup Ancestors[u]
    BY <1>3, <2>1, <2>2
  <2>5. QED
    BY <1>1, <1>2, <2>3, <2>4, ClosureLeast DEF Reach
<1>7. Clean(u)
  BY CachedGraphAcyclic
<1>8. ASSUME Ancestors[u] \subseteq DOMAIN memo \ returned PROVE Ancestors[u] \subseteq Reach(u)
  <2> DEFINE S == Reach(u) \cap Ancestors[u]
  <2>1. ASSUME NEW q \in DOMAIN parents \cap mempool, parents[q] \subseteq Reach(u),
               spends[q] \cap mempool \subseteq Ancestors[u]
        PROVE  Unconfirmed[q] \subseteq S
    <3>1. Unconfirmed[q] \subseteq spends[q] \cap Ancestors[u]
      BY <2>1, UnconfirmedGraph
    <3>2. Unconfirmed[q] \cap chain = {}
      BY <1>4, UnconfirmedGraph
    <3>3. QED
      BY <1>1, <1>3, <1>8, <2>1, <3>1, <3>2
  <2>2. Unconfirmed[u] \subseteq S
    BY <1>1, <2>1, ReachFacts, AncestorFacts
  <2>3. ASSUME NEW q \in S \cap mempool PROVE Unconfirmed[q] \subseteq S
    <3>1. q \in DOMAIN parents /\ parents[q] \subseteq Reach(u)
      BY <1>1, ReachFacts
    <3>2. spends[q] \cap mempool \subseteq Ancestors[u]
      BY AncestorFacts
    <3>3. QED
      BY <2>1, <3>1, <3>2
  <2> HIDE DEF S
  <2>4. Closure(Unconfirmed)[u] \subseteq S
    BY <2>2, <2>3, UnconfirmedGraph, ClosureLeast
  <2>5. QED
    BY <2>4, UnconfirmedGraph DEF S
<1>9. QED
  BY <1>4, <1>5, <1>6, <1>7, <1>8

\* The packages of an estimate are the node's: no ancestor that the node does
\* not have, and every one that is cached and that no reorganisation returned
\* from a block, however the fetches of the `depends`, the node's own changes
\* and the search interleave.
THEOREM PackagesAreTheNodes == Spec => []PackagesTrue
<1>1. Init => DatedInv
  BY DEF Init, DatedInv, Dated, GraphOfCache, Nothing
<1>2. QED
  BY <1>1, InitPackages, StepPackages, StepDated, PackagesAreTrue, PTL DEF Spec

-----------------------------------------------------------------------------
\* The packages as the projection takes them.

LEMMA MemosReady == PackagesInv /\ DatedInv => ProjectionReady
<1> SUFFICES ASSUME PackagesInv, DatedInv, Searched, corrupt = 0, NEW u \in DOMAIN memo
             PROVE  /\ u \notin memo[u] /\ memo[u] \subseteq DOMAIN memo
                    /\ \A p \in memo[u] : memo[p] \subseteq memo[u]
  BY DEF ProjectionReady
<1>1. parents \in Graphs /\ DOMAIN memo = DOMAIN parents
  BY DEF PackagesInv, ExactlySearched, SearchInv, SearchType, Searched
<1>2. parents \in [DOMAIN parents -> SUBSET DOMAIN parents]
  BY <1>1 DEF Graphs
<1>3. \A v \in DOMAIN memo : Clean(v) /\ memo[v] = Reach(v)
  BY CachedGraphAcyclic, MemoExact DEF PackagesInv, ExactlySearched, ExactInv
<1>4. u \notin memo[u]
  BY <1>3 DEF Clean
<1>5. memo[u] \subseteq DOMAIN memo
  BY <1>1, <1>2, <1>3, ClosureFacts DEF Reach
<1>6. ASSUME NEW p \in memo[u] PROVE memo[p] \subseteq memo[u]
  <2>1. p \in Closure(parents)[u] /\ p \in DOMAIN memo
    BY <1>3, <1>5 DEF Reach
  <2>2. Closure(parents)[p] \subseteq Closure(parents)[u]
    BY <1>1, <1>2, <2>1, ClosureNested
  <2>3. QED
    BY <1>3, <2>1, <2>2 DEF Reach
<1>7. QED
  BY <1>4, <1>5, <1>6

\* The search hands to the projection what gbt.rs takes for granted, and what
\* AncestorMaps of the module Gbt says: although the cached `depends` stem from
\* many moments of the node, their ancestors nest and nothing is its own.
THEOREM PackagesFeedProjection == Spec => []ProjectionReady
<1>1. Init => DatedInv
  BY DEF Init, DatedInv, Dated, GraphOfCache, Nothing
<1>2. QED
  BY <1>1, InitPackages, StepPackages, StepDated, MemosReady, PTL DEF Spec

=============================================================================

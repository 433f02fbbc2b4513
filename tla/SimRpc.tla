------------------------------- MODULE SimRpc -------------------------------
(***************************************************************************)
(* The simulated node behind a simulated network: SimulatedRpc             *)
(* (sim/network.rs), which wraps a MockNode for tests, and the HTTP server *)
(* (sim/server.rs), which serves one and churns it on a timer.  Both gate  *)
(* calls with the same limiter, then wait for the latency, then read the   *)
(* node under its lock; in between, anything else may happen.              *)
(*                                                                         *)
(* The calls for the mempool info, the txids and the tip always succeed    *)
(* once admitted; one of them stands for all.  Time is counted in          *)
(* fractions of a second.                                                  *)
(***************************************************************************)
EXTENDS MockNode

CONSTANTS
    Clients,            \* calls that may be in flight
    InitialSize,
    Profiles,           \* the network profiles
    Second,             \* clock steps per second
    BlockSecs, ChurnSecs, ReloadEvery,
    DropNum, DropDen,   \* the fraction dropped by a reload
    MaxTicks            \* bound: changes of the node

Profile == [limited : BOOLEAN, req_per_sec : Nat, body_cap : Nat, may_drop : BOOLEAN]

ASSUME SimRpcAssumption ==
    /\ InitialSize \in Nat
    /\ Profiles \subseteq Profile
    /\ Second \in Nat \ {0}
    /\ BlockSecs \in Nat /\ ChurnSecs \in Nat \ {0} /\ ReloadEvery \in Nat
    /\ DropNum \in Nat /\ DropDen \in Nat \ {0}
    /\ MaxTicks \in Nat

VARIABLES
    profile,
    http,           \* served over HTTP, or wrapped for a test
    node,           \* behind its lock
    tick, blocks,   \* of the churn task
    window_age,     \* time since limiter.window_start, up to a second
    count,          \* limiter.count
    call,           \* per client, the admitted call that waits for the latency
    reply,          \* history: the reply that the latest step gave, if any
    admitted        \* history: the calls booked in the last age steps and now

limiter == <<window_age, count, admitted>>
churn == <<node, tick, blocks>>
vars == <<profile, http, churn, limiter, call, reply>>

Idle == [method |-> "none", txid |-> NoTx]
Requests == [method : {"verbose", "other"}, txid : {NoTx}] \cup [method : {"entry"}, txid : Txid]
Replies == {"none", "result", "not_found", "too_large", "503", "429"}

Init ==
    /\ profile \in Profiles
    /\ http \in BOOLEAN
    /\ node \in NewNodes(InitialSize)
    /\ tick = 0 /\ blocks = 0
    /\ window_age = 0 /\ count = 0
    /\ call = [c \in Clients |-> Idle]
    /\ reply = "none"
    /\ admitted = [age \in 0..(Second - 1) |-> 0]

-----------------------------------------------------------------------------
\* Mutant: the count is carried over into the next window.
CountNow_Kept == count

\* The count that a call finds: a window older than a second is begun anew.
CountNow == IF window_age >= Second THEN 0 ELSE count

\* Mutant: one call more than the limit.
CheckRateLimit_OneMore(ok) ==
    /\ ok = (CountNow <= profile.req_per_sec)
    /\ count' = IF ok THEN CountNow + 1 ELSE CountNow
    /\ window_age' = IF window_age >= Second THEN 0 ELSE window_age
    /\ admitted' = [age \in DOMAIN admitted |-> IF ok THEN admitted[age] + 1 ELSE admitted[age]]

\* check_rate_limit: books the call, or finds the budget of the window spent.
CheckRateLimit(ok) ==
    /\ ok = (CountNow < profile.req_per_sec)
    /\ count' = IF ok THEN CountNow + 1 ELSE CountNow
    /\ window_age' = IF window_age >= Second THEN 0 ELSE window_age
    /\ admitted' = [age \in DOMAIN admitted |-> IF ok THEN admitted[age] + 1 ELSE admitted[age]]

\* Mutant: a call that is dropped has been booked already.
Dropped_Booked ==
    /\ ~http /\ profile.may_drop
    /\ count' = CountNow + 1
    /\ UNCHANGED <<window_age, admitted>>

\* The random drop of SimulatedRpc comes before the limiter; the server has none.
Dropped ==
    /\ ~http /\ profile.may_drop
    /\ UNCHANGED limiter

CallDropped(c) ==
    /\ call[c] = Idle
    /\ Dropped
    /\ reply' = "503"
    /\ UNCHANGED <<profile, http, churn, call>>

CallRefused(c) ==
    /\ call[c] = Idle
    /\ profile.limited
    /\ CheckRateLimit(FALSE)
    /\ reply' = "429"
    /\ UNCHANGED <<profile, http, churn, call>>

CallAdmitted(c) ==
    /\ call[c] = Idle
    /\ IF profile.limited THEN CheckRateLimit(TRUE) ELSE UNCHANGED limiter
    /\ \E req \in Requests : call' = [call EXCEPT ![c] = req]
    /\ reply' = "none"
    /\ UNCHANGED <<profile, http, churn>>

\* dispatch, or the wrapped node: what the node is now.  Only SimulatedRpc
\* has a body cap, here in entries.
ReplyTo(req) ==
    CASE req.method = "entry" -> IF req.txid \in DOMAIN node.txs THEN "result" ELSE "not_found"
      [] req.method = "verbose" ->
            IF ~http /\ Cardinality(DOMAIN node.txs) > profile.body_cap THEN "too_large"
            ELSE "result"
      [] OTHER -> "result"

CallAnswered(c) ==
    /\ call[c] # Idle
    /\ reply' = ReplyTo(call[c])
    /\ call' = [call EXCEPT ![c] = Idle]
    /\ UNCHANGED <<profile, http, churn, limiter>>

-----------------------------------------------------------------------------
\* ticks_per_block.
TicksPerBlock ==
    IF BlockSecs = 0 THEN 0
    ELSE IF BlockSecs \div ChurnSecs < 1 THEN 1 ELSE BlockSecs \div ChurnSecs

Mines == TicksPerBlock # 0 /\ (tick + 1) % TicksPerBlock = 0

Reloads == ReloadEvery # 0 /\ (blocks + 1) % ReloadEvery = 0

\* One round of the churn task, all under one acquisition of the node's lock.
ChurnTick ==
    /\ http
    /\ tick < MaxTicks
    /\ tick' = tick + 1
    /\ \E n \in Advanced(node) :
          \/ ~Mines /\ node' = n
          \/ Mines /\ ~Reloads /\ node' = Mined(n)
          \/ Mines /\ Reloads /\ \E d \in MassDropped(Mined(n), DropNum, DropDen) :
                                    node' = Reloaded(d)
    /\ blocks' = IF Mines THEN blocks + 1 ELSE blocks
    /\ reply' = "none"
    /\ UNCHANGED <<profile, http, limiter, call>>

\* A test drives the wrapped node through inner_mut, in any order.
TestStep ==
    /\ ~http
    /\ tick < MaxTicks
    /\ tick' = tick + 1
    /\ \/ node' \in Advanced(node)
       \/ node' = Mined(node)
       \/ node' \in MassDropped(node, DropNum, DropDen)
       \/ node' = Reloaded(node)
    /\ reply' = "none"
    /\ UNCHANGED <<profile, http, blocks, limiter, call>>

Elapse ==
    /\ window_age' = IF window_age < Second THEN window_age + 1 ELSE window_age
    /\ admitted' = [age \in 0..(Second - 1) |-> IF age = 0 THEN 0 ELSE admitted[age - 1]]
    /\ reply' = "none"
    /\ UNCHANGED <<profile, http, churn, count, call>>

Next ==
    \/ \E c \in Clients : CallDropped(c) \/ CallRefused(c) \/ CallAdmitted(c) \/ CallAnswered(c)
    \/ ChurnTick
    \/ TestStep
    \/ Elapse

Spec == Init /\ [][Next]_vars

-----------------------------------------------------------------------------
\* Every variable keeps its type; the node stays a map of whole entries.
TypeOK ==
    /\ profile \in Profiles /\ http \in BOOLEAN
    /\ DOMAIN node.txs \subseteq Txid /\ \A t \in DOMAIN node.txs : node.txs[t] \in Entry
    /\ tick \in 0..MaxTicks /\ blocks \in 0..MaxTicks
    /\ window_age \in 0..Second
    /\ count \in 0..profile.req_per_sec
    /\ \A c \in Clients : call[c] \in Requests \cup {Idle}
    /\ reply \in Replies

\* No churn, drop or block orphans a transaction or breaks the index of
\* children, and no chain outgrows max_chain (remove_leaf, confirm_set).
NoOrphans == LinksWhole(node) /\ ChainsBounded(node)

\* The package totals that the node reports are those of its present mempool,
\* also after a block took the upper part of a chain (confirm_set's repair).
TotalsTruthful == TotalsTrue(node)

\* A block takes whole packages, never a child without its parent, and no more
\* than a block's weight (mine_block).
BlocksTakePackages ==
    LET block == Confirmed(node.txs)
    IN  /\ \A t \in block : AncestorsOf(node.txs, t) \subseteq block
        /\ WeightOf(node.txs, block) <= BlockWeight

RecentlyAdmitted == admitted[Second - 1]

\* A fixed window lets through at most twice the limit in any one second,
\* however the calls gather around its edges.
BurstBounded == RecentlyAdmitted <= 2 * profile.req_per_sec

\* Every refusal, the first or one of several in a row, finds that the account has
\* really used its budget: as many calls as the limit were let through in the last
\* second, dropped ones apart.
RefusedOnlyWhenSpent ==
    [][reply' = "429" => RecentlyAdmitted >= profile.req_per_sec]_vars
=============================================================================

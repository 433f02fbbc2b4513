---------------------------- MODULE SimRpcProofs ----------------------------
\* The simulated network, for every budget and length of the limiter's window,
\* and the simulated node behind it.
EXTENDS SimRpc, FiniteFacts, TLAPS

-----------------------------------------------------------------------------
\* The limiter.

Limit == profile.req_per_sec

\* A call booked since the window began is counted in it; the count falls short
\* of the recent calls by at most a window's worth, those of the one before.
LimiterInv ==
    /\ profile \in Profiles
    /\ window_age \in 0..Second
    /\ count \in 0..Limit
    /\ admitted \in [0..(Second - 1) -> Nat]
    /\ \A age \in 0..(Second - 1) :
           /\ age < window_age => admitted[age] <= count
           /\ age >= window_age => count <= admitted[age] /\ admitted[age] <= count + Limit

LEMMA LimitNat ==
  ASSUME profile \in Profiles
  PROVE  Limit \in Nat
BY SimRpcAssumption DEF Profile, Limit

LEMMA InitLimiter == Init => LimiterInv
<1> SUFFICES ASSUME Init PROVE LimiterInv
  OBVIOUS
<1>1. profile \in Profiles
  BY DEF Init
<1>2. Limit \in Nat /\ Second \in Nat \ {0}
  BY <1>1, LimitNat, SimRpcAssumption
<1>3. window_age = 0 /\ count = 0 /\ admitted = [age \in 0..(Second - 1) |-> 0]
  BY DEF Init
<1>4. QED
  BY <1>1, <1>2, <1>3 DEF LimiterInv

\* A call that is booked or refused.
LEMMA BookingKeeps ==
  ASSUME LimiterInv, NEW ok \in BOOLEAN, CheckRateLimit(ok), profile' = profile
  PROVE  LimiterInv'
<1>1. Limit \in Nat /\ Second \in Nat \ {0} /\ Limit' = Limit
  BY LimitNat, SimRpcAssumption DEF LimiterInv, Limit
<1>2. CountNow \in 0..Limit /\ CountNow <= count
  BY <1>1 DEF LimiterInv, CountNow
<1>3. CASE ok
  <2>1. CountNow < Limit /\ count' = CountNow + 1
    BY <1>3 DEF CheckRateLimit, Limit
  <2>2. admitted' = [age \in 0..(Second - 1) |-> admitted[age] + 1]
    BY <1>3 DEF CheckRateLimit, LimiterInv
  <2>3. count' \in 0..Limit /\ admitted' \in [0..(Second - 1) -> Nat]
    BY <1>1, <1>2, <2>1, <2>2 DEF LimiterInv
  <2>4. CASE window_age >= Second
    <3>1. window_age' = 0 /\ CountNow = 0
      BY <2>4 DEF CheckRateLimit, CountNow
    <3>2. \A age \in 0..(Second - 1) : admitted[age] <= count
      BY <1>1, <2>4 DEF LimiterInv
    <3>3. QED
      BY <1>1, <2>1, <2>2, <2>3, <3>1, <3>2 DEF LimiterInv
  <2>5. CASE ~(window_age >= Second)
    <3>1. window_age' = window_age /\ CountNow = count
      BY <2>5 DEF CheckRateLimit, CountNow
    <3>2. QED
      BY <1>1, <2>1, <2>2, <2>3, <3>1 DEF LimiterInv
  <2>6. QED
    BY <2>4, <2>5
<1>4. CASE ~ok
  <2>1. CountNow >= Limit /\ count' = CountNow /\ admitted' = admitted
    <3>1. ~(CountNow < Limit) /\ count' = CountNow
      BY <1>4 DEF CheckRateLimit, Limit
    <3>2. admitted' = [age \in DOMAIN admitted |-> admitted[age]]
      BY <1>4 DEF CheckRateLimit
    <3>3. QED
      BY <1>1, <1>2, <3>1, <3>2 DEF LimiterInv
  <2>2. CASE window_age >= Second
    <3>1. window_age' = 0 /\ CountNow = 0 /\ Limit = 0 /\ count = 0
      BY <1>1, <1>2, <2>1, <2>2 DEF CheckRateLimit, CountNow, LimiterInv
    <3>2. \A age \in 0..(Second - 1) : admitted[age] <= count
      BY <1>1, <2>2 DEF LimiterInv
    <3>3. QED
      BY <1>1, <2>1, <3>1, <3>2 DEF LimiterInv
  <2>3. CASE ~(window_age >= Second)
    <3>1. window_age' = window_age /\ CountNow = count
      BY <2>3 DEF CheckRateLimit, CountNow
    <3>2. QED
      BY <1>1, <2>1, <3>1 DEF LimiterInv
  <2>4. QED
    BY <2>2, <2>3
<1>5. QED
  BY <1>3, <1>4

\* A step of the clock.
LEMMA ElapseKeeps ==
  ASSUME LimiterInv, Elapse
  PROVE  LimiterInv'
<1>1. Limit \in Nat /\ Second \in Nat \ {0} /\ Limit' = Limit /\ UNCHANGED <<profile, count>>
  BY LimitNat, SimRpcAssumption DEF LimiterInv, Limit, Elapse
<1>2. window_age' = IF window_age < Second THEN window_age + 1 ELSE window_age
  BY DEF Elapse
<1>3. admitted' = [age \in 0..(Second - 1) |-> IF age = 0 THEN 0 ELSE admitted[age - 1]]
  BY DEF Elapse
<1>4. \A age \in 0..(Second - 1) : age # 0 => age - 1 \in 0..(Second - 1)
  BY <1>1
<1>5. admitted' \in [0..(Second - 1) -> Nat]
  BY <1>1, <1>3, <1>4 DEF LimiterInv
<1>6. ASSUME NEW age \in 0..(Second - 1)
      PROVE  /\ age < window_age' => admitted'[age] <= count
             /\ age >= window_age' => count <= admitted'[age] /\ admitted'[age] <= count + Limit
  <2>1. CASE age = 0
    BY <1>1, <1>2, <1>3, <2>1 DEF LimiterInv
  <2>2. CASE age # 0
    <3>1. admitted'[age] = admitted[age - 1] /\ age - 1 \in 0..(Second - 1)
      BY <1>3, <1>4, <2>2
    <3>2. QED
      BY <1>1, <1>2, <3>1 DEF LimiterInv
  <2>3. QED
    BY <2>1, <2>2
<1>7. QED
  BY <1>1, <1>2, <1>5, <1>6 DEF LimiterInv

LEMMA StepLimiter == LimiterInv /\ [Next]_vars => LimiterInv'
<1> SUFFICES ASSUME LimiterInv, [Next]_vars PROVE LimiterInv'
  OBVIOUS
<1>1. ASSUME UNCHANGED <<profile, limiter>> PROVE LimiterInv'
  BY <1>1 DEF LimiterInv, limiter, Limit
<1>2. ASSUME NEW c \in Clients, CallRefused(c) PROVE LimiterInv'
  BY <1>2, BookingKeeps DEF CallRefused
<1>3. ASSUME NEW c \in Clients, CallAdmitted(c) PROVE LimiterInv'
  BY <1>1, <1>3, BookingKeeps DEF CallAdmitted
<1>4. ASSUME NEW c \in Clients, CallDropped(c) \/ CallAnswered(c) PROVE LimiterInv'
  BY <1>1, <1>4 DEF CallDropped, Dropped, CallAnswered
<1>5. CASE ChurnTick \/ TestStep \/ UNCHANGED vars
  BY <1>1, <1>5 DEF ChurnTick, TestStep, vars
<1>6. CASE Elapse
  BY <1>6, ElapseKeeps
<1>7. QED
  BY <1>2, <1>3, <1>4, <1>5, <1>6 DEF Next

\* Whatever the budget and however the calls gather around the edges of its
\* windows, the limiter lets at most twice the budget through in one second.
THEOREM LimiterBounds == Spec => []BurstBounded
<1>1. LimiterInv => BurstBounded
  <2> SUFFICES ASSUME LimiterInv PROVE BurstBounded
    OBVIOUS
  <2>1. Limit \in Nat /\ Second - 1 \in 0..(Second - 1)
    BY LimitNat, SimRpcAssumption DEF LimiterInv
  <2>2. admitted[Second - 1] \in Nat /\ count \in Nat /\ admitted[Second - 1] <= count + Limit /\ count <= Limit
    BY <2>1 DEF LimiterInv
  <2>3. QED
    BY <2>1, <2>2 DEF BurstBounded, RecentlyAdmitted, Limit
<1>2. QED
  BY <1>1, InitLimiter, StepLimiter, PTL DEF Spec

\* Every refusal, of either simulated front end, tells the truth: as many calls
\* as the budget were let through in the last second.
THEOREM RefusalsAreTrue == Spec => RefusedOnlyWhenSpent
<1>1. ASSUME LimiterInv, Next, reply' = "429"
      PROVE  RecentlyAdmitted >= profile.req_per_sec
  <2>1. PICK c \in Clients : CallRefused(c)
    <3>1. \A c \in Clients : CallAnswered(c) => reply' \in {"result", "not_found", "too_large"}
      BY DEF CallAnswered, ReplyTo
    <3>2. QED
      BY <1>1, <3>1 DEF Next, CallDropped, CallAdmitted, ChurnTick, TestStep, Elapse
  <2>2. CheckRateLimit(FALSE)
    BY <2>1 DEF CallRefused
  <2>3. Limit \in Nat /\ Second \in Nat \ {0} /\ Second - 1 \in 0..(Second - 1)
    BY <1>1, LimitNat, SimRpcAssumption DEF LimiterInv
  <2>4. CountNow >= Limit
    BY <1>1, <2>2, <2>3 DEF CheckRateLimit, CountNow, Limit, LimiterInv
  <2>5. admitted[Second - 1] >= Limit
    BY <1>1, <2>3, <2>4 DEF CountNow, LimiterInv
  <2>6. QED
    BY <2>5 DEF RecentlyAdmitted, Limit
<1>2. LimiterInv /\ [Next]_vars
      => [reply' = "429" => RecentlyAdmitted >= profile.req_per_sec]_vars
  BY <1>1
<1>3. QED
  BY <1>2, InitLimiter, StepLimiter, PTL DEF Spec, RefusedOnlyWhenSpent

-----------------------------------------------------------------------------
\* Following links.

Follows(next, S) == \A x \in S : x \in DOMAIN next => next[x] \in S

LEMMA AlongFacts ==
  ASSUME NEW next, NEW t
  PROVE  /\ t \in Along(next, t)
         /\ Follows(next, Along(next, t))
         /\ \A S : t \in S /\ Follows(next, S) => Along(next, t) \subseteq S
         /\ Along(next, t) \subseteq {t} \cup {next[x] : x \in DOMAIN next}
<1> DEFINE all == {t} \cup {next[x] : x \in DOMAIN next}
           closed(S) == \A x \in S \cap DOMAIN next : next[x] \in S
<1>1. Along(next, t) = {y \in all : \A S \in SUBSET all : t \in S /\ closed(S) => y \in S}
  BY DEF Along
<1>2. t \in Along(next, t) /\ Along(next, t) \subseteq all
  BY <1>1
<1>3. ASSUME NEW x \in Along(next, t), x \in DOMAIN next PROVE next[x] \in Along(next, t)
  <2>1. next[x] \in all
    BY <1>3
  <2>2. ASSUME NEW S \in SUBSET all, t \in S, closed(S) PROVE next[x] \in S
    <3>1. x \in S
      BY <1>1, <2>2
    <3>2. QED
      BY <1>3, <2>2, <3>1
  <2> HIDE DEF closed, all
  <2>3. QED
    BY <1>1, <2>1, <2>2
<1>4. ASSUME NEW S, t \in S, Follows(next, S) PROVE Along(next, t) \subseteq S
  <2>1. t \in S \cap all /\ closed(S \cap all)
    BY <1>4 DEF Follows
  <2> HIDE DEF closed, all
  <2>2. Along(next, t) \subseteq S \cap all
    BY <1>1, <2>1
  <2>3. QED
    BY <2>2
<1>5. QED
  BY <1>2, <1>3, <1>4 DEF Follows

\* Everything along the way but its beginning is linked to from the way.
LEMMA AlongLinked ==
  ASSUME NEW next, NEW t, NEW x \in Along(next, t), x # t
  PROVE  \E y \in Along(next, t) : y \in DOMAIN next /\ next[y] = x
<1> SUFFICES ASSUME \A y \in Along(next, t) : y \in DOMAIN next => next[y] # x PROVE FALSE
  OBVIOUS
<1> DEFINE S == Along(next, t) \ {x}
<1>1. t \in S /\ Follows(next, S)
  BY AlongFacts DEF Follows
<1> HIDE DEF S
<1>2. Along(next, t) \subseteq S
  BY <1>1, AlongFacts
<1>3. QED
  BY <1>2 DEF S

LEMMA AlongFirst ==
  ASSUME NEW next, NEW t
  PROVE  /\ t \notin DOMAIN next => Along(next, t) = {t}
         /\ t \in DOMAIN next => Along(next, t) = {t} \cup Along(next, next[t])
<1>1. CASE t \notin DOMAIN next
  <2>1. t \in {t} /\ Follows(next, {t})
    BY <1>1 DEF Follows
  <2>2. QED
    BY <1>1, <2>1, AlongFacts
<1>2. CASE t \in DOMAIN next
  <2> DEFINE S == {t} \cup Along(next, next[t])
  <2>1. t \in S /\ Follows(next, S)
    BY <1>2, AlongFacts DEF Follows
  <2> HIDE DEF S
  <2>2. Along(next, t) \subseteq S
    BY <2>1, AlongFacts
  <2>3. t \in Along(next, t) /\ next[t] \in Along(next, t) /\ Follows(next, Along(next, t))
    BY <1>2, AlongFacts DEF Follows
  <2>4. Along(next, next[t]) \subseteq Along(next, t)
    BY <2>3, AlongFacts
  <2>5. QED
    BY <1>2, <2>2, <2>3, <2>4 DEF S
<1>3. QED
  BY <1>1, <1>2

\* Links that are not met make no difference, and fewer links lead less far.
LEMMA AlongSame ==
  ASSUME NEW next, NEW other, NEW t,
         \A y \in Along(next, t) : /\ y \in DOMAIN other <=> y \in DOMAIN next
                                   /\ y \in DOMAIN next => other[y] = next[y]
  PROVE  Along(other, t) = Along(next, t)
<1>1. Follows(other, Along(next, t)) /\ t \in Along(next, t)
  BY AlongFacts DEF Follows
<1>2. Along(other, t) \subseteq Along(next, t)
  BY <1>1, AlongFacts
<1>3. Follows(next, Along(other, t)) /\ t \in Along(other, t)
  BY <1>2, AlongFacts DEF Follows
<1>4. Along(next, t) \subseteq Along(other, t)
  BY <1>3, AlongFacts
<1>5. QED
  BY <1>2, <1>4

LEMMA AlongFewer ==
  ASSUME NEW next, NEW other, NEW t,
         \A y \in DOMAIN other : y \in DOMAIN next /\ other[y] = next[y]
  PROVE  Along(other, t) \subseteq Along(next, t)
<1>1. Follows(other, Along(next, t)) /\ t \in Along(next, t)
  BY AlongFacts DEF Follows
<1>2. QED
  BY <1>1, AlongFacts

\* No links lead round in a circle.
Rooted(next) == \A S : S # {} => \E y \in S : y \in DOMAIN next => next[y] \notin S

LEMMA RootedNoReturn ==
  ASSUME NEW next, Rooted(next), NEW t \in DOMAIN next
  PROVE  t \notin Along(next, next[t])
<1> SUFFICES ASSUME t \in Along(next, next[t]) PROVE FALSE
  OBVIOUS
<1> DEFINE C == {y \in Along(next, next[t]) : t \in Along(next, y)}
<1>1. t \in C
  BY AlongFacts
<1>2. ASSUME NEW y \in C PROVE y \in DOMAIN next /\ next[y] \in C
  <2>1. y \in Along(next, next[t]) /\ t \in Along(next, y)
    OBVIOUS
  <2>2. y \in DOMAIN next
    BY <2>1, AlongFirst
  <2>3. next[y] \in Along(next, next[t])
    BY <2>1, <2>2, AlongFacts DEF Follows
  <2>4. t \in Along(next, next[y])
    <3>1. CASE y = t
      BY <3>1
    <3>2. CASE y # t
      BY <2>1, <2>2, <3>2, AlongFirst
    <3>3. QED
      BY <3>1, <3>2
  <2>5. QED
    BY <2>2, <2>3, <2>4
<1> HIDE DEF C
<1>3. QED
  BY <1>1, <1>2 DEF Rooted

-----------------------------------------------------------------------------
\* Recursive definitions that have a solution.

\* Repeating a step.
Repeats(f, m, s0, step) == f[0] = s0 /\ \A k \in 1..m : f[k] = step[<<k, f[k - 1]>>]

LEMMA RepetitionSolves ==
  ASSUME NEW X, NEW s0 \in X, NEW step \in [Nat \X X -> X], NEW n \in Nat
  PROVE  \E f \in [0..n -> X] : Repeats(f, n, s0, step)
<1> DEFINE Solves(f, m) == f[0] = s0 /\ \A k \in 1..m : f[k] = step[<<k, f[k - 1]>>]
           T == {m \in Nat : \E f \in [0..m -> X] : Solves(f, m)}
<1>1. 0 \in T
  <2>1. [k \in 0..0 |-> s0] \in [0..0 -> X] /\ Solves([k \in 0..0 |-> s0], 0)
    OBVIOUS
  <2>2. QED
    BY <2>1
<1>2. ASSUME NEW m \in T PROVE m + 1 \in T
  <2>1. PICK f \in [0..m -> X] : Solves(f, m)
    OBVIOUS
  <2>2. m \in Nat
    OBVIOUS
  <2> DEFINE g == [k \in 0..(m + 1) |-> IF k = m + 1 THEN step[<<m + 1, f[m]>>] ELSE f[k]]
  <2>3. \A k \in 0..(m + 1) : k = m + 1 \/ k \in 0..m
    BY <2>2
  <2>4. f[m] \in X /\ step[<<m + 1, f[m]>>] \in X
    BY <2>2
  <2>5. g \in [0..(m + 1) -> X]
    BY <2>3, <2>4
  <2>6. g[0] = s0
    BY <2>1, <2>2
  <2>7. ASSUME NEW k \in 1..(m + 1) PROVE g[k] = step[<<k, g[k - 1]>>]
    <3>1. k - 1 \in 0..(m + 1) /\ k - 1 # m + 1 /\ k \in 0..(m + 1)
      BY <2>2
    <3>2. g[k - 1] = f[k - 1]
      BY <3>1
    <3>3. CASE k = m + 1
      <4>1. k - 1 = m
        BY <2>2, <3>3
      <4>2. QED
        BY <3>1, <3>2, <3>3, <4>1
    <3>4. CASE k # m + 1
      <4>1. k \in 1..m
        BY <2>2, <3>4
      <4>2. g[k] = f[k] /\ f[k] = step[<<k, f[k - 1]>>]
        BY <2>1, <3>1, <3>4, <4>1
      <4>3. QED
        BY <3>2, <4>2
    <3>5. QED
      BY <3>3, <3>4
  <2> HIDE DEF g
  <2>8. QED
    BY <2>2, <2>5, <2>6, <2>7
<1>3. T = Nat
  <2>1. T \subseteq Nat
    OBVIOUS
  <2> HIDE DEF T
  <2>2. QED
    BY <1>1, <1>2, <2>1, AllNumbers
<1>4. QED
  BY <1>3 DEF Repeats

\* Values that are known at the beginnings of chains are carried down them.
Grounded(par, U) == \A S \in SUBSET U : S # {} => \E t \in S : par[t] \notin S
CarriedDown(g, K, known, U, par, step) ==
    /\ \A t \in K : g[t] = known[t]
    /\ \A t \in U : g[t] = step[<<t, g[par[t]]>>]

LEMMA CarryingSolves ==
  ASSUME NEW D, IsFiniteSet(D), NEW X, NEW K \in SUBSET D, NEW known \in [K -> X],
         NEW par, NEW step \in [D \X X -> X],
         \A t \in D \ K : par[t] \in D, Grounded(par, D \ K)
  PROVE  \E g \in [D -> X] : CarriedDown(g, K, known, D \ K, par, step)
<1> DEFINE Solves(g, S) == /\ \A t \in K : g[t] = known[t]
                           /\ \A t \in S \ K : par[t] \in S /\ g[t] = step[<<t, g[par[t]]>>]
           Good == {S \in SUBSET D : K \subseteq S /\ \E g \in [S -> X] : Solves(g, S)}
           left(S) == Cardinality(D \ S)
           Rest == {left(S) : S \in Good}
<1>1. K \in Good
  BY DEF Solves
<1>2. \A S \in Good : IsFiniteSet(D \ S) /\ Cardinality(D \ S) \in Nat
  BY FS_Subset, FS_CardinalityType
<1>3. \A S \in Good : left(S) \in Nat
  BY <1>2
<1>4. PICK S \in Good : \A U \in Good : left(S) <= left(U)
  <2> HIDE DEF Good, left
  <2>1. Rest \subseteq Nat /\ Rest # {}
    BY <1>1, <1>3
  <2>2. PICK x \in Rest : \A y \in Rest : x <= y
    BY <2>1, LeastNumber
  <2>3. QED
    BY <2>2
<1>5. PICK g \in [S -> X] : Solves(g, S)
  OBVIOUS
<1>6. S \in SUBSET D /\ K \subseteq S
  OBVIOUS
<1>7. CASE D \ S = {}
  <2>1. S = D
    BY <1>6, <1>7
  <2>2. QED
    BY <1>5, <2>1 DEF CarriedDown
<1>8. CASE D \ S # {}
  <2>1. D \ S \in SUBSET (D \ K)
    BY <1>6
  <2>2. PICK t \in D \ S : par[t] \notin D \ S
    BY <1>8, <2>1 DEF Grounded
  <2>3. t \notin K /\ par[t] \in S /\ t \in D
    BY <1>6, <2>2
  <2> DEFINE U == S \cup {t}
             h == [x \in U |-> IF x = t THEN step[<<t, g[par[t]]>>] ELSE g[x]]
  <2>4. g[par[t]] \in X /\ step[<<t, g[par[t]]>>] \in X
    BY <2>3
  <2>5. h \in [U -> X]
    BY <2>4
  <2>6. \A x \in S : h[x] = g[x]
    BY <2>2
  <2>7. Solves(h, U)
    <3>1. \A x \in K : h[x] = known[x]
      BY <1>5, <1>6, <2>6
    <3>2. ASSUME NEW x \in U \ K PROVE par[x] \in U /\ h[x] = step[<<x, h[par[x]]>>]
      <4>1. CASE x = t
        BY <2>3, <2>6, <4>1
      <4>2. CASE x # t
        BY <1>5, <2>6, <4>2
      <4>3. QED
        BY <4>1, <4>2
    <3> HIDE DEF h, U
    <3>3. QED
      BY <3>1, <3>2
  <2>8. U \in Good
    <3> HIDE DEF h, Solves
    <3>1. QED
      BY <1>6, <2>3, <2>5, <2>7
  <2>9. left(U) < left(S)
    <3>1. D \ U \in SUBSET (D \ S) /\ D \ U # D \ S
      BY <2>2
    <3> HIDE DEF U
    <3>2. QED
      BY <1>2, <3>1, FewerMembers
  <2> HIDE DEF U, Good, left
  <2>10. left(S) <= left(U) /\ left(S) \in Nat /\ left(U) \in Nat
    BY <1>4, <1>3, <2>8
  <2>11. QED
    BY <2>9, <2>10
<1>9. QED
  BY <1>7, <1>8

-----------------------------------------------------------------------------
\* The simulated node.

TxMaps == UNION {[D -> Entry] : D \in SUBSET Txid}
ChildMaps == UNION {[D -> Txid] : D \in SUBSET Txid}
Nodes == [txs : TxMaps, children : ChildMaps, tip_height : Nat, reloading : BOOLEAN]

\* What a transaction is told of its parent and of its child.
TotalsLinked(n) ==
    \A t \in DOMAIN n.txs :
        LET e == n.txs[t]
        IN  /\ e.depends = NoTx => e.ancestorsize = e.vsize /\ e.ancestor = e.base
            /\ e.depends # NoTx =>
                  /\ e.ancestorsize = e.vsize + n.txs[e.depends].ancestorsize
                  /\ e.ancestor = e.base + n.txs[e.depends].ancestor
            /\ t \notin DOMAIN n.children => e.descendantsize = e.vsize /\ e.descendant = e.base
            /\ t \in DOMAIN n.children =>
                  /\ e.descendantsize = e.vsize + n.txs[n.children[t]].descendantsize
                  /\ e.descendant = e.base + n.txs[n.children[t]].descendant

\* The totals are right link by link and the links make up chains: so they are
\* right, and every method of the node can keep them so.
Sound(n) ==
    /\ \A t \in DOMAIN n.txs : n.txs[t].vsize > 0
    /\ LinksWhole(n)
    /\ Rooted(Parents(n.txs))
    /\ ChainsBounded(n)
    /\ TotalsLinked(n)

SoundNodes == {n \in Nodes : Sound(n)}

LEMMA NodeFacts ==
  ASSUME NEW n \in Nodes
  PROVE  /\ DOMAIN n.txs \subseteq Txid /\ n.txs \in [DOMAIN n.txs -> Entry]
         /\ DOMAIN n.children \subseteq Txid /\ n.children \in [DOMAIN n.children -> Txid]
         /\ NoTx \notin DOMAIN n.txs
         /\ n.tip_height \in Nat /\ n.reloading \in BOOLEAN
BY MockNodeAssumption DEF Nodes, TxMaps, ChildMaps

LEMMA TxsReplaced ==
  ASSUME NEW n \in Nodes, NEW txs, DOMAIN txs \subseteq Txid, txs \in [DOMAIN txs -> Entry],
         NEW m, m = [n EXCEPT !.txs = txs]
  PROVE  m \in Nodes /\ m.txs = txs /\ m.children = n.children
<1>1. txs \in TxMaps
  BY DEF TxMaps
<1>2. QED
  BY <1>1 DEF Nodes

LEMMA EntryParts ==
  ASSUME NEW e \in Entry
  PROVE  /\ e.vsize \in Nat /\ e.base \in Nat /\ e.depends \in Txid \cup {NoTx}
         /\ e.ancestorsize \in Nat /\ e.ancestor \in Nat
         /\ e.descendantsize \in Nat /\ e.descendant \in Nat
BY DEF Entry

\* The links of a node, as facts about its functions.
LEMMA LinkFacts ==
  ASSUME NEW n \in SoundNodes
  PROVE  LET txs == n.txs
             next == Parents(n.txs)
         IN  /\ \A t \in DOMAIN txs : /\ txs[t] \in Entry
                                      /\ t \in Txid
                                      /\ t \in DOMAIN next <=> txs[t].depends # NoTx
             /\ \A t \in DOMAIN next : /\ t \in DOMAIN txs /\ next[t] \in DOMAIN txs
                                       /\ next[t] = txs[t].depends /\ next[t] # NoTx
                                       /\ next[t] \in DOMAIN n.children /\ n.children[next[t]] = t
             /\ \A p \in DOMAIN n.children : /\ p \in DOMAIN txs
                                             /\ n.children[p] \in DOMAIN next
                                             /\ next[n.children[p]] = p
<1>1. n \in Nodes /\ LinksWhole(n)
  BY DEF SoundNodes, Sound
<1>2. DOMAIN n.txs \subseteq Txid /\ NoTx \notin DOMAIN n.txs /\ n.txs \in [DOMAIN n.txs -> Entry]
  BY <1>1, NodeFacts
<1>3. QED
  BY <1>1, <1>2 DEF LinksWhole, Parents

\* The fresh entry.
LEMMA StandaloneFacts ==
  ASSUME NEW v \in Vsizes, NEW r \in Nat
  PROVE  /\ Standalone(v, r) \in Entry
         /\ v \in Nat /\ v > 0 /\ r * v \in Nat
         /\ Standalone(v, r) = [vsize |-> v, base |-> r * v, depends |-> NoTx,
                                ancestorsize |-> v, ancestor |-> r * v,
                                descendantsize |-> v, descendant |-> r * v]
<1>1. v \in Nat /\ v > 0
  BY MockNodeAssumption
<1>2. r * v \in Nat
  BY <1>1
<1>3. QED
  BY <1>1, <1>2 DEF Standalone, Entry

LEMMA StandaloneSound ==
  ASSUME NEW n \in SoundNodes, NEW t \in Txid \ DOMAIN n.txs, NEW v \in Vsizes, NEW r \in Rates
  PROVE  [n EXCEPT !.txs = With(n.txs, t, Standalone(v, r))] \in SoundNodes
<1> DEFINE e == Standalone(v, r)
           txs == With(n.txs, t, e)
           m == [n EXCEPT !.txs = txs]
           next == Parents(n.txs)
<1>1. /\ n \in Nodes /\ DOMAIN n.txs \subseteq Txid
      /\ n.txs \in [DOMAIN n.txs -> Entry] /\ n.children \in [DOMAIN n.children -> Txid]
      /\ DOMAIN n.children \subseteq Txid
  BY NodeFacts DEF SoundNodes
<1>2. r \in Nat
  BY MockNodeAssumption
<1>3. /\ e \in Entry /\ e.vsize > 0 /\ e.depends = NoTx
      /\ e.ancestorsize = e.vsize /\ e.descendantsize = e.vsize
      /\ e.ancestor = e.base /\ e.descendant = e.base
  BY <1>2, StandaloneFacts
<1> HIDE DEF e
<1>4. /\ DOMAIN txs = DOMAIN n.txs \cup {t} /\ txs[t] = e
      /\ \A x \in DOMAIN n.txs : txs[x] = n.txs[x] /\ x # t
      /\ txs \in [DOMAIN txs -> Entry]
  BY <1>1, <1>3 DEF With
<1> HIDE DEF txs
<1>5. m \in Nodes /\ m.txs = txs /\ m.children = n.children
  <2>1. DOMAIN txs \subseteq Txid
    BY <1>1, <1>4
  <2>2. QED
    BY <1>1, <1>4, <2>1, TxsReplaced
<1> HIDE DEF m
<1>6. /\ \A x \in DOMAIN n.txs : /\ n.txs[x] \in Entry
                                 /\ n.txs[x].depends = NoTx \/ n.txs[x].depends \in DOMAIN n.txs
      /\ \A p \in DOMAIN n.children : p \in DOMAIN n.txs /\ n.children[p] \in DOMAIN n.txs
      /\ NoTx \notin Txid
  BY LinkFacts, MockNodeAssumption
<1>7. Parents(txs) = next
  BY <1>1, <1>3, <1>4, <1>6 DEF Parents
<1> HIDE DEF next
<1>8. Sound(n)
  BY DEF SoundNodes
<1>9. \A x \in DOMAIN m.txs : m.txs[x].vsize > 0
  BY <1>3, <1>4, <1>5, <1>8 DEF Sound
<1>10. LinksWhole(m)
  BY <1>3, <1>4, <1>5, <1>6, <1>8 DEF Sound, LinksWhole
<1>11. Rooted(Parents(m.txs))
  BY <1>5, <1>7, <1>8 DEF Sound, next
<1>12. ChainsBounded(m)
  <2>1. ASSUME NEW x \in DOMAIN n.txs PROVE Cardinality(AncestorsOf(txs, x)) < MaxChain
    <3>1. AncestorsOf(txs, x) = AncestorsOf(n.txs, x)
      BY <1>7 DEF AncestorsOf, next
    <3>2. QED
      BY <1>8, <3>1 DEF Sound, ChainsBounded
  <2>2. AncestorsOf(txs, t) = {}
    <3>1. t \notin DOMAIN next
      BY LinkFacts DEF next
    <3>2. Along(next, t) = {t}
      BY <3>1, AlongFirst
    <3>3. QED
      BY <1>7, <3>2 DEF AncestorsOf
  <2>3. Cardinality(AncestorsOf(txs, t)) < MaxChain
    BY <2>2, FS_EmptySet, MockNodeAssumption
  <2>4. QED
    BY <1>4, <1>5, <2>1, <2>3 DEF ChainsBounded
<1>13. TotalsLinked(m)
  BY <1>3, <1>4, <1>5, <1>6, <1>8 DEF Sound, TotalsLinked
<1>14. QED
  BY <1>5, <1>9, <1>10, <1>11, <1>12, <1>13 DEF SoundNodes, Sound, m, txs, e

\* adjust_descendant_totals touches the descendant totals on the way up, and
\* nothing else.
LEMMA AdjustFacts ==
  ASSUME NEW txs, txs \in [DOMAIN txs -> Entry], NEW from, NEW vs \in Int, NEW bs \in Int
  PROVE  LET new == AdjustDescendants(txs, from, vs, bs)
             line == Along(Parents(txs), from)
             adjusted(x, by) == IF x + by < 0 THEN 0 ELSE x + by
         IN  /\ DOMAIN new = DOMAIN txs /\ new \in [DOMAIN txs -> Entry]
             /\ \A t \in DOMAIN txs :
                   /\ new[t].vsize = txs[t].vsize /\ new[t].base = txs[t].base
                   /\ new[t].depends = txs[t].depends
                   /\ new[t].ancestorsize = txs[t].ancestorsize
                   /\ new[t].ancestor = txs[t].ancestor
                   /\ t \notin line => new[t] = txs[t]
                   /\ t \in line =>
                         /\ new[t].descendantsize = adjusted(txs[t].descendantsize, vs)
                         /\ new[t].descendant = adjusted(txs[t].descendant, bs)
             /\ Parents(new) = Parents(txs)
<1> DEFINE new == AdjustDescendants(txs, from, vs, bs)
           line == Along(Parents(txs), from)
           adjusted(x, by) == IF x + by < 0 THEN 0 ELSE x + by
<1>1. {from} \cup AncestorsOf(txs, from) = line
  BY AlongFacts DEF AncestorsOf
<1>2. new = [t \in DOMAIN txs |->
                IF t \in line
                THEN [txs[t] EXCEPT !.descendantsize = adjusted(@, vs),
                                    !.descendant = adjusted(@, bs)]
                ELSE txs[t]]
  BY <1>1 DEF AdjustDescendants
<1> HIDE DEF new, line
<1>3. ASSUME NEW t \in DOMAIN txs
      PROVE  /\ new[t] \in Entry
             /\ new[t].vsize = txs[t].vsize /\ new[t].base = txs[t].base
             /\ new[t].depends = txs[t].depends
             /\ new[t].ancestorsize = txs[t].ancestorsize
             /\ new[t].ancestor = txs[t].ancestor
             /\ t \notin line => new[t] = txs[t]
             /\ t \in line =>
                   /\ new[t].descendantsize = adjusted(txs[t].descendantsize, vs)
                   /\ new[t].descendant = adjusted(txs[t].descendant, bs)
  <2> DEFINE e == txs[t]
             ds == adjusted(e.descendantsize, vs)
             df == adjusted(e.descendant, bs)
  <2>1. e \in Entry
    OBVIOUS
  <2>2. e.descendantsize \in Nat /\ e.descendant \in Nat
    BY <2>1, EntryParts
  <2>3. ds \in Nat /\ df \in Nat
    BY <2>2
  <2>4. new[t] = IF t \in line THEN [e EXCEPT !.descendantsize = ds, !.descendant = df] ELSE e
    BY <1>2
  <2> HIDE DEF ds, df, e
  <2>5. new[t] \in Entry
    BY <2>1, <2>3, <2>4 DEF Entry
  <2>6. /\ new[t].vsize = e.vsize /\ new[t].base = e.base /\ new[t].depends = e.depends
        /\ new[t].ancestorsize = e.ancestorsize /\ new[t].ancestor = e.ancestor
        /\ t \notin line => new[t] = e
        /\ t \in line => new[t].descendantsize = ds /\ new[t].descendant = df
    BY <2>1, <2>4 DEF Entry
  <2>7. QED
    BY <2>5, <2>6 DEF e, ds, df
<1>4. DOMAIN new = DOMAIN txs /\ new \in [DOMAIN txs -> Entry]
  BY <1>2, <1>3
<1>5. Parents(new) = Parents(txs)
  BY <1>3, <1>4 DEF Parents
<1>6. QED
  BY <1>3, <1>4, <1>5 DEF new, line

LEMMA FiniteNode ==
  ASSUME NEW n \in SoundNodes
  PROVE  /\ IsFiniteSet(DOMAIN n.txs)
         /\ \A t \in DOMAIN n.txs : /\ Along(Parents(n.txs), t) \subseteq DOMAIN n.txs
                                    /\ IsFiniteSet(Along(Parents(n.txs), t))
<1>1. IsFiniteSet(DOMAIN n.txs)
  BY NodeFacts, FS_Subset, MockNodeAssumption DEF SoundNodes
<1>2. ASSUME NEW t \in DOMAIN n.txs PROVE Along(Parents(n.txs), t) \subseteq DOMAIN n.txs
  BY AlongFacts, LinkFacts
<1>3. QED
  BY <1>1, <1>2, FS_Subset

LEMMA ChildFacts ==
  ASSUME NEW p \in Txid, NEW v \in Vsizes, NEW r \in Nat, NEW up \in Entry
  PROVE  LET own == Standalone(v, r)
             entry == ChildEntry(own, p, up)
         IN  /\ entry \in Entry /\ own.vsize = v /\ own.base = r * v
             /\ v \in Nat /\ v > 0 /\ r * v \in Nat
             /\ entry.depends = p /\ entry.vsize = v /\ entry.base = r * v
             /\ entry.descendantsize = v /\ entry.descendant = r * v
             /\ entry.ancestorsize = v + up.ancestorsize
             /\ entry.ancestor = r * v + up.ancestor
<1> DEFINE own == Standalone(v, r)
           entry == ChildEntry(own, p, up)
           fee == r * v
           as == own.ancestorsize + up.ancestorsize
           af == own.ancestor + up.ancestor
<1>1. /\ v \in Nat /\ v > 0 /\ fee \in Nat /\ own \in Entry
      /\ own.vsize = v /\ own.base = fee /\ own.ancestorsize = v /\ own.ancestor = fee
      /\ own.descendantsize = v /\ own.descendant = fee
  BY StandaloneFacts
<1>2. up.ancestorsize \in Nat /\ up.ancestor \in Nat
  BY EntryParts
<1>3. entry = [own EXCEPT !.depends = p, !.ancestorsize = as, !.ancestor = af]
  BY DEF ChildEntry
<1> HIDE DEF own, fee, entry
<1>4. as = v + up.ancestorsize /\ af = fee + up.ancestor /\ as \in Nat /\ af \in Nat
  BY <1>1, <1>2
<1> HIDE DEF as, af
<1>5. entry \in Entry
  BY <1>1, <1>3, <1>4 DEF Entry
<1>6. /\ entry.depends = p /\ entry.vsize = own.vsize /\ entry.base = own.base
      /\ entry.descendantsize = own.descendantsize /\ entry.descendant = own.descendant
      /\ entry.ancestorsize = as /\ entry.ancestor = af
  BY <1>1, <1>3 DEF Entry
<1>7. QED
  BY <1>1, <1>4, <1>5, <1>6 DEF own, fee, entry

LEMMA AttachSound ==
  ASSUME NEW n \in SoundNodes, NEW p \in Eligible(n), NEW t \in Txid \ DOMAIN n.txs,
         NEW v \in Vsizes
  PROVE  AttachChild(n, p, t, v) \in SoundNodes
<1> DEFINE own == Standalone(v, MaxRate)
           fee == MaxRate * v
           entry == ChildEntry(own, p, n.txs[p])
           base == With(n.txs, t, entry)
           txs == AdjustDescendants(base, p, own.vsize, own.base)
           children == With(n.children, p, t)
           m == [n EXCEPT !.txs = txs, !.children = children]
           next == Parents(n.txs)
           next2 == Parents(txs)
           line == Along(next, p)
<1>1. AttachChild(n, p, t, v) = m
  BY DEF AttachChild
<1>2. /\ n \in Nodes /\ Sound(n) /\ DOMAIN n.txs \subseteq Txid /\ DOMAIN n.children \subseteq Txid
      /\ n.txs \in [DOMAIN n.txs -> Entry] /\ n.children \in [DOMAIN n.children -> Txid]
  BY NodeFacts DEF SoundNodes
<1>3. /\ p \in DOMAIN n.txs /\ p \notin DOMAIN n.children /\ MaxChain >= 2
      /\ Cardinality(AncestorsOf(n.txs, p)) + 1 < MaxChain
  BY MockNodeAssumption DEF Eligible
<1>4. n.txs[p] \in Entry /\ p \in Txid /\ p # t /\ p # NoTx /\ MaxRate \in Nat
  BY <1>2, <1>3, NodeFacts, MockNodeAssumption
<1>5. /\ entry \in Entry /\ own.vsize = v /\ own.base = fee
      /\ v \in Nat /\ v > 0 /\ fee \in Nat
      /\ entry.depends = p /\ entry.vsize = v /\ entry.base = fee
      /\ entry.descendantsize = v /\ entry.descendant = fee
      /\ entry.ancestorsize = v + n.txs[p].ancestorsize
      /\ entry.ancestor = fee + n.txs[p].ancestor
  BY <1>4, ChildFacts
<1> HIDE DEF own, fee, entry
<1>6. /\ DOMAIN base = DOMAIN n.txs \cup {t} /\ base[t] = entry
      /\ \A x \in DOMAIN n.txs : base[x] = n.txs[x] /\ x # t
      /\ base \in [DOMAIN base -> Entry]
  BY <1>2, <1>5 DEF With
<1>7. /\ DOMAIN children = DOMAIN n.children \cup {p} /\ children[p] = t
      /\ \A x \in DOMAIN n.children : x # p /\ children[x] = n.children[x]
      /\ DOMAIN children \subseteq Txid /\ children \in [DOMAIN children -> Txid]
  BY <1>2, <1>3, <1>4 DEF With
<1> HIDE DEF base, children, next
<1>8. /\ \A x \in DOMAIN n.txs : /\ n.txs[x] \in Entry
                                 /\ x \in DOMAIN next <=> n.txs[x].depends # NoTx
      /\ \A x \in DOMAIN next : /\ x \in DOMAIN n.txs /\ next[x] \in DOMAIN n.txs
                                /\ next[x] = n.txs[x].depends /\ next[x] # NoTx
                                /\ next[x] \in DOMAIN n.children /\ n.children[next[x]] = x
      /\ \A q \in DOMAIN n.children : /\ q \in DOMAIN n.txs /\ n.children[q] \in DOMAIN next
                                      /\ next[n.children[q]] = q
      /\ NoTx \notin Txid
  BY LinkFacts, MockNodeAssumption DEF next
<1>9. /\ DOMAIN Parents(base) = DOMAIN next \cup {t}
      /\ Parents(base)[t] = p
      /\ \A x \in DOMAIN next : Parents(base)[x] = next[x]
  <2>1. \A x \in DOMAIN base : base[x].depends \in DOMAIN base <=> x \in DOMAIN next \cup {t}
    BY <1>2, <1>3, <1>5, <1>6, <1>8
  <2>2. DOMAIN Parents(base) = DOMAIN next \cup {t}
    BY <1>6, <1>8, <2>1 DEF Parents
  <2>3. \A x \in DOMAIN Parents(base) : Parents(base)[x] = base[x].depends
    BY DEF Parents
  <2>4. QED
    BY <1>5, <1>6, <1>8, <2>2, <2>3
<1>10. ASSUME NEW x \in DOMAIN n.txs PROVE Along(Parents(base), x) = Along(next, x)
  <2>1. Along(next, x) \subseteq DOMAIN n.txs
    BY FiniteNode DEF next
  <2>2. \A y \in Along(next, x) : y \in DOMAIN Parents(base) <=> y \in DOMAIN next
    BY <1>9, <2>1
  <2>3. QED
    BY <1>9, <2>2, AlongSame
<1>11. line = Along(Parents(base), p) /\ line \subseteq DOMAIN n.txs /\ IsFiniteSet(line) /\ p \in line
  BY <1>3, <1>10, FiniteNode, AlongFacts DEF next
<1>12. /\ DOMAIN txs = DOMAIN n.txs \cup {t} /\ txs \in [DOMAIN txs -> Entry]
       /\ Parents(txs) = Parents(base)
       /\ \A x \in DOMAIN txs :
             /\ txs[x].vsize = base[x].vsize /\ txs[x].base = base[x].base
             /\ txs[x].depends = base[x].depends
             /\ txs[x].ancestorsize = base[x].ancestorsize
             /\ txs[x].ancestor = base[x].ancestor
             /\ x \notin line => txs[x] = base[x]
             /\ x \in line => txs[x].descendantsize = base[x].descendantsize + v
                              /\ txs[x].descendant = base[x].descendant + fee
  <2>1. own.vsize \in Int /\ own.base \in Int
    BY <1>5
  <2>2. /\ DOMAIN txs = DOMAIN base /\ txs \in [DOMAIN base -> Entry]
        /\ Parents(txs) = Parents(base)
        /\ \A x \in DOMAIN base :
              /\ txs[x].vsize = base[x].vsize /\ txs[x].base = base[x].base
              /\ txs[x].depends = base[x].depends
              /\ txs[x].ancestorsize = base[x].ancestorsize
              /\ txs[x].ancestor = base[x].ancestor
              /\ x \notin line => txs[x] = base[x]
              /\ x \in line =>
                    /\ txs[x].descendantsize = IF base[x].descendantsize + own.vsize < 0 THEN 0
                                               ELSE base[x].descendantsize + own.vsize
                    /\ txs[x].descendant = IF base[x].descendant + own.base < 0 THEN 0
                                           ELSE base[x].descendant + own.base
    <3> HIDE DEF line
    <3>1. QED
      BY <1>6, <1>11, <2>1, AdjustFacts
  <2> HIDE DEF txs, line
  <2>3. \A x \in DOMAIN base : base[x].descendantsize \in Nat /\ base[x].descendant \in Nat
    BY <1>6, EntryParts
  <2>4. \A x \in DOMAIN base : /\ ~(base[x].descendantsize + own.vsize < 0)
                               /\ ~(base[x].descendant + own.base < 0)
    BY <1>5, <2>3
  <2>5. QED
    BY <1>5, <1>6, <2>2, <2>4
<1> HIDE DEF txs, line, next2, m
<1>13. m \in Nodes /\ m.txs = txs /\ m.children = children
  <2>1. n \in Nodes /\ DOMAIN txs \subseteq Txid /\ DOMAIN children \subseteq Txid
    BY <1>2, <1>7, <1>12
  <2>2. txs \in [DOMAIN txs -> Entry] /\ children \in [DOMAIN children -> Txid]
    BY <1>7, <1>12
  <2>3. m = [n EXCEPT !.txs = txs, !.children = children]
    BY DEF m
  <2>4. txs \in TxMaps /\ children \in ChildMaps
    BY <2>1, <2>2 DEF TxMaps, ChildMaps
  <2>5. QED
    BY <2>1, <2>3, <2>4 DEF Nodes
<1>14. \A x \in DOMAIN m.txs : m.txs[x].vsize > 0
  BY <1>2, <1>5, <1>6, <1>12, <1>13 DEF Sound
<1>15. LinksWhole(m)
  <2>1. ASSUME NEW x \in DOMAIN txs, txs[x].depends # NoTx
        PROVE  txs[x].depends \in DOMAIN txs /\ txs[x].depends \in DOMAIN children
               /\ children[txs[x].depends] = x
    <3>1. CASE x = t
      BY <1>3, <1>5, <1>6, <1>7, <1>12, <3>1
    <3>2. CASE x \in DOMAIN n.txs
      BY <1>6, <1>7, <1>8, <1>12, <2>1, <3>2
    <3>3. QED
      BY <1>12, <3>1, <3>2
  <2>2. ASSUME NEW q \in DOMAIN children
        PROVE  q \in DOMAIN txs /\ children[q] \in DOMAIN txs /\ txs[children[q]].depends = q
    <3>1. CASE q = p
      BY <1>3, <1>5, <1>6, <1>7, <1>12, <3>1
    <3>2. CASE q \in DOMAIN n.children
      BY <1>6, <1>7, <1>8, <1>12, <3>2
    <3>3. QED
      BY <1>7, <3>1, <3>2
  <2>3. QED
    BY <1>13, <2>1, <2>2 DEF LinksWhole
<1>16. Rooted(Parents(m.txs))
  <2>1. Rooted(next)
    BY <1>2 DEF Sound, next
  <2>2. SUFFICES ASSUME NEW S, S # {}
                 PROVE  \E y \in S : y \in DOMAIN next \cup {t} => Parents(base)[y] \notin S
    BY <1>9, <1>12, <1>13 DEF Rooted
  <2>3. CASE S = {t}
    BY <1>4, <1>9, <2>3
  <2>4. CASE S # {t}
    <3>1. PICK y \in S \ {t} : y \in DOMAIN next => next[y] \notin S \ {t}
      BY <2>1, <2>2, <2>4 DEF Rooted
    <3>2. y \in DOMAIN next => next[y] # t
      BY <1>8
    <3>3. QED
      BY <1>9, <3>1, <3>2
  <2>5. QED
    BY <2>3, <2>4
<1>17. ChainsBounded(m)
  <2>1. ASSUME NEW x \in DOMAIN n.txs PROVE Cardinality(AncestorsOf(txs, x)) < MaxChain
    <3>1. AncestorsOf(txs, x) = AncestorsOf(n.txs, x)
      BY <1>10, <1>12 DEF AncestorsOf, next
    <3>2. QED
      BY <1>2, <3>1 DEF Sound, ChainsBounded
  <2>2. AncestorsOf(txs, t) = line
    <3>1. Along(Parents(base), t) = {t} \cup line
      BY <1>9, <1>11, AlongFirst
    <3>2. QED
      BY <1>11, <1>12, <3>1 DEF AncestorsOf
  <2>3. Cardinality(line) < MaxChain
    <3> DEFINE above == AncestorsOf(n.txs, p)
    <3>1. above = line \ {p}
      BY DEF AncestorsOf, line, next
    <3> HIDE DEF above
    <3>2. IsFiniteSet(above) /\ Cardinality(above) = Cardinality(line) - 1
      BY <1>11, <3>1, FS_RemoveElement
    <3>3. Cardinality(line) \in Nat /\ Cardinality(above) + 1 < MaxChain /\ MaxChain \in Nat
      BY <1>3, <1>11, FS_CardinalityType, MockNodeAssumption DEF above
    <3>4. QED
      BY <3>2, <3>3
  <2>4. QED
    BY <1>12, <1>13, <2>1, <2>2, <2>3 DEF ChainsBounded
<1>18. TotalsLinked(m)
  <2>1. ASSUME NEW x \in DOMAIN txs
        PROVE  /\ txs[x].depends = NoTx => /\ txs[x].ancestorsize = txs[x].vsize
                                           /\ txs[x].ancestor = txs[x].base
               /\ txs[x].depends # NoTx =>
                     /\ txs[x].ancestorsize = txs[x].vsize + txs[txs[x].depends].ancestorsize
                     /\ txs[x].ancestor = txs[x].base + txs[txs[x].depends].ancestor
    <3>1. CASE x = t
      BY <1>3, <1>4, <1>5, <1>6, <1>12, <3>1
    <3>2. CASE x \in DOMAIN n.txs
      BY <1>2, <1>6, <1>8, <1>12, <3>2 DEF Sound, TotalsLinked
    <3>3. QED
      BY <1>12, <3>1, <3>2
  <2>2. ASSUME NEW x \in DOMAIN txs, x \notin DOMAIN children
        PROVE  txs[x].descendantsize = txs[x].vsize /\ txs[x].descendant = txs[x].base
    <3>1. x # p /\ x \notin DOMAIN n.children
      BY <1>7, <2>2
    <3>2. x \notin line
      <4>1. ASSUME x \in line PROVE FALSE
        <5>1. PICK y \in line : y \in DOMAIN next /\ next[y] = x
          BY <3>1, <4>1, AlongLinked DEF line
        <5>2. QED
          BY <1>8, <3>1, <5>1
      <4>2. QED
        BY <4>1
    <3>3. CASE x = t
      BY <1>5, <1>6, <1>12, <3>2, <3>3
    <3>4. CASE x \in DOMAIN n.txs
      BY <1>2, <1>6, <1>12, <3>1, <3>2, <3>4 DEF Sound, TotalsLinked
    <3>5. QED
      BY <1>12, <3>3, <3>4
  <2>3. ASSUME NEW x \in DOMAIN children
        PROVE  /\ txs[x].descendantsize = txs[x].vsize + txs[children[x]].descendantsize
               /\ txs[x].descendant = txs[x].base + txs[children[x]].descendant
    <3>1. CASE x = p
      <4>1. t \notin line /\ txs[t] = entry
        BY <1>6, <1>11, <1>12
      <4>2. n.txs[p].descendantsize = n.txs[p].vsize /\ n.txs[p].descendant = n.txs[p].base
        BY <1>2, <1>3 DEF Sound, TotalsLinked
      <4>3. /\ txs[p].descendantsize = n.txs[p].vsize + v /\ txs[p].vsize = n.txs[p].vsize
            /\ txs[p].descendant = n.txs[p].base + fee /\ txs[p].base = n.txs[p].base
        BY <1>3, <1>6, <1>11, <1>12, <4>2
      <4>4. QED
        BY <1>5, <1>7, <3>1, <4>1, <4>3
    <3>2. CASE x \in DOMAIN n.children
      <4> DEFINE c == n.children[x]
      <4>1. /\ x \in DOMAIN n.txs /\ c \in DOMAIN n.txs /\ c \in DOMAIN next /\ next[c] = x
            /\ children[x] = c /\ x # p
        BY <1>7, <1>8, <3>2
      <4>2. /\ n.txs[x].descendantsize = n.txs[x].vsize + n.txs[c].descendantsize
            /\ n.txs[x].descendant = n.txs[x].base + n.txs[c].descendant
        BY <1>2, <3>2, <4>1 DEF Sound, TotalsLinked
      <4>3. x \in line <=> c \in line
        <5>1. ASSUME x \in line PROVE c \in line
          <6>1. PICK y \in line : y \in DOMAIN next /\ next[y] = x
            BY <4>1, <5>1, AlongLinked DEF line
          <6>2. QED
            BY <1>8, <6>1
        <5>2. ASSUME c \in line PROVE x \in line
          BY <4>1, <5>2, AlongFacts DEF line, Follows
        <5>3. QED
          BY <5>1, <5>2
      <4>4. /\ n.txs[x].vsize \in Nat /\ n.txs[x].base \in Nat
            /\ n.txs[c].descendantsize \in Nat /\ n.txs[c].descendant \in Nat
        BY <1>8, <4>1, EntryParts
      <4> HIDE DEF c
      <4>5. CASE x \in line
        BY <1>5, <1>6, <1>12, <4>1, <4>2, <4>3, <4>4, <4>5
      <4>6. CASE x \notin line
        BY <1>6, <1>12, <4>1, <4>2, <4>3, <4>6
      <4>7. QED
        BY <4>5, <4>6
    <3>3. QED
      BY <1>7, <3>1, <3>2
  <2>4. QED
    BY <1>13, <2>1, <2>2, <2>3 DEF TotalsLinked
<1>19. QED
  BY <1>1, <1>13, <1>14, <1>15, <1>16, <1>17, <1>18 DEF SoundNodes, Sound

\* Without a leaf the links are as they were.
LEMMA LeafGone ==
  ASSUME NEW n \in SoundNodes, NEW leaf \in DOMAIN n.txs, leaf \notin DOMAIN n.children
  PROVE  LET rest == Without(n.txs, {leaf})
             next == Parents(n.txs)
             less == Parents(rest)
         IN  /\ DOMAIN rest = DOMAIN n.txs \ {leaf} /\ rest \in [DOMAIN rest -> Entry]
             /\ \A x \in DOMAIN rest : rest[x] = n.txs[x]
             /\ \A x \in DOMAIN next : next[x] # leaf
             /\ DOMAIN less = DOMAIN next \ {leaf}
             /\ \A x \in DOMAIN less : less[x] = next[x]
             /\ \A x \in DOMAIN rest : Along(less, x) = Along(next, x)
             /\ Rooted(less)
             /\ \A x \in DOMAIN rest : Cardinality(AncestorsOf(rest, x)) < MaxChain
<1> DEFINE rest == Without(n.txs, {leaf})
           next == Parents(n.txs)
           less == Parents(rest)
<1>1. n.txs \in [DOMAIN n.txs -> Entry] /\ Sound(n)
  BY NodeFacts DEF SoundNodes
<1>2. /\ DOMAIN rest = DOMAIN n.txs \ {leaf} /\ rest \in [DOMAIN rest -> Entry]
      /\ \A x \in DOMAIN rest : rest[x] = n.txs[x]
  BY <1>1 DEF Without
<1> HIDE DEF rest, next
<1>3. /\ \A x \in DOMAIN n.txs : x \in DOMAIN next <=> n.txs[x].depends # NoTx
      /\ \A x \in DOMAIN next : /\ x \in DOMAIN n.txs /\ next[x] \in DOMAIN n.txs
                                /\ next[x] = n.txs[x].depends
                                /\ next[x] \in DOMAIN n.children
      /\ NoTx \notin DOMAIN n.txs
  BY LinkFacts, NodeFacts DEF next, SoundNodes
<1>4. \A x \in DOMAIN next : next[x] # leaf
  BY <1>3
<1>5. DOMAIN less = DOMAIN next \ {leaf} /\ \A x \in DOMAIN less : less[x] = next[x]
  <2>1. \A x \in DOMAIN rest : rest[x].depends \in DOMAIN rest <=> x \in DOMAIN next
    BY <1>2, <1>3, <1>4
  <2>2. /\ DOMAIN less = {x \in DOMAIN rest : rest[x].depends \in DOMAIN rest}
        /\ \A x \in DOMAIN less : less[x] = rest[x].depends
    BY DEF Parents
  <2> HIDE DEF less
  <2>3. QED
    BY <1>2, <1>3, <2>1, <2>2
<1> HIDE DEF less
<1>6. ASSUME NEW x \in DOMAIN rest PROVE Along(less, x) = Along(next, x)
  <2>1. leaf \notin Along(next, x)
    BY <1>2, <1>4, AlongFacts
  <2>2. \A y \in Along(next, x) : /\ y \in DOMAIN less <=> y \in DOMAIN next
                                  /\ y \in DOMAIN next => less[y] = next[y]
    BY <1>5, <2>1
  <2>3. QED
    BY <2>2, AlongSame
<1>7. Rooted(less)
  BY <1>1, <1>5 DEF Rooted, Sound, next
<1>8. ASSUME NEW x \in DOMAIN rest PROVE Cardinality(AncestorsOf(rest, x)) < MaxChain
  <2>1. AncestorsOf(rest, x) = AncestorsOf(n.txs, x)
    BY <1>6 DEF AncestorsOf, next, less
  <2>2. QED
    BY <1>1, <1>2, <2>1 DEF Sound, ChainsBounded
<1>9. QED
  BY <1>2, <1>4, <1>5, <1>6, <1>7, <1>8 DEF rest, next, less

\* The totals above a leaf include it, so the subtraction never saturates.
LEMMA LeafCounted ==
  ASSUME NEW n \in SoundNodes, NEW leaf \in DOMAIN n.txs, leaf \notin DOMAIN n.children,
         n.txs[leaf].depends # NoTx
  PROVE  \A x \in Along(Parents(n.txs), n.txs[leaf].depends) :
             /\ n.txs[x].descendantsize >= n.txs[leaf].vsize
             /\ n.txs[x].descendant >= n.txs[leaf].base
<1> DEFINE next == Parents(n.txs)
           p == n.txs[leaf].depends
           v == n.txs[leaf].vsize
           b == n.txs[leaf].base
           S == {x \in DOMAIN n.txs : n.txs[x].descendantsize >= v /\ n.txs[x].descendant >= b}
<1>1. TotalsLinked(n)
  BY DEF SoundNodes, Sound
<1>2. /\ \A x \in DOMAIN n.txs : n.txs[x] \in Entry
      /\ \A x \in DOMAIN next : /\ x \in DOMAIN n.txs /\ next[x] \in DOMAIN n.txs
                                /\ next[x] = n.txs[x].depends
                                /\ next[x] \in DOMAIN n.children /\ n.children[next[x]] = x
      /\ leaf \in DOMAIN next
  BY LinkFacts
<1>3. \A x \in DOMAIN n.txs : /\ n.txs[x].vsize \in Nat /\ n.txs[x].base \in Nat
                              /\ n.txs[x].descendantsize \in Nat /\ n.txs[x].descendant \in Nat
  BY <1>2, EntryParts
<1>4. \A x \in DOMAIN next :
          /\ n.txs[next[x]].descendantsize = n.txs[next[x]].vsize + n.txs[x].descendantsize
          /\ n.txs[next[x]].descendant = n.txs[next[x]].base + n.txs[x].descendant
  BY <1>1, <1>2 DEF TotalsLinked
<1> HIDE DEF next
<1>5. n.txs[leaf].descendantsize = v /\ n.txs[leaf].descendant = b
  BY <1>1 DEF TotalsLinked
<1>6. p = next[leaf]
  BY <1>2
<1>7. leaf \in S
  BY <1>3, <1>5
<1>8. \A x \in S : x \in DOMAIN next => next[x] \in S
  BY <1>2, <1>3, <1>4
<1> HIDE DEF S, p
<1>9. Along(next, p) \subseteq S
  BY <1>2, <1>6, <1>7, <1>8, AlongFacts DEF Follows
<1>10. QED
  BY <1>9 DEF S, next, p

LEMMA RemoveSound ==
  ASSUME NEW n \in SoundNodes, NEW leaf
  PROVE  RemoveLeaf(n, leaf) \in SoundNodes
<1> DEFINE e == n.txs[leaf]
           rest == Without(n.txs, {leaf})
           next == Parents(n.txs)
<1>1. CASE leaf \in DOMAIN n.children \/ leaf \notin DOMAIN n.txs
  BY <1>1 DEF RemoveLeaf
<1>2. CASE leaf \notin DOMAIN n.children /\ leaf \in DOMAIN n.txs
  <2>1. /\ n \in Nodes /\ Sound(n) /\ DOMAIN n.txs \subseteq Txid /\ DOMAIN n.children \subseteq Txid
        /\ n.txs \in [DOMAIN n.txs -> Entry] /\ n.children \in [DOMAIN n.children -> Txid]
        /\ NoTx \notin DOMAIN n.txs
    BY NodeFacts DEF SoundNodes
  <2>2. /\ \A x \in DOMAIN n.txs : /\ n.txs[x] \in Entry
                                   /\ x \in DOMAIN next <=> n.txs[x].depends # NoTx
        /\ \A x \in DOMAIN next : /\ x \in DOMAIN n.txs /\ next[x] \in DOMAIN n.txs
                                  /\ next[x] = n.txs[x].depends /\ next[x] # NoTx
                                  /\ next[x] \in DOMAIN n.children /\ n.children[next[x]] = x
        /\ \A q \in DOMAIN n.children : /\ q \in DOMAIN n.txs /\ n.children[q] \in DOMAIN next
                                        /\ next[n.children[q]] = q
    BY LinkFacts
  <2>3. /\ DOMAIN rest = DOMAIN n.txs \ {leaf} /\ rest \in [DOMAIN rest -> Entry]
        /\ \A x \in DOMAIN rest : rest[x] = n.txs[x]
        /\ \A x \in DOMAIN next : next[x] # leaf
        /\ \A x \in DOMAIN rest : Along(Parents(rest), x) = Along(next, x)
        /\ Rooted(Parents(rest))
        /\ \A x \in DOMAIN rest : Cardinality(AncestorsOf(rest, x)) < MaxChain
    BY <1>2, LeafGone
  <2> HIDE DEF rest, next
  <2>4. CASE e.depends = NoTx
    <3> DEFINE m == [n EXCEPT !.txs = rest]
    <3>1. RemoveLeaf(n, leaf) = m
      BY <1>2, <2>4 DEF RemoveLeaf, rest
    <3>2. m \in Nodes /\ m.txs = rest /\ m.children = n.children
      <4>1. DOMAIN rest \subseteq Txid /\ rest \in [DOMAIN rest -> Entry]
        BY <2>1, <2>3
      <4>2. rest \in TxMaps
        BY <4>1 DEF TxMaps
      <4>3. QED
        BY <2>1, <4>2 DEF Nodes
    <3> HIDE DEF m
    <3>3. \A x \in DOMAIN n.children : n.children[x] # leaf
      BY <2>2, <2>4
    <3>4. LinksWhole(m)
      BY <1>2, <2>1, <2>2, <2>3, <3>2, <3>3 DEF LinksWhole
    <3>5. TotalsLinked(m)
      BY <1>2, <2>1, <2>2, <2>3, <3>2, <3>3 DEF TotalsLinked, Sound
    <3>6. \A x \in DOMAIN m.txs : m.txs[x].vsize > 0
      BY <2>1, <2>3, <3>2 DEF Sound
    <3>7. Rooted(Parents(m.txs)) /\ ChainsBounded(m)
      BY <2>3, <3>2 DEF ChainsBounded
    <3>8. QED
      BY <3>1, <3>2, <3>4, <3>5, <3>6, <3>7 DEF SoundNodes, Sound
  <2>5. CASE e.depends # NoTx
    <3> DEFINE p == e.depends
               v == e.vsize
               b == e.base
               line == Along(next, p)
               txs == AdjustDescendants(rest, p, -v, -b)
               children == Without(n.children, {p})
               m == [n EXCEPT !.txs = txs, !.children = children]
    <3>1. RemoveLeaf(n, leaf) = m
      BY <1>2, <2>5 DEF RemoveLeaf, rest
    <3>2. /\ leaf \in DOMAIN next /\ next[leaf] = p /\ p \in DOMAIN rest
          /\ p \in DOMAIN n.children /\ n.children[p] = leaf
      BY <1>2, <2>2, <2>3, <2>5
    <3>3. v \in Nat /\ b \in Nat
      BY <1>2, <2>2, EntryParts
    <3>4. line = Along(Parents(rest), p)
      BY <2>3, <3>2
    <3>5. line \subseteq DOMAIN rest
      BY <2>2, <2>3, <3>2, AlongFacts
    <3>6. \A x \in line : n.txs[x].descendantsize >= v /\ n.txs[x].descendant >= b
      BY <1>2, <2>5, LeafCounted DEF next
    <3> HIDE DEF p, v, b, line
    <3>7. /\ DOMAIN children = DOMAIN n.children \ {p}
          /\ \A x \in DOMAIN children : children[x] = n.children[x]
          /\ DOMAIN children \subseteq Txid /\ children \in [DOMAIN children -> Txid]
      BY <2>1 DEF Without
    <3> HIDE DEF children
    <3>8. /\ DOMAIN txs = DOMAIN rest /\ txs \in [DOMAIN rest -> Entry]
          /\ Parents(txs) = Parents(rest)
          /\ \A x \in DOMAIN rest :
                /\ txs[x].vsize = n.txs[x].vsize /\ txs[x].base = n.txs[x].base
                /\ txs[x].depends = n.txs[x].depends
                /\ txs[x].ancestorsize = n.txs[x].ancestorsize
                /\ txs[x].ancestor = n.txs[x].ancestor
                /\ x \notin line => txs[x] = n.txs[x]
                /\ x \in line => txs[x].descendantsize = n.txs[x].descendantsize - v
                                 /\ txs[x].descendant = n.txs[x].descendant - b
      <4>1. -v \in Int /\ -b \in Int
        BY <3>3
      <4>2. /\ DOMAIN txs = DOMAIN rest /\ txs \in [DOMAIN rest -> Entry]
            /\ Parents(txs) = Parents(rest)
            /\ \A x \in DOMAIN rest :
                  /\ txs[x].vsize = rest[x].vsize /\ txs[x].base = rest[x].base
                  /\ txs[x].depends = rest[x].depends
                  /\ txs[x].ancestorsize = rest[x].ancestorsize
                  /\ txs[x].ancestor = rest[x].ancestor
                  /\ x \notin line => txs[x] = rest[x]
                  /\ x \in line =>
                        /\ txs[x].descendantsize = IF rest[x].descendantsize + (-v) < 0 THEN 0
                                                   ELSE rest[x].descendantsize + (-v)
                        /\ txs[x].descendant = IF rest[x].descendant + (-b) < 0 THEN 0
                                               ELSE rest[x].descendant + (-b)
        BY <2>3, <3>4, <4>1, AdjustFacts
      <4> HIDE DEF txs
      <4>3. \A x \in DOMAIN rest : /\ rest[x] = n.txs[x]
                                   /\ n.txs[x].descendantsize \in Nat /\ n.txs[x].descendant \in Nat
        BY <2>2, <2>3, EntryParts
      <4>4. ASSUME NEW x \in DOMAIN rest, x \in line
            PROVE  txs[x].descendantsize = n.txs[x].descendantsize - v
                   /\ txs[x].descendant = n.txs[x].descendant - b
        <5>1. /\ ~(n.txs[x].descendantsize + (-v) < 0) /\ ~(n.txs[x].descendant + (-b) < 0)
              /\ n.txs[x].descendantsize + (-v) = n.txs[x].descendantsize - v
              /\ n.txs[x].descendant + (-b) = n.txs[x].descendant - b
          BY <3>3, <3>6, <4>3, <4>4
        <5>2. QED
          BY <4>2, <4>3, <4>4, <5>1
      <4>5. QED
        BY <4>2, <4>3, <4>4
    <3> HIDE DEF txs
    <3>9. m \in Nodes /\ m.txs = txs /\ m.children = children
      <4>1. DOMAIN txs \subseteq Txid /\ txs \in [DOMAIN txs -> Entry]
        BY <2>1, <2>3, <3>8
      <4>2. txs \in TxMaps /\ children \in ChildMaps
        BY <3>7, <4>1 DEF TxMaps, ChildMaps
      <4>3. QED
        BY <2>1, <4>2 DEF Nodes
    <3> HIDE DEF m
    <3>10. LinksWhole(m)
      <4>1. ASSUME NEW x \in DOMAIN txs, txs[x].depends # NoTx
            PROVE  txs[x].depends \in DOMAIN txs /\ txs[x].depends \in DOMAIN children
                   /\ children[txs[x].depends] = x
        <5>1. x \in DOMAIN next /\ x # leaf /\ txs[x].depends = next[x]
          BY <2>2, <2>3, <3>8, <4>1
        <5>2. next[x] # leaf /\ next[x] # p /\ next[x] \in DOMAIN n.children /\ n.children[next[x]] = x
          BY <2>2, <2>3, <3>2, <5>1
        <5>3. QED
          BY <2>2, <2>3, <3>7, <3>8, <5>1, <5>2
      <4>2. ASSUME NEW q \in DOMAIN children
            PROVE  q \in DOMAIN txs /\ children[q] \in DOMAIN txs /\ txs[children[q]].depends = q
        BY <1>2, <2>2, <2>3, <3>2, <3>7, <3>8
      <4>3. QED
        BY <3>9, <4>1, <4>2 DEF LinksWhole
    <3>11. TotalsLinked(m)
      <4>1. ASSUME NEW x \in DOMAIN txs
            PROVE  /\ txs[x].depends = NoTx => /\ txs[x].ancestorsize = txs[x].vsize
                                               /\ txs[x].ancestor = txs[x].base
                   /\ txs[x].depends # NoTx =>
                         /\ txs[x].ancestorsize = txs[x].vsize + txs[txs[x].depends].ancestorsize
                         /\ txs[x].ancestor = txs[x].base + txs[txs[x].depends].ancestor
        <5>1. x \in DOMAIN n.txs /\ x # leaf
          BY <2>3, <3>8
        <5>2. txs[x].depends # NoTx => txs[x].depends \in DOMAIN rest
          BY <2>2, <2>3, <3>8, <5>1
        <5>3. QED
          BY <2>1, <2>3, <3>8, <5>1, <5>2 DEF Sound, TotalsLinked
      <4>2. ASSUME NEW x \in DOMAIN txs, x \notin DOMAIN children
            PROVE  txs[x].descendantsize = txs[x].vsize /\ txs[x].descendant = txs[x].base
        <5>1. x \in DOMAIN n.txs /\ x # leaf
          BY <2>3, <3>8
        <5>2. CASE x = p
          <6>1. /\ n.txs[p].descendantsize = n.txs[p].vsize + n.txs[leaf].descendantsize
                /\ n.txs[p].descendant = n.txs[p].base + n.txs[leaf].descendant
            BY <2>1, <3>2, <5>1, <5>2 DEF Sound, TotalsLinked
          <6>2. n.txs[leaf].descendantsize = v /\ n.txs[leaf].descendant = b
            BY <1>2, <2>1 DEF Sound, TotalsLinked, v, b
          <6>3. p \in line
            BY AlongFacts DEF line
          <6>4. n.txs[p].vsize \in Nat /\ n.txs[p].base \in Nat
            BY <2>2, <5>1, <5>2, EntryParts
          <6>5. /\ n.txs[p].descendantsize = n.txs[p].vsize + v
                /\ n.txs[p].descendant = n.txs[p].base + b
            BY <6>1, <6>2
          <6>6. /\ txs[p].descendantsize = n.txs[p].descendantsize - v
                /\ txs[p].descendant = n.txs[p].descendant - b
                /\ txs[p].vsize = n.txs[p].vsize /\ txs[p].base = n.txs[p].base
            BY <3>2, <3>8, <6>3
          <6>7. QED
            BY <3>3, <5>2, <6>4, <6>5, <6>6
        <5>3. CASE x # p
          <6>1. x \notin DOMAIN n.children
            BY <3>7, <4>2, <5>3
          <6>2. x \notin line
            <7>1. ASSUME x \in line PROVE FALSE
              <8>1. PICK y \in line : y \in DOMAIN next /\ next[y] = x
                BY <5>3, <7>1, AlongLinked DEF line
              <8>2. QED
                BY <2>2, <6>1, <8>1
            <7>2. QED
              BY <7>1
          <6>3. QED
            BY <2>1, <3>8, <5>1, <6>1, <6>2 DEF Sound, TotalsLinked
        <5>4. QED
          BY <5>2, <5>3
      <4>3. ASSUME NEW x \in DOMAIN children
            PROVE  /\ txs[x].descendantsize = txs[x].vsize + txs[children[x]].descendantsize
                   /\ txs[x].descendant = txs[x].base + txs[children[x]].descendant
        <5> DEFINE c == n.children[x]
        <5>1. /\ x \in DOMAIN n.txs /\ c \in DOMAIN n.txs /\ c \in DOMAIN next /\ next[c] = x
              /\ children[x] = c /\ x # p /\ x \in DOMAIN n.children
          BY <2>2, <3>7
        <5>2. c # leaf /\ x # leaf
          BY <1>2, <3>2, <5>1
        <5>3. /\ n.txs[x].descendantsize = n.txs[x].vsize + n.txs[c].descendantsize
              /\ n.txs[x].descendant = n.txs[x].base + n.txs[c].descendant
          BY <2>1, <5>1 DEF Sound, TotalsLinked
        <5>4. x \in line <=> c \in line
          <6>1. ASSUME x \in line PROVE c \in line
            <7>1. PICK y \in line : y \in DOMAIN next /\ next[y] = x
              BY <5>1, <6>1, AlongLinked DEF line
            <7>2. QED
              BY <2>2, <7>1
          <6>2. ASSUME c \in line PROVE x \in line
            BY <5>1, <6>2, AlongFacts DEF line, Follows
          <6>3. QED
            BY <6>1, <6>2
        <5>5. /\ n.txs[x].vsize \in Nat /\ n.txs[x].base \in Nat
              /\ n.txs[c].descendantsize \in Nat /\ n.txs[c].descendant \in Nat
          BY <2>2, <5>1, EntryParts
        <5>6. x \in DOMAIN rest /\ c \in DOMAIN rest
          BY <2>3, <5>1, <5>2
        <5> HIDE DEF c
        <5>7. CASE x \in line
          BY <3>3, <3>8, <5>1, <5>3, <5>4, <5>5, <5>6, <5>7
        <5>8. CASE x \notin line
          BY <3>8, <5>1, <5>3, <5>4, <5>6, <5>8
        <5>9. QED
          BY <5>7, <5>8
      <4>4. QED
        BY <3>9, <4>1, <4>2, <4>3 DEF TotalsLinked
    <3>12. \A x \in DOMAIN m.txs : m.txs[x].vsize > 0
      BY <2>1, <2>3, <3>8, <3>9 DEF Sound
    <3>13. Rooted(Parents(m.txs)) /\ ChainsBounded(m)
      <4>1. \A x \in DOMAIN rest : AncestorsOf(txs, x) = AncestorsOf(rest, x)
        BY <3>8 DEF AncestorsOf
      <4>2. QED
        BY <2>3, <3>8, <3>9, <4>1 DEF ChainsBounded
    <3>14. QED
      BY <3>1, <3>9, <3>10, <3>11, <3>12, <3>13 DEF SoundNodes, Sound
  <2>6. QED
    BY <2>4, <2>5
<1>3. QED
  BY <1>1, <1>2

-----------------------------------------------------------------------------
\* A block takes a set that is closed upwards.

ClosedUp(n, set) ==
    /\ set \subseteq DOMAIN n.txs
    /\ \A t \in set : t \in DOMAIN Parents(n.txs) => Parents(n.txs)[t] \in set

\* The parts of ConfirmSet.
Left(n, set) == DOMAIN n.txs \ set
Reroot(n, set) == {t \in DOMAIN n.txs \ set : n.txs[t].depends \in set}
Behind(n, set) == Below(Without(n.children, set), Reroot(n, set))

Repair(n, set, f) ==
    [t \in DOMAIN n.txs \ set |->
        IF t \in Reroot(n, set) THEN AsRoot(n.txs[t])
        ELSE IF t \in Behind(n, set)
             THEN Carried(n.txs[t], f[CHOOSE p \in DOMAIN Without(n.children, set) :
                                        Without(n.children, set)[p] = t])
             ELSE n.txs[t]]
Repaired(n, set) == CHOOSE f : f = Repair(n, set, f)

LEMMA ConfirmParts ==
  ASSUME NEW n, NEW set
  PROVE  ConfirmSet(n, set) =
            [n EXCEPT !.txs = Repaired(n, set), !.children = Without(n.children, set)]
BY DEF ConfirmSet, Repaired, Repair, Reroot, Behind

\* Who is behind a new root, and who is not.
LEMMA BehindFacts ==
  ASSUME NEW n \in SoundNodes, NEW set, ClosedUp(n, set)
  PROVE  LET next == Parents(n.txs)
             children == Without(n.children, set)
             B == Behind(n, set)
             R == Reroot(n, set)
         IN  /\ R \subseteq B /\ B \subseteq Left(n, set)
             /\ DOMAIN children = DOMAIN n.children \ set
             /\ \A p \in DOMAIN children : /\ children[p] = n.children[p]
                                           /\ p \in Left(n, set) /\ children[p] \in Left(n, set)
             /\ \A t \in B \ R : /\ t \in DOMAIN next /\ next[t] \in B
                                 /\ next[t] = CHOOSE p \in DOMAIN children : children[p] = t
             /\ \A t \in Left(n, set) \ B : t \in DOMAIN next => next[t] \in Left(n, set) \ B
             /\ \A t \in Left(n, set) \ R : t \in DOMAIN next => next[t] \in Left(n, set)
             /\ \A t \in R : t \in DOMAIN next /\ next[t] \in set
<1> DEFINE next == Parents(n.txs)
           children == Without(n.children, set)
           B == Behind(n, set)
           R == Reroot(n, set)
           D == Left(n, set)
<1>1. /\ \A x \in DOMAIN n.txs : x \in DOMAIN next <=> n.txs[x].depends # NoTx
      /\ \A x \in DOMAIN next : /\ x \in DOMAIN n.txs /\ next[x] \in DOMAIN n.txs
                                /\ next[x] = n.txs[x].depends
                                /\ next[x] \in DOMAIN n.children /\ n.children[next[x]] = x
      /\ \A p \in DOMAIN n.children : /\ p \in DOMAIN n.txs /\ n.children[p] \in DOMAIN next
                                      /\ next[n.children[p]] = p
  BY LinkFacts
<1>14. NoTx \notin DOMAIN n.txs
  BY NodeFacts DEF SoundNodes
<1>2. set \subseteq DOMAIN n.txs /\ \A t \in set : t \in DOMAIN next => next[t] \in set
  BY DEF ClosedUp
<1>3. DOMAIN children = DOMAIN n.children \ set
      /\ \A p \in DOMAIN children : children[p] = n.children[p]
  BY DEF Without
<1>4. /\ D = DOMAIN n.txs \ set
      /\ R = {t \in D : n.txs[t].depends \in set}
      /\ B = UNION {Along(children, t) : t \in R}
  BY DEF Left, Reroot, Behind, Below
<1> HIDE DEF next, children, B, R, D
<1>5. \A p \in DOMAIN children : p \in D /\ children[p] \in D
  BY <1>1, <1>2, <1>3, <1>4, <1>14
<1>6. R \subseteq B
  BY <1>4, AlongFacts
<1>7. B \subseteq D
  <2>1. ASSUME NEW r \in R PROVE Along(children, r) \subseteq D
    <3>1. r \in D /\ Follows(children, D)
      BY <1>4, <1>5 DEF Follows
    <3>2. QED
      BY <3>1, AlongFacts
  <2>2. QED
    BY <1>4, <2>1
<1>8. \A x \in B : x \in DOMAIN children => children[x] \in B
  BY <1>4, AlongFacts DEF Follows
<1>9. ASSUME NEW t \in B \ R
      PROVE  /\ t \in DOMAIN next /\ next[t] \in B
             /\ next[t] = CHOOSE p \in DOMAIN children : children[p] = t
  <2>1. PICK r \in R : t \in Along(children, r)
    BY <1>4
  <2>2. PICK y \in Along(children, r) : y \in DOMAIN children /\ children[y] = t
    BY <2>1, AlongLinked
  <2>3. y \in B
    BY <1>4, <2>2
  <2>4. \A p \in DOMAIN children : children[p] = t => t \in DOMAIN next /\ next[t] = p
    BY <1>1, <1>3
  <2>5. t \in DOMAIN next /\ next[t] = y
    BY <2>2, <2>4
  <2>6. (CHOOSE p \in DOMAIN children : children[p] = t) = y
    BY <2>2, <2>4, <2>5
  <2>7. QED
    BY <2>3, <2>5, <2>6
<1>10. \A t \in D \ R : t \in DOMAIN next => next[t] \in D
  BY <1>1, <1>4, <1>14
<1>11. \A t \in R : t \in DOMAIN next /\ next[t] \in set
  BY <1>1, <1>2, <1>4, <1>14
<1>12. ASSUME NEW t \in D \ B, t \in DOMAIN next PROVE next[t] \in D \ B
  <2>1. next[t] \in D
    BY <1>6, <1>10, <1>12
  <2>2. next[t] \in DOMAIN children /\ children[next[t]] = t
    BY <1>1, <1>3, <1>4, <1>12, <2>1
  <2>3. QED
    BY <1>8, <2>1, <2>2
<1>13. QED
  BY <1>3, <1>5, <1>6, <1>7, <1>9, <1>10, <1>11, <1>12 DEF next, children, B, R, D

\* The repair computes what it says.
LEMMA RepairSolved ==
  ASSUME NEW n \in SoundNodes, NEW set, ClosedUp(n, set)
  PROVE  LET f == Repaired(n, set)
             next == Parents(n.txs)
             B == Behind(n, set)
             R == Reroot(n, set)
         IN  /\ f \in [Left(n, set) -> Entry]
             /\ \A t \in R : f[t] = AsRoot(n.txs[t])
             /\ \A t \in B \ R : f[t] = Carried(n.txs[t], f[next[t]])
             /\ \A t \in Left(n, set) \ B : f[t] = n.txs[t]
<1> DEFINE D == Left(n, set)
           R == Reroot(n, set)
           B == Behind(n, set)
           next == Parents(n.txs)
           children == Without(n.children, set)
           K == D \ (B \ R)
           known == [t \in K |-> IF t \in R THEN AsRoot(n.txs[t]) ELSE n.txs[t]]
           step == [a \in D \X Entry |-> Carried(n.txs[a[1]], a[2])]
<1>1. /\ R \subseteq B /\ B \subseteq D
      /\ \A t \in B \ R : /\ t \in DOMAIN next /\ next[t] \in B
                          /\ next[t] = CHOOSE p \in DOMAIN children : children[p] = t
  BY BehindFacts
<1>2. /\ IsFiniteSet(D) /\ D = DOMAIN n.txs \ set
      /\ \A t \in D : n.txs[t] \in Entry
      /\ Rooted(next)
  <2>1. IsFiniteSet(DOMAIN n.txs)
    BY NodeFacts, MockNodeAssumption, FS_Subset DEF SoundNodes
  <2>2. IsFiniteSet(D)
    BY <2>1, FS_Subset DEF Left
  <2>3. QED
    BY <2>2, LinkFacts DEF Left, SoundNodes, Sound
<1>3. \A e \in Entry : /\ AsRoot(e) \in Entry
                       /\ \A p \in Entry : Carried(e, p) \in Entry
  <2>1. \A e \in Entry : e.vsize \in Nat /\ e.base \in Nat /\ e.ancestorsize \in Nat /\ e.ancestor \in Nat
    BY EntryParts
  <2>2. \A e, p \in Entry : e.vsize + p.ancestorsize \in Nat /\ e.base + p.ancestor \in Nat
    BY <2>1
  <2>3. \A e \in Entry : AsRoot(e) \in Entry
    BY <2>1 DEF AsRoot, Entry
  <2>4. \A e, p \in Entry : Carried(e, p) \in Entry
    BY <2>2 DEF Carried, Entry
  <2>5. QED
    BY <2>3, <2>4
<1> DEFINE Solves(f) == f = Repair(n, set, f)
           Values(f) == /\ f \in [D -> Entry]
                        /\ \A t \in R : f[t] = AsRoot(n.txs[t])
                        /\ \A t \in B \ R : f[t] = Carried(n.txs[t], f[next[t]])
                        /\ \A t \in D \ B : f[t] = n.txs[t]
<1>4. \E f \in [D -> Entry] : Solves(f)
  <2>1. K \in SUBSET D /\ known \in [K -> Entry] /\ step \in [D \X Entry -> Entry]
    BY <1>2, <1>3
  <2>2. \A t \in D \ K : next[t] \in D
    BY <1>1
  <2>3. ASSUME NEW S \in SUBSET (D \ K), S # {} PROVE \E t \in S : next[t] \notin S
    BY <1>1, <1>2, <2>3 DEF Rooted
  <2>4. \E g \in [D -> Entry] : CarriedDown(g, K, known, D \ K, next, step)
    <3> HIDE DEF known, step, next, D, R, B, K
    <3>1. IsFiniteSet(D)
      BY <1>2
    <3>2. Grounded(next, D \ K)
      BY <2>3 DEF Grounded
    <3>3. QED
      BY <2>1, <2>2, <3>1, <3>2, CarryingSolves
  <2>5. PICK g \in [D -> Entry] : /\ \A t \in K : g[t] = known[t]
                                  /\ \A t \in D \ K : g[t] = step[<<t, g[next[t]]>>]
    BY <2>4 DEF CarriedDown
  <2>6. ASSUME NEW t \in D PROVE g[t] = Repair(n, set, g)[t]
    <3>1. Repair(n, set, g)[t] =
            IF t \in R THEN AsRoot(n.txs[t])
            ELSE IF t \in B THEN Carried(n.txs[t], g[CHOOSE p \in DOMAIN children : children[p] = t])
                 ELSE n.txs[t]
      BY <1>2 DEF Repair
    <3> HIDE DEF children
    <3>2. CASE t \in R
      BY <2>5, <3>1, <3>2
    <3>3. CASE t \in B \ R
      <4>1. g[t] = Carried(n.txs[t], g[next[t]])
        BY <1>1, <2>2, <2>5, <3>3
      <4>2. QED
        BY <1>1, <3>1, <3>3, <4>1
    <3>4. CASE t \in D \ B
      BY <1>1, <2>5, <3>1, <3>4
    <3>5. QED
      BY <3>2, <3>3, <3>4
  <2>7. Repair(n, set, g) = [t \in D |-> Repair(n, set, g)[t]]
    BY <1>2 DEF Repair
  <2>8. g = Repair(n, set, g)
    BY <2>6, <2>7
  <2>9. QED
    BY <2>8
<1>5. Solves(Repaired(n, set))
  BY <1>4 DEF Repaired
<1>6. ASSUME NEW f, Solves(f) PROVE Values(f)
  <2>1. DOMAIN f = D /\ f = [t \in D |-> f[t]]
    BY <1>2, <1>6 DEF Repair
  <2>2. ASSUME NEW t \in D
        PROVE  f[t] = IF t \in R THEN AsRoot(n.txs[t])
                 ELSE IF t \in B THEN Carried(n.txs[t], f[CHOOSE p \in DOMAIN children : children[p] = t])
                      ELSE n.txs[t]
    BY <1>2, <1>6 DEF Repair
  <2> HIDE DEF children, next, D, R, B
  <2>3. /\ \A t \in R : f[t] = AsRoot(n.txs[t])
        /\ \A t \in B \ R : f[t] = Carried(n.txs[t], f[next[t]])
        /\ \A t \in D \ B : f[t] = n.txs[t]
    BY <1>1, <2>2
  <2> DEFINE T == {t \in D : f[t] \notin Entry}
  <2>4. ASSUME T # {} PROVE FALSE
    <3>1. PICK t \in T : t \in DOMAIN next => next[t] \notin T
      BY <1>2, <2>4 DEF Rooted
    <3>2. t \in B \ R
      BY <1>2, <1>3, <2>3
    <3>3. f[next[t]] \in Entry
      BY <1>1, <3>1, <3>2
    <3>4. QED
      BY <1>2, <1>3, <2>3, <3>2, <3>3
  <2>5. QED
    BY <2>1, <2>3, <2>4
<1> HIDE DEF Solves
<1>7. Values(Repaired(n, set))
  BY <1>5, <1>6
<1>8. QED
  BY <1>7

LEMMA ConfirmSound ==
  ASSUME NEW n \in SoundNodes, NEW set, ClosedUp(n, set)
  PROVE  /\ ConfirmSet(n, set) \in SoundNodes
         /\ DOMAIN ConfirmSet(n, set).txs = Left(n, set)
<1> DEFINE next == Parents(n.txs)
           D == Left(n, set)
           R == Reroot(n, set)
           B == Behind(n, set)
           children == Without(n.children, set)
           txs == Repaired(n, set)
           less == Parents(txs)
           m == [n EXCEPT !.txs = txs, !.children = children]
<1>1. ConfirmSet(n, set) = m
  BY ConfirmParts
<1>2. /\ R \subseteq B /\ B \subseteq D
      /\ DOMAIN children = DOMAIN n.children \ set
      /\ \A p \in DOMAIN children : /\ children[p] = n.children[p]
                                    /\ p \in D /\ children[p] \in D
      /\ \A t \in B \ R : /\ t \in DOMAIN next /\ next[t] \in B
                          /\ next[t] = CHOOSE p \in DOMAIN children : children[p] = t
      /\ \A t \in D \ B : t \in DOMAIN next => next[t] \in D \ B
      /\ \A t \in D \ R : t \in DOMAIN next => next[t] \in D
      /\ \A t \in R : t \in DOMAIN next /\ next[t] \in set
  BY BehindFacts
<1>3. /\ txs \in [D -> Entry]
      /\ \A t \in R : txs[t] = AsRoot(n.txs[t])
      /\ \A t \in B \ R : txs[t] = Carried(n.txs[t], txs[next[t]])
      /\ \A t \in D \ B : txs[t] = n.txs[t]
  BY RepairSolved
<1>4. /\ \A x \in DOMAIN n.txs : /\ n.txs[x] \in Entry
                                 /\ x \in DOMAIN next <=> n.txs[x].depends # NoTx
      /\ \A x \in DOMAIN next : /\ x \in DOMAIN n.txs /\ next[x] \in DOMAIN n.txs
                                /\ next[x] = n.txs[x].depends /\ next[x] # NoTx
                                /\ next[x] \in DOMAIN n.children /\ n.children[next[x]] = x
      /\ \A p \in DOMAIN n.children : /\ p \in DOMAIN n.txs /\ n.children[p] \in DOMAIN next
                                      /\ next[n.children[p]] = p
  BY LinkFacts
<1>5. /\ n \in Nodes /\ Sound(n) /\ D = DOMAIN n.txs \ set /\ NoTx \notin DOMAIN n.txs
      /\ DOMAIN n.txs \subseteq Txid /\ DOMAIN n.children \subseteq Txid
      /\ n.children \in [DOMAIN n.children -> Txid]
  BY NodeFacts DEF SoundNodes, Left
<1> HIDE DEF next, D, R, B, children, txs, less
<1>6. m \in Nodes /\ m.txs = txs /\ m.children = children
  <2>1. DOMAIN txs = D /\ D \subseteq Txid /\ txs \in [DOMAIN txs -> Entry]
    BY <1>3, <1>5
  <2>2. DOMAIN children \subseteq Txid /\ children \in [DOMAIN children -> Txid]
    BY <1>2, <1>5 DEF children, Without
  <2>3. txs \in TxMaps /\ children \in ChildMaps
    BY <2>1, <2>2 DEF TxMaps, ChildMaps
  <2>4. QED
    BY <1>5, <2>3 DEF Nodes
<1> HIDE DEF m
\* What the repair leaves alone.
<1>7. \A t \in D : /\ txs[t].vsize = n.txs[t].vsize /\ txs[t].base = n.txs[t].base
                   /\ txs[t].descendantsize = n.txs[t].descendantsize
                   /\ txs[t].descendant = n.txs[t].descendant
                   /\ t \in R => /\ txs[t].depends = NoTx
                                 /\ txs[t].ancestorsize = n.txs[t].vsize
                                 /\ txs[t].ancestor = n.txs[t].base
                   /\ t \notin R => txs[t].depends = n.txs[t].depends
                   /\ t \in B \ R =>
                        /\ txs[t].ancestorsize = n.txs[t].vsize + txs[next[t]].ancestorsize
                        /\ txs[t].ancestor = n.txs[t].base + txs[next[t]].ancestor
                   /\ t \notin B => txs[t] = n.txs[t]
  <2>1. \A e \in Entry : /\ AsRoot(e).vsize = e.vsize /\ AsRoot(e).base = e.base
                         /\ AsRoot(e).depends = NoTx
                         /\ AsRoot(e).ancestorsize = e.vsize /\ AsRoot(e).ancestor = e.base
                         /\ AsRoot(e).descendantsize = e.descendantsize
                         /\ AsRoot(e).descendant = e.descendant
    BY DEF AsRoot, Entry
  <2>2. \A e \in Entry : \A p :
            /\ Carried(e, p).vsize = e.vsize /\ Carried(e, p).base = e.base
            /\ Carried(e, p).depends = e.depends
            /\ Carried(e, p).ancestorsize = e.vsize + p.ancestorsize
            /\ Carried(e, p).ancestor = e.base + p.ancestor
            /\ Carried(e, p).descendantsize = e.descendantsize
            /\ Carried(e, p).descendant = e.descendant
    BY DEF Carried, Entry
  <2>3. ASSUME NEW t \in D
        PROVE  /\ n.txs[t] \in Entry
               /\ t \in R => txs[t] = AsRoot(n.txs[t]) /\ t \in B
               /\ t \in B \ R => txs[t] = Carried(n.txs[t], txs[next[t]])
               /\ t \notin B => txs[t] = n.txs[t] /\ t \notin R
    BY <1>2, <1>3, <1>4, <1>5
  <2>4. QED
    BY <2>1, <2>2, <2>3
\* The links of the survivors.
<1>8. /\ DOMAIN less = {t \in D : t \notin R /\ t \in DOMAIN next}
      /\ \A t \in DOMAIN less : t \in DOMAIN next /\ less[t] = next[t] /\ t \in D /\ next[t] \in D
  <2>1. DOMAIN txs = D
    BY <1>3
  <2>2. \A t \in D : txs[t].depends \in D <=> t \notin R /\ t \in DOMAIN next
    BY <1>2, <1>4, <1>5, <1>7
  <2>3. /\ DOMAIN less = {t \in D : txs[t].depends \in D}
        /\ \A t \in DOMAIN less : less[t] = txs[t].depends
    BY <2>1 DEF less, Parents
  <2>4. QED
    BY <1>2, <1>4, <1>5, <1>7, <2>2, <2>3
<1>9. \A t \in D : t \in DOMAIN less <=> txs[t].depends # NoTx
  BY <1>4, <1>5, <1>7, <1>8
<1>10. \A x \in DOMAIN m.txs : m.txs[x].vsize > 0
  BY <1>3, <1>5, <1>6, <1>7 DEF Sound
<1>11. LinksWhole(m)
  <2>1. ASSUME NEW t \in D, txs[t].depends # NoTx
        PROVE  txs[t].depends \in D /\ txs[t].depends \in DOMAIN children
               /\ children[txs[t].depends] = t
    <3>1. t \in DOMAIN less /\ t \in DOMAIN next /\ txs[t].depends = next[t] /\ next[t] \in D
      BY <1>4, <1>7, <1>8, <1>9, <2>1
    <3>2. QED
      BY <1>2, <1>4, <1>5, <3>1
  <2>2. ASSUME NEW p \in DOMAIN children
        PROVE  p \in D /\ children[p] \in D /\ txs[children[p]].depends = p
    <3>1. /\ p \in D /\ children[p] \in D /\ children[p] \in DOMAIN next /\ next[children[p]] = p
      BY <1>2, <1>4
    <3>2. children[p] \notin R
      BY <1>2, <1>5, <3>1
    <3>3. QED
      BY <1>4, <1>7, <3>1, <3>2
  <2>3. DOMAIN txs = D
    BY <1>3
  <2>4. QED
    BY <1>6, <2>1, <2>2, <2>3 DEF LinksWhole
<1>12. Rooted(Parents(m.txs))
  BY <1>5, <1>6, <1>8 DEF Rooted, Sound, less, next
<1>13. ChainsBounded(m)
  <2>1. ASSUME NEW t \in D PROVE Cardinality(AncestorsOf(txs, t)) < MaxChain
    <3>1. Along(less, t) \subseteq Along(next, t)
      BY <1>8, AlongFewer
    <3>2. AncestorsOf(txs, t) \subseteq AncestorsOf(n.txs, t)
      BY <3>1 DEF AncestorsOf, less, next
    <3>3. Cardinality(AncestorsOf(n.txs, t)) < MaxChain
      BY <1>5, <2>1 DEF Sound, ChainsBounded
    <3>4. IsFiniteSet(AncestorsOf(n.txs, t))
      <4>1. AncestorsOf(n.txs, t) \subseteq Txid
        <5>1. Along(next, t) \subseteq DOMAIN n.txs
          BY <1>4, <1>5, AlongFacts
        <5>2. QED
          BY <1>5, <5>1 DEF AncestorsOf, next
      <4>2. QED
        BY <4>1, FS_Subset, MockNodeAssumption
    <3> DEFINE few == AncestorsOf(txs, t)
               many == AncestorsOf(n.txs, t)
    <3>5. Cardinality(few) \in Nat /\ Cardinality(many) \in Nat
          /\ Cardinality(few) <= Cardinality(many)
      <4> HIDE DEF few, many
      <4>1. few \in SUBSET many /\ IsFiniteSet(many)
        BY <3>2, <3>4 DEF few, many
      <4>2. QED
        BY <4>1, FewerMembers
    <3>6. MaxChain \in Nat
      BY MockNodeAssumption
    <3>7. Cardinality(many) < MaxChain
      BY <3>3
    <3> HIDE DEF few, many
    <3>8. Cardinality(few) < MaxChain
      BY <3>5, <3>6, <3>7
    <3>9. QED
      BY <3>8 DEF few
  <2>2. DOMAIN txs = D
    BY <1>3
  <2>3. QED
    BY <1>6, <2>1, <2>2 DEF ChainsBounded
<1>14. TotalsLinked(m)
  <2>1. ASSUME NEW t \in D, txs[t].depends = NoTx
        PROVE  txs[t].ancestorsize = txs[t].vsize /\ txs[t].ancestor = txs[t].base
    <3>1. CASE t \in R
      BY <1>7, <3>1
    <3>2. CASE t \notin R
      <4>1. t \notin DOMAIN next /\ n.txs[t].depends = NoTx
        BY <1>4, <1>5, <1>7, <2>1, <3>2
      <4>2. t \notin B
        BY <1>2, <3>2, <4>1
      <4>3. QED
        BY <1>5, <1>7, <4>1, <4>2 DEF Sound, TotalsLinked
    <3>3. QED
      BY <3>1, <3>2
  <2>2. ASSUME NEW t \in D, txs[t].depends # NoTx
        PROVE  /\ txs[t].ancestorsize = txs[t].vsize + txs[txs[t].depends].ancestorsize
               /\ txs[t].ancestor = txs[t].base + txs[txs[t].depends].ancestor
    <3>1. t \in DOMAIN less /\ t \notin R /\ t \in DOMAIN next /\ txs[t].depends = next[t]
      BY <1>4, <1>7, <1>8, <1>9, <2>2
    <3>2. CASE t \in B
      BY <1>7, <3>1, <3>2
    <3>3. CASE t \notin B
      <4>1. txs[t] = n.txs[t] /\ next[t] \in D \ B /\ n.txs[t].depends = next[t] /\ next[t] # NoTx
        BY <1>2, <1>4, <1>7, <3>1, <3>3
      <4>2. txs[next[t]] = n.txs[next[t]]
        BY <1>3, <4>1
      <4>3. /\ n.txs[t].ancestorsize = n.txs[t].vsize + n.txs[next[t]].ancestorsize
            /\ n.txs[t].ancestor = n.txs[t].base + n.txs[next[t]].ancestor
        BY <1>5, <2>2, <4>1 DEF Sound, TotalsLinked
      <4>4. QED
        BY <3>1, <4>1, <4>2, <4>3
    <3>4. QED
      BY <3>2, <3>3
  <2>3. ASSUME NEW t \in D, t \notin DOMAIN children
        PROVE  txs[t].descendantsize = txs[t].vsize /\ txs[t].descendant = txs[t].base
    <3>1. t \notin DOMAIN n.children /\ t \in DOMAIN n.txs
      BY <1>2, <1>5, <2>3
    <3>2. n.txs[t].descendantsize = n.txs[t].vsize /\ n.txs[t].descendant = n.txs[t].base
      BY <1>5, <3>1 DEF Sound, TotalsLinked
    <3>3. QED
      BY <1>7, <3>2
  <2>4. ASSUME NEW t \in DOMAIN children
        PROVE  /\ txs[t].descendantsize = txs[t].vsize + txs[children[t]].descendantsize
               /\ txs[t].descendant = txs[t].base + txs[children[t]].descendant
    <3>1. /\ t \in D /\ children[t] \in D /\ children[t] = n.children[t] /\ t \in DOMAIN n.children
          /\ t \in DOMAIN n.txs
      BY <1>2, <1>5, <2>4
    <3>2. /\ n.txs[t].descendantsize = n.txs[t].vsize + n.txs[n.children[t]].descendantsize
          /\ n.txs[t].descendant = n.txs[t].base + n.txs[n.children[t]].descendant
      BY <1>5, <3>1 DEF Sound, TotalsLinked
    <3>3. /\ txs[t].descendantsize = n.txs[t].descendantsize /\ txs[t].vsize = n.txs[t].vsize
          /\ txs[t].descendant = n.txs[t].descendant /\ txs[t].base = n.txs[t].base
          /\ txs[children[t]].descendantsize = n.txs[n.children[t]].descendantsize
          /\ txs[children[t]].descendant = n.txs[n.children[t]].descendant
      BY <1>7, <3>1
    <3>4. QED
      BY <3>2, <3>3
  <2>5. DOMAIN txs = D
    BY <1>3
  <2>6. \A t \in DOMAIN children : t \in D
    BY <1>2
  <2>7. QED
    BY <1>6, <2>1, <2>2, <2>3, <2>4, <2>5, <2>6 DEF TotalsLinked
<1>15. DOMAIN m.txs = D
  BY <1>3, <1>6
<1>16. QED
  BY <1>1, <1>6, <1>10, <1>11, <1>12, <1>13, <1>14, <1>15 DEF SoundNodes, Sound, D

-----------------------------------------------------------------------------
\* Mining.

\* The sums of the node are those that the lemmas are about.
LEMMA SumFacts ==
  ASSUME NEW f, NEW S, IsFiniteSet(S), \A x \in S : f[x] \in Nat
  PROVE  SumOver(f, S) \in Nat /\ SumOver(f, S) = Total(f, S)
<1>1. SumOver(f, S) = Total(f, S)
  BY DEF SumOver, Total
<1>2. QED
  BY <1>1, TotalNat

\* The transactions that are mined are ranked, all of them.
LEMMA RankedFacts ==
  ASSUME NEW n \in SoundNodes
  PROVE  LET last == Cardinality(DOMAIN n.txs)
         IN  /\ IsFiniteSet(DOMAIN n.txs) /\ last \in Nat
             /\ Ranked(n.txs) \in [1..last -> DOMAIN n.txs]
<1> DEFINE txs == n.txs
           D == DOMAIN txs
           last == Cardinality(D)
           R == {a \in D \X D : RanksBefore(txs, a[1], a[2])}
<1>1. D \subseteq Txid /\ txs \in [D -> Entry] /\ D \subseteq Nat /\ IsFiniteSet(D)
  BY NodeFacts, MockNodeAssumption, FS_Subset DEF SoundNodes
<1>2. last \in Nat
  BY <1>1, FS_CardinalityType
<1>3. ASSUME NEW t \in D PROVE EffectiveRate(txs[t]) \in Int
  <2> DEFINE e == txs[t]
  <2>1. e.vsize \in Nat /\ e.base \in Nat /\ e.ancestorsize \in Nat /\ e.ancestor \in Nat
    BY <1>1, EntryParts
  <2>2. e.vsize > 0
    BY DEF SoundNodes, Sound
  <2>3. e.ancestorsize > 0
    <3>1. CASE e.depends = NoTx
      <4>1. e.ancestorsize = e.vsize
        BY <3>1 DEF SoundNodes, Sound, TotalsLinked
      <4>2. QED
        BY <2>2, <4>1
    <3>2. CASE e.depends # NoTx
      <4>1. e.ancestorsize = e.vsize + txs[e.depends].ancestorsize /\ e.depends \in D
        BY <3>2 DEF SoundNodes, Sound, TotalsLinked, LinksWhole
      <4>2. txs[e.depends].ancestorsize \in Nat
        BY <1>1, <4>1, EntryParts
      <4>3. QED
        BY <2>1, <2>2, <4>1, <4>2
    <3>3. QED
      BY <3>1, <3>2
  <2> HIDE DEF e
  <2>4. e.base \div e.vsize \in Int
    BY <2>1, <2>2
  <2>5. e.ancestor \div e.ancestorsize \in Int
    BY <2>1, <2>3
  <2>6. EffectiveRate(e) \in Int
    BY <2>4, <2>5 DEF EffectiveRate
  <2>7. QED
    BY <2>6 DEF e
<1>4. \A a, b \in D : <<a, b>> \in R <=> RanksBefore(txs, a, b)
  OBVIOUS
<1> HIDE DEF R
<1>5. Orders(R, D)
  <2>1. \A a \in D : ~ RanksBefore(txs, a, a)
    BY <1>1, <1>3 DEF RanksBefore
  <2>2. \A a, b, c \in D : RanksBefore(txs, a, b) /\ RanksBefore(txs, b, c) => RanksBefore(txs, a, c)
    BY <1>1, <1>3 DEF RanksBefore
  <2>3. \A a, b \in D : a = b \/ RanksBefore(txs, a, b) \/ RanksBefore(txs, b, a)
    BY <1>1, <1>3 DEF RanksBefore
  <2> HIDE DEF D, txs
  <2>4. QED
    BY <1>4, <2>1, <2>2, <2>3 DEF Orders
<1> HIDE DEF last, D, txs
<1>6. \E s \in [1..last -> D] : InOrder(s, last, R)
  BY <1>1, <1>5, SortedExists DEF last
<1>7. \E s \in [1..last -> D] : \A i, j \in 1..last : i < j => RanksBefore(txs, s[i], s[j])
  BY <1>4, <1>6 DEF InOrder
<1>8. Ranked(txs) \in [1..last -> D]
  <2>1. Ranked(txs) = CHOOSE s \in [1..last -> D] :
                         \A i, j \in 1..last : i < j => RanksBefore(txs, s[i], s[j])
    BY DEF Ranked, last, D
  <2>2. QED
    BY <1>7, <2>1
<1>9. QED
  BY <1>1, <1>2, <1>8 DEF last, D, txs

\* What may be in a block so far: whole packages that fit.
Minable(n) == {S \in SUBSET DOMAIN n.txs : ClosedUp(n, S) /\ WeightOf(n.txs, S) <= BlockWeight}

LEMMA ExtendedFacts ==
  ASSUME NEW n \in SoundNodes, NEW block \in Minable(n), NEW t \in DOMAIN n.txs
  PROVE  Extended(n.txs, block, t) \in Minable(n)
<1> DEFINE next == Parents(n.txs)
           more == block \cup PackageOf(n.txs, t, block)
<1>1. more = block \cup Along(next, t)
  <2>1. t \in Along(next, t)
    BY AlongFacts
  <2>2. QED
    BY <2>1 DEF PackageOf, AncestorsOf
<1>2. \A x \in DOMAIN next : next[x] \in DOMAIN n.txs
  BY LinkFacts
<1>3. Along(next, t) \subseteq DOMAIN n.txs
  BY <1>2, AlongFacts
<1>4. ClosedUp(n, more)
  <2>1. ClosedUp(n, block)
    BY DEF Minable
  <2>2. Follows(next, Along(next, t))
    BY AlongFacts
  <2>3. QED
    BY <1>1, <1>3, <2>1, <2>2 DEF ClosedUp, Follows
<1>5. WeightOf(n.txs, more) \in Nat
  <2>1. IsFiniteSet(more)
    BY <1>4, RankedFacts, FS_Subset DEF ClosedUp
  <2>2. \A x \in more : Sizes(n.txs)[x] \in Nat
    BY <1>4, LinkFacts, EntryParts DEF ClosedUp, Sizes
  <2>3. SumOver(Sizes(n.txs), more) \in Nat
    BY <2>1, <2>2, SumFacts
  <2>4. QED
    BY <2>3 DEF WeightOf
<1> HIDE DEF more
<1>6. CASE t \in block \/ WeightOf(n.txs, more) > BlockWeight
  BY <1>6 DEF Extended, more
<1>7. CASE t \notin block /\ ~(WeightOf(n.txs, more) > BlockWeight)
  <2>1. Extended(n.txs, block, t) = more
    BY <1>7 DEF Extended, more
  <2>2. WeightOf(n.txs, more) <= BlockWeight
    BY <1>5, <1>7, MockNodeAssumption
  <2>3. QED
    BY <1>4, <2>1, <2>2 DEF Minable, ClosedUp
<1>8. QED
  BY <1>6, <1>7

\* The recursion of mine_block has the solution that it is chosen for.
Filled(n, f) ==
    [i \in 0..Cardinality(DOMAIN n.txs) |->
        IF i = 0 THEN {} ELSE Extended(n.txs, f[i - 1], Ranked(n.txs)[i])]

LEMMA ConfirmedFacts ==
  ASSUME NEW n \in SoundNodes
  PROVE  Confirmed(n.txs) \in Minable(n)
<1> DEFINE last == Cardinality(DOMAIN n.txs)
           ranked == Ranked(n.txs)
           X == Minable(n)
           step == [a \in Nat \X X |-> IF a[1] \in 1..last THEN Extended(n.txs, a[2], ranked[a[1]])
                                      ELSE a[2]]
           upto == CHOOSE f : f = Filled(n, f)
<1>1. last \in Nat /\ ranked \in [1..last -> DOMAIN n.txs]
  BY RankedFacts
<1>2. Confirmed(n.txs) = upto[last]
  BY DEF Confirmed, Filled
<1>3. \A f : Filled(n, f) = [i \in 0..last |-> IF i = 0 THEN {} ELSE Extended(n.txs, f[i - 1], ranked[i])]
  BY DEF Filled
<1> HIDE DEF last, ranked, X
<1>4. {} \in X
  <2>1. ClosedUp(n, {})
    BY DEF ClosedUp
  <2>2. WeightOf(n.txs, {}) = 0
    <3>1. SumOver(Sizes(n.txs), {}) = Total(Sizes(n.txs), {}) /\ Total(Sizes(n.txs), {}) = 0
      <4>1. IsFiniteSet({})
        BY FS_EmptySet
      <4>2. QED
        BY <4>1, SumFacts, TotalStep
    <3>2. QED
      BY <3>1 DEF WeightOf
  <2>3. QED
    BY <2>1, <2>2, MockNodeAssumption DEF Minable, X
<1>5. step \in [Nat \X X -> X]
  BY <1>1, ExtendedFacts DEF X
<1>6. PICK f \in [0..last -> X] : Repeats(f, last, {}, step)
  <2> HIDE DEF step
  <2>1. QED
    BY <1>1, <1>4, <1>5, RepetitionSolves
<1>7. \A k \in 1..last : f[k] = Extended(n.txs, f[k - 1], ranked[k])
  <2>1. ASSUME NEW k \in 1..last PROVE f[k] = Extended(n.txs, f[k - 1], ranked[k])
    <3>1. k - 1 \in 0..last /\ k \in Nat
      BY <1>1
    <3>2. f[k - 1] \in X
      BY <3>1
    <3>3. f[k] = step[<<k, f[k - 1]>>]
      BY <1>6 DEF Repeats
    <3>4. QED
      BY <3>1, <3>2, <3>3
  <2>2. QED
    BY <2>1
<1> HIDE DEF step
<1>8. f = Filled(n, f)
  <2> DEFINE g == [i \in 0..last |-> IF i = 0 THEN {} ELSE Extended(n.txs, f[i - 1], ranked[i])]
  <2>1. ASSUME NEW i \in 0..last PROVE f[i] = g[i]
    <3>1. CASE i = 0
      BY <1>6, <3>1 DEF Repeats
    <3>2. CASE i # 0
      <4>1. i \in 1..last
        BY <1>1, <3>2
      <4>2. QED
        BY <1>7, <3>2, <4>1
    <3>3. QED
      BY <3>1, <3>2
  <2>2. DOMAIN f = 0..last /\ f = [i \in 0..last |-> f[i]]
    OBVIOUS
  <2>3. DOMAIN g = 0..last /\ g = [i \in 0..last |-> g[i]]
    OBVIOUS
  <2>4. Filled(n, f) = g
    BY <1>3
  <2> HIDE DEF g
  <2>5. QED
    BY <2>1, <2>2, <2>3, <2>4
<1>9. upto = Filled(n, upto)
  BY <1>8
<1> HIDE DEF upto
<1>10. ASSUME NEW i \in 0..last PROVE upto[i] \in X
  <2> DEFINE T == {j \in Nat : j \in 0..last => upto[j] \in X}
  <2>1. 0 \in T
    <3>1. upto[0] = {}
      BY <1>1, <1>3, <1>9
    <3>2. QED
      BY <1>4, <3>1
  <2>2. ASSUME NEW j \in T, j + 1 \in 0..last PROVE upto[j + 1] \in X
    <3>1. j \in 0..last /\ upto[j] \in X /\ j + 1 \in 1..last /\ (j + 1) - 1 = j /\ j + 1 # 0
      BY <1>1, <2>2
    <3>2. upto[j + 1] = Extended(n.txs, upto[j], ranked[j + 1])
      BY <1>3, <1>9, <2>2, <3>1
    <3>3. QED
      BY <1>1, <3>1, <3>2, ExtendedFacts DEF X
  <2>3. T = Nat
    <3>1. T \subseteq Nat /\ \A j \in T : j + 1 \in T
      BY <2>2
    <3> HIDE DEF T
    <3>2. QED
      BY <2>1, <3>1, AllNumbers
  <2>4. QED
    BY <1>1, <2>3
<1>11. last \in 0..last
  BY <1>1
<1>12. QED
  BY <1>2, <1>10, <1>11 DEF X

\* Mining takes whole packages and leaves a sound node.
LEMMA MinedSound ==
  ASSUME NEW n \in SoundNodes
  PROVE  Mined(n) \in SoundNodes
<1> DEFINE m == ConfirmSet(n, Confirmed(n.txs))
<1>1. m \in SoundNodes
  BY ConfirmedFacts, ConfirmSound DEF Minable
<1>2. m \in Nodes /\ m.tip_height + 1 \in Nat
  BY <1>1, NodeFacts DEF SoundNodes
<1> DEFINE r == [m EXCEPT !.tip_height = @ + 1]
<1>3. Mined(n) = r
  BY DEF Mined
<1> HIDE DEF m
<1>4. r \in Nodes /\ r.txs = m.txs /\ r.children = m.children
  BY <1>2 DEF Nodes
<1> HIDE DEF r
<1>5. Sound(r)
  BY <1>1, <1>4 DEF SoundNodes, Sound, LinksWhole, ChainsBounded, TotalsLinked
<1>6. QED
  BY <1>3, <1>4, <1>5 DEF SoundNodes

-----------------------------------------------------------------------------
\* Churn.

LEMMA ArrivalSound ==
  ASSUME NEW n \in SoundNodes, NEW m \in Arrival(n)
  PROVE  m \in SoundNodes
<1>1. PICK t \in Txid \ DOMAIN n.txs :
          \/ \E p \in Eligible(n), v \in Vsizes : m = AttachChild(n, p, t, v)
          \/ \E v \in Vsizes, r \in Rates : m = [n EXCEPT !.txs = With(n.txs, t, Standalone(v, r))]
  BY DEF Arrival
<1>2. CASE \E p \in Eligible(n), v \in Vsizes : m = AttachChild(n, p, t, v)
  BY <1>2, AttachSound
<1>3. CASE \E v \in Vsizes, r \in Rates : m = [n EXCEPT !.txs = With(n.txs, t, Standalone(v, r))]
  BY <1>3, StandaloneSound
<1>4. QED
  BY <1>1, <1>2, <1>3

LEMMA EvictionSound ==
  ASSUME NEW n \in SoundNodes, NEW m \in Eviction(n)
  PROVE  m \in SoundNodes
BY RemoveSound DEF Eviction

\* Rounds of a step that keeps nodes in X: the sets of nodes after each.
AreRounds(f, times, S, next) ==
    f[0] = S /\ \A k \in 1..times : f[k] = UNION {next[n] : n \in f[k - 1]}

LEMMA RoundsSolve ==
  ASSUME NEW X, NEW S \in SUBSET X, NEW next \in [X -> SUBSET X], NEW times \in Nat
  PROVE  \E f \in [0..times -> SUBSET X] : AreRounds(f, times, S, next)
<1> DEFINE step == [a \in Nat \X SUBSET X |-> UNION {next[n] : n \in a[2]}]
<1>1. step \in [Nat \X SUBSET X -> SUBSET X]
  OBVIOUS
<1>2. PICK f \in [0..times -> SUBSET X] : Repeats(f, times, S, step)
  <2> HIDE DEF step
  <2>1. QED
    BY <1>1, RepetitionSolves
<1>3. ASSUME NEW k \in 1..times PROVE f[k] = UNION {next[n] : n \in f[k - 1]}
  <2>1. k - 1 \in 0..times /\ k \in Nat
    OBVIOUS
  <2>2. f[k] = step[<<k, f[k - 1]>>] /\ f[k - 1] \in SUBSET X
    BY <1>2, <2>1 DEF Repeats
  <2>3. QED
    BY <2>1, <2>2
<1>4. QED
  BY <1>2, <1>3 DEF Repeats, AreRounds

LEMMA RoundsStay ==
  ASSUME NEW X, NEW S \in SUBSET X, NEW times \in Nat, NEW f, f[0] = S,
         \A k \in 1..times : f[k - 1] \in SUBSET X => f[k] \in SUBSET X
  PROVE  f[times] \in SUBSET X
<1> DEFINE T == {j \in Nat : j \in 0..times => f[j] \in SUBSET X}
<1>1. 0 \in T
  OBVIOUS
<1>2. ASSUME NEW j \in T PROVE j + 1 \in T
  <2>1. SUFFICES ASSUME j + 1 \in 0..times PROVE f[j + 1] \in SUBSET X
    OBVIOUS
  <2>2. j \in 0..times /\ j + 1 \in 1..times /\ (j + 1) - 1 = j
    BY <2>1
  <2>3. f[j] \in SUBSET X
    BY <2>2
  <2>4. QED
    BY <2>2, <2>3
<1>3. T = Nat
  <2>1. T \subseteq Nat
    OBVIOUS
  <2> HIDE DEF T
  <2>2. QED
    BY <1>1, <1>2, <2>1, AllNumbers
<1>4. QED
  BY <1>3

LEMMA ArrivalsSound ==
  ASSUME NEW S \in SUBSET SoundNodes, NEW times \in Nat
  PROVE  Repeated(Arrival, times, S) \subseteq SoundNodes
<1> DEFINE table(f) == [k \in 0..times |-> IF k = 0 THEN S ELSE UNION {Arrival(n) : n \in f[k - 1]}]
           after == CHOOSE f : f = table(f)
           next == [n \in SoundNodes |-> Arrival(n)]
<1>1. Repeated(Arrival, times, S) = after[times]
  BY DEF Repeated
<1>2. next \in [SoundNodes -> SUBSET SoundNodes]
  BY ArrivalSound
<1>3. PICK f \in [0..times -> SUBSET SoundNodes] : AreRounds(f, times, S, next)
  <2> HIDE DEF next
  <2>1. QED
    BY <1>2, RoundsSolve
<1>4. f = table(f)
  <2>1. ASSUME NEW k \in 0..times PROVE f[k] = table(f)[k]
    <3>1. CASE k = 0
      BY <1>3, <3>1 DEF AreRounds
    <3>2. CASE k # 0
      <4>1. k \in 1..times /\ k - 1 \in 0..times
        BY <3>2
      <4>2. f[k - 1] \in SUBSET SoundNodes
        BY <4>1
      <4>3. UNION {next[n] : n \in f[k - 1]} = UNION {Arrival(n) : n \in f[k - 1]}
        BY <4>2
      <4>4. QED
        BY <1>3, <3>2, <4>1, <4>3 DEF AreRounds
    <3>3. QED
      BY <3>1, <3>2
  <2>2. QED
    BY <2>1
<1>5. after = table(after)
  <2> HIDE DEF table
  <2>1. QED
    BY <1>4
<1> HIDE DEF after
<1>6. after[0] = S
  BY <1>5
<1>7. ASSUME NEW k \in 1..times, after[k - 1] \in SUBSET SoundNodes
      PROVE  after[k] \in SUBSET SoundNodes
  <2>1. k \in 0..times /\ k # 0
    OBVIOUS
  <2>2. after[k] = UNION {Arrival(n) : n \in after[k - 1]}
    BY <1>5, <2>1
  <2>3. QED
    BY <1>7, <2>2, ArrivalSound
<1>8. after[times] \in SUBSET SoundNodes
  BY <1>6, <1>7, RoundsStay
<1>9. QED
  BY <1>1, <1>8

LEMMA EvictionsSound ==
  ASSUME NEW S \in SUBSET SoundNodes, NEW times \in Nat
  PROVE  Repeated(Eviction, times, S) \subseteq SoundNodes
<1> DEFINE table(f) == [k \in 0..times |-> IF k = 0 THEN S ELSE UNION {Eviction(n) : n \in f[k - 1]}]
           after == CHOOSE f : f = table(f)
           next == [n \in SoundNodes |-> Eviction(n)]
<1>1. Repeated(Eviction, times, S) = after[times]
  BY DEF Repeated
<1>2. next \in [SoundNodes -> SUBSET SoundNodes]
  BY EvictionSound
<1>3. PICK f \in [0..times -> SUBSET SoundNodes] : AreRounds(f, times, S, next)
  <2> HIDE DEF next
  <2>1. QED
    BY <1>2, RoundsSolve
<1>4. f = table(f)
  <2>1. ASSUME NEW k \in 0..times PROVE f[k] = table(f)[k]
    <3>1. CASE k = 0
      BY <1>3, <3>1 DEF AreRounds
    <3>2. CASE k # 0
      <4>1. k \in 1..times /\ k - 1 \in 0..times
        BY <3>2
      <4>2. f[k - 1] \in SUBSET SoundNodes
        BY <4>1
      <4>3. UNION {next[n] : n \in f[k - 1]} = UNION {Eviction(n) : n \in f[k - 1]}
        BY <4>2
      <4>4. QED
        BY <1>3, <3>2, <4>1, <4>3 DEF AreRounds
    <3>3. QED
      BY <3>1, <3>2
  <2>2. QED
    BY <2>1
<1>5. after = table(after)
  <2> HIDE DEF table
  <2>1. QED
    BY <1>4
<1> HIDE DEF after
<1>6. after[0] = S
  BY <1>5
<1>7. ASSUME NEW k \in 1..times, after[k - 1] \in SUBSET SoundNodes
      PROVE  after[k] \in SUBSET SoundNodes
  <2>1. k \in 0..times /\ k # 0
    OBVIOUS
  <2>2. after[k] = UNION {Eviction(n) : n \in after[k - 1]}
    BY <1>5, <2>1
  <2>3. QED
    BY <1>7, <2>2, EvictionSound
<1>8. after[times] \in SUBSET SoundNodes
  BY <1>6, <1>7, RoundsStay
<1>9. QED
  BY <1>1, <1>8

LEMMA AdvancedSound ==
  ASSUME NEW n \in SoundNodes
  PROVE  Advanced(n) \subseteq SoundNodes
<1> DEFINE m == [n EXCEPT !.reloading = FALSE]
<1>1. m \in Nodes /\ m.txs = n.txs /\ m.children = n.children
  BY DEF Nodes, SoundNodes
<1>2. m \in SoundNodes
  <2> HIDE DEF m
  <2>1. QED
    BY <1>1 DEF SoundNodes, Sound, LinksWhole, ChainsBounded, TotalsLinked
<1> HIDE DEF m
<1>3. EvictionsPerTick \in Nat /\ ArrivalsPerTick \in Nat
  BY MockNodeAssumption
<1>4. Repeated(Eviction, EvictionsPerTick, {m}) \in SUBSET SoundNodes
  BY <1>2, <1>3, EvictionsSound
<1>5. QED
  BY <1>3, <1>4, ArrivalsSound DEF Advanced, m

LEMMA ReloadedSound ==
  ASSUME NEW n \in SoundNodes
  PROVE  Reloaded(n) \in SoundNodes
<1> DEFINE m == [n EXCEPT !.reloading = TRUE]
<1>1. m \in Nodes /\ m.txs = n.txs /\ m.children = n.children
  BY DEF Nodes, SoundNodes
<1>2. Reloaded(n) = m
  BY DEF Reloaded
<1> HIDE DEF m
<1>3. QED
  BY <1>1, <1>2 DEF SoundNodes, Sound, LinksWhole, ChainsBounded, TotalsLinked

LEMMA MassDroppedSound ==
  ASSUME NEW n \in SoundNodes, NEW num \in Nat, NEW den \in Nat \ {0}
  PROVE  MassDropped(n, num, den) \subseteq SoundNodes
<1>1. Cardinality(DOMAIN n.txs) \in Nat
  BY RankedFacts
<1>2. \A c \in Nat : (c * num) \div den \in Nat
  <2>1. ASSUME NEW c \in Nat PROVE (c * num) \div den \in Nat
    <3>1. c * num \in Nat
      OBVIOUS
    <3>2. \A x \in Nat : x \div den \in Nat
      OBVIOUS
    <3>3. QED
      BY <3>1, <3>2
  <2>2. QED
    BY <2>1
<1>3. (Cardinality(DOMAIN n.txs) * num) \div den \in Nat
  BY <1>1, <1>2
<1>4. QED
  BY <1>3, EvictionsSound DEF MassDropped

LEMMA NewSound == NewNodes(InitialSize) \subseteq SoundNodes
<1> DEFINE n == [txs |-> <<>>, children |-> <<>>, tip_height |-> 0, reloading |-> FALSE]
<1>1. <<>> \in TxMaps /\ <<>> \in ChildMaps /\ DOMAIN <<>> = {}
  <2>1. DOMAIN <<>> = {} /\ <<>> = [x \in {} |-> x]
    OBVIOUS
  <2>2. <<>> \in [{} -> Entry] /\ <<>> \in [{} -> Txid]
    BY <2>1
  <2>3. QED
    BY <2>1, <2>2 DEF TxMaps, ChildMaps
<1>2. n \in Nodes /\ DOMAIN n.txs = {} /\ DOMAIN n.children = {}
  BY <1>1 DEF Nodes
<1> HIDE DEF n
<1>3. DOMAIN Parents(n.txs) = {}
  BY <1>2 DEF Parents
<1>4. Sound(n)
  BY <1>2, <1>3 DEF Sound, LinksWhole, Rooted, ChainsBounded, TotalsLinked
<1>5. n \in SoundNodes /\ InitialSize \in Nat
  BY <1>2, <1>4, SimRpcAssumption DEF SoundNodes
<1>6. QED
  BY <1>5, ArrivalsSound DEF NewNodes, n

-----------------------------------------------------------------------------
\* What is linked rightly is right as a whole.

\* A total that counts its own and the next one's counts all along the way.
LEMMA TotalAlong ==
  ASSUME NEW D, IsFiniteSet(D), NEW next, Rooted(next),
         \A t \in D : t \in DOMAIN next => next[t] \in D,
         NEW own, \A t \in D : own[t] \in Nat, NEW sum,
         \A t \in D : t \notin DOMAIN next => sum[t] = own[t],
         \A t \in D : t \in DOMAIN next => sum[t] = own[t] + sum[next[t]]
  PROVE  \A t \in D : Along(next, t) \subseteq D /\ sum[t] = SumOver(own, Along(next, t))
<1>1. ASSUME NEW t \in D PROVE Along(next, t) \subseteq D /\ IsFiniteSet(Along(next, t))
  <2>1. Follows(next, D)
    BY DEF Follows
  <2>2. Along(next, t) \subseteq D
    BY <2>1, AlongFacts
  <2>3. QED
    BY <2>2, FS_Subset
<1>2. ASSUME NEW t \in D
      PROVE  /\ Total(own, Along(next, t)) \in Nat
             /\ SumOver(own, Along(next, t)) = Total(own, Along(next, t))
  BY <1>1, SumFacts
<1> DEFINE T == {t \in D : sum[t] # Total(own, Along(next, t))}
<1>3. ASSUME T # {} PROVE FALSE
  <2>1. PICK t \in T : t \in DOMAIN next => next[t] \notin T
    BY <1>3 DEF Rooted
  <2>2. CASE t \notin DOMAIN next
    <3>1. Along(next, t) = {} \cup {t}
      BY <2>2, AlongFirst
    <3>2. IsFiniteSet({}) /\ Total(own, {}) = 0
      BY FS_EmptySet, TotalStep
    <3>3. Total(own, {} \cup {t}) = own[t] + Total(own, {})
      BY <3>2, TotalAdd
    <3>4. own[t] \in Nat /\ sum[t] = own[t]
      BY <2>2
    <3>5. QED
      BY <3>1, <3>2, <3>3, <3>4
  <2>3. CASE t \in DOMAIN next
    <3> DEFINE way == Along(next, next[t])
    <3>1. next[t] \in D /\ next[t] \notin T
      BY <2>1, <2>3
    <3>2. IsFiniteSet(way) /\ \A x \in way : own[x] \in Nat
      BY <1>1, <3>1
    <3>3. t \notin way
      BY <2>3, RootedNoReturn
    <3>4. Along(next, t) = way \cup {t}
      BY <2>3, AlongFirst
    <3>5. sum[next[t]] = Total(own, way)
      BY <3>1
    <3>6. own[t] \in Nat /\ sum[t] = own[t] + sum[next[t]]
      BY <2>3
    <3> HIDE DEF way
    <3>7. Total(own, way \cup {t}) = own[t] + Total(own, way)
      BY <3>2, <3>3, <3>6, TotalAdd
    <3>8. QED
      BY <3>4, <3>5, <3>6, <3>7
  <2>4. QED
    BY <2>2, <2>3
<1>4. QED
  BY <1>1, <1>2, <1>3

\* The children index leads the same ways, downwards.
LEMMA Downwards ==
  ASSUME NEW n \in SoundNodes
  PROVE  /\ Rooted(n.children)
         /\ \A t \in DOMAIN n.txs :
                Along(n.children, t) = {d \in DOMAIN n.txs : t \in Along(Parents(n.txs), d)}
<1> DEFINE D == DOMAIN n.txs
           next == Parents(n.txs)
           children == n.children
<1>1. /\ \A x \in DOMAIN next : /\ x \in D /\ next[x] \in D
                                /\ next[x] \in DOMAIN children /\ children[next[x]] = x
      /\ \A p \in DOMAIN children : /\ p \in D /\ children[p] \in DOMAIN next
                                    /\ next[children[p]] = p
  BY LinkFacts
<1>2. Rooted(next) /\ IsFiniteSet(D)
  BY RankedFacts DEF SoundNodes, Sound
<1> HIDE DEF next, children, D
<1>3. ASSUME NEW S, S # {}, \A y \in S : y \in DOMAIN children /\ children[y] \in S PROVE FALSE
  <2> DEFINE f == [y \in S |-> children[y]]
             I == {children[y] : y \in S}
  <2>1. S \subseteq D /\ IsFiniteSet(S)
    BY <1>1, <1>2, <1>3, FS_Subset
  <2>2. f \in [S -> I] /\ I \in SUBSET S
    BY <1>3
  <2>3. CASE I = S
    <3>1. \A y \in S : y \in DOMAIN next /\ next[y] \in S
      BY <1>1, <1>3, <2>3
    <3>2. QED
      BY <1>2, <1>3, <3>1 DEF Rooted
  <2>4. CASE I # S
    <3>1. \A x, y \in S : f[x] = f[y] => x = y
      <4>1. \A x, y \in S : children[x] = children[y] => x = y
        BY <1>1, <1>3
      <4>2. QED
        BY <4>1
    <3> HIDE DEF f, I
    <3>2. IsFiniteSet(I) /\ Cardinality(I) < Cardinality(S)
      BY <2>1, <2>2, <2>4, FewerMembers, FS_Subset
    <3>3. \E x, y \in S : x # y /\ f[x] = f[y]
      BY <2>1, <2>2, <3>2, FS_PigeonHole
    <3>4. QED
      BY <3>1, <3>3
  <2>5. QED
    BY <2>3, <2>4
<1>4. Rooted(children)
  BY <1>3 DEF Rooted
<1>5. ASSUME NEW t \in D PROVE Along(children, t) = {d \in D : t \in Along(next, d)}
  <2> DEFINE below == {d \in D : t \in Along(next, d)}
  <2>1. t \in below
    BY AlongFacts
  <2>2. ASSUME NEW d \in below, d \in DOMAIN children PROVE children[d] \in below
    <3>1. children[d] \in DOMAIN next /\ next[children[d]] = d /\ children[d] \in D
      BY <1>1, <2>2
    <3>2. Along(next, children[d]) = {children[d]} \cup Along(next, d)
      BY <3>1, AlongFirst
    <3>3. QED
      BY <3>1, <3>2
  <2>3. Along(children, t) \subseteq below
    <3>1. Follows(children, below)
      BY <2>2 DEF Follows
    <3> HIDE DEF below
    <3>2. QED
      BY <2>1, <3>1, AlongFacts
  <2> DEFINE W == {d \in below : d \notin Along(children, t)}
  <2>4. ASSUME W # {} PROVE FALSE
    <3>1. PICK d \in W : d \in DOMAIN next => next[d] \notin W
      BY <1>2, <2>4 DEF Rooted
    <3>2. d # t
      BY <3>1, AlongFacts
    <3>3. t \in Along(next, d) /\ d \in D
      OBVIOUS
    <3>4. d \in DOMAIN next /\ t \in Along(next, next[d])
      BY <3>2, <3>3, AlongFirst
    <3>5. next[d] \in D /\ next[d] \in DOMAIN children /\ children[next[d]] = d
      BY <1>1, <3>4
    <3>6. next[d] \in Along(children, t)
      BY <3>1, <3>4, <3>5
    <3>7. d \in Along(children, t)
      BY <3>5, <3>6, AlongFacts DEF Follows
    <3>8. QED
      BY <3>7
  <2>5. QED
    BY <2>3, <2>4
<1>6. QED
  BY <1>4, <1>5 DEF D, next, children

LEMMA SoundTotals ==
  ASSUME NEW n \in SoundNodes
  PROVE  TotalsTrue(n)
<1> DEFINE D == DOMAIN n.txs
           next == Parents(n.txs)
           children == n.children
           size == Sizes(n.txs)
           fee == Fees(n.txs)
           asize == [t \in D |-> n.txs[t].ancestorsize]
           afee == [t \in D |-> n.txs[t].ancestor]
           dsize == [t \in D |-> n.txs[t].descendantsize]
           dfee == [t \in D |-> n.txs[t].descendant]
<1>1. /\ \A t \in D : n.txs[t] \in Entry /\ (t \in DOMAIN next <=> n.txs[t].depends # NoTx)
      /\ \A x \in DOMAIN next : x \in D /\ next[x] \in D /\ next[x] = n.txs[x].depends
      /\ \A p \in DOMAIN children : p \in D /\ children[p] \in D
  BY LinkFacts
<1>2. IsFiniteSet(D) /\ Rooted(next) /\ TotalsLinked(n)
  BY RankedFacts DEF SoundNodes, Sound
<1>3. /\ Rooted(children)
      /\ \A t \in D : Along(children, t) = {d \in D : t \in Along(next, d)}
  BY Downwards
<1>4. \A t \in D : /\ size[t] = n.txs[t].vsize /\ fee[t] = n.txs[t].base
                   /\ size[t] \in Nat /\ fee[t] \in Nat
  BY <1>1, EntryParts DEF Sizes, Fees
<1>5. \A t \in D : /\ asize[t] = n.txs[t].ancestorsize /\ afee[t] = n.txs[t].ancestor
                   /\ dsize[t] = n.txs[t].descendantsize /\ dfee[t] = n.txs[t].descendant
  OBVIOUS
<1> HIDE DEF next, children, size, fee, asize, afee, dsize, dfee
<1>6. \A t \in D : /\ t \notin DOMAIN next => asize[t] = size[t]
                   /\ t \notin DOMAIN next => afee[t] = fee[t]
                   /\ t \in DOMAIN next => asize[t] = size[t] + asize[next[t]]
                   /\ t \in DOMAIN next => afee[t] = fee[t] + afee[next[t]]
  BY <1>1, <1>2, <1>4, <1>5 DEF TotalsLinked
<1>7. \A t \in D : /\ t \notin DOMAIN children => dsize[t] = size[t]
                   /\ t \notin DOMAIN children => dfee[t] = fee[t]
                   /\ t \in DOMAIN children => dsize[t] = size[t] + dsize[children[t]]
                   /\ t \in DOMAIN children => dfee[t] = fee[t] + dfee[children[t]]
  BY <1>1, <1>2, <1>4, <1>5 DEF TotalsLinked, children
<1> HIDE DEF D
<1>8. \A t \in D : asize[t] = SumOver(size, Along(next, t))
  BY <1>1, <1>2, <1>4, <1>6, TotalAlong
<1>9. \A t \in D : afee[t] = SumOver(fee, Along(next, t))
  BY <1>1, <1>2, <1>4, <1>6, TotalAlong
<1>10. \A t \in D : dsize[t] = SumOver(size, Along(children, t))
  BY <1>1, <1>2, <1>3, <1>4, <1>7, TotalAlong
<1>11. \A t \in D : dfee[t] = SumOver(fee, Along(children, t))
  BY <1>1, <1>2, <1>3, <1>4, <1>7, TotalAlong
<1>12. ASSUME NEW t \in D
       PROVE  /\ {t} \cup AncestorsOf(n.txs, t) = Along(next, t)
              /\ {d \in D : t \in {d} \cup AncestorsOf(n.txs, d)} = Along(children, t)
  <2>1. \A d : {d} \cup AncestorsOf(n.txs, d) = Along(next, d)
    BY AlongFacts DEF AncestorsOf, next
  <2>2. QED
    BY <1>3, <2>1
<1>13. ASSUME NEW t \in D
       PROVE  /\ n.txs[t].ancestorsize = SumOver(size, {t} \cup AncestorsOf(n.txs, t))
              /\ n.txs[t].ancestor = SumOver(fee, {t} \cup AncestorsOf(n.txs, t))
              /\ n.txs[t].descendantsize =
                    SumOver(size, {d \in D : t \in {d} \cup AncestorsOf(n.txs, d)})
              /\ n.txs[t].descendant =
                    SumOver(fee, {d \in D : t \in {d} \cup AncestorsOf(n.txs, d)})
  BY <1>5, <1>8, <1>9, <1>10, <1>11, <1>12
<1>14. QED
  BY <1>13 DEF TotalsTrue, D, size, fee

-----------------------------------------------------------------------------
\* The simulated node behind the network.

\* Whatever the clients, the churn task or a test do, the node is sound.
NodeInv ==
    /\ node \in SoundNodes
    /\ http \in BOOLEAN
    /\ tick \in 0..MaxTicks /\ blocks \in 0..tick
    /\ call \in [Clients -> Requests \cup {Idle}]
    /\ reply \in Replies

LEMMA InitNode == Init => NodeInv
<1> SUFFICES ASSUME Init PROVE NodeInv
  OBVIOUS
<1>1. node \in SoundNodes
  BY NewSound DEF Init
<1>2. tick \in 0..MaxTicks /\ blocks \in 0..tick
  BY SimRpcAssumption DEF Init
<1>3. call \in [Clients -> Requests \cup {Idle}] /\ reply \in Replies /\ http \in BOOLEAN
  BY DEF Init, Replies
<1>4. QED
  BY <1>1, <1>2, <1>3 DEF NodeInv

LEMMA StepNode == NodeInv /\ [Next]_vars => NodeInv'
<1> SUFFICES ASSUME NodeInv, [Next]_vars PROVE NodeInv'
  OBVIOUS
<1>1. ASSUME UNCHANGED <<http, churn>>, call' \in [Clients -> Requests \cup {Idle}],
             reply' \in Replies
      PROVE  NodeInv'
  BY <1>1 DEF NodeInv, churn
<1>2. ASSUME NEW c \in Clients, CallDropped(c) \/ CallRefused(c) PROVE NodeInv'
  <2>1. UNCHANGED <<http, churn, call>> /\ reply' \in Replies
    BY <1>2 DEF CallDropped, CallRefused, Replies
  <2>2. QED
    BY <1>1, <2>1 DEF NodeInv
<1>3. ASSUME NEW c \in Clients, CallAdmitted(c) PROVE NodeInv'
  <2>1. /\ UNCHANGED <<http, churn>> /\ reply' = "none"
        /\ \E req \in Requests : call' = [call EXCEPT ![c] = req]
    BY <1>3 DEF CallAdmitted
  <2>2. call' \in [Clients -> Requests \cup {Idle}] /\ reply' \in Replies
    BY <2>1 DEF NodeInv, Replies
  <2>3. QED
    BY <1>1, <2>1, <2>2
<1>4. ASSUME NEW c \in Clients, CallAnswered(c) PROVE NodeInv'
  <2>1. UNCHANGED <<http, churn>> /\ call' = [call EXCEPT ![c] = Idle]
    BY <1>4 DEF CallAnswered
  <2>2. reply' \in Replies
    BY <1>4 DEF CallAnswered, ReplyTo, Replies
  <2>3. QED
    BY <1>1, <2>1, <2>2 DEF NodeInv
<1>5. CASE ChurnTick
  <2>1. PICK n \in Advanced(node) :
          \/ node' = n
          \/ node' = Mined(n)
          \/ \E d \in MassDropped(Mined(n), DropNum, DropDen) : node' = Reloaded(d)
    BY <1>5 DEF ChurnTick
  <2>2. n \in SoundNodes /\ Mined(n) \in SoundNodes
    BY AdvancedSound, MinedSound DEF NodeInv
  <2>3. MassDropped(Mined(n), DropNum, DropDen) \subseteq SoundNodes
    BY <2>2, MassDroppedSound, SimRpcAssumption
  <2>4. node' \in SoundNodes
    BY <2>1, <2>2, <2>3, ReloadedSound
  <2>5. /\ tick < MaxTicks /\ tick' = tick + 1 /\ (blocks' = blocks + 1 \/ blocks' = blocks)
        /\ UNCHANGED <<http, call>> /\ reply' \in Replies
    BY <1>5 DEF ChurnTick, Replies
  <2>6. tick' \in 0..MaxTicks /\ blocks' \in 0..tick'
    BY <2>5, SimRpcAssumption DEF NodeInv
  <2>7. QED
    BY <2>4, <2>5, <2>6 DEF NodeInv
<1>6. CASE TestStep
  <2>1. \/ node' \in Advanced(node)
        \/ node' = Mined(node)
        \/ node' \in MassDropped(node, DropNum, DropDen)
        \/ node' = Reloaded(node)
    BY <1>6 DEF TestStep
  <2>2. node \in SoundNodes
    BY DEF NodeInv
  <2>3. MassDropped(node, DropNum, DropDen) \subseteq SoundNodes
    BY <2>2, MassDroppedSound, SimRpcAssumption
  <2>4. node' \in SoundNodes
    BY <2>1, <2>2, <2>3, AdvancedSound, MinedSound, ReloadedSound
  <2>5. /\ tick < MaxTicks /\ tick' = tick + 1 /\ UNCHANGED <<http, blocks, call>>
        /\ reply' \in Replies
    BY <1>6 DEF TestStep, Replies
  <2>6. tick' \in 0..MaxTicks /\ blocks' \in 0..tick'
    BY <2>5, SimRpcAssumption DEF NodeInv
  <2>7. QED
    BY <2>4, <2>5, <2>6 DEF NodeInv
<1>7. CASE Elapse
  <2>1. UNCHANGED <<http, churn, call>> /\ reply' \in Replies
    BY <1>7 DEF Elapse, Replies
  <2>2. QED
    BY <1>1, <2>1 DEF NodeInv
<1>8. CASE UNCHANGED vars
  <2>1. UNCHANGED <<http, churn, call, reply>>
    BY <1>8 DEF vars
  <2>2. QED
    BY <1>1, <2>1 DEF NodeInv
<1>9. QED
  BY <1>2, <1>3, <1>4, <1>5, <1>6, <1>7, <1>8 DEF Next

LEMMA NodeInvariant == Spec => []NodeInv
BY InitNode, StepNode, PTL DEF Spec

\* Every variable of the simulation keeps its type, with the entries of its
\* node, and no bound is passed, in whatever order calls and churn come.
THEOREM SimulationTypeCorrect == Spec => []TypeOK
<1>1. LimiterInv /\ NodeInv => TypeOK
  <2> SUFFICES ASSUME LimiterInv, NodeInv PROVE TypeOK
    OBVIOUS
  <2>1. DOMAIN node.txs \subseteq Txid /\ \A t \in DOMAIN node.txs : node.txs[t] \in Entry
    BY NodeFacts DEF NodeInv, SoundNodes
  <2>2. blocks \in 0..MaxTicks /\ tick \in 0..MaxTicks
    BY SimRpcAssumption DEF NodeInv
  <2>3. \A c \in Clients : call[c] \in Requests \cup {Idle}
    BY DEF NodeInv
  <2>4. QED
    BY <2>1, <2>2, <2>3 DEF TypeOK, NodeInv, LimiterInv, Limit
<1>2. QED
  BY <1>1, InitLimiter, StepLimiter, NodeInvariant, PTL DEF Spec

\* Whatever mempool the node begins with, and in whatever order transactions
\* arrive, are evicted, dropped or mined: no transaction outlives its parent,
\* the children index is the inverse of `depends`, and no chain is too long.
THEOREM NodeHasNoOrphans == Spec => []NoOrphans
<1>1. NodeInv => NoOrphans
  BY DEF NodeInv, SoundNodes, Sound, NoOrphans
<1>2. QED
  BY <1>1, NodeInvariant, PTL

\* The ancestor and descendant totals that the node reports are at any time the
\* sums over its mempool as it is, after any number of evictions and blocks.
THEOREM NodeTotalsTruthful == Spec => []TotalsTruthful
<1>1. NodeInv => TotalsTruthful
  BY SoundTotals DEF NodeInv, TotalsTruthful
<1>2. QED
  BY <1>1, NodeInvariant, PTL

\* A block of the node, whenever it is mined, takes whole packages within a
\* block's weight.
THEOREM NodeBlocksTakePackages == Spec => []BlocksTakePackages
<1>1. ASSUME NodeInv PROVE BlocksTakePackages
  <2> DEFINE block == Confirmed(node.txs)
             next == Parents(node.txs)
  <2>1. block \in Minable(node)
    BY <1>1, ConfirmedFacts DEF NodeInv
  <2>2. Follows(next, block) /\ WeightOf(node.txs, block) <= BlockWeight
    BY <2>1 DEF Minable, ClosedUp, Follows
  <2>3. ASSUME NEW t \in block PROVE AncestorsOf(node.txs, t) \subseteq block
    <3>1. Along(next, t) \subseteq block
      BY <2>2, AlongFacts
    <3>2. QED
      BY <3>1 DEF AncestorsOf
  <2>4. QED
    BY <2>2, <2>3 DEF BlocksTakePackages
<1>2. QED
  BY <1>1, NodeInvariant, PTL
=============================================================================

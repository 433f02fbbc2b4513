------------------------- MODULE BlockListenerProofs -------------------------
\* The channel between the block listener and the sync loop, for every backoff
\* and every number of blocks and failures.
EXTENDS BlockListener, TLAPS

\* What both theorems need of the types: the channel holds at most one message.
ChannelType == wake \in 0..1 /\ received \in Nat /\ woken \in Nat

\* The inductive invariant.  NoSpuriousTicks needs the message in the channel
\* counted with the ticks already started, or taking it could break the bound.
ChannelInv == ChannelType /\ WakePending /\ NoSpuriousTicks

\* The channel is empty when the tasks are spawned.
LEMMA InitChannel == Init => ChannelInv
<1> SUFFICES ASSUME Init PROVE ChannelInv
  OBVIOUS
<1>1. wake = 0 /\ received = 0 /\ woken = 0 /\ ~unserved
  BY DEF Init
<1>2. QED
  BY <1>1 DEF ChannelInv, ChannelType, WakePending, NoSpuriousTicks

\* Steps that leave the channel and its history alone.
LEMMA ChannelFrame ==
  ChannelInv /\ UNCHANGED <<wake, received, woken, unserved>> => ChannelInv'
BY DEF ChannelInv, ChannelType, WakePending, NoSpuriousTicks

\* Every step of either task or of the node preserves the invariant.
LEMMA StepChannel == ChannelInv /\ [Next]_vars => ChannelInv'
<1> SUFFICES ASSUME ChannelInv, [Next]_vars
             PROVE  ChannelInv'
  OBVIOUS
<1>1. CASE NodeBlock
  BY <1>1, ChannelFrame DEF NodeBlock, sync
<1>2. CASE ListenerConnect
  BY <1>2, ChannelFrame DEF ListenerConnect, sync
<1>3. CASE ListenerFails
  BY <1>3, ChannelFrame DEF ListenerFails, sync
<1>4. CASE ListenerReceive
  \* try_send: the channel is full afterwards, whatever it held before.
  <2>1. wake' = 1 /\ received' = received + 1 /\ woken' = woken
    BY <1>4 DEF ListenerReceive, sync
  <2>2. QED
    BY <2>1 DEF ChannelInv, ChannelType, WakePending, NoSpuriousTicks
<1>5. CASE ListenerSleeps
  BY <1>5, ChannelFrame DEF ListenerSleeps, sync
<1>6. CASE ListenerRetry
  BY <1>6, ChannelFrame DEF ListenerRetry, sync
<1>7. CASE ColdStartEnds
  BY <1>7, ChannelFrame DEF ColdStartEnds
<1>8. CASE PollElapsed
  <2>1. UNCHANGED <<wake, woken, received>> /\ ~unserved'
    BY <1>8 DEF PollElapsed, StartTick
  <2>2. QED
    BY <2>1 DEF ChannelInv, ChannelType, WakePending, NoSpuriousTicks
<1>9. CASE Woken
  \* main's sender keeps the channel open, so recv has taken a message.
  <2>1. wake = 1
    BY <1>9 DEF Woken, Senders, ChannelInv, ChannelType
  <2>2. wake' = 0 /\ woken' = woken + 1 /\ ~unserved' /\ received' = received
    BY <1>9 DEF Woken, StartTick
  <2>3. QED
    BY <2>1, <2>2 DEF ChannelInv, ChannelType, WakePending, NoSpuriousTicks
<1>10. CASE TickEnds
  BY <1>10, ChannelFrame DEF TickEnds
<1>11. CASE UNCHANGED vars
  BY <1>11, ChannelFrame DEF vars, sync
<1>12. QED
  BY <1>1, <1>2, <1>3, <1>4, <1>5, <1>6, <1>7, <1>8, <1>9, <1>10, <1>11
     DEF Next, Listener, SyncLoop

\* No block event received by the listener is lost to the debouncing try_send,
\* in whichever phase of the sync loop it arrives.
THEOREM WakeNotLost == Spec => []WakePending
<1>1. ChannelInv => WakePending
  BY DEF ChannelInv
<1>2. QED
  BY <1>1, InitChannel, StepChannel, PTL DEF Spec

\* The channel starts at most one tick per event received: the sync loop does
\* not spin, because main keeps a sender alive.
THEOREM NoSpin == Spec => []NoSpuriousTicks
<1>1. ChannelInv => NoSpuriousTicks
  BY DEF ChannelInv
<1>2. QED
  BY <1>1, InitChannel, StepChannel, PTL DEF Spec

-----------------------------------------------------------------------------
\* Types, and the wait between two sessions.

\* A message in the socket was published, hence the bound on `inbox`.
InboxPublished == inbox <= tip

\* While the listener sleeps it has not slept past the delay, and the delay of
\* a session that had connected is the shortest.
SleepBounded == lpc = "sleep" => slept <= backoff /\ (connected => backoff = BackoffStart)

\* The inductive invariant.
ListenerInv == TypeOK /\ InboxPublished /\ SleepBounded

LEMMA InitListener == Init => ListenerInv
<1> SUFFICES ASSUME Init PROVE ListenerInv
  OBVIOUS
<1>1. /\ wake \in 0..1 /\ backoff \in BackoffStart..BackoffMax /\ slept \in 0..BackoffMax
      /\ tip \in 0..MaxBlocks /\ seen \in 0..MaxBlocks /\ inbox \in 0..MaxBlocks
      /\ faults \in 0..MaxFaults /\ received \in Nat /\ woken \in Nat
      /\ inbox <= tip
  BY ListenerAssumption DEF Init
<1>2. enabled \in BOOLEAN /\ connected \in BOOLEAN /\ unserved \in BOOLEAN
  BY DEF Init
<1>3. lpc \in {"off", "connect"} /\ spc = "cold"
  BY DEF Init
<1>4. QED
  BY <1>1, <1>2, <1>3 DEF ListenerInv, TypeOK, InboxPublished, SleepBounded

\* Doubling keeps the delay within its range.
LEMMA DoubledInRange ==
  ASSUME NEW delay \in BackoffStart..BackoffMax
  PROVE  Doubled(delay) \in BackoffStart..BackoffMax
BY ListenerAssumption DEF Doubled

\* Every step of either task or of the node preserves the invariant.
LEMMA StepListener == ListenerInv /\ [Next]_vars => ListenerInv'
<1> SUFFICES ASSUME ListenerInv, [Next]_vars
             PROVE  ListenerInv'
  OBVIOUS
<1> USE ListenerAssumption DEF ListenerInv, TypeOK, InboxPublished, SleepBounded
<1>1. CASE NodeBlock
  BY <1>1 DEF NodeBlock, listener, sync
<1>2. CASE ListenerConnect
  BY <1>2 DEF ListenerConnect, sync
<1>3. CASE ListenerFails
  <2>1. backoff' \in BackoffStart..BackoffMax /\ (connected => backoff' = BackoffStart)
    BY <1>3 DEF ListenerFails, SessionEnds
  <2>2. QED
    BY <1>3, <2>1 DEF ListenerFails, SessionEnds, sync
<1>4. CASE ListenerReceive
  BY <1>4 DEF ListenerReceive, listener, sync
<1>5. CASE ListenerSleeps
  BY <1>5 DEF ListenerSleeps, sync
<1>6. CASE ListenerRetry
  <2>1. backoff' \in BackoffStart..BackoffMax
    BY <1>6, DoubledInRange DEF ListenerRetry
  <2>2. QED
    BY <1>6, <2>1 DEF ListenerRetry, sync
<1>7. CASE ColdStartEnds
  BY <1>7 DEF ColdStartEnds, listener
<1>8. CASE PollElapsed
  BY <1>8 DEF PollElapsed, StartTick, listener
<1>9. CASE Woken
  <2>1. /\ spc' = "tick" /\ seen' = tip /\ wake' = 0 /\ woken' = woken + 1
        /\ UNCHANGED <<enabled, tip, inbox, faults, listener, received>>
    BY <1>9 DEF Woken, StartTick
  <2>2. unserved' \in BOOLEAN
    BY <1>9 DEF Woken, StartTick
  <2>3. QED
    BY <2>1, <2>2 DEF listener
<1>10. CASE TickEnds
  BY <1>10 DEF TickEnds, listener
<1>11. CASE UNCHANGED vars
  BY <1>11 DEF vars, listener, sync
<1>12. QED
  BY <1>1, <1>2, <1>3, <1>4, <1>5, <1>6, <1>7, <1>8, <1>9, <1>10, <1>11
     DEF Next, Listener, SyncLoop

\* Every variable keeps its type: the channel holds at most one message, the
\* backoff stays between its floor and its ceiling.
THEOREM ListenerTypes == Spec => []TypeOK
<1>1. ListenerInv => TypeOK
  BY DEF ListenerInv
<1>2. QED
  BY <1>1, InitListener, StepListener, PTL DEF Spec

\* A session that had connected is followed by the shortest wait, and no wait
\* is longer than BackoffMax, for every backoff and every number of failures.
THEOREM RecoveryIsFast == Spec => []FastRecovery
<1>1. ListenerInv => FastRecovery
  BY ListenerAssumption DEF ListenerInv, TypeOK, SleepBounded, FastRecovery
<1>2. QED
  BY <1>1, InitListener, StepListener, PTL DEF Spec
=============================================================================

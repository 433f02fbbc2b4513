---------------------------- MODULE BlockListener ----------------------------
(***************************************************************************)
(* The ZMQ block listener (zmq.rs), the capacity-1 channel on which it     *)
(* wakes the sync loop (main.rs) and the select! at which the loop waits   *)
(* (sync/mod.rs, run).  A tick is one step that starts and one that ends;  *)
(* what happens inside is the subject of MempoolSync.                      *)
(*                                                                         *)
(* The listener and the sync loop are two tasks of a multi-threaded        *)
(* runtime.  The publisher, its socket and the node are external.          *)
(***************************************************************************)
EXTENDS Integers

CONSTANTS
    BackoffStart,   \* BACKOFF_START
    BackoffMax,     \* BACKOFF_MAX
    MaxBlocks,      \* bound: blocks of the node
    MaxFaults       \* bound: failed connects and broken sessions

ASSUME ListenerAssumption ==
    /\ BackoffStart \in Nat \ {0}
    /\ BackoffMax \in Nat
    /\ BackoffStart <= BackoffMax
    /\ MaxBlocks \in Nat
    /\ MaxFaults \in Nat

VARIABLES
    enabled,     \* BTC_ZMQ_BLOCK is set
    \* The node.
    tip,         \* blocks so far
    inbox,       \* messages on the listener's socket that it has not read
    faults,
    \* The listener task.
    lpc,         \* "off", "connect", "recv", "sleep"
    connected,
    backoff,
    slept,       \* time slept since the session ended
    \* The channel and the sync loop.
    wake,        \* messages in the channel
    spc,         \* "cold", "select", "tick"
    \* History.
    seen,        \* blocks of the node when the latest tick started
    received,    \* block events that the listener has received
    woken,       \* ticks started by the channel
    unserved     \* an event was received since the latest tick started

listener == <<lpc, connected, backoff, slept>>
sync == <<spc, seen, woken>>
vars == <<enabled, tip, inbox, faults, listener, wake, sync, received, unserved>>

\* The tasks are spawned together; the sync loop begins with its cold start.
Init ==
    /\ enabled \in BOOLEAN
    /\ tip = 0 /\ inbox = 0 /\ faults = 0
    /\ lpc = IF enabled THEN "connect" ELSE "off"
    /\ connected = FALSE
    /\ backoff = BackoffStart /\ slept = 0
    /\ wake = 0 /\ spc = "cold"
    /\ seen = 0 /\ received = 0 /\ woken = 0 /\ unserved = FALSE

-----------------------------------------------------------------------------
\* The node publishes a block; only a connected subscriber may get the message.
NodeBlock ==
    /\ tip < MaxBlocks
    /\ tip' = tip + 1
    /\ inbox' \in {inbox} \cup (IF lpc = "recv" THEN {inbox + 1} ELSE {})
    /\ UNCHANGED <<enabled, faults, listener, wake, sync, received, unserved>>

-----------------------------------------------------------------------------
\* spawn_block_listener and run_once.

ListenerConnect ==
    /\ lpc = "connect" /\ lpc' = "recv"
    /\ connected' = TRUE
    /\ UNCHANGED <<enabled, tip, inbox, faults, backoff, slept, wake, sync, received, unserved>>

\* Mutant: the reset after a session that connected is missing.
SessionEnds_KeepsBackoff == lpc' = "sleep" /\ slept' = 0 /\ UNCHANGED backoff

\* Mutant: a session that ends for good ends the listener.
SessionEnds_Returns ==
    /\ lpc' = IF connected THEN "off" ELSE "sleep"
    /\ slept' = 0
    /\ backoff' = IF connected THEN BackoffStart ELSE backoff

\* run_once returned: begin the sleep that precedes the next session.
SessionEnds ==
    /\ lpc' = "sleep"
    /\ slept' = 0
    /\ backoff' = IF connected THEN BackoffStart ELSE backoff

\* Connect or subscribe fails, or the connection breaks; unread messages of the
\* socket are lost with it.
ListenerFails ==
    /\ lpc \in {"connect", "recv"}
    /\ faults < MaxFaults
    /\ faults' = faults + 1
    /\ inbox' = 0
    /\ SessionEnds
    /\ UNCHANGED <<enabled, tip, connected, wake, sync, received, unserved>>

\* try_send on a channel of capacity 1: a message that is already there stays
\* the only one.
ListenerReceive ==
    /\ lpc = "recv" /\ inbox > 0
    /\ inbox' = inbox - 1
    /\ wake' = 1
    /\ received' = received + 1
    /\ unserved' = TRUE
    /\ UNCHANGED <<enabled, tip, faults, listener, sync>>

ListenerSleeps ==
    /\ lpc = "sleep" /\ slept < backoff
    /\ slept' = slept + 1
    /\ UNCHANGED <<enabled, tip, inbox, faults, lpc, connected, backoff, wake, sync, received,
                   unserved>>

\* Mutant: the backoff grows without its ceiling.
Doubled_Uncapped(delay) == 2 * delay

\* The next backoff.
Doubled(delay) == IF 2 * delay < BackoffMax THEN 2 * delay ELSE BackoffMax

ListenerRetry ==
    /\ lpc = "sleep" /\ slept = backoff
    /\ lpc' = "connect"
    /\ connected' = FALSE
    /\ backoff' = Doubled(backoff)
    /\ UNCHANGED <<enabled, tip, inbox, faults, slept, wake, sync, received, unserved>>

-----------------------------------------------------------------------------
\* The channel and the sync loop.

\* Mutant: main drops its own sender.
Senders_ListenerOnly == IF enabled THEN {"listener"} ELSE {}

\* The senders alive: main keeps one for the lifetime of the process.
Senders == {"main"} \cup (IF enabled THEN {"listener"} ELSE {})

ColdStartEnds ==
    /\ spc = "cold" /\ spc' = "select"
    /\ UNCHANGED <<enabled, tip, inbox, faults, listener, wake, seen, woken, received, unserved>>

StartTick ==
    /\ spc = "select" /\ spc' = "tick"
    /\ seen' = tip
    /\ unserved' = FALSE

\* Mutant: the end of the interval only begins the next wait.
PollElapsed_WaitsAgain == spc = "select" /\ UNCHANGED vars

\* The poll interval elapsed; a message in the channel stays there.
PollElapsed ==
    /\ StartTick
    /\ UNCHANGED <<enabled, tip, inbox, faults, listener, wake, woken, received>>

\* recv resolves on a message, and at once on a channel without senders.
Woken ==
    /\ wake > 0 \/ Senders = {}
    /\ StartTick
    /\ wake' = 0
    /\ woken' = woken + 1
    /\ UNCHANGED <<enabled, tip, inbox, faults, listener, received>>

\* Mutant: events that came in during the tick are drained at its end.
TickEnds_Drains ==
    /\ spc = "tick" /\ spc' = "select"
    /\ wake' = 0
    /\ UNCHANGED <<enabled, tip, inbox, faults, listener, seen, woken, received, unserved>>

TickEnds ==
    /\ spc = "tick" /\ spc' = "select"
    /\ UNCHANGED <<enabled, tip, inbox, faults, listener, wake, seen, woken, received, unserved>>

-----------------------------------------------------------------------------
Listener == ListenerConnect \/ ListenerFails \/ ListenerReceive \/ ListenerSleeps \/ ListenerRetry

SyncLoop == ColdStartEnds \/ PollElapsed \/ Woken \/ TickEnds

Next == NodeBlock \/ Listener \/ SyncLoop

Spec == Init /\ [][Next]_vars

\* Both tasks run whenever they can: a sleep ends, a connect resolves.
FairSpec == Spec /\ WF_vars(Listener) /\ WF_vars(SyncLoop)

-----------------------------------------------------------------------------
\* The channel holds at most one message and the backoff keeps to its range.
TypeOK ==
    /\ wake \in 0..1
    /\ backoff \in BackoffStart..BackoffMax
    /\ slept \in 0..BackoffMax
    /\ tip \in 0..MaxBlocks /\ seen \in 0..MaxBlocks /\ inbox \in 0..MaxBlocks
    /\ faults \in 0..MaxFaults
    /\ received \in Nat /\ woken \in Nat
    /\ enabled \in BOOLEAN /\ connected \in BOOLEAN /\ unserved \in BOOLEAN
    /\ lpc \in {"off", "connect", "recv", "sleep"}
    /\ spc \in {"cold", "select", "tick"}

\* No wake-up is lost to the debouncing try_send: an event that came in after
\* the latest tick started, even in the middle of it or during the cold start,
\* leaves the channel ready for the next select!.
WakePending == unserved => wake = 1

\* The channel never makes the loop spin: it starts at most one tick per event
\* received, with or without a listener.
NoSpuriousTicks == woken + wake <= received

\* After a broken session the listener is back after BackoffStart, however
\* large the backoff had grown before, and it never waits beyond BackoffMax.
FastRecovery == lpc = "sleep" => slept <= IF connected THEN BackoffStart ELSE BackoffMax

\* The listener is an accelerator only: every block is followed by a tick that
\* started after it, even if its message was lost or the listener is down.
BlocksReflected == <>[](seen = tip)

\* Failures stop sooner or later, and the listener is then connected for good.
Reconnects == enabled => <>[](lpc = "recv")
=============================================================================

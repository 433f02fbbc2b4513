------------------------------ MODULE RpcClient ------------------------------
(***************************************************************************)
(* The RPC client (rpc.rs) across restarts of the node: which error each   *)
(* reply becomes, which errors make the sync loop rebuild the client, and  *)
(* how a rotated cookie is picked up.  The calls come in the order in      *)
(* which the startup probe (main.rs) and the sync loop (sync/mod.rs) make  *)
(* them; what the loop does with the answers is the subject of             *)
(* MempoolSync, so here it may go any way the code can go after a call.    *)
(*                                                                         *)
(* Authentication is by cookie, the only kind that can go stale.  A        *)
(* credential is the number of the node start that created it.             *)
(***************************************************************************)
EXTENDS Integers

CONSTANTS
    MaxAttempts,   \* MAX_ATTEMPTS of the startup probe
    MaxStarts,     \* bound: starts of the node
    MaxFaults      \* bound: bad replies of a node that runs

ASSUME ClientAssumption ==
    /\ MaxAttempts \in Nat \ {0}
    /\ MaxStarts \in Nat \ {0}
    /\ MaxFaults \in Nat

Errors == {"Auth", "Http", "HttpStatus", "Rpc", "RpcNotFound", "BodyTooLarge", "Decode"}
Calls == {"wait", "bulk_verbose", "bulk_info", "bulk_tip", "info", "txids", "entry", "tip"}
SetupErrors == {"Build", "Cookie"}
Unreadable == 0                 \* cookie file missing, empty or malformed
Credential == 1..MaxStarts

VARIABLES
    \* The node, external.
    up,         \* its RPC server runs
    starts,     \* the credential it accepts
    file,       \* what the cookie file holds
    faults,
    \* The process around the client, external.
    buildable,  \* building a connection pool would succeed (its TLS and DNS set-up)
    \* The client.
    auth,       \* the credential it sends
    \* The caller.
    phase,      \* "connect", "probe", "run", "exited"
    attempt,
    call,       \* the call the sync loop makes next
    steady,     \* past the cold start
    error       \* the latest error

outside == <<up, starts, file, buildable>>
vars == <<outside, faults, auth, phase, attempt, call, steady, error>>

Init ==
    /\ up \in BOOLEAN
    /\ starts = 1
    /\ file \in {Unreadable, 1}
    /\ faults = 0
    /\ buildable \in BOOLEAN
    /\ auth = Unreadable
    /\ phase = "connect" /\ attempt = 1
    /\ call = "wait" /\ steady = FALSE
    /\ error = "none"

-----------------------------------------------------------------------------
\* Replies and errors.

\* What comes back: "cut" is a connection that fails or times out, before the
\* headers or within the body; "foreign" a body that is no JSON-RPC envelope;
\* "unfit" an envelope whose result does not decode.
Reply == [status : {"ok", "denied", "other"},
          body : {"result", "unfit", "rpc_error", "not_found", "foreign", "too_large", "cut"}]

\* The error that `call` makes of a reply; "Ok" is none.  401 and 403 decide
\* before the body is read, the envelope decides before any other status.
Classify(reply) ==
    CASE reply.status = "denied" -> "Auth"
      [] reply.status # "denied" /\ reply.body = "cut" -> "Http"
      [] reply.status # "denied" /\ reply.body = "too_large" -> "BodyTooLarge"
      [] reply.status # "denied" /\ reply.body = "rpc_error" -> "Rpc"
      [] reply.status # "denied" /\ reply.body = "not_found" -> "RpcNotFound"
      [] reply.status # "denied" /\ reply.body = "result" -> "Ok"
      [] reply.status # "denied" /\ reply.body = "unfit" -> "Decode"
      [] reply.status = "ok" /\ reply.body = "foreign" -> "Decode"
      [] OTHER -> "HttpStatus"

\* mempool_entry turns the error -5 into Ok(None).
Result(c, reply) ==
    IF c = "entry" /\ Classify(reply) = "RpcNotFound" THEN "Ok" ELSE Classify(reply)

\* Mutant: only transport errors rebuild the client.
IsReconnectable_NotAuth(e) == e \in {"Http", "HttpStatus"}

IsReconnectable(e) == e \in {"Auth", "Http", "HttpStatus"}

\* What comes back from call c now; a running node may go wrong MaxFaults times.
Answers(c, reply) ==
    \/ /\ ~up
       /\ reply = [status |-> "other", body |-> "cut"]
       /\ UNCHANGED faults
    \/ /\ up /\ auth # starts
       /\ reply = [status |-> "denied", body |-> "foreign"]
       /\ UNCHANGED faults
    \/ /\ up /\ auth = starts
       /\ \/ reply = [status |-> "ok", body |-> "result"]
          \/ c = "entry" /\ reply = [status |-> "other", body |-> "not_found"]
       /\ UNCHANGED faults
    \/ /\ up
       /\ Classify(reply) # "Ok"
       /\ faults < MaxFaults
       /\ faults' = faults + 1

-----------------------------------------------------------------------------
\* Mutant: the old credential is given up before there is a new one.
Reconnect_ClearsFirst == auth' = IF buildable THEN file ELSE Unreadable

\* Rpc::reconnect reads the cookie, then builds a pool, and assigns both to the
\* client only if both succeeded; its callers only log that it failed.  The pool
\* holds nothing that a later call depends on.
Reconnect ==
    IF file = Unreadable \/ ~buildable THEN UNCHANGED auth ELSE auth' = file

\* Rpc::connect in main builds the pool, then reads the cookie; the process exits
\* on either error.
Connect ==
    /\ phase = "connect"
    /\ Reconnect
    /\ \/ buildable /\ file # Unreadable /\ phase' = "probe" /\ UNCHANGED error
       \/ ~buildable /\ phase' = "exited" /\ error' = "Build"
       \/ buildable /\ file = Unreadable /\ phase' = "exited" /\ error' = "Cookie"
    /\ UNCHANGED <<outside, faults, attempt, call, steady>>

\* One attempt of the startup probe, network().
ProbeOk ==
    /\ phase = "probe"
    /\ \E reply \in Reply : Answers("network", reply) /\ Result("network", reply) = "Ok"
    /\ phase' = "run"
    /\ error' = "none"
    /\ UNCHANGED <<outside, auth, attempt, call, steady>>

\* Mutant: one attempt too many.
MayRetry_OneMore(e) == IsReconnectable(e) /\ attempt <= MaxAttempts

MayRetry(e) == IsReconnectable(e) /\ attempt < MaxAttempts

\* Mutant: the attempts are not counted.
NextAttempt_Same == attempt' = attempt

NextAttempt == attempt' = attempt + 1

ProbeRetry ==
    /\ phase = "probe"
    /\ \E reply \in Reply :
          /\ Answers("network", reply)
          /\ error' = Result("network", reply)
    /\ MayRetry(error')
    /\ Reconnect
    /\ NextAttempt
    /\ UNCHANGED <<outside, phase, call, steady>>

ProbeGivesUp ==
    /\ phase = "probe"
    /\ \E reply \in Reply :
          /\ Answers("network", reply)
          /\ error' = Result("network", reply)
    /\ error' # "Ok"
    /\ ~MayRetry(error')
    /\ phase' = "exited"
    /\ UNCHANGED <<outside, auth, attempt, call, steady>>

-----------------------------------------------------------------------------
\* The calls of the sync loop: "wait" is that of wait_until_mempool_loaded, the
\* "bulk" ones those of bulk_resync.

\* Where the loop may go after an answer.  A tick fetches finitely many
\* entries; as `call` does not count them, WF makes it go on to the tip.
AfterOk(c) ==
    CASE c = "wait" -> {"wait", "bulk_verbose"}
      [] c = "bulk_verbose" -> {"bulk_info"}
      [] c = "bulk_info" -> {"bulk_tip"}
      [] c = "bulk_tip" -> {"info"}
      [] c = "info" -> {"txids"}
      [] c = "txids" -> {"info", "bulk_verbose", "entry", "tip"}
      [] c = "entry" -> {"entry", "tip"}
      [] c = "tip" -> {"info"}

\* Where it goes after an error: a tick is given up, the cold start tries the
\* same again, and errors of an entry or of the tip do not end the tick.
AfterError(c) ==
    CASE c = "wait" -> {"wait"}
      [] c \in {"bulk_verbose", "bulk_info", "bulk_tip"} ->
            {IF steady THEN "info" ELSE "bulk_verbose"}
      [] c \in {"info", "txids", "tip"} -> {"info"}
      [] c = "entry" -> {"entry", "tip"}

CallOk ==
    /\ phase = "run"
    /\ \E reply \in Reply : Answers(call, reply) /\ Result(call, reply) = "Ok"
    /\ call' \in AfterOk(call)
    /\ steady' = (steady \/ call = "bulk_tip")
    /\ error' = "none"
    /\ UNCHANGED <<outside, auth, phase, attempt>>

\* reconnect_on_error follows every failed call but those of fetch_new_entries
\* and the tip height of a steady tick.
Rebuilds(c, e) == c \notin {"entry", "tip"} /\ IsReconnectable(e)

CallFails ==
    /\ phase = "run"
    /\ \E reply \in Reply :
          /\ Answers(call, reply)
          /\ error' = Result(call, reply)
    /\ error' # "Ok"
    /\ IF Rebuilds(call, error') THEN Reconnect ELSE UNCHANGED auth
    /\ call' \in AfterError(call)
    /\ UNCHANGED <<outside, phase, attempt, steady>>

-----------------------------------------------------------------------------
\* The node.  A clean stop removes the cookie, a crash leaves it behind; at a
\* start the new one may appear, or become readable, later than the server.
NodeStops ==
    /\ up /\ up' = FALSE
    /\ file' \in {file, Unreadable}
    /\ UNCHANGED <<starts, buildable, faults, auth, phase, attempt, call, steady, error>>

NodeStarts ==
    /\ ~up /\ up' = TRUE
    /\ starts < MaxStarts
    /\ starts' = starts + 1
    /\ file' \in {file, Unreadable, starts'}
    /\ UNCHANGED <<buildable, faults, auth, phase, attempt, call, steady, error>>

NodeWritesCookie ==
    /\ up /\ file # starts
    /\ file' = starts
    /\ UNCHANGED <<up, starts, buildable, faults, auth, phase, attempt, call, steady, error>>

\* The file cannot be read for a while, of a node that runs or not (permissions, a
\* volume that is remounted); NodeWritesCookie also brings it back.
CookieUnreadable ==
    /\ file # Unreadable
    /\ file' = Unreadable
    /\ UNCHANGED <<up, starts, buildable, faults, auth, phase, attempt, call, steady, error>>

\* Whether a pool can be built changes at any time.
BuildFlips ==
    /\ buildable' = ~buildable
    /\ UNCHANGED <<up, starts, file, faults, auth, phase, attempt, call, steady, error>>

-----------------------------------------------------------------------------
Startup == Connect \/ ProbeOk \/ ProbeRetry \/ ProbeGivesUp

SyncCalls == CallOk \/ CallFails

Outside == NodeStops \/ NodeStarts \/ NodeWritesCookie \/ CookieUnreadable \/ BuildFlips

Next == Startup \/ SyncCalls \/ Outside

Spec == Init /\ [][Next]_vars

\* The process keeps making calls, and each one resolves.  Nothing else is owed.
FairSpec == Spec /\ WF_vars(Startup) /\ WF_vars(SyncCalls)

-----------------------------------------------------------------------------
\* Every variable keeps its type; the probe never counts past MaxAttempts.
TypeOK ==
    /\ up \in BOOLEAN /\ starts \in Credential /\ file \in Credential \cup {Unreadable}
    /\ faults \in 0..MaxFaults
    /\ auth \in Credential \cup {Unreadable}
    /\ buildable \in BOOLEAN
    /\ phase \in {"connect", "probe", "run", "exited"}
    /\ attempt \in 1..MaxAttempts
    /\ call \in Calls /\ steady \in BOOLEAN
    /\ error \in Errors \cup SetupErrors \cup {"none"}

\* Once the node accepts its credential, the client loses it to a restart of the
\* node only: gateway and transport errors make it rebuild itself at any moment,
\* also while the cookie cannot be read or no pool can be built, and what it reads
\* then is never older than what it has.
AcceptedStaysAccepted == [][auth = starts /\ starts' = starts => auth' = starts]_vars

\* The startup probe ends, in a running process or in an exit: it cannot hang.
ProbeEnds == <>(phase \in {"run", "exited"})

\* No wedge on 401: if the node stays up, its cookie stays readable and a
\* pool can be built, a running process comes to use that cookie, wherever in a tick
\* the node was restarted and although two of the calls never rebuild the client.
CookiePickedUp ==
    <>[](up /\ file = starts /\ buildable) => <>[](phase = "run" => auth = starts)

\* main.rs: a cookie that is not readable yet does not make the process exit; it
\* exits only after the last attempt or on an error that no new cookie can cure.
CookieRaceSurvived ==
    phase = "exited" =>
        \/ attempt = MaxAttempts
        \/ error \in (Errors \ {"Auth", "Http", "HttpStatus"}) \cup {"Build"}
=============================================================================
